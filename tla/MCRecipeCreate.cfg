\* The sequence of the libraries, and their creation in it, over what earlier runs left.
CONSTANTS
    Libs <- MCLibs
    Graphs <- MCGraphs
    Requests <- MCRequests
    Options <- MCOptions
    Stores <- MCStores
    MaxFailed = 1

SPECIFICATION FairRecipeSpec

INVARIANTS
    DependencyFirst
    NoRequestLost
    ExactlyTheNeeded
    CreatedOnCreated
    PublishesWhole
    CreatesAll

PROPERTIES
    OnlySequenced
    Ends

CHECK_DEADLOCK FALSE
