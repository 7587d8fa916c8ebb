\* Two of the packages need each other, since a later commit of one of them.
CONSTANTS
    Recipes <- MCRecipes
    MaxCommit = 2
    DepsAt <- CycleDepsAt
    Roots <- MCRoots
    Requested = {}
    Pinned = {}
    RecursionLimit = 4
    Faults = {"network", "crash"}
    MaxFaults = 1

SPECIFICATION FairSpec

PROPERTY
    RunEnds
