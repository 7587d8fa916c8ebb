\* Two failures of any kind, with a package that is never rebuilt.
CONSTANTS
    Recipes <- PinnedRecipes
    MaxCommit = 2
    DepsAt <- PinnedDepsAt
    Roots <- MCRoots
    Requested = {}
    Pinned <- MCPinned
    RecursionLimit = 4
    Faults = {"network", "inspect", "search", "remove", "build", "upload", "crash"}
    MaxFaults = 2

SPECIFICATION Spec

INVARIANT
    RemoteNotNewer

PROPERTY
    PublishesOnlyBuilt
    ImplementsPublisher
