\* Three packages, one of them needed twice; every failure but that of conan remove.
CONSTANTS
    Recipes <- MCRecipes
    MaxCommit = 2
    DepsAt <- MCDepsAt
    Roots <- MCRoots
    Requested <- MCRequested
    Pinned = {}
    RecursionLimit = 4
    Faults = {"network", "inspect", "build", "upload", "crash"}
    MaxFaults = 1

SPECIFICATION Spec

INVARIANTS
    TypeOK
    RecordedNotNewer
    DepsSettled
    DepsFresh
    NestingBounded

PROPERTY
    NoRedundantRebuild
