\* The CI job, with and without -b, run again and again.
CONSTANTS
    Recipes <- MCRecipes
    MaxCommit = 2
    DepsAt <- MCDepsAt
    SearchAt <- MCSearchAt
    Roots <- MCRoots
    Requested = {}
    Pinned = {}
    RecursionLimit = 4
    Faults = {"network", "inspect", "build", "upload", "crash"}
    MaxFaults = 1

SPECIFICATION FairJobSpec

INVARIANTS
    JobTypeOK
    RecordedNotNewer
    ConfiguredWhole
    ConfiguredFresh

PROPERTIES
    RootsCatchUp
    ProjectCatchesUp
    ImplementsPublisher
    NoRedundantRebuild
