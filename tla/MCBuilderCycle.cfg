CONSTANTS
    Packages <- MCPackages
    Root <- MCRoot
    Requires <- CycleRequires
    Conanfiles <- CycleConanfiles
    Caches <- CycleCaches
    MaxFaults = 3
    MaxRuns = 2

SPECIFICATION FairSpec

INVARIANTS
    FailureReported
    ProcessedOnce

PROPERTY
    RunEnds

CHECK_DEADLOCK FALSE
