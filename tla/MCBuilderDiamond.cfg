CONSTANTS
    Packages <- MCPackages
    Root <- MCRoot
    Requires <- DiamondRequires
    Conanfiles <- MCPackages
    Caches <- DiamondCaches
    MaxFaults = 2
    MaxRuns = 2

SPECIFICATION Spec

INVARIANTS
    RequirementsFirst
    FailureReported
    SuccessInstalls

CHECK_DEADLOCK FALSE
