CONSTANTS
    Packages <- MCPackages
    Root <- MCRoot
    Requires <- DiamondRequires
    Conanfiles <- MCPackages
    Caches <- NoCache
    MaxFaults = 1
    MaxRuns = 1

SPECIFICATION Spec

INVARIANT
    TrueMeansInstalled

CHECK_DEADLOCK FALSE
