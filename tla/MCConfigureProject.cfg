\* Configuring and rebuilding, again and again, over what failed processes left.
CONSTANTS
    BuildTypes <- MCBuildTypes
    Places = 1
    MaxEdition = 2
    MaxFaults = 1

SPECIFICATION FairSpec

INVARIANTS
    TypeOK
    DepsOfOneInstall
    OutputIsDist
    RebuiltFresh

PROPERTIES
    RebuildRepairs
