CONSTANTS
    Libs <- MCLibs
    Graphs <- MCGraphs

SPECIFICATION FairSpec

INVARIANTS
    CollectsClosure
    CycleNeverReturns

PROPERTY
    Returns

CHECK_DEADLOCK FALSE
