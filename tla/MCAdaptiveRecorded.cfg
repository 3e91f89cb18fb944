SPECIFICATION AdaptiveSpec
CONSTANTS
    Arrays = {"int2"}
    SegmentCapacity = 4
    TreeHeight = 3
    Rho0 = 8
    RhoH = 30
    ThetaH = 75
    Theta0 = 100
    Cases <- MCCases
INVARIANT InsertionIsRecorded
CHECK_DEADLOCK FALSE
