SPECIFICATION AdaptiveSpec
CONSTANTS
    Arrays = {"int2_windows", "int2", "int1", "int3", "int3_windows", "bh07"}
    SegmentCapacity = 4
    TreeHeight = 3
    Rho0 = 8
    RhoH = 30
    ThetaH = 75
    Theta0 = 100
    Cases <- MCCases
INVARIANTS
    WindowShared IntervalsSound DetectorSound RebalancingSound
    Int3InsertionIsRecorded Int3PartitionsFit BH07PartitionsFit
PROPERTIES Int1ImplementsMap Int3ImplementsMap BH07ImplementsMap
CHECK_DEADLOCK FALSE
