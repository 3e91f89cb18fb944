SPECIFICATION SafetySpec
CONSTANTS
    SegmentCapacity = 4
    Rho0 = 8
    RhoH = 30
    ThetaH = 75
    Theta0 = 100
    Elements <- MCMinusOne
    MinKey = 0
    MaxKey = 9
    MaxElements = 8
    MaxHeight = 3
INVARIANTS RemoveVisitsNonEmpty
