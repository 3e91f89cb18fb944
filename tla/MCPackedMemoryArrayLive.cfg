SPECIFICATION Spec
CONSTANTS
    SegmentCapacity = 4
    Rho0 = 8
    RhoH = 30
    ThetaH = 75
    Theta0 = 100
    Elements <- MCTwoElements
    MinKey = 0
    MaxKey = 9
    MaxElements = 7
    MaxHeight = 3
PROPERTIES CallsReturn
