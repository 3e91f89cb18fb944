SPECIFICATION SpreadSpec
CONSTANTS
    Procedures = {"int2_forwards", "int2_backwards", "int3", "bh07", "bulk", "in_place"}
    ForwardCases <- MCForwardCases
    BackwardCases <- MCBackwardCases
    Int3Cases <- MCInt3Cases
    BH07Cases <- MCBH07Cases
    BulkCalls <- MCBulkCalls
    SegmentCapacity = 3
    Windows <- MCInPlaceWindows
    BatchSizes = {2, 4, 7, 15}
INVARIANTS
    Int2SpreadCorrect PredecessorIsPrevious Int3SpreadCorrect BH07SpreadCorrect
    BulkSpreadCorrect InPlaceSafe
PROPERTY Terminates
