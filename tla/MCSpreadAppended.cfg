SPECIFICATION SpreadSpec
CONSTANTS
    Procedures = {"bh07"}
    ForwardCases <- MCForwardCases
    BackwardCases <- MCBackwardCases
    Int3Cases <- MCInt3Cases
    BH07Cases <- MCBH07Inserts
    BulkCalls <- MCBulkCalls
    SegmentCapacity = 3
    Windows <- MCInPlaceWindows
    BatchSizes = {2, 4, 7, 15}
INVARIANT AppendedIsMaximum
