SPECIFICATION PartsSpec
CONSTANTS
    PagesPerExtent = 1
    NumExtents = 2
    MaxMemory = 4
    MinBuffers = 1
    Data = {zero}
    Zero = zero
    SegmentCapacity = 2
    Storages <- MCStorages
    Bounds = {1, 2, 4, 5, 7}
INVARIANTS BuffersPartitioned IndexSound ScanCorrect
PROPERTIES OnlySwapMovesUserData ScanEnds
