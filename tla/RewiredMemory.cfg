SPECIFICATION Spec
CONSTANTS
    PagesPerExtent = 2
    NumExtents = 2
    MaxMemory = 7
    Data = {zero, a, b}
    Zero = zero
INVARIANT MemorySound
PROPERTIES TornOnlyByHalfSwap ImplementsArray
