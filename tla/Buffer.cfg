SPECIFICATION BufferSpec
CONSTANTS
    kPrePendIndex = 2
    kInitSize = 5
    Char <- MCChar
    Zero = 0
    MaxChunk = 3
    Chunks <- MCChunks
    MaxReadable = 4
INVARIANTS IndexInvariant MemoryBound
PROPERTY ImplementsQueue
