CONSTANTS
    ChunkSize = 2
    MaxPlans = 6
    NoChunk = NoChunk
SPECIFICATION LoopSpec
CHECK_DEADLOCK FALSE
INVARIANT IntentsAreCommitted
