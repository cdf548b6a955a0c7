SPECIFICATION FairSpec
CONSTANTS
    Keys <- MCKeys
    Colors <- MCTwoColors
    Off = 0
    msg_ff <- MCMsgFF
    NChunks = 2
    ChunkOf <- MCChunkOf
CHECK_DEADLOCK FALSE
PROPERTIES
    TryAgainNextTime
