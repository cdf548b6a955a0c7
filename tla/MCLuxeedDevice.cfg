SPECIFICATION FairSpec
CONSTANTS
    Keys <- MCKeys
    Colors <- MCColors
    Off = 0
    msg_ff <- MCMsgFF
    NChunks = 3
    ChunkOf <- MCChunkOf
CHECK_DEADLOCK FALSE
INVARIANTS
    SettledWhenIdle
    InStep
    CleanMeansShown
PROPERTIES
    NoTearing
    DisplaySpec
    SentOrWedged
    ShownWhenHealthy
