SPECIFICATION FairSpec
CONSTANTS
    Clients = {alice, bob}
    Commands <- MCCommands
    MaxLines = 1
    Nobody = Nobody
    Keys <- MCKeys
    Colors <- MCColors
    Off = 0
    msg_ff <- MCMsgFF
    NChunks = 2
    ChunkOf <- MCChunkOf
CHECK_DEADLOCK FALSE
INVARIANTS
    ShownWhenAllGone
PROPERTIES
    ServerSpec
    DrainedAfterHangUp
    ShownAfterHangUp
