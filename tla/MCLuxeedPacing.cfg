SPECIFICATION Spec
CONSTANTS
    min_frame_interval = 2
    chunk_delay = 1
    slp = 2
    Second = 80
    NapLimit = 6
    NChunks = 2
    ClockSteps <- MCClockSteps
    MaxSteps = 2
    MaxUpdates = 3
    MaxTime = 9
INVARIANTS
    MessagesApart
    PauseBounded
    RetriesApart
