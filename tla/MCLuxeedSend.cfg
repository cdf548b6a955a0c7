SPECIFICATION FairSpec
CONSTANTS
    BlockSize = 3
    Blocks = 6
CHECK_DEADLOCK FALSE
INVARIANTS
    PrefixOnWire
    DoneMeansSent
    ReadsInside
PROPERTIES
    SendsAsDriver
    Ends
