SPECIFICATION FairSpec
CONSTANTS
    Clients = {alice, bob}
    Commands <- MCCommands
    MaxLines = 2
    Nobody = Nobody
CHECK_DEADLOCK FALSE
INVARIANTS
    OneEventPerClient
    EventsAreFlagged
    NoOrphanedChange
PROPERTIES
    DrainedAfterHangUp
