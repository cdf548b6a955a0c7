SPECIFICATION FairSpec
CONSTANTS
    Clients = {alice}
    Commands <- MCWaitCommands
    MaxLines = 2
    Nobody = Nobody
CHECK_DEADLOCK FALSE
PROPERTIES
    EveryLineRuns
