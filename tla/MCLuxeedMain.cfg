SPECIFICATION FairSpec
CONSTANTS
    Arguments <- MCArguments
    MaxArgs = 3
    LogLevels <- MCLogLevels
    Hosts <- MCHosts
    MaxClients = 2
    Unset = Unset
CHECK_DEADLOCK FALSE
INVARIANTS
    ContextOutlivesDevice
    ReleasedAtExit
    FailureIsReported
    ListensWhereAsked
PROPERTIES
    EveryoneAccepted
