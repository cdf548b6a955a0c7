SPECIFICATION Spec
CONSTANTS
    Arguments <- MCAllArguments
    MaxArgs = 2
    LogLevels <- MCLogLevels
    Hosts <- MCHosts
    MaxClients = 1
    Unset = Unset
CHECK_DEADLOCK FALSE
INVARIANTS
    SurvivesFailedAccept
