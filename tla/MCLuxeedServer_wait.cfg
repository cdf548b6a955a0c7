SPECIFICATION Spec
CONSTANTS
    Clients = {alice, bob}
    Commands <- MCNegativeWait
    MaxLines = 2
    Nobody = Nobody
CHECK_DEADLOCK FALSE
INVARIANTS
    SleepingAfterWait
