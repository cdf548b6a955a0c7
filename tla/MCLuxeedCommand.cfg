SPECIFICATION Spec
CONSTANTS
    Queries <- MCQueries
    None = None
    Clients = {alice, bob}
    Lines <- MCLines
    MaxLines = 2
    Nobody = Nobody
CHECK_DEADLOCK FALSE
INVARIANTS
    TypeOK
    ArraysEnd
    Unambiguous
    DumpFindsKey
    KeysAreSet
    BadKeyIsNamed
    QuietIsSafe
PROPERTIES
    StaysInPlace
    ChangeIsMarked
