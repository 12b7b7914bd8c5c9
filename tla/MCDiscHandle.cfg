CONSTANTS
    MAX_TRACK = 3
    XA_INTERVAL = 2
    PREGAP = 1
    MAX_DISC_LENGTH = 10
    SECOND = 2
    Tocs <- MCTocs
    PutArguments <- MCPutArguments
    Codes <- MCCodes
    Settings <- MCSettings
SPECIFICATION Spec
INVARIANTS
    TypeOK
    TextsAreCurrent
    FailureLeavesNothing
    PutDiscIsPlayable
    TailIsZero
    OrdinaryReadRoundTrips
PROPERTIES
    TextsAreStable
    ImplementsApi
CHECK_DEADLOCK FALSE
