CONSTANTS
    MAX_TRACK = 3
    XA_INTERVAL = 2
    PREGAP = 1
    MAX_DISC_LENGTH = 10
    SECOND = 2
    Tocs <- FewTocs
    PutArguments <- FewPutArguments
    Codes <- MCCodes
    Settings <- ScarceSettings
SPECIFICATION Spec
INVARIANT
    StringsSucceed
CHECK_DEADLOCK FALSE
