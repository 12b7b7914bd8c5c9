CONSTANTS
    MAX_TRACK = 3
    XA_INTERVAL = 2
    PREGAP = 1
    Tocs <- MCTocs
SPECIFICATION Spec
INVARIANTS
    TypeOK
    LoadsClosedForm
    RefusalLeavesBlank
    LeadOutCoversLastTrack
    HiddenSlotsAreZero
    OrderlyDiscIsKept
PROPERTIES
    SurvivorsAreUntouched
    Terminates
\* the function returns
CHECK_DEADLOCK FALSE
