CONSTANTS
    MAX_TRACK = 3
    XA_INTERVAL = 2
    PREGAP = 1
    Media <- MCMedia
    ReadyToc <- MCReadyToc
    EarlyToc <- MCEarlyToc
    McnMedia <- MCMcnMedia
    IsrcTracks <- MCIsrcTracks
    StackTocs <- MCStackTocs
    Builds <- AllBuilds
SPECIFICATION Spec
INVARIANTS
    TypeOK
    DeviceIsClosed
    OutcomeIsConsistent
    SteadyDiscIsRead
    GoodDiscIsRead
    SparseReadsWhatIsAsked
    ReportedDiscIsSane
PROPERTIES
    ImplementsReadCall
    CallReturns
