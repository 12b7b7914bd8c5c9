CONSTANTS
    MAX_TRACK = 3
    XA_INTERVAL = 2
    PREGAP = 1
    Media <- FewMedia
    ReadyToc <- MCReadyToc
    EarlyToc <- MCEarlyToc
    McnMedia <- MCMcnMedia
    IsrcTracks <- MCIsrcTracks
    StackTocs <- MCStackTocs
    Builds <- Solaris
SPECIFICATION Spec
INVARIANTS
    AnnouncedReadWorks
