CONSTANTS
    MAX_TRACK = 3
    XA_INTERVAL = 2
    PREGAP = 1
    Tocs <- MCTocs
SPECIFICATION Spec
INVARIANT LastTrackIsAudio
CHECK_DEADLOCK FALSE
