SPECIFICATION Spec
CONSTANTS
    Threads = {t1, t2}
    Readers = {t1}
    LAST_DRIVE = 1
    Platforms = {"linux", "bsd", "darwin", "haiku", "solaris", "windows", "generic"}
INVARIANTS
    TypeOK
    BothPassesReadOneDrive
PROPERTIES
    KeptNameIsStable
    DefaultIsPresent
