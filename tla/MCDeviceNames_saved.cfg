SPECIFICATION Spec
CONSTANTS
    Threads = {t1}
    Readers = {t1}
    LAST_DRIVE = 1
    Platforms = {"darwin"}
PROPERTY
    SavedDefaultIsOneDrive
