SPECIFICATION Spec
CONSTANTS
    MAX_TRACK = 99
    XA_INTERVAL = 11400
    PREGAP = 150
    MAX_DISC_LENGTH = 405000
    SECOND = 75
    BLOCK = 64
    CELL = 8
    CELLS = 4
    PROTOCOL = 5
    MB_TOC_STRING_LENGTH = 706
    MB_DISC_ID_LENGTH = 32
    FREEDB_DISC_ID_LENGTH = 8
    MB_URL_PREFIX_LENGTH = 300
    Discs <- MCDiscs
    Digests <- MCDigests
    Messages <- MCMessages
    Sources <- MCSources
INVARIANTS
    TypeOK
    DigestIsOfPaddedMessage
    EncodedFits
    EncodedDecodes
    TextsFit
    TextsAreThoseOfTheDisc
    FreedbFieldsAreSeparate
PROPERTIES
    EveryTextIsMade
