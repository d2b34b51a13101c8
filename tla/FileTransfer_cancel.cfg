SPECIFICATION FairSpec
CONSTANTS
    a = a
    b = b
    Guid = {a}
    FileSize <- ShortFile
    BlockSize = 2
    DwordMod = 16
    MaxSends = 1
    MaxOps = 2
    MaxSpurious = 0
    MayClose = FALSE
PROPERTIES
    CancelledEnds
CHECK_DEADLOCK FALSE
