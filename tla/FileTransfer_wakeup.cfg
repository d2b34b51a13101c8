SPECIFICATION FairSpec
CONSTANTS
    a = a
    b = b
    Guid = {a}
    FileSize <- ShortFile
    BlockSize = 2
    DwordMod = 16
    MaxSends = 1
    MaxOps = 0
    MaxSpurious = 0
    MayClose = FALSE
PROPERTIES
    AcceptedStarts
CHECK_DEADLOCK FALSE
