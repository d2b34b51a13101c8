SPECIFICATION FairSpec
CONSTANTS
    a = a
    b = b
    Guid = {a, b}
    FileSize <- EdgeFiles
    BlockSize = 2
    DwordMod = 16
    MaxSends = 1
    MaxOps = 0
    MaxSpurious = 1
    MayClose = FALSE
PROPERTIES
    AcceptedSucceeds
CHECK_DEADLOCK FALSE
