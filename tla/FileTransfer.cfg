SPECIFICATION FairSpec
CONSTANTS
    a = a
    b = b
    Guid = {a}
    FileSize <- ShortFile
    BlockSize = 2
    DwordMod = 16
    MaxSends = 1
    MaxOps = 2
    MaxSpurious = 1
    MayClose = TRUE
INVARIANTS
    TypeOK
    NoDataBeforeAccept
    PrefixOnDisk
    SuccessAgreement
    OneVerdict
    RunOnLiveObject
    ProgressTruthful
PROPERTIES
    ProgressMonotone
    ImplementsDelivery
    VerdictReported
    SendingEnds
CHECK_DEADLOCK FALSE
