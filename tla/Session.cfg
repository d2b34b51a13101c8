SPECIFICATION FairSpec
CONSTANTS
    Candidate <- MCCandidate
    TurnKinds <- MCCandidate
    Offerer <- MCOfferer
    MayMiss = TRUE
    MaxOffers = 2
    MaxEnds = 2
    MaxDrops = 1
INVARIANTS TypeOK PositionComplete RecordedIsTold FirstGatheringReported ConnectedReported ChannelOfSession
PROPERTIES ReportedUsable Connects
CHECK_DEADLOCK FALSE
