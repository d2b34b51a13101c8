SPECIFICATION FairSpec
CONSTANTS
    Thread = {"app", "signaling", "worker"}
    App = {"app"}
    Handler = {"hs", "hw"}
    Home <- MCHome
    MaxCalls = 1
    MaxPosts = 1
    MaxOps = 3
    MaxTime = 1
    ClockMod = 64
    MayStop = {"worker"}
    MayDie = {}
PROPERTIES SendReturns
CHECK_DEADLOCK FALSE
