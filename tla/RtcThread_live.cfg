SPECIFICATION FairSpec
CONSTANTS
    Thread = {"app", "signaling", "worker"}
    App = {"app"}
    Handler = {"hs", "hw"}
    Home <- MCHome
    MaxCalls = 2
    MaxPosts = 1
    MaxOps = 3
    MaxTime = 1
    ClockMod = 64
    MayStop = {}
    MayDie = {}
PROPERTIES CallsReturn PostsRun
CHECK_DEADLOCK FALSE
