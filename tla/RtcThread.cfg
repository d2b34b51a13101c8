SPECIFICATION Spec
CONSTANTS
    Thread = {"app", "signaling", "worker"}
    App = {"app"}
    Handler = {"hs", "hw"}
    Home <- MCHome
    MaxCalls = 3
    MaxPosts = 2
    MaxOps = 3
    MaxTime = 1
    ClockMod = 64
    MayStop = {"worker"}
    MayDie = {"hw"}
INVARIANTS TypeOK NoLostWakeup Rendezvous
PROPERTIES DestroyedNotRun
CHECK_DEADLOCK FALSE
