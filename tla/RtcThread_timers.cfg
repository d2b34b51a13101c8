SPECIFICATION Spec
CONSTANTS
    Thread = {"app", "user", "worker"}
    App = {"app", "user"}
    Handler = {"hw"}
    Home <- MCHome
    MaxCalls = 1
    MaxPosts = 3
    MaxOps = 3
    MaxTime = 2
    ClockMod = 64
    MayStop = {"worker"}
    MayDie = {}
INVARIANTS TimerOrder
CHECK_DEADLOCK FALSE
