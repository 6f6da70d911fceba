SPECIFICATION FairSpec
CONSTANTS
    Threads = {t1, t2}
    Mutexes = {m1}
    Inner = inner
    Records = {r1, r2}
    Slots = 2
    Foreign = {t2}
    Dumpers = {}
    CanUninit = FALSE
    None = none
CHECK_DEADLOCK FALSE
PROPERTIES HookReturns
