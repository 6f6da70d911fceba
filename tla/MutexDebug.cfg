SPECIFICATION FairSpec
CONSTANTS
    Threads = {t1, t2}
    Mutexes = {m1, m2, m3}
    Inner = inner
    Records = {r1, r2}
    Slots = 2
    Foreign = {}
    Dumpers = {t1}
    CanUninit = TRUE
    None = none
CHECK_DEADLOCK FALSE
INVARIANTS TrackingIsTrue
 
