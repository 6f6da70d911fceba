SPECIFICATION FairSpec
CONSTANTS
    Threads = {t1, t2, t3}
    Timed = {t1}
    Destroyers = {}
    Recursive = FALSE
    MaxCounter = 1
    MaxCalls = 2
    Nobody = nobody
    Poison = poison
CHECK_DEADLOCK FALSE
PROPERTIES WaitersAreUnlocked
