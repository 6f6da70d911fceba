SPECIFICATION LocksSpec
CONSTANTS
    Threads = {n1, n2, n3}
    Destroyers = {n3}
    MaxCalls = 2
    Owners = {t1, t2}
    Timed = {t1, t2}
    Killers = {t2}
    Recursive = TRUE
    MaxCounter = 1
    MaxOwned = 3
    Nobody = nobody
    Poison = poison
CHECK_DEADLOCK FALSE
INVARIANTS SleeperIsRemembered DestroyIsFinal
PROPERTIES ImplementsLock EveryCallReturns OwnedImplementsLock TimedCallsReturn
