SPECIFICATION FairSpec
CONSTANTS
    Threads = {t1, t2}
    Main = t1
    Nobody = nobody
    BIONIC_TLS_SLOTS = 4
    TLS_SLOT_FIRST_USER_SLOT = 1
    PTHREAD_DESTRUCTOR_ITERATIONS = 2
    MaxCreates = 3
CHECK_DEADLOCK FALSE
INVARIANTS UnallocatedReadsNull ValuesAreOfTheirKey CleanUnlessExhausted
PROPERTIES DestructorGetsItsValue ExitCompletes
