SPECIFICATION WakeupSpec
CONSTANTS
    Sources = {s1, s2}
    Devices = {d1}
    NoSource = none
    Readers = {p1}
    Savers = {p1}
    InProgressBits = 2
    JiffyMod = 8
    Delays = {0, 1}
    MaxLag = 1
    MaxMissed = 4
CHECK_DEADLOCK FALSE
INVARIANTS ActiveIsAccounted FreedIsQuiet
PROPERTIES DeadlinesPass NoEventGoesUnnoticed BlockedReaderWakes
