SPECIFICATION FairSpec
CONSTANTS
    r1 = r1  r2 = r2  t1 = t1  t2 = t2
    Readers = {r1, r2}
    Privileged = {r1}
    Tasks = {t1, t2}
    FileOf <- SharedFile
    Writers = {w1}
    Size = 6
    Lengths = {2, 3}
    MaxWrites = 3
CHECK_DEADLOCK FALSE
INVARIANTS RingIsSound
PROPERTIES ImplementsLog BlockedReaderWakes
