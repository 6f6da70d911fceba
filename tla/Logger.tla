------------------------------- MODULE Logger -------------------------------
(***************************************************************************)
(* A log device of drivers/staging/android/logger.c: a ring of bytes that  *)
(* writers append to over the oldest entries, pulling forward the start    *)
(* head and every reader they lap.  Offsets are counted in units of the    *)
(* entry header, so an entry is one unit of header and some of payload.    *)
(* Everything done under log->mutex is one step; a reader's wait on        *)
(* log->wq and a writer's wake-up are steps of their own.                  *)
(***************************************************************************)
EXTENDS Integers

CONSTANTS Readers,    \* files open for reading
          Privileged, \* those of them with r_all
          Tasks,      \* tasks that read
          FileOf,     \* the file each task reads, shared after a fork
          Writers,    \* tasks that write
          Size,       \* log->size
          Lengths,    \* bound: lengths of entries, header included
          MaxWrites   \* bound: writes that succeed

(* create_log is always given 2 MiB, far more than two of the longest      *)
(* entries; then a lapped reader's skip never passes the write offset.     *)
ASSUME SizeAssumption ==
    /\ Size \in Nat /\ Lengths \subseteq Nat \ {0, 1} /\ Lengths # {}
    /\ \A n \in Lengths : 2 * n <= Size
ASSUME FilesAssumption == Privileged \subseteq Readers /\ FileOf \in [Tasks -> Readers]

VARIABLES buffer, \* the unit at each offset: a header, or Junk
          w_off,  \* log->w_off
          head,   \* log->head
          open,   \* log->readers
          r_off,  \* reader->r_off
          pc,     \* where each task and writer is
          queued, \* tasks on log->wq and not woken
          live,   \* history: the entries that are still whole, by number
          count,  \* history: entries written
          got     \* history: the entry each reader returned last
ring == <<buffer, w_off, head>>
history == <<live, count, got>>
vars == <<buffer, w_off, head, open, r_off, pc, queued, live, count, got>>

Offsets == 0 .. Size - 1
Entries == [len : Lengths, own : BOOLEAN, id : Nat]
Junk == [len |-> 1, own |-> FALSE, id |-> 0]   \* payload, or what a lap left

TypeOK == /\ buffer \in [Offsets -> Entries \cup {Junk}]
          /\ w_off \in Offsets /\ head \in Offsets
          /\ open \subseteq Readers /\ r_off \in [Readers -> Offsets]
          /\ pc \in [Tasks \cup Writers -> {"idle", "start", "schedule", "take", "wake"}]
          /\ queued \subseteq Tasks
          /\ count \in Nat /\ got \in [Readers -> Nat]

Init == /\ buffer = [o \in Offsets |-> Junk]
        /\ w_off = 0 /\ head = 0
        /\ open = {} /\ r_off = [r \in Readers |-> 0]
        /\ pc = [t \in Tasks \cup Writers |-> "idle"]
        /\ queued = {}
        /\ live = [i \in {} |-> 0] /\ count = 0 /\ got = [r \in Readers |-> 0]

logger_offset(n) == n % Size
Goto(t, place) == pc' = [pc EXCEPT ![t] = place]

(* get_next_entry: the first entry at least len units after off, by the    *)
(* number of units that are still to pass.                                 *)
After(len) ==
    LET after[n \in 0 .. len] ==
          [o \in Offsets |->
             IF n = 0 THEN o
             ELSE LET nr == buffer[o].len
                  IN after[IF nr < n THEN n - nr ELSE 0][logger_offset(o + nr)]]
    IN  after
get_next_entry(off, len) == After(len)[len][off]

(* get_next_entry_by_uid: the first entry from off on that a reader        *)
(* without r_all may see, or the write offset; at most n are passed by.    *)
Visibles ==
    LET visible[n \in 0 .. Size] ==
          [o \in Offsets |->
             IF n = 0 \/ o = w_off \/ buffer[o].own THEN o
             ELSE visible[n - 1][logger_offset(o + buffer[o].len)]]
    IN  visible
get_next_entry_by_uid(off) == Visibles[Size][off]

(* is_between, with its half-open ends: a < c <= b around the ring.        *)
is_between(a, b, c) == IF a < b THEN a < c /\ c <= b ELSE c <= b \/ a < c

(* A fix-up that forgets the start head.                                   *)
FixUpReadersOnly(len) ==
    LET new == logger_offset(w_off + len)
        Pulled(off) == IF is_between(w_off, new, off) THEN get_next_entry(off, len) ELSE off
    IN  /\ head' = head
        /\ r_off' = [r \in Readers |-> IF r \in open THEN Pulled(r_off[r]) ELSE r_off[r]]

(* fix_up_readers: the start head and the readers that a write of len      *)
(* units at w_off would run over or catch up with.                         *)
fix_up_readers(len) ==
    LET new == logger_offset(w_off + len)
        Pulled(off) == IF is_between(w_off, new, off) THEN get_next_entry(off, len) ELSE off
    IN  /\ head' = Pulled(head)
        /\ r_off' = [r \in Readers |-> IF r \in open THEN Pulled(r_off[r]) ELSE r_off[r]]

(* The units [w_off, w_off + len) hold the header and its payload.         *)
Overwrite(entry, len) ==
    buffer' = [o \in Offsets |->
                 IF o = w_off THEN entry
                 ELSE IF logger_offset(o - w_off) < len THEN Junk ELSE buffer[o]]

Survivors(len) ==
    {i \in DOMAIN live : ~is_between(w_off, logger_offset(w_off + len), live[i].off)}

(* A release that wakes nobody, for the entry just written.                *)
WriteUnsignalled(w) ==
    /\ pc[w] = "idle" /\ count < MaxWrites
    /\ \E len \in Lengths, own \in BOOLEAN :
          LET entry == [len |-> len, own |-> own, id |-> count + 1]
          IN  /\ fix_up_readers(len)
              /\ Overwrite(entry, len)
              /\ w_off' = logger_offset(w_off + len)
              /\ live' = [i \in Survivors(len) \cup {count + 1} |->
                             IF i = count + 1 THEN [off |-> w_off, len |-> len, own |-> own]
                                              ELSE live[i]]
    /\ count' = count + 1
    /\ UNCHANGED <<open, pc, queued, got>>

(* logger_aio_write: the entry is complete, or a fault in the user's       *)
(* buffer leaves part of it behind w_off, which then stays where it was.   *)
Write(w) ==
    /\ pc[w] = "idle" /\ count < MaxWrites
    /\ \E len \in Lengths, own \in BOOLEAN :
          LET entry == [len |-> len, own |-> own, id |-> count + 1]
          IN  /\ fix_up_readers(len)
              /\ Overwrite(entry, len)
              /\ w_off' = logger_offset(w_off + len)
              /\ live' = [i \in Survivors(len) \cup {count + 1} |->
                             IF i = count + 1 THEN [off |-> w_off, len |-> len, own |-> own]
                                              ELSE live[i]]
    /\ count' = count + 1
    /\ Goto(w, "wake")
    /\ UNCHANGED <<open, queued, got>>

FailedWrite(w) ==
    /\ pc[w] = "idle"
    /\ \E len \in Lengths : \E copied \in 1 .. len :
          /\ fix_up_readers(len)
          /\ Overwrite([len |-> len, own |-> TRUE, id |-> 0], copied)
          /\ live' = [i \in Survivors(len) |-> live[i]]
    /\ UNCHANGED <<w_off, open, pc, queued, count, got>>

(* wake_up_interruptible, after the mutex is released.                     *)
Wake(w) == /\ pc[w] = "wake"
           /\ Goto(w, "idle")
           /\ queued' = {}
           /\ UNCHANGED <<ring, open, r_off, history>>

----------------------------------------------------------------------------
Open(r) == /\ r \notin open
           /\ open' = open \cup {r}
           /\ r_off' = [r_off EXCEPT ![r] = head]
           /\ got' = [got EXCEPT ![r] = 0]
           /\ UNCHANGED <<ring, pc, queued, live, count>>

(* logger_release runs when no call on the file is under way.              *)
Release(r) == /\ r \in open
              /\ \A t \in Tasks : FileOf[t] = r => pc[t] = "idle"
              /\ open' = open \ {r}
              /\ UNCHANGED <<ring, r_off, pc, queued, history>>

(* What read, poll and LOGGER_GET_NEXT_ENTRY_LEN do before they look.      *)
Visible(r) == IF r \in Privileged THEN r_off[r] ELSE get_next_entry_by_uid(r_off[r])

(* logger_poll and LOGGER_GET_NEXT_ENTRY_LEN.                              *)
Peek(r) == /\ r \in open
           /\ r_off' = [r_off EXCEPT ![r] = Visible(r)]
           /\ UNCHANGED <<ring, open, pc, queued, history>>

(* LOGGER_FLUSH_LOG: entries stay in the ring, out of every reader's reach *)
Flush == /\ r_off' = [r \in Readers |-> IF r \in open THEN w_off ELSE r_off[r]]
         /\ head' = w_off
         /\ UNCHANGED <<buffer, w_off, open, pc, queued, history>>

(* LOGGER_GET_LOG_LEN.                                                     *)
LogLen(r) == IF w_off >= r_off[r] THEN w_off - r_off[r] ELSE (Size - r_off[r]) + w_off

----------------------------------------------------------------------------
(* logger_read: `start` is its loop, up to the unlock.                     *)
StartRead(t) == /\ pc[t] = "idle" /\ FileOf[t] \in open
                /\ Goto(t, "start")
                /\ UNCHANGED <<ring, open, r_off, queued, history>>

(* prepare_to_wait and the test; with nothing to read, O_NONBLOCK or a     *)
(* pending signal ends the call.                                           *)
Check(t) ==
    /\ pc[t] = "start"
    /\ \/ /\ w_off # r_off[FileOf[t]]
          /\ Goto(t, "take")
          /\ queued' = queued \ {t}
       \/ /\ w_off = r_off[FileOf[t]]
          /\ \/ Goto(t, "idle") /\ queued' = queued \ {t}
             \/ Goto(t, "schedule") /\ queued' = queued \cup {t}
    /\ UNCHANGED <<ring, open, r_off, history>>

(* schedule() returns: woken, or by a signal and then still on the queue.  *)
Schedule(t) == /\ pc[t] = "schedule"
               /\ t \notin queued
               /\ Goto(t, "start")
               /\ UNCHANGED <<ring, open, r_off, queued, history>>

Signal(t) == /\ pc[t] = "schedule"
             /\ t \in queued
             /\ Goto(t, "start")
             /\ UNCHANGED <<ring, open, r_off, queued, history>>

(* A read that trusts the test made before the mutex was dropped.          *)
TakeUnchecked(t) ==
    LET r   == FileOf[t]
        off == Visible(r)
    IN  /\ pc[t] = "take"
        /\ Goto(t, "idle")
        /\ r_off' = [r_off EXCEPT ![r] = logger_offset(off + buffer[off].len)]
        /\ got' = [got EXCEPT ![r] = buffer[off].id]
        /\ UNCHANGED <<ring, open, queued, live, count>>

(* The rest of logger_read, under the mutex again: lost the race, EINVAL   *)
(* or EFAULT with the entry kept, or one entry.                            *)
Take(t) ==
    LET r   == FileOf[t]
        off == Visible(r)
    IN  /\ pc[t] = "take"
        /\ \/ /\ off = w_off
              /\ Goto(t, "start")
              /\ r_off' = [r_off EXCEPT ![r] = off] /\ UNCHANGED got
           \/ /\ off # w_off
              /\ Goto(t, "idle")
              /\ \/ r_off' = [r_off EXCEPT ![r] = off] /\ UNCHANGED got
                 \/ /\ r_off' = [r_off EXCEPT ![r] = logger_offset(off + buffer[off].len)]
                    /\ got' = [got EXCEPT ![r] = buffer[off].id]
        /\ UNCHANGED <<ring, open, queued, live, count>>

Next == \/ \E w \in Writers : Write(w) \/ FailedWrite(w) \/ Wake(w)
        \/ \E r \in Readers : Open(r) \/ Release(r) \/ Peek(r)
        \/ Flush
        \/ \E t \in Tasks : StartRead(t) \/ Check(t) \/ Schedule(t) \/ Signal(t) \/ Take(t)

Spec == Init /\ [][Next]_vars

(* A task inside a call is run again; nobody has to start one, and no      *)
(* signal has to come.                                                     *)
FairSpec == /\ Spec
            /\ \A w \in Writers : WF_vars(Wake(w))
            /\ \A t \in Tasks : WF_vars(Check(t) \/ Take(t)) /\ WF_vars(Schedule(t))

----------------------------------------------------------------------------
Starts == {live[i].off : i \in DOMAIN live}

(* The ring is a chain: the whole entries lie end to end up to w_off with  *)
(* their headers in place, and leave a gap so that full is not empty.      *)
RingIsChained ==
    /\ \A i \in DOMAIN live :
          /\ buffer[live[i].off] = [len |-> live[i].len, own |-> live[i].own, id |-> i]
          /\ i < count => i + 1 \in DOMAIN live
          /\ logger_offset(live[i].off + live[i].len)
               = IF i = count THEN w_off ELSE live[i + 1].off
    /\ w_off \notin Starts

(* fix_up_readers leaves the start head and every reader at the start of a *)
(* whole entry or at the write offset, after failed writes too.            *)
OffsetsAligned == \A off \in {head} \cup {r_off[r] : r \in open} : off \in Starts \cup {w_off}

(* The units of the whole entries up to n that a reader at off has to read *)
Before(off, i) == \A j \in DOMAIN live : live[j].off = off => j > i
Units(off) ==
    LET units[n \in 0 .. count] ==
          IF n = 0 THEN 0
          ELSE units[n - 1] + IF off = w_off \/ n \notin DOMAIN live \/ Before(off, n) THEN 0
                              ELSE live[n].len
    IN  units

(* LOGGER_GET_LOG_LEN is the length of the whole entries still to read.    *)
LogLenIsUnread == \A r \in open : LogLen(r) = Units(r_off[r])[count]

(* Blocked readers: a task in schedule() whose file has something to read  *)
(* is woken, whatever happened between its test and its sleep.             *)
BlockedReaderWakes ==
    \A t \in Tasks : (pc[t] = "schedule" /\ w_off # r_off[FileOf[t]])
                        ~> (pc[t] # "schedule" \/ w_off = r_off[FileOf[t]])

(* The sequence numbers behind the offsets.                                *)
First == IF DOMAIN live = {} THEN count + 1
         ELSE CHOOSE i \in DOMAIN live : \A j \in DOMAIN live : i <= j
Position(off) == IF off = w_off THEN count + 1
                 ELSE IF off \notin Starts THEN 0
                 ELSE CHOOSE i \in DOMAIN live : live[i].off = off
Abstract == INSTANCE AbstractLog WITH
                first <- First,
                pos <- [r \in Readers |-> IF r \in open THEN Position(r_off[r]) ELSE 1]

(* Every reader gets entries in order, none twice, none partly overwritten *)
(* and none older than where it stands; and a write moves only readers     *)
(* whose next entry it runs over ("any who were lapped by the writer").    *)
ImplementsLog == Abstract!Spec

(* What the offsets of the log and of its readers stand for.               *)
RingIsSound == RingIsChained /\ OffsetsAligned /\ LogLenIsUnread
=============================================================================
