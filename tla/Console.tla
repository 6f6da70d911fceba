------------------------------ MODULE Console -------------------------------
(***************************************************************************)
(* printk.c from vprintk_emit to the consoles: the buffer of a line under  *)
(* construction, the records that wait for the console, and console_sem,   *)
(* which a printk only tries to take and whose holder prints for everybody.*)
(* One action is one critical section of logbuf_lock or one call of the    *)
(* console drivers.  The ring is LogBuf's; here it holds LogRecords        *)
(* records, and a record is what the console has to print of it.  Each     *)
(* printer is a task on a cpu of its own; its fragments are numbered.      *)
(***************************************************************************)
EXTENDS Naturals, Sequences, FiniteSets

CONSTANTS Printers,    \* tasks that call printk, each on a cpu
          Late,        \* those whose cpu is not online yet
          LogRecords,  \* records that the ring holds
          MaxFragments \* bound: calls of printk

ASSUME ConsoleAssumption == /\ Late \subseteq Printers /\ LogRecords \in Nat \ {0}
                            /\ {"pm", "work", "free"} \cap Printers = {}

VARIABLES emitted,  \* calls of printk so far
          cont,     \* the line under construction
          records,  \* stored, and not yet taken by the console
          text,     \* on its way to the console drivers
          output,   \* history: the fragments the consoles have written
          dropped,  \* history: those overrun in the ring before
          console_sem, console_suspended,
          conpc,    \* where each user of console_sem is
          wake,     \* wake_klogd in its console_unlock
          online,   \* cpus that may use the consoles
          work,     \* console_cpu_notify_work is scheduled
          unseen,   \* log_next_seq # seen_seq
          klogd,    \* a reader on log_wait
          unread    \* there are records it has not read
convars == <<emitted, cont, records, text, output, dropped, console_sem, console_suspended,
             conpc, wake, online, work, unseen, klogd, unread>>
buffered == <<emitted, cont, records, dropped, unseen, unread>>

Users == Printers \cup {"pm", "work"} \* suspend_console and resume_console; the worker
Fragments == 1 .. MaxFragments
NoLine == [frags |-> <<>>, cons |-> 0, owner |-> "none", flushed |-> FALSE]

ConTypeOK ==
    /\ emitted \in 0 .. MaxFragments
    /\ cont \in [frags : Seq(Fragments), cons : 0 .. MaxFragments,
                 owner : Printers \cup {"none"}, flushed : BOOLEAN]
    /\ records \in Seq(Seq(Fragments)) /\ Len(records) <= LogRecords
    /\ text \in Seq(Fragments) /\ output \subseteq Fragments /\ dropped \subseteq Fragments
    /\ console_sem \in Users \cup {"free"} /\ console_suspended \in BOOLEAN
    /\ conpc \in [Users -> {"idle", "unlock", "print", "loop", "up", "check", "retry", "wake",
                            "unusable", "notify", "suspending", "suspended"}]
    /\ wake \in [Users -> BOOLEAN] /\ online \subseteq Printers
    /\ work \in BOOLEAN /\ unseen \in BOOLEAN /\ unread \in BOOLEAN
    /\ klogd \in {"queued", "asleep"}

ConInit == /\ emitted = 0 /\ cont = NoLine /\ records = <<>> /\ text = <<>>
           /\ output = {} /\ dropped = {}
           /\ console_sem = "free" /\ console_suspended = FALSE
           /\ conpc = [u \in Users |-> "idle"] /\ wake = [u \in Users |-> FALSE]
           /\ online = Printers \ Late /\ work = FALSE
           /\ unseen = FALSE /\ klogd = "queued" /\ unread = FALSE

Elements(s) == {s[i] : i \in DOMAIN s}
At(u, from, to) == conpc[u] = from /\ conpc' = [conpc EXCEPT ![u] = to]

----------------------------------------------------------------------------
(* vprintk_emit works on b, what there is in the buffers.                  *)
Stored(b, frags) ==
    LET full == Len(b.records) = LogRecords
    IN  [b EXCEPT !.records = Append(IF full THEN Tail(@) ELSE @, frags),
                  !.dropped = IF full THEN @ \cup Elements(Head(b.records)) ELSE @]

(* A cont_flush that always has the line printed from the record.          *)
FlushedTwice(b) ==
    IF b.cont.flushed \/ b.cont.frags = <<>> THEN b
    ELSE IF b.cont.cons > 0
         THEN Stored([b EXCEPT !.cont.flushed = TRUE], b.cont.frags)
         ELSE Stored([b EXCEPT !.cont = NoLine], b.cont.frags)

(* cont_flush: with LOG_NOCONS, so that the console has nothing to print   *)
(* of the record, when part of the line is on the console already.         *)
Flushed(b) ==
    IF b.cont.flushed \/ b.cont.frags = <<>> THEN b
    ELSE IF b.cont.cons > 0
         THEN Stored([b EXCEPT !.cont.flushed = TRUE], <<>>)
         ELSE Stored([b EXCEPT !.cont = NoLine], b.cont.frags)

(* cont_add: a fragment fits, leaves the buffer nearly full, or is too     *)
(* long for what is there.                                                 *)
CanAdd(b, room) == ~(b.cont.frags # <<>> /\ (b.cont.flushed \/ room = "none"))
Added(b, p, f, room) ==
    LET line == IF b.cont.frags = <<>> THEN [NoLine EXCEPT !.owner = p] ELSE b.cont
        more == [b EXCEPT !.cont = [line EXCEPT !.frags = Append(@, f)]]
    IN  IF room = "little" THEN Flushed(more) ELSE more

AddedOrStored(b, p, f, room) ==
    IF CanAdd(b, room) THEN Added(b, p, f, room)
    ELSE Stored(IF b.cont.flushed THEN b ELSE Flushed(b), <<f>>)

Emitted(b, p, f, newline, prefix, room) ==
    LET mine == b.cont.frags # <<>> /\ b.cont.owner = p
        join == mine /\ ~prefix /\ CanAdd(b, room)
        start == IF b.cont.frags # <<>> /\ (prefix \/ b.cont.owner # p) THEN Flushed(b) ELSE b
    IN  IF ~newline THEN AddedOrStored(start, p, f, room)
        ELSE IF join THEN Flushed(Added(b, p, f, room))
        ELSE Stored(IF mine THEN Flushed(b) ELSE b, <<f>>)

(* vprintk_emit up to the release of logbuf_lock: with the fragment in the *)
(* buffers it tries to take console_sem, which it can use if its cpu is    *)
(* online.                                                                 *)
TryConsole(u, got, failed) ==
    IF console_sem = "free" /\ ~console_suspended
    THEN console_sem' = u /\ conpc' = [conpc EXCEPT ![u] = got]
    ELSE UNCHANGED console_sem /\ conpc' = [conpc EXCEPT ![u] = failed]

vprintk_emit(p) ==
    /\ conpc[p] = "idle" /\ emitted < MaxFragments
    /\ emitted' = emitted + 1
    /\ \E newline \in BOOLEAN, prefix \in BOOLEAN, room \in {"much", "little", "none"} :
          LET b == Emitted([cont |-> cont, records |-> records, dropped |-> dropped],
                           p, emitted', newline, prefix, room)
          IN  /\ cont' = b.cont /\ records' = b.records /\ dropped' = b.dropped
              /\ unseen' = (unseen \/ b.records # records)
              /\ unread' = (unread \/ b.records # records)
    /\ TryConsole(p, IF p \in online THEN "unlock" ELSE "unusable", "idle")
    /\ UNCHANGED <<text, output, console_suspended, wake, online, work, klogd>>

(* console_trylock_for_printk lets go of a console it cannot use yet.      *)
Unusable(p) == /\ At(p, "unusable", "idle")
               /\ console_sem' = "free"
               /\ UNCHANGED <<buffered, text, output, console_suspended, wake, online, work,
                              klogd>>

----------------------------------------------------------------------------
(* console_unlock.  console_cont_flush prints the part of a line that is   *)
(* not in a record, unless earlier records have to be printed first.       *)
Rest == SubSeq(cont.frags, cont.cons + 1, Len(cont.frags))
console_cont_flush(u) ==
    /\ conpc[u] = "unlock"
    /\ IF console_suspended
       THEN /\ console_sem' = "free" /\ conpc' = [conpc EXCEPT ![u] = "idle"]
            /\ UNCHANGED <<cont, text>>
       ELSE /\ UNCHANGED console_sem
            /\ IF cont.frags = <<>> \/ (records # <<>> /\ cont.cons = 0)
               THEN conpc' = [conpc EXCEPT ![u] = "loop"] /\ UNCHANGED <<cont, text>>
               ELSE /\ conpc' = [conpc EXCEPT ![u] = "print"]
                    /\ text' = Rest
                    /\ cont' = IF cont.flushed THEN NoLine
                               ELSE [cont EXCEPT !.cons = Len(cont.frags)]
    /\ UNCHANGED <<emitted, records, dropped, unseen, unread, output, console_suspended, wake,
                   online, work, klogd>>

call_console_drivers(u) ==
    /\ At(u, "print", "loop")
    /\ output' = output \cup Elements(text) /\ text' = <<>>
    /\ UNCHANGED <<buffered, console_sem, console_suspended, wake, online, work, klogd>>

(* The next record with something to print; when there is none the loop is *)
(* left and console_locked cleared.                                        *)
NextRecord(u) ==
    /\ conpc[u] = "loop"
    /\ wake' = [wake EXCEPT ![u] = @ \/ unseen] /\ unseen' = FALSE
    /\ LET some == {i \in DOMAIN records : records[i] # <<>>}
       IN  IF some = {}
           THEN records' = <<>> /\ conpc' = [conpc EXCEPT ![u] = "up"] /\ UNCHANGED text
           ELSE LET i == CHOOSE i \in some : \A j \in some : i <= j
                IN  /\ text' = records[i]
                    /\ records' = SubSeq(records, i + 1, Len(records))
                    /\ conpc' = [conpc EXCEPT ![u] = "print"]
    /\ UNCHANGED <<emitted, cont, dropped, unread, output, console_sem, console_suspended,
                   online, work, klogd>>

Up(u) == /\ At(u, "up", "check")
         /\ console_sem' = "free"
         /\ UNCHANGED <<buffered, text, output, console_suspended, wake, online, work, klogd>>

Done(u) == IF wake[u] THEN "wake" ELSE "idle"

(* A console_unlock that does not look again.                              *)
NoRecheck(u) == /\ At(u, "check", Done(u))
                /\ UNCHANGED <<buffered, text, output, console_sem, console_suspended, wake,
                               online, work, klogd>>

(* "Someone could have filled up the buffer again, so re-check."           *)
Recheck(u) == /\ At(u, "check", IF records # <<>> THEN "retry" ELSE Done(u))
              /\ UNCHANGED <<buffered, text, output, console_sem, console_suspended, wake,
                             online, work, klogd>>

Retry(u) == /\ conpc[u] = "retry"
            /\ TryConsole(u, "loop", Done(u))
            /\ UNCHANGED <<buffered, text, output, console_suspended, wake, online, work, klogd>>

wake_up_klogd(u) ==
    /\ At(u, "wake", "idle")
    /\ klogd' = "queued"
    /\ wake' = [wake EXCEPT ![u] = FALSE]
    /\ UNCHANGED <<buffered, text, output, console_sem, console_suspended, online, work>>

----------------------------------------------------------------------------
(* Others who take console_sem, and wait for it: console_cpu_notify, which *)
(* only tries to and leaves it to a worker, suspend and resume.            *)
console_cpu_notify(p) ==
    \/ /\ At(p, "idle", "notify") /\ p \notin online
       /\ online' = online \cup {p}
       /\ UNCHANGED <<buffered, text, output, console_sem, console_suspended, wake, work, klogd>>
    \/ /\ conpc[p] = "notify"
       /\ TryConsole(p, "unlock", "idle")
       /\ work' = (work \/ console_sem' # p)
       /\ UNCHANGED <<buffered, text, output, console_suspended, wake, online, klogd>>

LockConsole(u, from, to) == At(u, from, to) /\ console_sem = "free" /\ console_sem' = u

console_flush == /\ work /\ LockConsole("work", "idle", "unlock")
                 /\ work' = FALSE
                 /\ UNCHANGED <<buffered, text, output, console_suspended, wake, online, klogd>>

suspend_console ==
    \/ /\ LockConsole("pm", "idle", "suspending")
       /\ UNCHANGED <<buffered, text, output, console_suspended, wake, online, work, klogd>>
    \/ /\ At("pm", "suspending", "suspended")
       /\ console_suspended' = TRUE /\ console_sem' = "free"
       /\ UNCHANGED <<buffered, text, output, wake, online, work, klogd>>

resume_console == /\ LockConsole("pm", "suspended", "unlock")
                  /\ console_suspended' = FALSE
                  /\ UNCHANGED <<buffered, text, output, wake, online, work, klogd>>

(* do_syslog and devkmsg_read: wait_event_interruptible(log_wait, ...),     *)
(* on the queue before each test, and what is there is read.               *)
Read == /\ klogd = "queued" /\ unread
        /\ unread' = FALSE
        /\ UNCHANGED <<emitted, cont, records, dropped, unseen, text, output, console_sem,
                       console_suspended, conpc, wake, online, work, klogd>>
Sleep == /\ klogd = "queued" /\ ~unread
         /\ klogd' = "asleep"
         /\ UNCHANGED <<buffered, text, output, console_sem, console_suspended, conpc, wake,
                        online, work>>

Unlocking(u) == \/ console_cont_flush(u) \/ call_console_drivers(u) \/ NextRecord(u)
                \/ Up(u) \/ Recheck(u) \/ Retry(u) \/ wake_up_klogd(u)
ConNext == \/ \E p \in Printers : vprintk_emit(p) \/ Unusable(p) \/ console_cpu_notify(p)
           \/ \E u \in Users : Unlocking(u)
           \/ console_flush \/ suspend_console \/ resume_console \/ Read \/ Sleep

ConSpec == ConInit /\ [][ConNext]_convars

(* Holders of console_sem go on, cpus that are coming up get there, a      *)
(* suspend is followed by a resume, and workers and readers run.           *)
Arriving(p) == Unusable(p) \/ console_cpu_notify(p)
Resuming == resume_console \/ (conpc["pm"] = "suspending" /\ suspend_console)
ConFairSpec == /\ ConSpec
               /\ \A u \in Users : WF_convars(Unlocking(u))
               /\ \A p \in Printers : WF_convars(Arriving(p))
               /\ WF_convars(console_flush) /\ WF_convars(Resuming) /\ WF_convars(Read \/ Sleep)

----------------------------------------------------------------------------
(* Every fragment printed is in one place: written by the consoles, on its *)
(* way to them, in a record or a line that waits for them, or overrun.     *)
(* Nothing is written twice and nothing is skipped, whatever LOG_NOCONS,   *)
(* the sealed line and two tasks' fragments do to one another.             *)
WhereTextIs == <<output, dropped, Elements(text), Elements(Rest)>>
            \o [i \in DOMAIN records |-> Elements(records[i])]
FragmentsInOnePlace ==
    /\ UNION {WhereTextIs[i] : i \in DOMAIN WhereTextIs} = 1 .. emitted
    /\ \A i, j \in DOMAIN WhereTextIs : i # j => WhereTextIs[i] \cap WhereTextIs[j] = {}

(* "In case we cannot trylock the console_sem again, there's a new owner   *)
(* and the console_unlock() from them will do the flush": every record is  *)
(* printed and its readers woken, although an owner may be a cpu that      *)
(* cannot use the console, or the console may be suspended.                *)
LogCatchesUp == /\ records # <<>> ~> records = <<>>
                /\ unread ~> ~unread
=============================================================================
