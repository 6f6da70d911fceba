----------------------------- MODULE MutexDebug -----------------------------
(***************************************************************************)
(* The lock tracker of mutexdebug.cpp: hooks that bionic's _normal_lock    *)
(* and _normal_unlock call for every mutex of the process, a pool of       *)
(* records on a used and a freed list, the table of threads that are       *)
(* inside a hook, and dump_all_mutex.  The hooks lock mutexes themselves:  *)
(* bt_list.lock is modelled by its owner; backtrace_mutex is only held     *)
(* around one pass over the table, which is one step here; Inner stands    *)
(* for a lock that unwinding and logging take, whose own lock and unlock   *)
(* run the hooks again, one frame deeper.                                  *)
(***************************************************************************)
EXTENDS Naturals, Sequences, SequencesExt, FiniteSets

CONSTANTS Threads,
          Mutexes,   \* the process's mutexes
          Inner,     \* a mutex of the unwinder and the log
          Records,   \* the mutex_backtrace records: 1024 in the code
          Slots,     \* the length of backtracing_tid: 1024 in the code
          Foreign,   \* threads that may unlock a mutex another thread locked
          Dumpers,   \* threads that call dump_all_mutex
          CanUninit, \* uninit_mutex_debug is called
          None       \* 0 in mutex, pid, freed and in an owner

ASSUME NoneAssumption == None \notin Threads \cup Mutexes \cup {Inner} \cup Records
ASSUME InnerAssumption == Inner \notin Mutexes
ASSUME SlotsAssumption == Slots \in Nat
ASSUME RecordsAssumption == IsFiniteSet(Records)

VARIABLES owner,     \* who holds each mutex, as NormalMutex implements it
          listlock,  \* who holds bt_list.lock; itself once destroyed
          used,      \* bt_list.used, the list's head first
          freed,     \* bt_list.freed
          mutex,     \* field mutex of each record
          pid,       \* field pid of each record
          tids,      \* the threads listed in backtracing_tid
          hooks,     \* off, on, unhooked (pointers back to 0), gone
          stack      \* the hook calls each thread is in, the innermost first
vars == <<owner, listlock, used, freed, mutex, pid, tids, hooks, stack>>

AllMutexes == Mutexes \cup {Inner}
Destroyed == "destroyed"

(* A hook call or a dump: where it is, the mutex it is about, the record   *)
(* it fills, and whether it has locked Inner.                              *)
Kinds == {"lock", "unlock", "dump"}
Places == {"enter", "start", "list", "pid", "unwind", "end", "release"}
Frame(kind, m) == [kind |-> kind, at |-> IF kind = "dump" THEN "start" ELSE "enter",
                   m |-> m, r |-> None, inner |-> FALSE]
Frames == [kind : Kinds, at : Places \cup {"mutex"}, m : AllMutexes \cup {None},
           r : Records \cup {None}, inner : BOOLEAN]

TypeOK == /\ owner \in [AllMutexes -> Threads \cup {None}]
          /\ listlock \in Threads \cup {None, Destroyed}
          /\ used \in Seq(Records) /\ freed \in Seq(Records)
          /\ mutex \in [Records -> AllMutexes \cup {None}]
          /\ pid \in [Records -> Threads \cup {None}]
          /\ tids \subseteq Threads
          /\ hooks \in {"off", "on", "unhooked", "gone"}
          /\ stack \in [Threads -> Seq(Frames)]
          /\ \A t \in Threads : \A i \in DOMAIN stack[t] :
                stack[t][i].at \in {"mutex", "pid"} => stack[t][i].r # None

Init == /\ owner = [m \in AllMutexes |-> None]
        /\ listlock = None
        /\ used = <<>> /\ freed = <<>>
        /\ mutex = [r \in Records |-> None]
        /\ pid = [r \in Records |-> None]
        /\ tids = {}
        /\ hooks = "off"
        /\ stack = [t \in Threads |-> <<>>]

Running(t, kinds, place) == /\ stack[t] # <<>>
                            /\ Head(stack[t]).kind \in kinds
                            /\ Head(stack[t]).at = place
Top(t) == Head(stack[t])
Push(t, f) == stack' = [stack EXCEPT ![t] = <<f>> \o @]
Pop(t) == stack' = [stack EXCEPT ![t] = Tail(@)]
Become(t, f) == stack' = [stack EXCEPT ![t] = <<f>> \o Tail(@)]
At(t, place) == Become(t, [Top(t) EXCEPT !.at = place])

InitDebug == /\ hooks = "off"
             /\ hooks' = "on"
             /\ freed' = SetToSeq(Records)
             /\ UNCHANGED <<owner, listlock, used, mutex, pid, tids, stack>>

(* uninit_mutex_debug: the pointers, then pthread_mutex_destroy, which     *)
(* refuses a lock that is held.                                            *)
Unhook == /\ CanUninit /\ hooks = "on"
          /\ hooks' = "unhooked"
          /\ UNCHANGED <<owner, listlock, used, freed, mutex, pid, tids, stack>>

DestroyList == /\ hooks = "unhooked"
               /\ hooks' = "gone"
               /\ listlock' = IF listlock = None THEN Destroyed ELSE listlock
               /\ UNCHANGED <<owner, used, freed, mutex, pid, tids, stack>>

(* pthread_mutex_lock of a process mutex: the lock hook runs as its owner. *)
Lock(t, m) == /\ stack[t] = <<>> /\ owner[m] = None
              /\ owner' = [owner EXCEPT ![m] = t]
              /\ IF hooks = "on" THEN Push(t, Frame("lock", m)) ELSE UNCHANGED stack
              /\ UNCHANGED <<listlock, used, freed, mutex, pid, tids, hooks>>

(* pthread_mutex_trylock and timedlock run no hook.                        *)
TryLock(t, m) == /\ stack[t] = <<>> /\ owner[m] = None
                 /\ owner' = [owner EXCEPT ![m] = t]
                 /\ UNCHANGED <<listlock, used, freed, mutex, pid, tids, hooks, stack>>

(* pthread_mutex_unlock: the unlock hook runs before the release.          *)
Unlock(t, m) ==
    /\ stack[t] = <<>>
    /\ owner[m] = t \/ (t \in Foreign /\ owner[m] # None)
    /\ IF hooks = "on"
       THEN Push(t, Frame("unlock", m)) /\ UNCHANGED owner
       ELSE owner' = [owner EXCEPT ![m] = None] /\ UNCHANGED stack
    /\ UNCHANGED <<listlock, used, freed, mutex, pid, tids, hooks>>

(* is_backtracing: a hook inside a hook does nothing.                      *)
Enter(t) == /\ Running(t, {"lock", "unlock"}, "enter")
            /\ IF t \notin tids THEN At(t, "start")
               ELSE IF Top(t).kind = "unlock" THEN At(t, "release") ELSE Pop(t)
            /\ UNCHANGED <<owner, listlock, used, freed, mutex, pid, tids, hooks>>

(* backtrace_start: a full table takes no further thread.                  *)
Start(t) == /\ Running(t, Kinds, "start")
            /\ tids' = IF Cardinality(tids) < Slots THEN tids \cup {t} ELSE tids
            /\ At(t, "list")
            /\ UNCHANGED <<owner, listlock, used, freed, mutex, pid, hooks>>

(* getone: the record is on the used list before its fields are set.       *)
GetOne(t) == /\ Running(t, {"lock"}, "list")
             /\ listlock = None
             /\ \/ /\ freed # <<>>
                   /\ used' = <<Head(freed)>> \o used
                   /\ freed' = Tail(freed)
                   /\ Become(t, [Top(t) EXCEPT !.at = "mutex", !.r = Head(freed)])
                \/ freed = <<>> /\ At(t, "end") /\ UNCHANGED <<used, freed>>
             /\ UNCHANGED <<owner, listlock, mutex, pid, tids, hooks>>

SetMutex(t) == /\ Running(t, {"lock"}, "mutex")
               /\ mutex' = [mutex EXCEPT ![Top(t).r] = Top(t).m]
               /\ At(t, "pid")
               /\ UNCHANGED <<owner, listlock, used, freed, pid, tids, hooks>>

SetPid(t) == /\ Running(t, {"lock"}, "pid")
             /\ pid' = [pid EXCEPT ![Top(t).r] = t]
             /\ At(t, "unwind")
             /\ UNCHANGED <<owner, listlock, used, freed, mutex, tids, hooks>>

(* do_backtrace and dump_backtrace lock and unlock mutexes of their own.   *)
InnerLock(t) == /\ Running(t, {"lock", "dump"}, "unwind") /\ ~Top(t).inner
                /\ owner[Inner] = None
                /\ owner' = [owner EXCEPT ![Inner] = t]
                /\ LET marked == [Top(t) EXCEPT !.inner = TRUE]
                   IN  stack' = [stack EXCEPT ![t] =
                                   (IF hooks = "on" THEN <<Frame("lock", Inner)>> ELSE <<>>)
                                     \o <<marked>> \o Tail(@)]
                /\ UNCHANGED <<listlock, used, freed, mutex, pid, tids, hooks>>

InnerUnlock(t) == /\ Running(t, {"lock", "dump"}, "unwind") /\ Top(t).inner
                  /\ LET marked == [Top(t) EXCEPT !.inner = FALSE]
                     IN  IF hooks = "on"
                         THEN /\ stack' = [stack EXCEPT ![t] =
                                             <<Frame("unlock", Inner), marked>> \o Tail(@)]
                              /\ UNCHANGED owner
                         ELSE /\ Become(t, marked)
                              /\ owner' = [owner EXCEPT ![Inner] = None]
                  /\ UNCHANGED <<listlock, used, freed, mutex, pid, tids, hooks>>

(* A dump that returns without unlocking the list.                         *)
UnwoundLocked(t) == /\ Running(t, {"lock", "dump"}, "unwind") /\ ~Top(t).inner
                    /\ At(t, "end")
                    /\ UNCHANGED <<owner, listlock, used, freed, mutex, pid, tids, hooks>>

(* The end of do_backtrace, and of the dump, which holds bt_list.lock.     *)
Unwound(t) == /\ Running(t, {"lock", "dump"}, "unwind") /\ ~Top(t).inner
              /\ listlock' = IF Top(t).kind = "dump" THEN None ELSE listlock
              /\ At(t, "end")
              /\ UNCHANGED <<owner, used, freed, mutex, pid, tids, hooks>>

(* putone: the first record of the mutex.  If another thread locked it the *)
(* code reports an error and returns, keeping bt_list.lock.                *)
Matches(m) == {i \in DOMAIN used : mutex[used[i]] = m}
FirstMatch(m) == CHOOSE i \in Matches(m) : \A j \in Matches(m) : i <= j

(* A putone that frees the newest record, whatever its mutex.              *)
PutOneNewest(t) ==
    /\ Running(t, {"unlock"}, "list")
    /\ listlock = None
    /\ At(t, "end")
    /\ IF used = <<>>
       THEN UNCHANGED <<used, freed, mutex, pid>>
       ELSE /\ used' = Tail(used)
            /\ freed' = <<Head(used)>> \o freed
            /\ mutex' = [mutex EXCEPT ![Head(used)] = None]
            /\ pid' = [pid EXCEPT ![Head(used)] = None]
    /\ UNCHANGED <<owner, listlock, tids, hooks>>

PutOne(t) ==
    /\ Running(t, {"unlock"}, "list")
    /\ listlock = None
    /\ At(t, "end")
    /\ \/ /\ Matches(Top(t).m) = {}
          /\ UNCHANGED <<listlock, used, freed, mutex, pid>>
       \/ /\ Matches(Top(t).m) # {}
          /\ LET r == used[FirstMatch(Top(t).m)]
             IN  \/ /\ pid[r] # t
                    /\ listlock' = t
                    /\ UNCHANGED <<used, freed, mutex, pid>>
                 \/ /\ pid[r] = t
                    /\ used' = RemoveAt(used, FirstMatch(Top(t).m))
                    /\ freed' = <<r>> \o freed
                    /\ mutex' = [mutex EXCEPT ![r] = None]
                    /\ pid' = [pid EXCEPT ![r] = None]
                    /\ UNCHANGED listlock
    /\ UNCHANGED <<owner, tids, hooks>>

(* backtrace_end, and the return from the hook or from the dump.           *)
End(t) == /\ Running(t, Kinds, "end")
          /\ tids' = tids \ {t}
          /\ IF Top(t).kind = "unlock" THEN At(t, "release") ELSE Pop(t)
          /\ UNCHANGED <<owner, listlock, used, freed, mutex, pid, hooks>>

(* _normal_unlock after its hook.                                          *)
Release(t) == /\ Running(t, {"unlock"}, "release")
              /\ owner' = [owner EXCEPT ![Top(t).m] = None]
              /\ Pop(t)
              /\ UNCHANGED <<listlock, used, freed, mutex, pid, tids, hooks>>

(* dump_all_mutex: listed as backtracing, then under bt_list.lock.         *)
Dump(t) == /\ t \in Dumpers /\ stack[t] = <<>> /\ hooks = "on"
           /\ Push(t, Frame("dump", None))
           /\ UNCHANGED <<owner, listlock, used, freed, mutex, pid, tids, hooks>>

DumpLock(t) == /\ Running(t, {"dump"}, "list")
               /\ listlock = None
               /\ listlock' = t
               /\ At(t, "unwind")
               /\ UNCHANGED <<owner, used, freed, mutex, pid, tids, hooks>>

Call(t) == Dump(t) \/ \E m \in Mutexes : Lock(t, m) \/ TryLock(t, m) \/ Unlock(t, m)
UsesList(t) == GetOne(t) \/ PutOne(t) \/ DumpLock(t)
HookStep(t) == \/ Enter(t) \/ Start(t) \/ SetMutex(t) \/ SetPid(t) \/ InnerUnlock(t)
               \/ Unwound(t) \/ End(t) \/ Release(t)

Next == \/ InitDebug \/ Unhook \/ DestroyList
        \/ \E t \in Threads : Call(t) \/ UsesList(t) \/ HookStep(t) \/ InnerLock(t)

Spec == Init /\ [][Next]_vars

(* A thread inside a hook keeps running, unwinding ends however often it   *)
(* locks, and bt_list.lock, freed again and again, is obtained.            *)
FairSpec == Spec /\ \A t \in Threads : /\ WF_vars(HookStep(t))
                                      /\ SF_vars(Unwound(t))
                                      /\ SF_vars(UsesList(t))
-----------------------------------------------------------------------------
RangeOf(s) == {s[i] : i \in DOMAIN s}
Filling(r) == \E t \in Threads : \E i \in DOMAIN stack[t] :
                 stack[t][i].r = r /\ stack[t][i].at \in {"mutex", "pid"}

(* A record is on one list, once: getone and putone lose none of them.     *)
PoolConserved ==
    hooks # "off" => /\ RangeOf(used) \cap RangeOf(freed) = {}
                     /\ RangeOf(used) \cup RangeOf(freed) = Records
                     /\ Len(used) + Len(freed) = Cardinality(Records)

(* While the hooks are in place, what dump_all_mutex prints is true and    *)
(* no record leaks: a record in use is still being filled by its hook, or  *)
(* its mutex is held by the thread it names.                               *)
RecordsAreTrue ==
    hooks = "on" =>
        \A r \in RangeOf(used) :
            Filling(r) \/ (mutex[r] \in AllMutexes /\ pid[r] = owner[mutex[r]])

(* Every lock, unlock and dump gets out of the tracker again, as long as   *)
(* uninit_mutex_debug does not destroy bt_list.lock under its users: the   *)
(* table of backtracing threads keeps the locks that a hook takes out of   *)
(* the hooks, where the thread would wait for itself.                      *)
HookReturns ==
    [](listlock # Destroyed) => \A t \in Threads : stack[t] # <<>> ~> stack[t] = <<>>

(* The tracker tells the truth, and keeps all its records.                 *)
TrackingIsTrue == PoolConserved /\ RecordsAreTrue
=============================================================================
