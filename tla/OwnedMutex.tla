----------------------------- MODULE OwnedMutex -----------------------------
(***************************************************************************)
(* A recursive or error-checking mutex of bionic, pthread_mutex.cpp.  The  *)
(* word holds the owner's tid, a recursion counter and the lock state;     *)
(* every thread works on mvalue, a copy of the word that goes stale, and   *)
(* changes the word by compare-and-exchange against that copy.  One action *)
(* is one atomic access to the word, one read of it, or one futex call.    *)
(***************************************************************************)
EXTENDS Naturals, FiniteSets

CONSTANTS Threads,     \* the threads that use the mutex
          Timed,       \* those of them that may call timedlock
          Destroyers,  \* those of them that may call pthread_mutex_destroy
          Recursive,   \* TRUE: PTHREAD_MUTEX_RECURSIVE, FALSE: ERRORCHECK
          MaxCounter,  \* the counter field's mask: 2^11 - 1 in the code
          MaxCalls,    \* bound: acquiring calls made by one thread
          Nobody,      \* owner bits of a free mutex
          Poison       \* owner bits of 0xdead10cc

ASSUME OwnersAssumption ==
    Nobody \notin Threads /\ Poison \notin Threads /\ Nobody # Poison
ASSUME BoundsAssumption == MaxCounter \in Nat /\ MaxCalls \in Nat
ASSUME RecursiveAssumption == Recursive \in BOOLEAN

VARIABLES word,     \* mutex->value
          mvalue,   \* each thread's copy of it
          pc,       \* where each thread is
          op,       \* the acquiring call it makes or made last
          expired,  \* the absolute timeout of that call has passed
          calls,    \* acquiring calls made so far
          depth     \* history: acquisitions minus releases that succeeded
vars == <<word, mvalue, pc, op, expired, calls, depth>>

Unlocked    == 0    \* MUTEX_STATE_UNLOCKED
Uncontended == 1    \* MUTEX_STATE_LOCKED_UNCONTENDED
Contended   == 2    \* MUTEX_STATE_LOCKED_CONTENDED
Word(owner, counter, state) == [owner |-> owner, counter |-> counter, state |-> state]
Free == Word(Nobody, 0, Unlocked)   \* the type and shared bits alone
Dead == Word(Poison, 0, Unlocked)   \* 0xdead10cc: its state bits are 00
Words == [owner : Threads \cup {Nobody, Poison}, counter : 0 .. MaxCounter,
          state : {Unlocked, Uncontended, Contended}]

(* idle: outside every call;  inc, dec: at a cmpxchg of the counter;       *)
(* quick: at the first cmpxchg;  loop: at the top of the for loop;         *)
(* incload, decload, load, flipload: at "mvalue = mutex->value" on the way *)
(* to inc, dec, loop, time;  late: at the time check after a lost race;    *)
(* time: at the one before futex_wait;  wait: entering it;  asleep: in its *)
(* queue;  swap: at unlock's swap;  wake: at its futex_wake;  kill: in     *)
(* destroy, after its trylock succeeded.                                   *)
Places == {"idle", "inc", "dec", "quick", "loop", "incload", "decload", "load",
           "flipload", "late", "time", "wait", "asleep", "swap", "wake", "kill"}
Ops == {"lock", "timedlock", "trylock", "destroy"}

TypeOK == /\ word \in Words
          /\ mvalue \in [Threads -> Words]
          /\ pc \in [Threads -> Places]
          /\ op \in [Threads -> Ops]
          /\ expired \in [Threads -> BOOLEAN]
          /\ calls \in [Threads -> 0 .. MaxCalls]
          /\ depth \in [Threads -> Nat]

Init == /\ word = Free
        /\ mvalue = [t \in Threads |-> Free]
        /\ pc = [t \in Threads |-> "idle"]
        /\ op = [t \in Threads |-> "lock"]
        /\ expired = [t \in Threads |-> FALSE]
        /\ calls = [t \in Threads |-> 0]
        /\ depth = [t \in Threads |-> 0]

Goto(t, place) == pc' = [pc EXCEPT ![t] = place]
IsTimed(t) == op[t] = "timedlock"

(* A new acquiring call; no call is made on a mutex known to be destroyed. *)
Call(t, o) == /\ pc[t] = "idle" /\ word # Dead
              /\ calls[t] < MaxCalls
              /\ calls' = [calls EXCEPT ![t] = @ + 1]
              /\ op' = [op EXCEPT ![t] = o]

(* The call returns 0; in destroy it was the trylock that did.             *)
Won(t, o) == /\ Goto(t, IF o = "destroy" THEN "kill" ELSE "idle")
             /\ depth' = [depth EXCEPT ![t] = @ + 1]

(* __bionic_cmpxchg(old, new, &mutex->value) succeeds.                     *)
Swapped(old, new) == word = old /\ word' = new

(* _recursive_increment up to its loop: EDEADLK, EAGAIN, or go on.         *)
Reenter(t) ==
    /\ word.owner = t
    /\ Goto(t, IF ~Recursive \/ word.counter = MaxCounter THEN "idle" ELSE "inc")
    /\ mvalue' = [mvalue EXCEPT ![t] = word]
    /\ UNCHANGED <<word, depth>>

(* The owner is not looked at before the loop.                             *)
StartLockNotOwned(t) ==
    /\ mvalue' = [mvalue EXCEPT ![t] = word]
    /\ Goto(t, IF word = Free THEN "quick" ELSE "loop")
    /\ UNCHANGED <<word, depth>>

(* pthread_mutex_lock and __pthread_mutex_timedlock, up to the quick lock. *)
StartLock(t) ==
    \/ Reenter(t)
    \/ /\ word.owner # t
       /\ mvalue' = [mvalue EXCEPT ![t] = word]
       /\ Goto(t, IF word = Free THEN "quick" ELSE "loop")
       /\ UNCHANGED <<word, depth>>

Lock(t) == Call(t, "lock") /\ StartLock(t) /\ UNCHANGED expired

TimedLock(t) == /\ t \in Timed
                /\ Call(t, "timedlock") /\ StartLock(t)
                /\ \E late \in BOOLEAN : expired' = [expired EXCEPT ![t] = late]

(* pthread_mutex_trylock: whether the caller owns the mutex is something   *)
(* only the caller changes, so the read and the cmpxchg are one step.      *)
StartTry(t, o) ==
    \/ Reenter(t)
    \/ /\ word.owner # t
       /\ Swapped(Free, Word(t, 0, Uncontended))
       /\ Won(t, o)
       /\ UNCHANGED mvalue
    \/ /\ word.owner # t /\ word # Free
       /\ UNCHANGED <<word, mvalue, pc, depth>>

TryLock(t) == Call(t, "trylock") /\ StartTry(t, "trylock") /\ UNCHANGED expired
Destroy(t) == /\ t \in Destroyers
              /\ Call(t, "destroy") /\ StartTry(t, "destroy") /\ UNCHANGED expired

(* A cmpxchg loop on the counter: from, to and back to a reload.           *)
Increment(t) == /\ pc[t] = "inc"
                /\ \/ /\ Swapped(mvalue[t], [mvalue[t] EXCEPT !.counter = @ + 1])
                      /\ Won(t, op[t])
                   \/ word # mvalue[t] /\ Goto(t, "incload") /\ UNCHANGED <<word, depth>>
                /\ UNCHANGED <<mvalue, op, expired, calls>>

(* A store in place of the first cmpxchg.                                  *)
QuickByStore(t) == /\ pc[t] = "quick"
                   /\ word' = Word(t, 0, Uncontended)
                   /\ Won(t, op[t])
                   /\ UNCHANGED <<mvalue, op, expired, calls>>

Quick(t) == /\ pc[t] = "quick"
            /\ \/ Swapped(Free, Word(t, 0, Uncontended)) /\ Won(t, op[t])
               \/ word # Free /\ Goto(t, "load") /\ UNCHANGED <<word, depth>>
            /\ UNCHANGED <<mvalue, op, expired, calls>>

(* mvalue = mutex->value.                                                  *)
Reload(t) == /\ \E place \in {<<"incload", "inc">>, <<"decload", "dec">>,
                              <<"load", "loop">>, <<"flipload", "time">>} :
                   pc[t] = place[1] /\ Goto(t, place[2])
             /\ mvalue' = [mvalue EXCEPT ![t] = word]
             /\ UNCHANGED <<word, op, expired, calls, depth>>

LoopAcquireUncontended(t) ==
    /\ pc[t] = "loop" /\ mvalue[t] = Free
    /\ \/ Swapped(Free, Word(t, 0, Uncontended)) /\ Won(t, op[t])
       \/ /\ word # Free
          /\ Goto(t, IF IsTimed(t) THEN "late" ELSE "load")
          /\ UNCHANGED <<word, depth>>
    /\ UNCHANGED <<mvalue, op, expired, calls>>

(* The free mutex is taken as contended: others may be asleep on it.       *)
LoopAcquire(t) == /\ pc[t] = "loop" /\ mvalue[t] = Free
                  /\ \/ Swapped(Free, Word(t, 0, Contended)) /\ Won(t, op[t])
                     \/ /\ word # Free
                        /\ Goto(t, IF IsTimed(t) THEN "late" ELSE "load")
                        /\ UNCHANGED <<word, depth>>
                  /\ UNCHANGED <<mvalue, op, expired, calls>>

BeforeWait(t) == IF IsTimed(t) THEN "time" ELSE "wait"

LoopFlip(t) ==
    /\ pc[t] = "loop" /\ mvalue[t].state = Uncontended
    /\ \/ LET flipped == [mvalue[t] EXCEPT !.state = Contended]
          IN  /\ Swapped(mvalue[t], flipped)
              /\ mvalue' = [mvalue EXCEPT ![t] = flipped]
              /\ Goto(t, BeforeWait(t))
       \/ /\ word # mvalue[t]
          /\ Goto(t, IF IsTimed(t) THEN "flipload" ELSE "load")
          /\ UNCHANGED <<word, mvalue>>
    /\ UNCHANGED <<op, expired, calls, depth>>

LoopContended(t) == /\ pc[t] = "loop"
                    /\ mvalue[t] # Free /\ mvalue[t].state # Uncontended
                    /\ Goto(t, BeforeWait(t))
                    /\ UNCHANGED <<word, mvalue, op, expired, calls, depth>>

(* The time is left to futex_wait alone.                                   *)
CheckTimeNever(t) ==
    /\ pc[t] \in {"late", "time"}
    /\ Goto(t, IF pc[t] = "late" THEN "load"
               ELSE IF mvalue[t].state = Contended THEN "wait" ELSE "loop")
    /\ UNCHANGED <<word, mvalue, op, expired, calls, depth>>

(* __timespec_from_absolute < 0: ETIMEDOUT.  Before futex_wait, a word     *)
(* that is not contended sends the call back to the top of the loop.       *)
CheckTime(t) == /\ pc[t] \in {"late", "time"}
                /\ Goto(t, IF expired[t] THEN "idle"
                           ELSE IF pc[t] = "late" THEN "load"
                           ELSE IF mvalue[t].state = Contended THEN "wait" ELSE "loop")
                /\ UNCHANGED <<word, mvalue, op, expired, calls, depth>>

FutexWait(t) == /\ pc[t] = "wait"
                /\ Goto(t, IF word = mvalue[t] THEN "asleep" ELSE "load")
                /\ UNCHANGED <<word, mvalue, op, expired, calls, depth>>

(* A signal ends futex_wait.                                               *)
FutexReturn(t) == /\ pc[t] = "asleep"
                  /\ Goto(t, "load")
                  /\ UNCHANGED <<word, mvalue, op, expired, calls, depth>>

(* __futex_wait_ex returns -ETIMEDOUT.                                     *)
FutexTimeout(t) == /\ pc[t] = "asleep" /\ IsTimed(t) /\ expired[t]
                   /\ Goto(t, "idle")
                   /\ UNCHANGED <<word, mvalue, op, expired, calls, depth>>

Expire(t) == /\ pc[t] # "idle" /\ IsTimed(t) /\ ~expired[t]
             /\ expired' = [expired EXCEPT ![t] = TRUE]
             /\ UNCHANGED <<word, mvalue, pc, op, calls, depth>>

(* An unlock that gives up the mutex at once, however often it was locked. *)
UnlockOutright(t) == /\ pc[t] = "idle" /\ word.owner = t
                     /\ mvalue' = [mvalue EXCEPT ![t] = word]
                     /\ Goto(t, "swap")
                     /\ UNCHANGED <<word, op, expired, calls, depth>>

(* pthread_mutex_unlock: not the owner is EPERM, a step that changes       *)
(* nothing.                                                                *)
Unlock(t) == /\ pc[t] = "idle" /\ word.owner = t
             /\ mvalue' = [mvalue EXCEPT ![t] = word]
             /\ Goto(t, IF word.counter = 0 THEN "swap" ELSE "dec")
             /\ UNCHANGED <<word, op, expired, calls, depth>>

Released(t) == depth' = [depth EXCEPT ![t] = @ - 1]

Decrement(t) == /\ pc[t] = "dec"
                /\ \/ /\ Swapped(mvalue[t], [mvalue[t] EXCEPT !.counter = @ - 1])
                      /\ Released(t) /\ Goto(t, "idle")
                   \/ word # mvalue[t] /\ Goto(t, "decload") /\ UNCHANGED <<word, depth>>
                /\ UNCHANGED <<mvalue, op, expired, calls>>

SwapOut(t) == /\ pc[t] = "swap"
              /\ word' = Free
              /\ mvalue' = [mvalue EXCEPT ![t] = word]
              /\ Released(t)
              /\ Goto(t, IF word.state = Contended THEN "wake" ELSE "idle")
              /\ UNCHANGED <<op, expired, calls>>

Asleep == {t \in Threads : pc[t] = "asleep"}

FutexWake(t) == /\ pc[t] = "wake"
                /\ IF Asleep = {}
                   THEN Goto(t, "idle")
                   ELSE \E w \in Asleep :
                           pc' = [pc EXCEPT ![t] = "idle", ![w] = "load"]
                /\ UNCHANGED <<word, mvalue, op, expired, calls, depth>>

StoreDead(t) == /\ pc[t] = "kill"
                /\ word' = Dead
                /\ Released(t) /\ Goto(t, "idle")
                /\ UNCHANGED <<mvalue, op, expired, calls>>

Acquiring(t) == \/ Increment(t) \/ Quick(t) \/ Reload(t) \/ LoopAcquire(t)
                \/ LoopFlip(t) \/ LoopContended(t) \/ CheckTime(t) \/ FutexWait(t)
Releasing(t) == \/ Unlock(t) \/ Decrement(t) \/ SwapOut(t) \/ FutexWake(t)
                \/ StoreDead(t)

Next == \E t \in Threads :
            \/ Lock(t) \/ TimedLock(t) \/ TryLock(t) \/ Destroy(t)
            \/ Acquiring(t) \/ Releasing(t)
            \/ FutexReturn(t) \/ FutexTimeout(t) \/ Expire(t)

Spec == Init /\ [][Next]_vars

(* Every started call keeps running, every owner unlocks as often as it    *)
(* locked, and a deadline passes and interrupts its futex_wait.            *)
Fairness == \A t \in Threads : /\ WF_vars(Acquiring(t))
                               /\ WF_vars(Releasing(t))
                               /\ WF_vars(Expire(t))
                               /\ WF_vars(FutexTimeout(t))
FairSpec == Spec /\ Fairness
-----------------------------------------------------------------------------
destroyed == word = Dead

(* The counter the threads share through compare-and-exchange is the truth *)
(* about the calls that returned: the owner has locked counter + 1 times   *)
(* more than it has unlocked, and nobody else holds the mutex.             *)
CounterIsDepth ==
    ~destroyed => \A t \in Threads :
        depth[t] = IF word.owner = t THEN word.counter + 1 ELSE 0

(* An owner that locks again gets the counter or an error: it never waits  *)
(* for itself (_recursive_increment).                                      *)
NoSelfDeadlock ==
    \A t \in Threads : word.owner = t =>
        pc[t] \notin {"quick", "loop", "load", "flipload", "late", "time", "wait", "asleep"}

(* The comment of pthread_mutex_lock's loop: taking the mutex in state 2   *)
(* "ensures all waiters will be unlocked".                                 *)
WaitersAreUnlocked == \A t \in Threads : pc[t] = "asleep" ~> pc[t] # "asleep"

(* As long as nobody uses a timeout, every call returns once the other     *)
(* threads stop making new ones.                                           *)
EveryCallReturns == \A t \in Threads : pc[t] # "idle" ~> pc[t] = "idle"

(* A timedlock returns whatever the others do: hold the mutex, change its  *)
(* counter under the sleeper, or destroy it.                               *)
TimedCallsReturn ==
    \A t \in Threads : (pc[t] # "idle" /\ IsTimed(t)) ~> pc[t] = "idle"

(* The lock other code sees, and that the word implements it: an error     *)
(* return, a nested lock or unlock and a lost race change nothing of it.   *)
Abstract == INSTANCE AbstractLock
              WITH owner <- IF destroyed THEN Nobody ELSE word.owner,
                   waiting <- {t \in Threads :
                                 pc[t] \in {"quick", "loop", "load", "flipload",
                                            "late", "time", "wait", "asleep"}}
ImplementsLock == Abstract!Spec
=============================================================================
