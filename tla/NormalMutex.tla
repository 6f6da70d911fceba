----------------------------- MODULE NormalMutex ----------------------------
(***************************************************************************)
(* A PTHREAD_MUTEX_NORMAL mutex of bionic, pthread_mutex.cpp: the state    *)
(* bits of its word, the futex queue of the kernel, and the threads inside *)
(* lock, trylock, timedlock, unlock and destroy.  One action is one atomic *)
(* access to the word or one futex system call.  The shared bit only       *)
(* selects the futex opcode and is left out; so is mutex_lock_debug, which *)
(* is NULL unless mutexdebug is linked in (module MutexDebug).             *)
(***************************************************************************)
EXTENDS Naturals, FiniteSets

CONSTANTS Threads,     \* the threads that use the mutex
          Destroyers,  \* those of them that may call pthread_mutex_destroy
          MaxCalls,    \* bound: acquiring calls made by one thread
          Nobody       \* the owner of a free mutex

ASSUME DestroyersAssumption == Destroyers \subseteq Threads
ASSUME MaxCallsAssumption == MaxCalls \in Nat
ASSUME NobodyAssumption == Nobody \notin Threads

VARIABLES value,    \* mutex->value
          pc,       \* where each thread is
          timed,    \* the call in progress is a timedlock
          expired,  \* its absolute timeout has passed
          calls,    \* acquiring calls made so far
          destroyed \* history: a destroy has succeeded
vars == <<value, pc, timed, expired, calls, destroyed>>

Unlocked    == 0    \* MUTEX_STATE_UNLOCKED
Uncontended == 1    \* MUTEX_STATE_LOCKED_UNCONTENDED
Contended   == 2    \* MUTEX_STATE_LOCKED_CONTENDED
Dead        == 3    \* stands for 0xdead10cc: normal type, none of the above

(* idle: outside every call;  swap: at the swap of the while condition;    *)
(* time: at __timespec_from_absolute;  wait: entering futex_wait;  asleep: *)
(* in the futex queue;  cs: the call returned 0;  store: at                *)
(* "mutex->value = shared";  wake: at futex_wake;  kill: in destroy, after *)
(* its trylock succeeded.                                                  *)
Places == {"idle", "swap", "time", "wait", "asleep", "cs", "store", "wake", "kill"}

TypeOK == /\ value \in {Unlocked, Uncontended, Contended, Dead}
          /\ pc \in [Threads -> Places]
          /\ timed \in [Threads -> BOOLEAN]
          /\ expired \in [Threads -> BOOLEAN]
          /\ calls \in [Threads -> 0 .. MaxCalls]
          /\ destroyed \in BOOLEAN

Init == /\ value = Unlocked
        /\ pc = [t \in Threads |-> "idle"]
        /\ timed = [t \in Threads |-> FALSE]
        /\ expired = [t \in Threads |-> FALSE]
        /\ calls = [t \in Threads |-> 0]
        /\ destroyed = FALSE

Goto(t, place) == pc' = [pc EXCEPT ![t] = place]

Call(t) == /\ pc[t] = "idle"
           /\ calls[t] < MaxCalls
           /\ calls' = [calls EXCEPT ![t] = @ + 1]

(* __bionic_cmpxchg(unlocked, locked_uncontended, &mutex->value), then     *)
(* to `won` or to `lost`.                                                  *)
TryAcquire(t, won, lost) ==
    IF value = Unlocked THEN value' = Uncontended /\ Goto(t, won)
                        ELSE UNCHANGED value /\ Goto(t, lost)

Lock(t) == /\ Call(t)
           /\ TryAcquire(t, "cs", "swap")
           /\ timed' = [timed EXCEPT ![t] = FALSE]
           /\ UNCHANGED <<expired, destroyed>>

TimedLock(t) == /\ Call(t)
                /\ TryAcquire(t, "cs", "swap")
                /\ timed' = [timed EXCEPT ![t] = TRUE]
                /\ \E late \in BOOLEAN : expired' = [expired EXCEPT ![t] = late]
                /\ UNCHANGED destroyed

TryLock(t) == /\ Call(t)
              /\ TryAcquire(t, "cs", "idle")
              /\ UNCHANGED <<timed, expired, destroyed>>

(* A waiter that forgets it cannot know it is the only one.                *)
SwapUncontended(t) == /\ pc[t] = "swap"
                      /\ value' = IF value = Unlocked THEN Uncontended ELSE Contended
                      /\ Goto(t, IF value = Unlocked THEN "cs"
                                 ELSE IF timed[t] THEN "time" ELSE "wait")
                      /\ UNCHANGED <<timed, expired, calls, destroyed>>

(* A waiter that takes the decremented word of an unlock for a free one.   *)
SwapTakesDecremented(t) == /\ pc[t] = "swap"
                           /\ value' = Contended
                           /\ Goto(t, IF value # Contended THEN "cs"
                                      ELSE IF timed[t] THEN "time" ELSE "wait")
                           /\ UNCHANGED <<timed, expired, calls, destroyed>>

(* The while condition of _normal_lock and __pthread_mutex_timedlock.      *)
Swap(t) == /\ pc[t] = "swap"
           /\ value' = Contended
           /\ Goto(t, IF value = Unlocked THEN "cs"
                      ELSE IF timed[t] THEN "time" ELSE "wait")
           /\ UNCHANGED <<timed, expired, calls, destroyed>>

CheckTime(t) == /\ pc[t] = "time"
                /\ Goto(t, IF expired[t] THEN "idle" ELSE "wait")
                /\ UNCHANGED <<value, timed, expired, calls, destroyed>>

FutexWait(t) == /\ pc[t] = "wait"
                /\ Goto(t, IF value = Contended THEN "asleep" ELSE "swap")
                /\ UNCHANGED <<value, timed, expired, calls, destroyed>>

(* futex_wait returns by itself: a signal, or the relative timeout.        *)
FutexReturn(t) == /\ pc[t] = "asleep"
                  /\ Goto(t, "swap")
                  /\ UNCHANGED <<value, timed, expired, calls, destroyed>>

FutexTimeout(t) == timed[t] /\ expired[t] /\ FutexReturn(t)

Expire(t) == /\ timed[t] /\ ~expired[t]
             /\ pc[t] \in {"swap", "time", "wait", "asleep"}
             /\ expired' = [expired EXCEPT ![t] = TRUE]
             /\ UNCHANGED <<value, pc, timed, calls, destroyed>>

(* _normal_unlock: the atomic decrement, the store, the wake.              *)
Unlock(t) == /\ pc[t] = "cs"
             /\ value' = value - 1
             /\ Goto(t, IF value = Uncontended THEN "idle" ELSE "store")
             /\ UNCHANGED <<timed, expired, calls, destroyed>>

StoreAndForget(t) == /\ pc[t] = "store"
                     /\ value' = Unlocked
                     /\ Goto(t, "idle")
                     /\ UNCHANGED <<timed, expired, calls, destroyed>>

StoreUnlocked(t) == /\ pc[t] = "store"
                    /\ value' = Unlocked
                    /\ Goto(t, "wake")
                    /\ UNCHANGED <<timed, expired, calls, destroyed>>

Asleep == {t \in Threads : pc[t] = "asleep"}

FutexWake(t) == /\ pc[t] = "wake"
                /\ IF Asleep = {}
                   THEN Goto(t, "idle")
                   ELSE \E w \in Asleep :
                           pc' = [pc EXCEPT ![t] = "idle", ![w] = "swap"]
                /\ UNCHANGED <<value, timed, expired, calls, destroyed>>

(* A destroy that hands the word back as an unlocked mutex.                *)
StoreUnlockedOnDestroy(t) == /\ pc[t] = "kill"
                             /\ value' = Unlocked
                             /\ destroyed' = TRUE
                             /\ Goto(t, "idle")
                             /\ UNCHANGED <<timed, expired, calls>>

(* pthread_mutex_destroy: a trylock, then the poison value.                *)
Destroy(t) == /\ t \in Destroyers
              /\ Call(t)
              /\ TryAcquire(t, "kill", "idle")
              /\ UNCHANGED <<timed, expired, destroyed>>

StoreDead(t) == /\ pc[t] = "kill"
                /\ value' = Dead
                /\ destroyed' = TRUE
                /\ Goto(t, "idle")
                /\ UNCHANGED <<timed, expired, calls>>

Acquiring(t) == Swap(t) \/ CheckTime(t) \/ FutexWait(t)
Releasing(t) == Unlock(t) \/ StoreUnlocked(t) \/ FutexWake(t) \/ StoreDead(t)

Next == \E t \in Threads :
            \/ Lock(t) \/ TimedLock(t) \/ TryLock(t) \/ Destroy(t)
            \/ Acquiring(t) \/ Releasing(t)
            \/ FutexReturn(t) \/ Expire(t)

Spec == Init /\ [][Next]_vars

(* Every started call keeps running, every holder unlocks, and a deadline  *)
(* that has been set passes and interrupts its futex_wait.                 *)
Fairness == \A t \in Threads : /\ WF_vars(Acquiring(t))
                               /\ WF_vars(Releasing(t))
                               /\ WF_vars(Expire(t))
                               /\ WF_vars(FutexTimeout(t))
FairSpec == Spec /\ Fairness
-----------------------------------------------------------------------------
Holders == {t \in Threads : pc[t] \in {"cs", "store", "kill"}}

(* Two threads are never both between a successful acquisition and the     *)
(* access that frees the word (_normal_lock, _normal_unlock).              *)
MutualExclusion == \A s, t \in Holders : s = t

(* Nobody is orphaned on the wait queue (comment of _normal_unlock): while *)
(* a thread sleeps on a live mutex, somebody still has to pass through the *)
(* access that will wake it or will keep the word contended.               *)
SleeperIsRemembered ==
    (Asleep # {} /\ ~destroyed) =>
        \/ value = Contended
        \/ \E t \in Threads : pc[t] \in {"swap", "store", "wake", "kill"}

Finished(t) == pc[t] \in {"idle", "cs"}

(* A destroyed mutex is never locked again, although a late lock call      *)
(* overwrites 0xdead10cc with the contended value (pthread_mutex_destroy). *)
DestroyIsFinal == destroyed => Holders = {}

(* A lock call of a mutex nobody destroys returns, once the other threads  *)
(* stop making new calls: no interleaving of swaps, decrements, stores,    *)
(* timeouts and signals loses the wakeup of a sleeping thread.             *)
EveryCallReturns ==
    []~destroyed => \A t \in Threads : ~Finished(t) ~> Finished(t)

(* The lock other code sees.                                               *)
Owner == IF Holders = {} THEN Nobody ELSE CHOOSE t \in Holders : TRUE
Waiting == {t \in Threads : pc[t] \in {"swap", "time", "wait", "asleep"}}
Abstract == INSTANCE AbstractLock WITH owner <- Owner, waiting <- Waiting

(* The word and the futex queue implement that lock: lock, trylock,        *)
(* timedlock, unlock and destroy each take effect in one step.             *)
ImplementsLock == Abstract!Spec
=============================================================================
