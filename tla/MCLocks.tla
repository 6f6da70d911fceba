------------------------------ MODULE MCLocks -------------------------------
(***************************************************************************)
(* The two implementations of the lock share one run: the initial state    *)
(* says whether threads use a normal mutex or a recursive one.             *)
(***************************************************************************)
EXTENDS NormalMutex

CONSTANTS Owners, Timed, Killers, \* the threads of the recursive mutex
          Recursive, MaxCounter, MaxOwned, Poison

VARIABLES word, mvalue, at, op, late, called, depth \* of the recursive mutex
ownedvars == <<word, mvalue, at, op, late, called, depth>>
Owned == INSTANCE OwnedMutex
           WITH Threads <- Owners, Destroyers <- Killers, MaxCalls <- MaxOwned,
                pc <- at, expired <- late, calls <- called

VARIABLE normal

LocksInit == Init /\ Owned!Init /\ normal \in BOOLEAN
LocksNext == /\ UNCHANGED normal
             /\ \/ normal /\ Next /\ UNCHANGED ownedvars
                \/ ~normal /\ Owned!Next /\ UNCHANGED vars
LocksSpec == /\ LocksInit /\ [][LocksNext]_<<normal, vars, ownedvars>>
             /\ Fairness /\ Owned!Fairness

----------------------------------------------------------------------------
(* The word of the recursive mutex implements the lock, with timeouts and  *)
(* destroy.                                                                *)
OwnedImplementsLock == Owned!ImplementsLock

(* A timedlock returns (__pthread_mutex_timedlock).                        *)
TimedCallsReturn == Owned!TimedCallsReturn
=============================================================================
