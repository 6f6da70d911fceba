---------------------------- MODULE AbstractLock ----------------------------
(***************************************************************************)
(* What a pthread mutex of bionic promises its callers, whatever the word  *)
(* in memory and the futex queue do: a lock has at most one owner, a       *)
(* caller that asked for it either becomes the owner of a free lock or     *)
(* gives up, and a destroyed lock is never owned again.                    *)
(***************************************************************************)
CONSTANTS Threads,  \* the callers
          Nobody    \* the owner of a free lock

VARIABLES owner,      \* the thread that holds the lock, or Nobody
          waiting,    \* the threads inside a blocking lock call
          destroyed   \* TRUE once the lock has been destroyed
vars == <<owner, waiting, destroyed>>

TypeOK == /\ owner \in Threads \cup {Nobody}
          /\ waiting \subseteq Threads
          /\ destroyed \in BOOLEAN

Init == owner = Nobody /\ waiting = {} /\ destroyed = FALSE

Request(t) == /\ owner # t /\ t \notin waiting
              /\ waiting' = waiting \cup {t}
              /\ UNCHANGED <<owner, destroyed>>

Acquire(t) == /\ owner = Nobody /\ ~destroyed
              /\ owner' = t
              /\ waiting' = waiting \ {t}
              /\ UNCHANGED destroyed

GiveUp(t) == /\ t \in waiting
             /\ waiting' = waiting \ {t}
             /\ UNCHANGED <<owner, destroyed>>

Release(t) == /\ owner = t
              /\ owner' = Nobody
              /\ UNCHANGED <<waiting, destroyed>>

Destroy(t) == /\ owner = t
              /\ owner' = Nobody
              /\ destroyed' = TRUE
              /\ UNCHANGED waiting

Next == \E t \in Threads : \/ Request(t) \/ Acquire(t) \/ GiveUp(t)
                           \/ Release(t) \/ Destroy(t)

Spec == Init /\ [][Next]_vars
=============================================================================
