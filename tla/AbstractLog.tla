---------------------------- MODULE AbstractLog -----------------------------
(***************************************************************************)
(* What /dev/log/<name> promises: entries 1, 2, ... are appended; every    *)
(* reader has a position in that sequence that only moves forward, and a   *)
(* read returns an entry that is neither older than the position nor       *)
(* overwritten.  Old entries are lost when the ring needs their room.      *)
(***************************************************************************)
EXTENDS Naturals

CONSTANT Readers

VARIABLES count,  \* entries appended so far
          first,  \* the oldest entry that is still intact
          open,   \* readers that are open
          pos,    \* each reader's next entry
          got     \* the entry it returned last, 0 if none
vars == <<count, first, open, pos, got>>

Init == /\ count = 0 /\ first = 1
        /\ open = {}
        /\ pos = [r \in Readers |-> 1]
        /\ got = [r \in Readers |-> 0]

(* Old entries go.  Only the readers that stood at one are moved, to an    *)
(* intact entry or to the end.                                             *)
Lap == /\ first' \in first .. count + 1
       /\ pos' \in [Readers -> 1 .. count + 1]
       /\ \A r \in Readers : IF r \in open /\ pos[r] < first' THEN pos'[r] >= first'
                                                           ELSE pos'[r] = pos[r]

Append == Lap /\ count' = count + 1 /\ UNCHANGED <<open, got>>
Drop   == Lap /\ UNCHANGED <<count, open, got>>

(* Readers pass by entries: those of other users, or all when it is flushed. *)
Skip == /\ pos' \in [Readers -> 1 .. count + 1]
        /\ \A r \in Readers : pos'[r] >= pos[r] /\ (r \notin open => pos'[r] = pos[r])
        /\ UNCHANGED <<count, first, open, got>>

Open(r) == /\ r \notin open
           /\ open' = open \cup {r}
           /\ pos' \in {[pos EXCEPT ![r] = p] : p \in first .. count + 1}
           /\ got' = [got EXCEPT ![r] = 0]
           /\ UNCHANGED <<count, first>>

Close(r) == /\ r \in open
            /\ open' = open \ {r}
            /\ pos' = [pos EXCEPT ![r] = 1]
            /\ UNCHANGED <<count, first, got>>

Read(r) == /\ r \in open
           /\ got' \in {[got EXCEPT ![r] = e] : e \in pos[r] .. count}
           /\ pos' = [pos EXCEPT ![r] = got'[r] + 1]
           /\ UNCHANGED <<count, first, open>>

Next == Append \/ Drop \/ Skip \/ \E r \in Readers : Open(r) \/ Close(r) \/ Read(r)

Spec == Init /\ [][Next]_vars
=============================================================================
