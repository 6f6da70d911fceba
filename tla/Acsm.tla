-------------------------------- MODULE Acsm --------------------------------
(***************************************************************************)
(* The Aho-Corasick matcher of src/algo: patterns are added, compiled into *)
(* a table of states with failure links in breadth-first order, and texts  *)
(* are run through the table.  The match list of a state is a set, since   *)
(* acsm_search only asks whether there is one; allocations succeed.        *)
(***************************************************************************)
EXTENDS Integers, Sequences
LOCAL INSTANCE SequencesExt

CONSTANTS Chars,    \* the characters in use, in the order of their codes
          Lower,    \* acsm_tolower
          Patterns, \* those that may be added
          MaxPatterns, MaxText \* bounds: patterns of a context, length of a text

ASSUME PatternsAssumption ==
    /\ Chars \subseteq Nat /\ Lower \in [Chars -> Chars]
    /\ Patterns \subseteq Seq(Chars) \ {<<>>}

VARIABLES no_case, patterns,
          next_state, fail_state, match_list, \* the columns of state_table
          num_state,
          work_queue, \* of states, the next one first
          p,          \* patterns that the goto function does not have yet
          state, seen, \* of the search, and what it has read
          acpc        \* add, goto, failure, search or match
acvars == <<no_case, patterns, next_state, fail_state, match_list, num_state,
            work_queue, p, state, seen, acpc>>

ACSM_FAIL_STATE == -1
Case(c) == IF no_case THEN Lower[c] ELSE c
max_state == 1 + FoldLeft(LAMBDA n, s : n + Len(s), 0, patterns)

AcsmInit ==
    /\ no_case \in BOOLEAN /\ patterns = <<>>
    /\ next_state = <<>> /\ fail_state = <<>> /\ match_list = <<>> /\ num_state = 0
    /\ work_queue = <<>> /\ p = <<>> /\ state = 0 /\ seen = <<>> /\ acpc = "add"

acsm_add_pattern(string) ==
    /\ acpc = "add" /\ Len(patterns) < MaxPatterns
    /\ patterns' = <<[i \in DOMAIN string |-> Case(string[i])]>> \o patterns
    /\ UNCHANGED <<no_case, next_state, fail_state, match_list, num_state, work_queue, p,
                   state, seen, acpc>>

(* acsm_compile up to its first loop.                                      *)
acsm_compile ==
    /\ acpc = "add"
    /\ next_state' = [s \in 0 .. max_state - 1 |-> [c \in Chars |-> ACSM_FAIL_STATE]]
    /\ fail_state' = [s \in 0 .. max_state - 1 |-> 0]
    /\ match_list' = [s \in 0 .. max_state - 1 |-> {}]
    /\ p' = patterns /\ acpc' = "goto"
    /\ UNCHANGED <<no_case, patterns, num_state, work_queue, state, seen>>

(* The goto function for the next pattern: the states of its prefix that   *)
(* are there are followed, the others are added.                           *)
Follow(at, c) ==
    IF at.next[at.state][c] # ACSM_FAIL_STATE
    THEN [at EXCEPT !.state = at.next[at.state][c]]
    ELSE [state |-> at.num + 1, num |-> at.num + 1,
          next |-> [at.next EXCEPT ![at.state][c] = at.num + 1]]
GotoFunction ==
    /\ acpc = "goto" /\ p # <<>>
    /\ LET end == FoldLeft(Follow, [state |-> 0, num |-> num_state, next |-> next_state], Head(p))
       IN  /\ next_state' = end.next
           /\ num_state' = end.num
           /\ match_list' = [match_list EXCEPT ![end.state] = @ \cup {Head(p)}]
    /\ p' = Tail(p)
    /\ UNCHANGED <<no_case, patterns, fail_state, work_queue, state, seen, acpc>>

(* The states that T leads to through the characters C, in their order.    *)
InOrder(T, C) == [i \in DOMAIN SetToSortSeq(C, <) |-> T[SetToSortSeq(C, <)[i]]]

Root ==
    /\ acpc = "goto" /\ p = <<>>
    /\ LET first == {c \in Chars : next_state[0][c] # ACSM_FAIL_STATE} IN
       /\ next_state' = [next_state EXCEPT ![0] = [c \in Chars |-> IF c \in first THEN @[c] ELSE 0]]
       /\ work_queue' = InOrder(next_state[0], first)
    /\ acpc' = IF work_queue' = <<>> THEN "search" ELSE "failure"
    /\ UNCHANGED <<no_case, patterns, fail_state, match_list, num_state, p, state, seen>>

(* The inner loop of both the failure function and the search.             *)
RECURSIVE Fall(_, _)
Fall(s, c) == IF next_state[s][c] # ACSM_FAIL_STATE THEN next_state[s][c]
              ELSE Fall(fail_state[s], c)

(* Without acsm_state_union_match_pattern.                                 *)
OwnMatchesOnly ==
    /\ acpc = "failure"
    /\ LET r == Head(work_queue)
           ahead == {c \in Chars : next_state[r][c] # ACSM_FAIL_STATE}
           fall(s) == Fall(fail_state[r], CHOOSE c \in ahead : next_state[r][c] = s)
           succ == {next_state[r][c] : c \in ahead}
       IN  /\ fail_state' = [s \in DOMAIN fail_state |->
                                IF s \in succ THEN fall(s) ELSE fail_state[s]]
           /\ UNCHANGED match_list
           /\ next_state' = [next_state EXCEPT ![r] =
                 [c \in Chars |-> IF c \in ahead THEN @[c] ELSE next_state[fail_state[r]][c]]]
           /\ work_queue' = Tail(work_queue) \o InOrder(next_state[r], ahead)
    /\ acpc' = IF work_queue' = <<>> THEN "search" ELSE acpc
    /\ UNCHANGED <<no_case, patterns, num_state, p, state, seen>>

(* The failure function for a state r of the queue: its successors fail to *)
(* where r's failure state goes, match what that matches and are queued;   *)
(* the characters it has no successor for lead where they lead from there. *)
FailureFunction ==
    /\ acpc = "failure"
    /\ LET r == Head(work_queue)
           ahead == {c \in Chars : next_state[r][c] # ACSM_FAIL_STATE}
           fall(s) == Fall(fail_state[r], CHOOSE c \in ahead : next_state[r][c] = s)
           succ == {next_state[r][c] : c \in ahead}
       IN  /\ fail_state' = [s \in DOMAIN fail_state |->
                                IF s \in succ THEN fall(s) ELSE fail_state[s]]
           /\ match_list' = [s \in DOMAIN match_list |->
                                IF s \in succ THEN match_list[s] \cup match_list[fall(s)]
                                ELSE match_list[s]]
           /\ next_state' = [next_state EXCEPT ![r] =
                 [c \in Chars |-> IF c \in ahead THEN @[c] ELSE next_state[fail_state[r]][c]]]
           /\ work_queue' = Tail(work_queue) \o InOrder(next_state[r], ahead)
    /\ acpc' = IF work_queue' = <<>> THEN "search" ELSE acpc
    /\ UNCHANGED <<no_case, patterns, num_state, p, state, seen>>

(* acsm_search reads a character of a text and returns 1 at a match.       *)
acsm_search(c) ==
    /\ acpc = "search" /\ Len(seen) < MaxText
    /\ state' = Fall(state, Case(c))
    /\ seen' = Append(seen, c)
    /\ acpc' = IF match_list[state'] # {} THEN "match" ELSE acpc
    /\ UNCHANGED <<no_case, patterns, next_state, fail_state, match_list, num_state,
                   work_queue, p>>

AcsmNext ==
    \/ \E s \in Patterns : acsm_add_pattern(s)
    \/ acsm_compile \/ GotoFunction \/ Root \/ FailureFunction
    \/ \E c \in Chars : acsm_search(c)

AcsmSpec == AcsmInit /\ [][AcsmNext]_acvars

----------------------------------------------------------------------------
(* Every variable of the model keeps its type.                             *)
AcsmTypeOK ==
    /\ no_case \in BOOLEAN /\ patterns \in Seq(Seq(Chars)) /\ num_state \in Nat
    /\ acpc # "add" =>
          LET States == 0 .. max_state - 1 IN
          /\ next_state \in [States -> [Chars -> States \cup {ACSM_FAIL_STATE}]]
          /\ fail_state \in [States -> States]
          /\ match_list \in [States -> SUBSET {patterns[i] : i \in DOMAIN patterns}]
          /\ work_queue \in Seq(States) /\ state \in States

(* What is asked for: a pattern stands somewhere in what was read, with    *)
(* the case of both disregarded if so asked.                               *)
Occurs == \E i \in DOMAIN patterns, from \in 1 .. Len(seen) :
             /\ from + Len(patterns[i]) - 1 <= Len(seen)
             /\ \A k \in DOMAIN patterns[i] : patterns[i][k] = Case(seen[from + k - 1])

(* acsm_search returns 1 with the first character at which a pattern has   *)
(* occurred, one inside another and one overlapping another too, and never *)
(* otherwise; and the table is large enough for the states compiled.       *)
MatchesAreFound ==
    /\ acpc \in {"search", "match"} => (acpc = "match" <=> Occurs)
    /\ num_state < max_state
=============================================================================
