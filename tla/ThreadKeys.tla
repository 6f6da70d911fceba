----------------------------- MODULE ThreadKeys -----------------------------
(***************************************************************************)
(* bionic's thread-specific data (pthread_key.cpp) and the part of thread  *)
(* creation it relies on (pthread_create.cpp, pthread_internals.cpp): keys *)
(* in a map under s_tls_map_lock_, values in each thread's own TLS area    *)
(* read without a lock, and pthread_key_delete reaching into the areas of  *)
(* all the threads on g_thread_list.  A value stands for the creation of   *)
(* the key it was set under.                                               *)
(***************************************************************************)
EXTENDS Integers, FiniteSets

CONSTANTS Threads, Main, Nobody,
          BIONIC_TLS_SLOTS, TLS_SLOT_FIRST_USER_SLOT,
          PTHREAD_DESTRUCTOR_ITERATIONS,
          MaxCreates   \* bound: successful calls of pthread_key_create

ASSUME SlotsAssumption ==
    /\ BIONIC_TLS_SLOTS \in Nat \ {0} /\ TLS_SLOT_FIRST_USER_SLOT \in 0 .. BIONIC_TLS_SLOTS
    /\ PTHREAD_DESTRUCTOR_ITERATIONS \in Nat \ {0}
    /\ Main \in Threads /\ Nobody \notin Threads /\ MaxCreates \in Nat

VARIABLES used,       \* the bitmap of allocated keys
          destructor, \* the keys with a destructor
          tls,        \* each thread's area; 0 is NULL
          lock,       \* holder of s_tls_map_lock_
          list,       \* g_thread_list
          pc,         \* where each thread is
          child,      \* the thread that pthread_create is making
          rounds,     \* CleanAll: rounds left
          next,       \* CleanAll: the key its loop is at
          called,     \* CleanAll: whether this round called a destructor
          arg,        \* CleanAll: what the destructor was given
          created,    \* history: keys created
          gen         \* history: which creation each key stands for
map == <<used, destructor, created, gen>>
clean == <<rounds, next, called, arg>>
vars == <<used, destructor, tls, lock, list, pc, child, rounds, next, called, arg, created, gen>>

Keys == 0 .. BIONIC_TLS_SLOTS - 1
UserKeys == TLS_SLOT_FIRST_USER_SLOT .. BIONIC_TLS_SLOTS - 1   \* IsValidUserKey
Values == 0 .. MaxCreates

TypeOK ==
    /\ used \subseteq Keys /\ destructor \subseteq used
    /\ tls \in [Threads -> [Keys -> Values]]
    /\ lock \in Threads \cup {Nobody}
    /\ list \subseteq Threads
    /\ pc \in [Threads -> {"none", "handshake", "running", "cloned", "listed",
                           "clean", "scan", "call", "cleaned", "zombie"}]
    /\ child \in [Threads -> Threads \cup {Nobody}]
    /\ rounds \in [Threads -> 0 .. PTHREAD_DESTRUCTOR_ITERATIONS]
    /\ next \in [Threads -> 0 .. BIONIC_TLS_SLOTS]
    /\ called \in [Threads -> BOOLEAN]
    /\ arg \in [Threads -> [key : Keys, value : Values]]
    /\ created \in Values /\ gen \in [Keys -> Values]

Init == /\ used = 0 .. TLS_SLOT_FIRST_USER_SLOT - 1
        /\ destructor = {}
        /\ tls = [t \in Threads |-> [k \in Keys |-> 0]]
        /\ lock = Nobody
        /\ list = {Main}
        /\ pc = [t \in Threads |-> IF t = Main THEN "running" ELSE "none"]
        /\ child = [t \in Threads |-> Nobody]
        /\ rounds = [t \in Threads |-> PTHREAD_DESTRUCTOR_ITERATIONS]
        /\ next = [t \in Threads |-> 0]
        /\ called = [t \in Threads |-> FALSE]
        /\ arg = [t \in Threads |-> [key |-> 0, value |-> 0]]
        /\ created = 0 /\ gen = [k \in Keys |-> 0]

Goto(t, place) == pc' = [pc EXCEPT ![t] = place]

(* User code runs in a thread or in a destructor, and each call on keys is *)
(* one critical section of the map's lock.                                 *)
CallsWithLock(t) == pc[t] \in {"running", "call"} /\ lock = Nobody

(* The first unallocated key; EAGAIN leaves everything as it was.          *)
CreateKey(t) ==
    /\ CallsWithLock(t) /\ created < MaxCreates
    /\ \E key \in Keys \ used :
          /\ \A k \in Keys \ used : key <= k
          /\ used' = used \cup {key}
          /\ destructor' \in {destructor, destructor \cup {key}}
          /\ gen' = [gen EXCEPT ![key] = created + 1]
    /\ created' = created + 1
    /\ UNCHANGED <<tls, lock, list, pc, child, clean>>

(* A delete that clears the caller's own value only.                       *)
DeleteOwn(t) ==
    /\ CallsWithLock(t)
    /\ \E key \in UserKeys \cap used :
          /\ tls' = [tls EXCEPT ![t][key] = 0]
          /\ used' = used \ {key}
          /\ destructor' = destructor \ {key}
    /\ UNCHANGED <<lock, list, pc, child, clean, created, gen>>

(* pthread_key_delete, also under g_thread_list_lock; a zombie's tid is 0. *)
pthread_key_delete(t) ==
    /\ CallsWithLock(t)
    /\ \E key \in UserKeys \cap used :
          /\ tls' = [u \in Threads |-> IF u \in list /\ pc[u] # "zombie"
                                       THEN [tls[u] EXCEPT ![key] = 0] ELSE tls[u]]
          /\ used' = used \ {key}
          /\ destructor' = destructor \ {key}
    /\ UNCHANGED <<lock, list, pc, child, clean, created, gen>>

pthread_getspecific(t, key) == IF key \in UserKeys THEN tls[t][key] ELSE 0

pthread_setspecific(t) ==
    /\ CallsWithLock(t)
    /\ \E key \in UserKeys \cap used :
          \E value \in {0, gen[key]} : tls' = [tls EXCEPT ![t][key] = value]
    /\ UNCHANGED <<map, lock, list, pc, child, clean>>

----------------------------------------------------------------------------
(* A creation that lets the new thread run as soon as it is cloned.        *)
CloneRunning(t) ==
    /\ pc[t] = "running"
    /\ \E c \in Threads : /\ pc[c] = "none"
                          /\ pc' = [pc EXCEPT ![t] = "cloned", ![c] = "running"]
                          /\ child' = [child EXCEPT ![t] = c]
    /\ UNCHANGED <<map, tls, lock, list, clean>>

(* pthread_create up to clone: the new thread, its area cleared, waits for *)
(* its startup_handshake_mutex.                                            *)
Clone(t) ==
    /\ pc[t] = "running"
    /\ \E c \in Threads : /\ pc[c] = "none"
                          /\ pc' = [pc EXCEPT ![t] = "cloned", ![c] = "handshake"]
                          /\ child' = [child EXCEPT ![t] = c]
                          /\ tls' = [tls EXCEPT ![c] = [k \in Keys |-> 0]]
    /\ UNCHANGED <<map, lock, list, clean>>

(* __init_thread: _pthread_internal_add.                                   *)
AddToList(t) == /\ pc[t] = "cloned"
                /\ list' = list \cup {child[t]}
                /\ Goto(t, "listed")
                /\ UNCHANGED <<map, tls, lock, child, clean>>

(* The unlock; after a scheduling error the thread only does nothing.      *)
ReleaseChild(t) ==
    /\ pc[t] = "listed"
    /\ \E place \in {"running", "clean"} : pc' = [pc EXCEPT ![t] = "running", ![child[t]] = place]
    /\ child' = [child EXCEPT ![t] = Nobody]
    /\ UNCHANGED <<map, tls, lock, list, clean>>

----------------------------------------------------------------------------
(* pthread_exit begins with pthread_key_clean_all.                         *)
pthread_exit(t) == /\ pc[t] = "running"
                   /\ Goto(t, "clean")
                   /\ UNCHANGED <<map, tls, lock, list, child, clean>>

Lock(t) == /\ pc[t] = "clean" /\ lock = Nobody
           /\ lock' = t
           /\ Goto(t, "scan")
           /\ UNCHANGED <<map, tls, list, child, clean>>

Due(t) == {k \in Keys \cap used \cap destructor : k >= next[t] /\ tls[t][k] # 0}

(* A scan that calls the destructor with the map's lock held.              *)
CallLocked(t) ==
    /\ pc[t] = "scan"
    /\ \E key \in Due(t) :
          /\ \A k \in Due(t) : key <= k
          /\ arg' = [arg EXCEPT ![t] = [key |-> key, value |-> tls[t][key]]]
          /\ tls' = [tls EXCEPT ![t][key] = 0]
          /\ next' = [next EXCEPT ![t] = key + 1]
    /\ called' = [called EXCEPT ![t] = TRUE]
    /\ Goto(t, "call")
    /\ UNCHANGED <<map, lock, list, child, rounds>>

(* A scan that leaves the value in place for its destructor to clear.      *)
CallUncleared(t) ==
    /\ pc[t] = "scan"
    /\ \E key \in Due(t) :
          /\ \A k \in Due(t) : key <= k
          /\ arg' = [arg EXCEPT ![t] = [key |-> key, value |-> tls[t][key]]]
          /\ next' = [next EXCEPT ![t] = key + 1]
    /\ called' = [called EXCEPT ![t] = TRUE]
    /\ lock' = Nobody
    /\ Goto(t, "call")
    /\ UNCHANGED <<map, tls, list, child, rounds>>

(* CleanAll's inner loop, up to the next destructor: the value is cleared  *)
(* and the lock released before the call.                                  *)
CallDestructor(t) ==
    /\ pc[t] = "scan"
    /\ \E key \in Due(t) :
          /\ \A k \in Due(t) : key <= k
          /\ arg' = [arg EXCEPT ![t] = [key |-> key, value |-> tls[t][key]]]
          /\ tls' = [tls EXCEPT ![t][key] = 0]
          /\ next' = [next EXCEPT ![t] = key + 1]
    /\ called' = [called EXCEPT ![t] = TRUE]
    /\ lock' = Nobody
    /\ Goto(t, "call")
    /\ UNCHANGED <<map, list, child, rounds>>

DestructorReturns(t) == /\ pc[t] = "call" /\ lock = Nobody
                        /\ lock' = t
                        /\ Goto(t, "scan")
                        /\ UNCHANGED <<map, tls, list, child, clean>>

(* One round only.                                                         *)
EndScan(t) ==
    /\ pc[t] = "scan" /\ Due(t) = {}
    /\ Goto(t, "cleaned") /\ lock' = Nobody
    /\ rounds' = [rounds EXCEPT ![t] = @ - 1]
    /\ UNCHANGED <<map, tls, list, child, next, called, arg>>

(* The end of a round: another one while this one called a destructor.     *)
EndRound(t) ==
    /\ pc[t] = "scan" /\ Due(t) = {}
    /\ rounds' = [rounds EXCEPT ![t] = IF called[t] THEN @ - 1 ELSE @]
    /\ next' = [next EXCEPT ![t] = 0]
    /\ called' = [called EXCEPT ![t] = FALSE]
    /\ IF called[t] /\ rounds[t] > 1 THEN UNCHANGED <<pc, lock>>
                                     ELSE Goto(t, "cleaned") /\ lock' = Nobody
    /\ UNCHANGED <<map, tls, list, child, arg>>

(* The rest of pthread_exit: the thread leaves the list, or stays on it    *)
(* without a tid until it is joined.                                       *)
Die(t) == /\ pc[t] = "cleaned"
          /\ Goto(t, "zombie")
          /\ list' \in {list, list \ {t}}
          /\ UNCHANGED <<map, tls, lock, child, clean>>

Scan(t) == Lock(t) \/ CallDestructor(t) \/ DestructorReturns(t) \/ EndRound(t)

Next == \E t \in Threads :
           \/ CreateKey(t) \/ pthread_key_delete(t) \/ pthread_setspecific(t)
           \/ Clone(t) \/ AddToList(t) \/ ReleaseChild(t)
           \/ pthread_exit(t) \/ Scan(t) \/ Die(t)

Spec == Init /\ [][Next]_vars

(* Destructors return; and the map's lock, which each exiting thread holds *)
(* for a bounded number of rounds, is obtained by who keeps asking.        *)
FairSpec == Spec /\ \A t \in Threads :
               /\ WF_vars(Lock(t)) /\ WF_vars(DestructorReturns(t))
               /\ WF_vars(CallDestructor(t) \/ EndRound(t))

----------------------------------------------------------------------------
Runs(t) == pc[t] \in {"running", "cloned", "listed", "call"}

(* "If the key was not allocated, the value read from the TLS should       *)
(* always be NULL due to pthread_key_delete() clearing the values for all  *)
(* threads": the unlocked read of a thread that runs user code is safe.    *)
UnallocatedReadsNull ==
    \A t \in Threads : Runs(t) => \A key \in UserKeys \ used : pthread_getspecific(t, key) = 0

(* A key created again in a slot never shows a value set under its         *)
(* predecessor, in a thread or to the new destructor.                      *)
ValuesAreOfTheirKey ==
    \A t \in Threads : \A key \in UserKeys :
       Runs(t) /\ key \in used => pthread_getspecific(t, key) \in {0, gen[key]}

(* A destructor, called without the lock, gets a value of the key it was   *)
(* registered with; and a thread in its destructor no longer sees it.      *)
RightDestructor ==
    \A t \in Threads : pc[t] = "scan" /\ pc'[t] = "call" =>
       LET key == arg'[t].key
       IN  key \in destructor /\ arg'[t].value = gen[key] /\ tls'[t][key] = 0
DestructorGetsItsValue == [][RightDestructor]_vars

(* pthread_exit leaves a value behind that has a destructor only after     *)
(* PTHREAD_DESTRUCTOR_ITERATIONS rounds, whatever its destructors and      *)
(* other threads do to the keys meanwhile.                                 *)
CleanUnlessExhausted ==
    \A t \in Threads : pc[t] = "cleaned" /\ rounds[t] > 0 =>
                          \A key \in destructor : tls[t][key] = 0

(* "Because destructors can do funky things", the rounds are bounded, and  *)
(* the lock is free while they run: an exiting thread gets through.        *)
ExitCompletes == \A t \in Threads : pc[t] = "clean" ~> pc[t] = "cleaned"
=============================================================================
