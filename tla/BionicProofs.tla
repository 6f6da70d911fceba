---------------------------- MODULE BionicProofs ----------------------------
(***************************************************************************)
(* Theorems about two parts of bionic: the futex mutex of NormalMutex, for *)
(* any set of threads, and the dynamic linker of Linker, for any libraries *)
(* and any depth of calls from inside init and fini functions.             *)
(*                                                                         *)
(* The mutex: MutualExclusion is not inductive: a second thread acquires   *)
(* when the word reads 0, so the invariant says which words a holder can   *)
(* leave behind.  TypeOK belongs to it too: the decrement of unlock stays  *)
(* in range only because a holder's word is 1 or 2.                        *)
(*                                                                         *)
(* The linker: LibrariesAreHeld speaks of the moments between calls and of *)
(* what is constructed.  LinkInv says what holds in the middle: every      *)
(* reference is a handle, a link or an activation's (Counted); how the     *)
(* activations lie on each other (Stacked); that what a library needs is   *)
(* constructed or next on its list (Ready); that the links have no circle  *)
(* (Acyclic); and that the libraries of a load under way, or of one that   *)
(* failed and is being undone, hang together on top of the stack while all *)
(* the others are whole (Halves).                                          *)
(***************************************************************************)
EXTENDS NormalMutex, Linker, WellFoundedInduction, FiniteSetTheorems, TLAPS

(* 0 means free: a holder leaves 1 or 2 in the word until it gives it up.  *)
WordAgrees == \A t \in Holders : value \in {Uncontended, Contended} /\ ~destroyed

(* Once destroyed, the word never reads as unlocked again.                 *)
DeadStaysDead == destroyed => value # Unlocked

IInv == TypeOK /\ MutualExclusion /\ WordAgrees /\ DeadStaysDead

(* The initial mutex is free and of the right type.                        *)
LEMMA InitIInv == Init => IInv
<1> SUFFICES ASSUME Init PROVE IInv
  OBVIOUS
<1>1. calls \in [Threads -> 0 .. MaxCalls]
  BY MaxCallsAssumption DEF Init
<1>2. TypeOK
  BY <1>1 DEF Init, TypeOK, Places, Unlocked
<1>3. Holders = {}
  BY DEF Init, Holders
<1> QED BY <1>2, <1>3 DEF IInv, MutualExclusion, WordAgrees, DeadStaysDead, Init

(* An acquiring call: the cmpxchg from 0 to 1.                             *)
LEMMA CallIInv ==
    ASSUME IInv, NEW t \in Threads, Call(t),
           NEW won \in {"cs", "kill"}, NEW lost \in {"idle", "swap"},
           TryAcquire(t, won, lost), UNCHANGED destroyed,
           timed' \in [Threads -> BOOLEAN], expired' \in [Threads -> BOOLEAN]
    PROVE  IInv'
<1> USE DEF Unlocked, Uncontended, Contended, Dead
<1>1. calls' \in [Threads -> 0 .. MaxCalls]
  BY MaxCallsAssumption DEF Call, IInv, TypeOK
<1>2. TypeOK'
  BY <1>1 DEF IInv, TypeOK, TryAcquire, Goto, Places
<1>3. MutualExclusion' /\ WordAgrees' /\ DeadStaysDead'
  BY DEF IInv, TypeOK, TryAcquire, Goto, Places, MutualExclusion, WordAgrees,
         DeadStaysDead, Holders, Call
<1> QED BY <1>2, <1>3 DEF IInv

(* Every other step keeps calls, timed and expired typed and moves one     *)
(* thread, or wakes one that does not hold the mutex.                      *)
LEMMA StepIInv ==
    ASSUME IInv, NEW t \in Threads,
           Acquiring(t) \/ Releasing(t) \/ FutexReturn(t) \/ Expire(t)
    PROVE  IInv'
<1> USE DEF IInv, TypeOK, Places, Unlocked, Uncontended, Contended, Dead, Goto,
            MutualExclusion, WordAgrees, DeadStaysDead, Holders
<1>1. CASE Swap(t)           BY <1>1 DEF Swap
<1>2. CASE CheckTime(t)      BY <1>2 DEF CheckTime
<1>3. CASE FutexWait(t)      BY <1>3 DEF FutexWait
<1>4. CASE Unlock(t)         BY <1>4 DEF Unlock
<1>5. CASE StoreUnlocked(t)  BY <1>5 DEF StoreUnlocked
<1>6. CASE FutexWake(t)      BY <1>6 DEF FutexWake, Asleep
<1>7. CASE StoreDead(t)      BY <1>7 DEF StoreDead
<1>8. CASE FutexReturn(t)    BY <1>8 DEF FutexReturn
<1>9. CASE Expire(t)         BY <1>9 DEF Expire
<1> QED BY <1>1, <1>2, <1>3, <1>4, <1>5, <1>6, <1>7, <1>8, <1>9 DEF Acquiring, Releasing

LEMMA NextIInv == IInv /\ [Next]_vars => IInv'
<1> SUFFICES ASSUME IInv, [Next]_vars PROVE IInv'
  OBVIOUS
<1>1. CASE UNCHANGED vars
  BY <1>1 DEF vars, IInv, TypeOK, MutualExclusion, WordAgrees, DeadStaysDead, Holders
<1>2. ASSUME NEW t \in Threads, Lock(t) PROVE IInv'
  BY <1>2, CallIInv DEF Lock, IInv, TypeOK
<1>3. ASSUME NEW t \in Threads, TimedLock(t) PROVE IInv'
  BY <1>3, CallIInv DEF TimedLock, IInv, TypeOK
<1>4. ASSUME NEW t \in Threads, TryLock(t) \/ Destroy(t) PROVE IInv'
  BY <1>4, CallIInv DEF TryLock, Destroy, IInv, TypeOK
<1> QED BY <1>1, <1>2, <1>3, <1>4, StepIInv DEF Next

(* The model never leaves the declared ranges, and no interleaving of      *)
(* lock, trylock, timedlock, unlock and destroy lets two threads in.       *)
THEOREM TypeCorrect == Spec => []TypeOK
<1> QED BY InitIInv, NextIInv, PTL DEF Spec, IInv

THEOREM MutexExcludes == Spec => []MutualExclusion
<1> QED BY InitIInv, NextIInv, PTL DEF Spec, IInv

(* A sleeper of a live mutex is still owed a wakeup: SleeperIsRemembered   *)
(* is preserved by every step on its own, given the types.                 *)
THEOREM NobodyOrphaned == Spec => []SleeperIsRemembered
<1>1. Init => SleeperIsRemembered
  BY DEF Init, SleeperIsRemembered, Asleep
<1>2. TypeOK /\ SleeperIsRemembered /\ [Next]_vars => SleeperIsRemembered'
  <2> SUFFICES ASSUME TypeOK, SleeperIsRemembered, [Next]_vars
               PROVE  SleeperIsRemembered'
    OBVIOUS
  <2> USE DEF SleeperIsRemembered, Asleep, TypeOK, Places, Goto,
              Unlocked, Uncontended, Contended, Dead
  <2>1. CASE UNCHANGED vars
    BY <2>1 DEF vars
  <2>2. ASSUME NEW t \in Threads, Lock(t) \/ TimedLock(t) \/ TryLock(t) \/ Destroy(t)
        PROVE  SleeperIsRemembered'
    BY <2>2 DEF Lock, TimedLock, TryLock, Destroy, Call, TryAcquire
  <2>3. ASSUME NEW t \in Threads, Acquiring(t) PROVE SleeperIsRemembered'
    BY <2>3 DEF Acquiring, Swap, CheckTime, FutexWait
  <2>4. ASSUME NEW t \in Threads, Unlock(t) PROVE SleeperIsRemembered'
    BY <2>4 DEF Unlock
  <2>5. ASSUME NEW t \in Threads, StoreUnlocked(t) PROVE SleeperIsRemembered'
    BY <2>5 DEF StoreUnlocked
  <2>6. ASSUME NEW t \in Threads, FutexWake(t) PROVE SleeperIsRemembered'
    BY <2>6 DEF FutexWake
  <2>7. ASSUME NEW t \in Threads, StoreDead(t) PROVE SleeperIsRemembered'
    BY <2>7 DEF StoreDead
  <2>8. ASSUME NEW t \in Threads, FutexReturn(t) \/ Expire(t)
        PROVE  SleeperIsRemembered'
    BY <2>8 DEF FutexReturn, Expire
  <2> QED
    BY <2>1, <2>2, <2>3, <2>4, <2>5, <2>6, <2>7, <2>8 DEF Next, Releasing
<1> QED BY <1>1, <1>2, TypeCorrect, PTL DEF Spec

(* pthread_mutex_destroy leaves a word no later call can acquire.          *)
THEOREM DestroyedForGood == Spec => []DestroyIsFinal
<1>1. IInv => DestroyIsFinal
  BY DEF IInv, WordAgrees, DestroyIsFinal
<1> QED BY <1>1, InitIInv, NextIInv, PTL DEF Spec
-----------------------------------------------------------------------------
(* Refinement: the lock other code sees.                                   *)
OwnerIsHolder == /\ \A t \in Holders : Owner = t
                 /\ Holders = {} <=> Owner = Nobody

(* The mapped owner is the one thread in Holders.                          *)
LEMMA OwnerHolds == IInv => OwnerIsHolder
  BY NobodyAssumption DEF IInv, MutualExclusion, Owner, Holders, OwnerIsHolder

(* Each call takes effect on the abstract lock in one of its steps.        *)
LEMMA StepImplements == IInv /\ IInv' /\ [Next]_vars => [Abstract!Next]_(Abstract!vars)
<1> SUFFICES ASSUME IInv, IInv', [Next]_vars PROVE [Abstract!Next]_(Abstract!vars)
  OBVIOUS
<1>1. OwnerIsHolder
  BY OwnerHolds
<1>2. OwnerIsHolder'
  <2>1. IInv' => OwnerIsHolder'
    BY OwnerHolds, PTL
  <2> QED BY <2>1
<1> USE <1>1, <1>2 DEF OwnerIsHolder, Abstract!vars, IInv, TypeOK, Places, Goto,
                       Unlocked, Uncontended, Contended, Dead
<1> HIDE DEF Owner
<1>3. value = Unlocked => Holders = {} /\ ~destroyed
  BY DEF WordAgrees, DeadStaysDead, Holders
<1>4. ASSUME NEW t \in Threads, Lock(t) \/ TimedLock(t)
      PROVE  Abstract!Acquire(t) \/ Abstract!Request(t)
  <2>1. CASE value = Unlocked
    <3>1. t \in Holders' /\ Waiting' = Waiting \ {t} /\ ~destroyed'
      BY <1>3, <1>4, <2>1 DEF Lock, TimedLock, Call, TryAcquire, Holders, Waiting
    <3> QED BY <1>3, <2>1, <3>1 DEF Abstract!Acquire
  <2>2. CASE value # Unlocked
    <3>1. t \notin Holders /\ t \notin Waiting /\ Holders' = Holders
      BY <1>4, <2>2 DEF Lock, TimedLock, Call, TryAcquire, Holders, Waiting
    <3>2. Waiting' = Waiting \cup {t} /\ UNCHANGED destroyed
      BY <1>4, <2>2 DEF Lock, TimedLock, Call, TryAcquire, Waiting
    <3>3. Owner # t /\ Owner' = Owner
      BY <3>1, NobodyAssumption DEF Holders, Owner
    <3> QED BY <3>1, <3>2, <3>3 DEF Abstract!Request
  <2> QED BY <2>1, <2>2
<1>5. ASSUME Holders' = Holders, Waiting' = Waiting, UNCHANGED destroyed
      PROVE  UNCHANGED Abstract!vars
  BY <1>5 DEF Owner
<1>6. ASSUME NEW t \in Threads, TryLock(t) \/ Destroy(t) \/ Swap(t)
      PROVE  Abstract!Acquire(t) \/ UNCHANGED Abstract!vars
  <2> USE DEF TryLock, Destroy, Swap, Call, TryAcquire, Holders, Waiting
  <2>1. CASE value = Unlocked
    <3>1. t \in Holders' /\ Waiting' = Waiting \ {t} /\ ~destroyed'
      BY <1>3, <1>6, <2>1
    <3> QED BY <1>3, <2>1, <3>1 DEF Abstract!Acquire
  <2>2. CASE value # Unlocked
    BY <1>5, <1>6, <2>2
  <2> QED BY <2>1, <2>2
<1>7. ASSUME NEW t \in Threads, CheckTime(t)
      PROVE  Abstract!GiveUp(t) \/ UNCHANGED Abstract!vars
  <2>1. Holders' = Holders /\ UNCHANGED destroyed /\ t \in Waiting
    BY <1>7 DEF CheckTime, Holders, Waiting
  <2>2. Waiting' = IF expired[t] THEN Waiting \ {t} ELSE Waiting
    BY <1>7 DEF CheckTime, Waiting
  <2> QED BY <1>5, <2>1, <2>2 DEF Abstract!GiveUp, Owner
<1>8. ASSUME NEW t \in Threads, FutexWait(t) \/ FutexReturn(t) \/ Expire(t)
      PROVE  UNCHANGED Abstract!vars
  BY <1>5, <1>8 DEF FutexWait, FutexReturn, Expire, Holders, Waiting
<1>9. ASSUME NEW t \in Threads, FutexWake(t)
      PROVE  UNCHANGED Abstract!vars
  BY <1>5, <1>9 DEF FutexWake, Asleep, Holders, Waiting
<1>10. ASSUME NEW t \in Threads, Unlock(t) \/ StoreUnlocked(t)
       PROVE  Abstract!Release(t) \/ UNCHANGED Abstract!vars
  <2>1. t \in Holders /\ Waiting' = Waiting /\ UNCHANGED destroyed
    BY <1>10 DEF Unlock, StoreUnlocked, Holders, Waiting
  <2>2. Holders' = Holders \/ Holders' = Holders \ {t}
    BY <1>10 DEF Unlock, StoreUnlocked, Holders
  <2>3. Holders \ {t} = {}
    BY <2>1 DEF MutualExclusion
  <2> QED BY <1>5, <2>1, <2>2, <2>3 DEF Abstract!Release
<1>11. ASSUME NEW t \in Threads, StoreDead(t)
       PROVE  Abstract!Destroy(t)
  <2>1. t \in Holders /\ Waiting' = Waiting /\ destroyed' = TRUE
    BY <1>11 DEF StoreDead, Holders, Waiting
  <2>2. Holders' = Holders \ {t}
    BY <1>11 DEF StoreDead, Holders
  <2>3. Holders \ {t} = {}
    BY <2>1 DEF MutualExclusion
  <2> QED BY <2>1, <2>2, <2>3 DEF Abstract!Destroy
<1>12. CASE UNCHANGED vars
  BY <1>5, <1>12 DEF vars, Holders, Waiting
<1> QED
  BY <1>4, <1>6, <1>7, <1>8, <1>9, <1>10, <1>11, <1>12
     DEF Next, Acquiring, Releasing, Abstract!Next

(* The futex protocol of pthread_mutex.cpp implements AbstractLock.        *)
THEOREM Implementation == Spec => ImplementsLock
<1>1. Init => Abstract!Init
  BY NobodyAssumption DEF Init, Abstract!Init, Owner, Holders, Waiting
<1> QED BY <1>1, StepImplements, InitIInv, NextIInv, PTL DEF Spec, ImplementsLock, Abstract!Spec

----------------------------------------------------------------------------
(* How often an element is in a sequence.                                  *)
Times(x, s) == Cardinality({i \in DOMAIN s : s[i] = x})

LEMMA TimesJoin ==
    ASSUME NEW S, NEW a \in Seq(S), NEW b \in Seq(S), NEW x
    PROVE  Times(x, a) \in Nat /\ Times(x, a \o b) = Times(x, a) + Times(x, b)
<1> DEFINE m == Len(a)
           n == Len(b)
           A == {i \in 1 .. m : a[i] = x}
           B == {i \in 1 .. n : b[i] = x}
           C == {i \in 1 .. m + n : (a \o b)[i] = x}
           D == {i \in m + 1 .. m + n : (a \o b)[i] = x}
           f == [i \in B |-> i + m]
<1>1. /\ m \in Nat /\ n \in Nat /\ DOMAIN a = 1 .. m /\ DOMAIN b = 1 .. n
      /\ a \o b \in Seq(S) /\ DOMAIN (a \o b) = 1 .. m + n
      /\ \A i \in 1 .. m : (a \o b)[i] = a[i]
  OBVIOUS
<1>2. \A i \in 1 .. n : (a \o b)[i + m] = b[i] OBVIOUS
<1>3. Times(x, a) = Cardinality(A) /\ Times(x, b) = Cardinality(B)
      /\ Times(x, a \o b) = Cardinality(C)
  BY <1>1 DEF Times
<1> HIDE DEF m, n
<1>4. A \cup D = C /\ A \cap D = {} BY <1>1
<1>5. f \in Bijection(B, D)
  <2>1. \A i \in B : i + m \in D BY <1>1, <1>2
  <2>2. \A i, j \in B : f[i] = f[j] => i = j BY <1>1
  <2>3. ASSUME NEW d \in D PROVE \E i \in B : f[i] = d
    <3>1. d - m \in 1 .. n /\ (d - m) + m = d BY <1>1
    <3>2. b[d - m] = x BY <1>2, <3>1
    <3> QED BY <3>1, <3>2
  <2> QED BY <2>1, <2>2, <2>3 DEF Bijection, Injection, Surjection, IsInjective
<1>6. IsFiniteSet(1 .. m) /\ IsFiniteSet(1 .. n) BY <1>1, FS_Interval
<1>7. IsFiniteSet(A) /\ IsFiniteSet(B)
  <2> A \subseteq 1 .. m /\ B \subseteq 1 .. n OBVIOUS
  <2> HIDE DEF A, B
  <2> QED BY <1>6, FS_Subset
<1>8. ExistsBijection(B, D) BY <1>5 DEF ExistsBijection
<1> HIDE DEF A, B, C, D, f
<1>9. IsFiniteSet(D) /\ Cardinality(D) = Cardinality(B) BY <1>7, <1>8, FS_Bijection
<1>10. Cardinality(A) \in Nat /\ Cardinality(D) \in Nat BY <1>7, <1>9, FS_CardinalityType
<1>11. Cardinality(C) = Cardinality(A) + Cardinality(D) - Cardinality(A \cap D)
  BY <1>4, <1>7, <1>9, FS_Union
<1>12. Cardinality(A \cap D) = 0 BY <1>4, FS_EmptySet
<1> QED BY <1>3, <1>9, <1>10, <1>11, <1>12

LEMMA TimesNone ==
    ASSUME NEW S, NEW a \in Seq(S), NEW x
    PROVE  /\ Times(x, a) \in Nat
           /\ Times(x, a) = 0 <=> \A i \in 1 .. Len(a) : a[i] # x
<1> DEFINE A == {i \in 1 .. Len(a) : a[i] = x}
<1>1. Times(x, a) = Cardinality(A)
  <2>1. DOMAIN a = 1 .. Len(a) OBVIOUS
  <2> QED BY <2>1 DEF Times
<1>2. Len(a) \in Nat /\ IsFiniteSet(1 .. Len(a)) BY FS_Interval
<1>3. A \subseteq 1 .. Len(a) OBVIOUS
<1>4. A = {} <=> \A i \in 1 .. Len(a) : a[i] # x OBVIOUS
<1> HIDE DEF A
<1>5. IsFiniteSet(A) BY <1>2, <1>3, FS_Subset
<1> QED BY <1>1, <1>4, <1>5, FS_EmptySet, FS_CardinalityType

LEMMA TimesOne ==
    ASSUME NEW y, NEW x
    PROVE  Times(x, <<y>>) = IF x = y THEN 1 ELSE 0
<1>1. CASE x = y
  <2>1. {i \in DOMAIN <<y>> : <<y>>[i] = x} = {1} BY <1>1
  <2> QED BY <1>1, <2>1, FS_Singleton DEF Times
<1>2. CASE x # y
  <2>1. {i \in DOMAIN <<y>> : <<y>>[i] = x} = {} BY <1>2
  <2> QED BY <1>2, <2>1, FS_EmptySet DEF Times
<1> QED BY <1>1, <1>2

----------------------------------------------------------------------------
(* What holds a library: an activation that has a reference in hand.       *)
Frames == [fn : {"find", "open", "ctor", "init", "fini", "unload"},
           lib : Libraries, left : Seq(Libraries)]
Members(s) == {s[i] : i \in DOMAIN s}
Holds(f) == f.fn \in {"open", "unload"} \/ (f.fn = "find" /\ f.left # <<>>)
HeldBy(s) == [i \in 1 .. Len(s) |-> IF Holds(s[i]) THEN s[i].lib ELSE Nil]
HeldIn(s, l) == Times(l, HeldBy(s))
One(b) == IF b THEN 1 ELSE 0

LEMMA Pushed ==
    ASSUME NEW S, NEW s \in Seq(S), NEW f \in S
    PROVE  LET t == <<f>> \o s IN
           /\ t \in Seq(S) /\ t # <<>> /\ Len(s) \in Nat /\ Len(t) = Len(s) + 1
           /\ t[1] = f /\ \A i \in 1 .. Len(s) : t[i + 1] = s[i]
           /\ Head(t) = f /\ Tail(t) = s
OBVIOUS

LEMMA Popped ==
    ASSUME NEW S, NEW t \in Seq(S), t # <<>>
    PROVE  /\ Tail(t) \in Seq(S) /\ Head(t) \in S /\ t = <<Head(t)>> \o Tail(t)
           /\ Head(t) = t[1] /\ Len(t) = Len(Tail(t)) + 1 /\ Len(Tail(t)) \in Nat
           /\ \A i \in 1 .. Len(Tail(t)) : Tail(t)[i] = t[i + 1]
OBVIOUS

LEMMA HeldByIs ==
    ASSUME NEW s \in Seq(Frames)
    PROVE  HeldBy(s) \in Seq(Libraries \cup {Nil})
<1>1. \A i \in 1 .. Len(s) : s[i] \in Frames OBVIOUS
<1>2. \A f \in Frames : f.lib \in Libraries BY DEF Frames
<1> QED BY <1>1, <1>2 DEF HeldBy

LEMMA HeldType ==
    ASSUME NEW s \in Seq(Frames), NEW l \in Libraries
    PROVE  /\ HeldIn(s, l) \in Nat
           /\ HeldIn(s, l) = 0 <=> \A i \in 1 .. Len(s) : Holds(s[i]) => s[i].lib # l
<1>1. Nil # l BY NeedsAssumption
<1>2. Len(HeldBy(s)) = Len(s) /\ Len(s) \in Nat BY DEF HeldBy
<1>3. \A i \in 1 .. Len(s) : HeldBy(s)[i] # l <=> (Holds(s[i]) => s[i].lib # l)
  BY <1>1 DEF HeldBy
<1>4. HeldBy(s) \in Seq(Libraries \cup {Nil}) BY HeldByIs
<1>5. /\ Times(l, HeldBy(s)) \in Nat
      /\ Times(l, HeldBy(s)) = 0 <=> \A i \in 1 .. Len(HeldBy(s)) : HeldBy(s)[i] # l
  BY <1>4, TimesNone
<1> QED BY <1>2, <1>3, <1>5 DEF HeldIn

LEMMA HeldPushed ==
    ASSUME NEW s \in Seq(Frames), NEW f \in Frames, NEW l \in Libraries
    PROVE  HeldIn(<<f>> \o s, l) = HeldIn(s, l) + One(Holds(f) /\ f.lib = l)
<1> DEFINE t == <<f>> \o s
           h == IF Holds(f) THEN f.lib ELSE Nil
<1>1. /\ t \in Seq(Frames) /\ Len(s) \in Nat /\ Len(t) = Len(s) + 1
      /\ t[1] = f /\ \A i \in 1 .. Len(s) : t[i + 1] = s[i]
  OBVIOUS
<1> HIDE DEF t
<1>2. HeldBy(t) = <<h>> \o HeldBy(s)
  <2> DEFINE u == <<h>> \o HeldBy(s)
  <2>1. Len(HeldBy(s)) = Len(s) /\ HeldBy(s) \in Seq(Libraries \cup {Nil})
    BY <1>1, HeldByIs DEF HeldBy
  <2>2. h \in Libraries \cup {Nil} BY DEF Frames
  <2>3. /\ u \in Seq(Libraries \cup {Nil}) /\ Len(u) = Len(s) + 1
        /\ u[1] = h /\ \A i \in 1 .. Len(s) : u[i + 1] = HeldBy(s)[i]
    BY <2>1, <2>2
  <2>4. HeldBy(t) \in Seq(Libraries \cup {Nil}) /\ Len(HeldBy(t)) = Len(s) + 1
    BY <1>1, HeldByIs DEF HeldBy
  <2>5. HeldBy(t)[1] = h BY <1>1 DEF HeldBy
  <2>6. \A i \in 1 .. Len(s) : HeldBy(t)[i + 1] = HeldBy(s)[i] BY <1>1 DEF HeldBy
  <2>7. ASSUME NEW i \in 1 .. Len(s) + 1 PROVE HeldBy(t)[i] = u[i]
    <3>1. CASE i = 1 BY <2>3, <2>5, <3>1
    <3>2. CASE i # 1
      <4>1. i - 1 \in 1 .. Len(s) /\ (i - 1) + 1 = i BY <1>1, <3>2
      <4> QED BY <2>3, <2>6, <4>1
    <3> QED BY <3>1, <3>2
  <2> HIDE DEF u
  <2>8. u \in [1 .. Len(s) + 1 -> Libraries \cup {Nil}] BY <2>3
  <2>9. HeldBy(t) \in [1 .. Len(s) + 1 -> Libraries \cup {Nil}] BY <2>4
  <2>10. HeldBy(t) = u BY <2>7, <2>8, <2>9
  <2> QED BY <2>10 DEF u
<1>3. h \in Libraries \cup {Nil} BY DEF Frames
<1>4. HeldBy(s) \in Seq(Libraries \cup {Nil}) BY HeldByIs
<1>5. <<h>> \in Seq(Libraries \cup {Nil}) BY <1>3
<1>6. Times(l, <<h>> \o HeldBy(s)) = Times(l, <<h>>) + Times(l, HeldBy(s))
      /\ Times(l, HeldBy(s)) \in Nat
  BY <1>4, <1>5, TimesJoin
<1>7. Times(l, <<h>>) = IF l = h THEN 1 ELSE 0 BY TimesOne
<1>8. l = h <=> Holds(f) /\ f.lib = l BY NeedsAssumption
<1>9. HeldIn(t, l) = Times(l, <<h>>) + HeldIn(s, l) /\ HeldIn(s, l) \in Nat
  BY <1>2, <1>6 DEF HeldIn
<1>10. Times(l, <<h>>) = One(Holds(f) /\ f.lib = l)
  <2> HIDE DEF h
  <2>1. CASE l = h
    <3>1. Holds(f) /\ f.lib = l BY <1>8, <2>1
    <3> QED BY <1>7, <2>1, <3>1 DEF One
  <2>2. CASE l # h
    <3>1. ~(Holds(f) /\ f.lib = l) BY <1>8, <2>2
    <3> QED BY <1>7, <2>2, <3>1 DEF One
  <2> QED BY <2>1, <2>2
<1> HIDE DEF h
<1>11. One(Holds(f) /\ f.lib = l) \in Nat BY DEF One
<1> QED BY <1>9, <1>10, <1>11 DEF t

LEMMA HeldPopped ==
    ASSUME NEW t \in Seq(Frames), t # <<>>, NEW l \in Libraries
    PROVE  HeldIn(t, l) = HeldIn(Tail(t), l) + One(Holds(Head(t)) /\ Head(t).lib = l)
<1>1. Tail(t) \in Seq(Frames) /\ Head(t) \in Frames /\ t = <<Head(t)>> \o Tail(t) BY Popped
<1> QED BY <1>1, HeldPushed

(* Two activations that hold the same library.                             *)
LEMMA HeldTwice ==
    ASSUME NEW s \in Seq(Frames), NEW i \in 1 .. Len(s), NEW j \in 1 .. Len(s), i # j,
           NEW l \in Libraries, Holds(s[i]), Holds(s[j]), s[i].lib = l, s[j].lib = l
    PROVE  HeldIn(s, l) >= 2
<1> DEFINE h == HeldBy(s)
           A == {k \in DOMAIN h : h[k] = l}
<1>1. DOMAIN h = 1 .. Len(s) /\ Len(s) \in Nat BY DEF HeldBy
<1>2. {i, j} \subseteq A BY <1>1 DEF HeldBy
<1>3. IsFiniteSet(1 .. Len(s)) BY <1>1, FS_Interval
<1>4. A \subseteq 1 .. Len(s) BY <1>1
<1>5. IsFiniteSet(A) BY <1>3, <1>4, FS_Subset
<1>6. Cardinality({i, j}) = 2 /\ Cardinality({i, j}) \in Nat
  <2>1. IsFiniteSet({i}) /\ Cardinality({i}) = 1 BY FS_Singleton
  <2>2. Cardinality({i} \cup {j}) = Cardinality({i}) + 1 BY <2>1, FS_AddElement
  <2>3. {i} \cup {j} = {i, j} /\ j \notin {i} OBVIOUS
  <2>4. Cardinality({i, j}) = 1 + 1 BY <2>1, <2>2, <2>3
  <2> QED BY <2>4
<1>7. Cardinality({i, j}) <= Cardinality(A) BY <1>2, <1>5, FS_Subset
<1>8. HeldIn(s, l) = Cardinality(A) BY DEF HeldIn, Times
<1> QED BY <1>6, <1>7, <1>8
----------------------------------------------------------------------------
(* The links to a library, from the children of those in S.                *)
LinksFrom(ch, p, l) == {<<p, i>> : i \in {j \in DOMAIN ch[p] : ch[p][j] = l}}
LinkSet(ch, S, l) == UNION {LinksFrom(ch, p, l) : p \in S}
LinksIn(ch, S, l) == Cardinality(LinkSet(ch, S, l))
Children == [Libraries -> Seq(Libraries)]

LEMMA LinksToAre == \A l : LinksTo(l) = LinksIn(children, solist, l)
BY DEF LinksTo, LinksIn, LinkSet, LinksFrom

LEMMA TimesMember ==
    ASSUME NEW s \in Seq(Libraries), NEW l
    PROVE  Times(l, s) \in Nat /\ (Times(l, s) = 0 <=> l \notin Members(s))
<1>1. DOMAIN s = 1 .. Len(s) OBVIOUS
<1> QED BY <1>1, TimesNone DEF Members

LEMMA LinksFromOne ==
    ASSUME NEW ch \in Children, NEW p \in Libraries, NEW l
    PROVE  /\ IsFiniteSet(LinksFrom(ch, p, l))
           /\ Cardinality(LinksFrom(ch, p, l)) = Times(l, ch[p])
<1> DEFINE I == {j \in DOMAIN ch[p] : ch[p][j] = l}
           L == LinksFrom(ch, p, l)
           f == [i \in I |-> <<p, i>>]
<1>1. ch[p] \in Seq(Libraries) /\ Len(ch[p]) \in Nat /\ DOMAIN ch[p] = 1 .. Len(ch[p])
  BY DEF Children
<1>2. f \in Bijection(I, L)
  <2>1. L = {<<p, i>> : i \in I} BY DEF LinksFrom
  <2> HIDE DEF I, L
  <2> QED BY <2>1 DEF Bijection, Injection, Surjection, IsInjective
<1>3. IsFiniteSet(1 .. Len(ch[p])) BY <1>1, FS_Interval
<1>4. I \subseteq 1 .. Len(ch[p]) BY <1>1
<1>5. IsFiniteSet(I) BY <1>3, <1>4, FS_Subset
<1>6. ExistsBijection(I, L) BY <1>2 DEF ExistsBijection
<1>7. IsFiniteSet(L) /\ Cardinality(L) = Cardinality(I) BY <1>5, <1>6, FS_Bijection
<1> QED BY <1>7 DEF Times

LEMMA LinksNone ==
    ASSUME NEW ch \in Children, NEW S, IsFiniteSet(S), S \subseteq Libraries, NEW l
    PROVE  /\ IsFiniteSet(LinkSet(ch, S, l)) /\ LinksIn(ch, S, l) \in Nat
           /\ LinksIn(ch, S, l) = 0 <=> \A p \in S : l \notin Members(ch[p])
<1> DEFINE D == {LinksFrom(ch, p, l) : p \in S}
           f == [p \in S |-> LinksFrom(ch, p, l)]
<1>1. IsFiniteSet(D)
  <2>1. f \in Surjection(S, D) BY DEF Surjection
  <2> QED BY <2>1, FS_Surjection
<1>2. \A d \in D : IsFiniteSet(d) BY LinksFromOne
<1>3. IsFiniteSet(LinkSet(ch, S, l))
  <2> HIDE DEF D
  <2>1. IsFiniteSet(UNION D) BY <1>1, <1>2, FS_UNION
  <2> QED BY <2>1 DEF LinkSet, D
<1>4. LinkSet(ch, S, l) = {} <=> \A p \in S : l \notin Members(ch[p])
  <2>1. ASSUME NEW p PROVE LinksFrom(ch, p, l) = {} <=> l \notin Members(ch[p])
    <3>1. ASSUME NEW j \in DOMAIN ch[p], ch[p][j] = l PROVE <<p, j>> \in LinksFrom(ch, p, l)
      BY <3>1 DEF LinksFrom
    <3>2. ASSUME NEW e \in LinksFrom(ch, p, l) PROVE \E j \in DOMAIN ch[p] : ch[p][j] = l
      BY DEF LinksFrom
    <3> QED BY <3>1, <3>2 DEF Members
  <2>2. LinkSet(ch, S, l) = {} <=> \A p \in S : LinksFrom(ch, p, l) = {} BY DEF LinkSet
  <2> QED BY <2>1, <2>2
<1> QED BY <1>3, <1>4, FS_CardinalityType, FS_EmptySet DEF LinksIn

LEMMA LinksSplit ==
    ASSUME NEW ch \in Children, NEW S, IsFiniteSet(S), S \subseteq Libraries,
           NEW p \in Libraries, p \notin S, NEW l
    PROVE  LinksIn(ch, S \cup {p}, l) = LinksIn(ch, S, l) + Times(l, ch[p])
<1> DEFINE A == LinkSet(ch, S, l)
           B == LinksFrom(ch, p, l)
<1>1. LinkSet(ch, S \cup {p}, l) = A \cup B BY DEF LinkSet
<1>2. A \cap B = {} BY DEF LinkSet, LinksFrom
<1>3. IsFiniteSet(A) /\ Cardinality(A) \in Nat BY LinksNone, FS_CardinalityType
<1>4. IsFiniteSet(B) /\ Cardinality(B) = Times(l, ch[p]) BY LinksFromOne
<1> HIDE DEF A, B
<1>5. Cardinality(B) \in Nat BY <1>4, FS_CardinalityType
<1>6. Cardinality(A \cup B) = Cardinality(A) + Cardinality(B) - Cardinality(A \cap B)
  BY <1>3, <1>4, FS_Union
<1>7. Cardinality(A \cap B) = 0 BY <1>2, FS_EmptySet
<1>8. LinksIn(ch, S \cup {p}, l) = Cardinality(A \cup B) /\ LinksIn(ch, S, l) = Cardinality(A)
  BY <1>1 DEF LinksIn, A
<1> QED BY <1>3, <1>4, <1>5, <1>6, <1>7, <1>8

LEMMA LinksSame ==
    ASSUME NEW ch, NEW di, NEW S, NEW l, \A p \in S : di[p] = ch[p]
    PROVE  LinksIn(di, S, l) = LinksIn(ch, S, l)
<1>1. \A p \in S : LinksFrom(di, p, l) = LinksFrom(ch, p, l) BY DEF LinksFrom
<1>2. LinkSet(di, S, l) = LinkSet(ch, S, l) BY <1>1 DEF LinkSet
<1> QED BY <1>2 DEF LinksIn

(* A library among the children of two is linked to twice.                 *)
LEMMA LinkedTwice ==
    ASSUME NEW ch \in Children, NEW S, IsFiniteSet(S), S \subseteq Libraries,
           NEW p \in S, NEW q \in S, p # q, NEW l, l \in Members(ch[p]), l \in Members(ch[q])
    PROVE  LinksIn(ch, S, l) >= 2
<1> DEFINE R == S \ {p}
<1>1. IsFiniteSet(R) /\ R \subseteq Libraries /\ p \notin R /\ q \in R /\ S = R \cup {p}
  <2>1. IsFiniteSet(R) BY FS_Subset
  <2> QED BY <2>1
<1> HIDE DEF R
<1>2. LinksIn(ch, S, l) = LinksIn(ch, R, l) + Times(l, ch[p]) BY <1>1, LinksSplit
<1>3. LinksIn(ch, R, l) \in Nat /\ LinksIn(ch, R, l) # 0 BY <1>1, LinksNone
<1>4. ch[p] \in Seq(Libraries) BY DEF Children
<1>5. Times(l, ch[p]) \in Nat /\ Times(l, ch[p]) # 0 BY <1>4, TimesMember
<1> QED BY <1>2, <1>3, <1>5

(* One library has other children than before.                             *)
LEMMA LinksChange ==
    ASSUME NEW ch \in Children, NEW di \in Children, NEW S, IsFiniteSet(S), S \subseteq Libraries,
           NEW p \in S, \A q \in S : q # p => di[q] = ch[q], NEW l
    PROVE  LinksIn(di, S, l) + Times(l, ch[p]) = LinksIn(ch, S, l) + Times(l, di[p])
<1> DEFINE R == S \ {p}
<1>1. IsFiniteSet(R) /\ R \subseteq Libraries /\ p \notin R /\ S = R \cup {p}
  <2>1. IsFiniteSet(R) BY FS_Subset
  <2> QED BY <2>1
<1>2. LinksIn(di, R, l) = LinksIn(ch, R, l)
  <2>1. \A q \in R : di[q] = ch[q] OBVIOUS
  <2> HIDE DEF R
  <2> QED BY <2>1, LinksSame
<1> HIDE DEF R
<1>3. LinksIn(ch, S, l) = LinksIn(ch, R, l) + Times(l, ch[p]) BY <1>1, LinksSplit
<1>4. LinksIn(di, S, l) = LinksIn(di, R, l) + Times(l, di[p]) BY <1>1, LinksSplit
<1>5. LinksIn(ch, R, l) \in Nat BY <1>1, LinksNone
<1>6. ch[p] \in Seq(Libraries) /\ di[p] \in Seq(Libraries) BY DEF Children
<1>7. Times(l, ch[p]) \in Nat /\ Times(l, di[p]) \in Nat BY <1>6, TimesMember
<1> QED BY <1>2, <1>3, <1>4, <1>5, <1>7

----------------------------------------------------------------------------
(* What the activations on the stack say of one another and of their       *)
(* libraries.  Above an unload that is to run destructors they run.        *)
FrameOK(s, i, ch, rc, cc) ==
    /\ s[i].fn = "find" => i = 1 /\ s[i].left \in {<<>>, <<s[i].lib>>}
    /\ s[i].fn = "fini" => i < Len(s) /\ s[i + 1].fn = "unload" /\ s[i + 1].lib = s[i].lib
    /\ s[i].fn \in {"ctor", "init"} =>
          /\ i < Len(s)
          /\ \/ s[i + 1].fn = "open" /\ s[i + 1].lib = s[i].lib
             \/ s[i + 1].fn = "ctor" /\ s[i].lib \in Members(ch[s[i + 1].lib])
    /\ s[i].fn = "ctor" => Members(s[i].left) \subseteq Members(ch[s[i].lib])
    /\ s[i].fn \in {"open", "ctor", "init", "fini"} => s[i].lib \in cc
    /\ s[i].fn = "unload" =>
          /\ rc[s[i].lib] = 1
          /\ i = 1 \/ s[i].lib \notin cc \/ (s[i - 1].fn = "fini" /\ s[i - 1].lib = s[i].lib)
StackOK(s, ch, rc, cc) == \A i \in 1 .. Len(s) : FrameOK(s, i, ch, rc, cc)
TopOK(s, cc) == s # <<>> /\ s[1].fn = "unload" => s[1].lib \notin cc
Torn(s) == {l \in Libraries : \E i \in 1 .. Len(s) : s[i].fn = "unload" /\ s[i].lib = l}

LEMMA StackPops ==
    ASSUME NEW s \in Seq(Frames), s # <<>>, NEW ch, NEW rc, NEW cc, StackOK(s, ch, rc, cc)
    PROVE  StackOK(Tail(s), ch, rc, cc) /\ (Tail(s) # <<>> => Tail(s)[1].fn # "find")
<1> DEFINE t == Tail(s)
<1>1. /\ t \in Seq(Frames) /\ Len(t) \in Nat /\ Len(s) = Len(t) + 1
      /\ \A i \in 1 .. Len(t) : t[i] = s[i + 1]
  BY Popped
<1> HIDE DEF t
<1>2. ASSUME NEW i \in 1 .. Len(t) PROVE FrameOK(t, i, ch, rc, cc)
  <2>1. i + 1 \in 1 .. Len(s) /\ t[i] = s[i + 1] BY <1>1
  <2>2. FrameOK(s, i + 1, ch, rc, cc) BY <2>1 DEF StackOK
  <2>3. i < Len(t) <=> i + 1 < Len(s) BY <1>1
  <2>4. i < Len(t) => t[i + 1] = s[i + 1 + 1] BY <1>1
  <2>5. i # 1 => t[i - 1] = s[i + 1 - 1]
    <3>1. i # 1 => i - 1 \in 1 .. Len(t) /\ i - 1 + 1 = i + 1 - 1 BY <1>1
    <3> QED BY <1>1, <3>1
  <2>6. t[i].fn # "find" BY <2>1, <2>2 DEF FrameOK
  <2> QED BY <2>1, <2>2, <2>3, <2>4, <2>5, <2>6 DEF FrameOK
<1>3. t # <<>> => t[1].fn # "find"
  <2>1. t # <<>> => 1 \in 1 .. Len(t) /\ 2 \in 1 .. Len(s) /\ t[1] = s[1 + 1] BY <1>1
  <2>2. t # <<>> => FrameOK(s, 2, ch, rc, cc) BY <2>1 DEF StackOK
  <2> QED BY <2>1, <2>2 DEF FrameOK
<1> QED BY <1>2, <1>3 DEF StackOK, t

LEMMA StackPushes ==
    ASSUME NEW s \in Seq(Frames), NEW f \in Frames, NEW ch, NEW rc, NEW cc,
           StackOK(s, ch, rc, cc), FrameOK(<<f>> \o s, 1, ch, rc, cc),
           s # <<>> => s[1].fn # "find",
           s # <<>> /\ s[1].fn = "unload" /\ s[1].lib \in cc => f.fn = "fini" /\ f.lib = s[1].lib
    PROVE  StackOK(<<f>> \o s, ch, rc, cc)
<1> DEFINE t == <<f>> \o s
<1>1. /\ t \in Seq(Frames) /\ Len(s) \in Nat /\ Len(t) = Len(s) + 1
      /\ t[1] = f /\ \A i \in 1 .. Len(s) : t[i + 1] = s[i]
  BY Pushed
<1>2. FrameOK(t, 1, ch, rc, cc) OBVIOUS
<1> HIDE DEF t
<1>3. ASSUME NEW j \in 1 .. Len(t) PROVE FrameOK(t, j, ch, rc, cc)
  <2>1. CASE j = 1 BY <1>2, <2>1
  <2>2. CASE j # 1
    <3>1. PICK i \in 1 .. Len(s) : j = i + 1
      <4>1. j - 1 \in 1 .. Len(s) /\ j = (j - 1) + 1 BY <1>1, <2>2
      <4> QED BY <4>1
    <3>2. t[j] = s[i] /\ FrameOK(s, i, ch, rc, cc) BY <1>1, <3>1 DEF StackOK
    <3>3. i < Len(s) => j < Len(t) /\ t[j + 1] = s[i + 1] BY <1>1, <3>1
    <3>4. i # 1 => t[j - 1] = s[i - 1]
      <4>1. i # 1 => i - 1 \in 1 .. Len(s) /\ i - 1 + 1 = j - 1 BY <1>1, <3>1
      <4> QED BY <1>1, <4>1
    <3>5. i = 1 => t[j - 1] = f /\ s # <<>> BY <1>1, <3>1
    <3>6. s[i].fn # "find" BY <3>2, <3>5 DEF FrameOK
    <3>7. s[i].fn = "unload" =>
             j = 1 \/ s[i].lib \notin cc \/ (t[j - 1].fn = "fini" /\ t[j - 1].lib = s[i].lib)
      BY <3>2, <3>4, <3>5 DEF FrameOK
    <3> QED BY <3>2, <3>3, <3>6, <3>7 DEF FrameOK
  <2> QED BY <2>1, <2>2
<1> QED BY <1>3 DEF StackOK, t

(* The same activations when children, counts or constructors change.      *)
LEMMA StackStays ==
    ASSUME NEW s \in Seq(Frames), NEW ch, NEW rc, NEW cc, StackOK(s, ch, rc, cc),
           NEW di, NEW re, NEW dd,
           \A i \in 1 .. Len(s) :
              /\ s[i].fn = "ctor" => Members(ch[s[i].lib]) \subseteq Members(di[s[i].lib])
              /\ s[i].fn = "unload" => re[s[i].lib] = 1 /\ (s[i].lib \in dd => s[i].lib \in cc)
              /\ s[i].fn \in {"open", "ctor", "init", "fini"} => s[i].lib \in dd
    PROVE  StackOK(s, di, re, dd)
<1> SUFFICES ASSUME NEW i \in 1 .. Len(s) PROVE FrameOK(s, i, di, re, dd) BY DEF StackOK
<1>1. FrameOK(s, i, ch, rc, cc) BY DEF StackOK
<1>2. i < Len(s) => i + 1 \in 1 .. Len(s) OBVIOUS
<1>3. i < Len(s) /\ s[i + 1].fn = "ctor" =>
         Members(ch[s[i + 1].lib]) \subseteq Members(di[s[i + 1].lib])
  BY <1>2
<1> QED BY <1>1, <1>3 DEF FrameOK

----------------------------------------------------------------------------
(* A library that is being unloaded has no holder but that activation.     *)
RefsAre(rc, hd, ch, S, s) ==
    \A l \in Libraries : rc[l] = hd[l] + LinksIn(ch, S, l) + HeldIn(s, l)

FreeAt(hd, ch, S, s, i) ==
    /\ hd[s[i].lib] = 0 /\ \A p \in S : s[i].lib \notin Members(ch[p])
    /\ \A j \in 1 .. Len(s) : Holds(s[j]) /\ s[j].lib = s[i].lib => j = i

LEMMA TornIsFree ==
    ASSUME NEW rc, NEW hd \in [Libraries -> Nat], NEW ch \in Children, NEW S \in SUBSET Libraries,
           IsFiniteSet(S), NEW s \in Seq(Frames), RefsAre(rc, hd, ch, S, s),
           NEW i \in 1 .. Len(s), s[i].fn = "unload", rc[s[i].lib] = 1
    PROVE  FreeAt(hd, ch, S, s, i)
<1> DEFINE l == s[i].lib
<1>1. s[i] \in Frames /\ l \in Libraries /\ Holds(s[i])
  <2>1. s[i] \in Frames OBVIOUS
  <2>2. l \in Libraries BY <2>1 DEF Frames
  <2> QED BY <2>1, <2>2 DEF Holds
<1>2. rc[l] = hd[l] + LinksIn(ch, S, l) + HeldIn(s, l) BY <1>1 DEF RefsAre
<1>3. /\ hd[l] \in Nat /\ LinksIn(ch, S, l) \in Nat
      /\ LinksIn(ch, S, l) = 0 <=> \A p \in S : l \notin Members(ch[p])
  BY <1>1, LinksNone
<1>4. HeldIn(s, l) \in Nat /\ HeldIn(s, l) # 0 BY <1>1, HeldType
<1>5. rc[l] = 1 OBVIOUS
<1>6. hd[l] = 0 /\ LinksIn(ch, S, l) = 0 /\ HeldIn(s, l) = 1 BY <1>2, <1>3, <1>4, <1>5
<1>7. ASSUME NEW j \in 1 .. Len(s), Holds(s[j]), s[j].lib = l, j # i PROVE FALSE
  <2>1. HeldIn(s, l) >= 2 BY <1>1, <1>7, HeldTwice
  <2> QED BY <1>6, <2>1
<1> QED BY <1>3, <1>6, <1>7 DEF FreeAt

(* A library under construction is not being unloaded.                     *)
LEMMA ConstructedIsWhole ==
    ASSUME NEW rc, NEW hd \in [Libraries -> Nat], NEW ch \in Children, NEW S \in SUBSET Libraries,
           IsFiniteSet(S), NEW s \in Seq(Frames), RefsAre(rc, hd, ch, S, s), NEW cc \in SUBSET S,
           StackOK(s, ch, rc, cc), NEW i \in 1 .. Len(s), s[i].fn \in {"open", "ctor", "init"}
    PROVE  s[i].lib \notin Torn(s)
<1> SUFFICES ASSUME NEW j \in 1 .. Len(s), s[j].fn = "unload", s[j].lib = s[i].lib PROVE FALSE
  BY DEF Torn
<1>1. FrameOK(s, i, ch, rc, cc) /\ FrameOK(s, j, ch, rc, cc) BY DEF StackOK
<1>2. /\ hd[s[j].lib] = 0 /\ \A p \in S : s[j].lib \notin Members(ch[p])
      /\ \A k \in 1 .. Len(s) : Holds(s[k]) /\ s[k].lib = s[j].lib => k = j
  <2>1. rc[s[j].lib] = 1 BY <1>1 DEF FrameOK
  <2>2. FreeAt(hd, ch, S, s, j) BY <2>1, TornIsFree
  <2> QED BY <2>2 DEF FreeAt
<1>3. CASE s[i].fn = "open" BY <1>2, <1>3 DEF Holds
<1>4. CASE s[i].fn \in {"ctor", "init"}
  <2>1. i + 1 \in 1 .. Len(s) BY <1>1, <1>4 DEF FrameOK
  <2>2. CASE s[i + 1].fn = "open" /\ s[i + 1].lib = s[i].lib BY <1>2, <2>1, <2>2 DEF Holds
  <2>3. CASE s[i + 1].fn = "ctor" /\ s[i].lib \in Members(ch[s[i + 1].lib])
    <3>1. FrameOK(s, i + 1, ch, rc, cc) BY <2>1 DEF StackOK
    <3>2. s[i + 1].lib \in S BY <2>3, <3>1 DEF FrameOK
    <3> QED BY <1>2, <2>3, <3>2
  <2> QED BY <1>1, <1>4, <2>2, <2>3 DEF FrameOK
<1> QED BY <1>3, <1>4

----------------------------------------------------------------------------
(* No library needs itself through others, among those that are loaded.    *)
Acyclic(S, ch) == \A X \in SUBSET S : X # {} => \E x \in X : \A p \in X : x \notin Members(ch[p])

LEMMA ReachCloses ==
    ASSUME NEW to \in [Libraries -> SUBSET Libraries], NEW l \in Libraries
    PROVE  /\ l \in Reach(to, l) /\ Reach(to, l) \in SUBSET Libraries
           /\ \A x \in Reach(to, l) : to[x] \subseteq Reach(to, l)
<1>1. ASSUME NEW x \in Reach(to, l), NEW y \in to[x] PROVE y \in Reach(to, l)
  <2>1. x \in Libraries /\ y \in Libraries BY <1>1 DEF Reach
  <2>2. ASSUME NEW S \in SUBSET Libraries, l \in S, \A z \in S : to[z] \subseteq S PROVE y \in S
    <3>1. x \in S BY <2>2 DEF Reach
    <3> QED BY <2>2, <3>1, <1>1
  <2> QED BY <2>1, <2>2 DEF Reach
<1> QED BY <1>1 DEF Reach

LEMMA AcyclicLess ==
    ASSUME NEW S, NEW ch, Acyclic(S, ch), NEW R \in SUBSET S, NEW di,
           \A p \in R : Members(di[p]) \subseteq Members(ch[p])
    PROVE  Acyclic(R, di)
<1> SUFFICES ASSUME NEW X \in SUBSET R, X # {}
             PROVE  \E x \in X : \A p \in X : x \notin Members(di[p])
  BY DEF Acyclic
<1>1. PICK x \in X : \A p \in X : x \notin Members(ch[p]) BY DEF Acyclic
<1> QED BY <1>1

(* A new library has no children yet, and is nobody's child but of one.    *)
LEMMA AcyclicLoaded ==
    ASSUME NEW S, NEW ch, Acyclic(S, ch), NEW y, y \notin S, NEW di, Members(di[y]) = {},
           \A p \in S : Members(di[p]) \subseteq Members(ch[p]) \cup {y}
    PROVE  Acyclic(S \cup {y}, di)
<1> SUFFICES ASSUME NEW X \in SUBSET (S \cup {y}), X # {}
             PROVE  \E x \in X : \A p \in X : x \notin Members(di[p])
  BY DEF Acyclic
<1>1. CASE X \subseteq {y} BY <1>1
<1>2. CASE ~(X \subseteq {y})
  <2> DEFINE Y == X \ {y}
  <2>1. Y \in SUBSET S /\ Y # {} BY <1>2
  <2> HIDE DEF Y
  <2>2. PICK x \in Y : \A p \in Y : x \notin Members(ch[p]) BY <2>1 DEF Acyclic
  <2>3. x \in X /\ x # y BY <2>2 DEF Y
  <2>4. ASSUME NEW p \in X PROVE x \notin Members(di[p])
    <3>1. CASE p = y BY <3>1
    <3>2. CASE p # y BY <2>1, <2>2, <2>3, <3>2 DEF Y
    <3> QED BY <3>1, <3>2
  <2> QED BY <2>3, <2>4
<1> QED BY <1>1, <1>2

(* is_recursive: a link to what is no ancestor closes no circle.           *)
LEMMA AcyclicLinked ==
    ASSUME NEW S \in SUBSET Libraries, NEW ch, Acyclic(S, ch),
           NEW up \in [Libraries -> SUBSET Libraries],
           \A p \in S : \A x \in Members(ch[p]) : p \in up[x],
           NEW q \in S, NEW c \in S, c \notin Reach(up, q), NEW di,
           \A p \in S \ {q} : Members(di[p]) \subseteq Members(ch[p]),
           Members(di[q]) \subseteq Members(ch[q]) \cup {c}
    PROVE  Acyclic(S, di)
<1> SUFFICES ASSUME NEW X \in SUBSET S, X # {}, \A x \in X : \E p \in X : x \in Members(di[p])
             PROVE  FALSE
  BY DEF Acyclic
<1>1. q \in X
  <2> SUFFICES ASSUME q \notin X PROVE FALSE OBVIOUS
  <2>1. PICK x \in X : \A p \in X : x \notin Members(ch[p]) BY DEF Acyclic
  <2> QED BY <2>1
<1> DEFINE A == Reach(up, q)
           Y == X \cap A
<1>2. q \in A /\ A \in SUBSET Libraries /\ \A x \in A : up[x] \subseteq A BY ReachCloses
<1>3. c \notin A OBVIOUS
<1> HIDE DEF A
<1>4. Y \in SUBSET S /\ Y # {} BY <1>1, <1>2
<1>5. PICK x \in Y : \A p \in Y : x \notin Members(ch[p])
  <2> HIDE DEF Y
  <2> QED BY <1>4 DEF Acyclic
<1>6. PICK p \in X : x \in Members(di[p]) OBVIOUS
<1>7. x \in Members(ch[p]) BY <1>3, <1>5, <1>6
<1>8. p \in up[x] BY <1>6, <1>7
<1>9. p \in Y BY <1>2, <1>5, <1>6, <1>8
<1> QED BY <1>5, <1>7, <1>9

----------------------------------------------------------------------------
(* The tasks for what a library still needs are in their order, together.  *)
Tasks == [name : Libraries, needed_by : Libraries \cup {Nil}]
PendingAt(p, ch, tasks, n, a) ==
    /\ Len(Needs[p]) = Len(ch[p]) + n /\ a + n <= Len(tasks) + 1
    /\ \A k \in 1 .. Len(ch[p]) : ch[p][k] = Needs[p][k]
    /\ \A i \in 1 .. Len(tasks) : tasks[i].needed_by = p <=> a <= i /\ i < a + n
    /\ \A k \in 1 .. n : tasks[a + k - 1].name = Needs[p][Len(ch[p]) + k]
Pending(p, ch, tasks) == \E n \in Nat, a \in Nat \ {0} : PendingAt(p, ch, tasks, n, a)

LEMMA NeedsAre ==
    ASSUME NEW p \in Libraries
    PROVE  Needs[p] \in Seq(Libraries) /\ Len(Needs[p]) \in Nat
           /\ DOMAIN Needs[p] = 1 .. Len(Needs[p])
<1>1. Needs[p] \in Seq(Libraries) BY NeedsAssumption
<1> QED BY <1>1

LEMMA PendingHead ==
    ASSUME NEW ch \in Children, NEW p \in Libraries, NEW tasks \in Seq(Tasks), tasks # <<>>,
           Head(tasks).needed_by = p, Pending(p, ch, tasks),
           NEW di, di[p] = Append(ch[p], Head(tasks).name)
    PROVE  Pending(p, di, Tail(tasks))
<1> DEFINE t == Tail(tasks)
<1>1. /\ t \in Seq(Tasks) /\ Len(t) \in Nat /\ Len(tasks) = Len(t) + 1
      /\ \A i \in 1 .. Len(t) : t[i] = tasks[i + 1] /\ Head(tasks) = tasks[1]
  BY Popped
<1>2. tasks[1] = Head(tasks) /\ tasks[1].name \in Libraries
  <2>1. Head(tasks) \in Tasks /\ tasks[1] = Head(tasks) OBVIOUS
  <2> QED BY <2>1 DEF Tasks
<1> HIDE DEF t
<1>3. PICK n \in Nat, a \in Nat \ {0} : PendingAt(p, ch, tasks, n, a) BY DEF Pending
<1>4. a = 1 /\ n > 0
  <2>1. 1 \in 1 .. Len(tasks) BY <1>1
  <2>2. a <= 1 /\ 1 < a + n BY <1>2, <1>3, <2>1 DEF PendingAt
  <2> QED BY <2>2
<1>5. PICK c : c = ch[p] OBVIOUS
<1>6. c \in Seq(Libraries) /\ Len(c) \in Nat BY <1>5 DEF Children
<1>7. /\ Len(di[p]) = Len(c) + 1 /\ \A k \in 1 .. Len(c) : di[p][k] = c[k]
      /\ di[p][Len(c) + 1] = tasks[1].name
  BY <1>2, <1>5, <1>6
<1>8. tasks[1].name = Needs[p][Len(c) + 1]
  <2>1. 1 \in 1 .. n /\ a + 1 - 1 = 1 BY <1>4
  <2> QED BY <1>3, <1>5, <2>1 DEF PendingAt
<1>9. n - 1 \in Nat /\ 1 \in Nat \ {0} BY <1>4
<1>10. PendingAt(p, di, t, n - 1, 1)
  <2>1. Len(Needs[p]) = Len(di[p]) + (n - 1) /\ 1 + (n - 1) <= Len(t) + 1
    BY <1>1, <1>3, <1>4, <1>5, <1>6, <1>7 DEF PendingAt
  <2>2. \A k \in 1 .. Len(di[p]) : di[p][k] = Needs[p][k]
    <3>1. ASSUME NEW k \in 1 .. Len(c) PROVE di[p][k] = Needs[p][k]
      BY <1>3, <1>5, <1>7 DEF PendingAt
    <3> QED BY <1>6, <1>7, <1>8, <3>1
  <2>3. ASSUME NEW i \in 1 .. Len(t) PROVE t[i].needed_by = p <=> 1 <= i /\ i < 1 + (n - 1)
    <3>1. i + 1 \in 1 .. Len(tasks) BY <1>1
    <3>2. tasks[i + 1].needed_by = p <=> a <= i + 1 /\ i + 1 < a + n BY <1>3, <3>1 DEF PendingAt
    <3> QED BY <1>1, <1>4, <3>2
  <2>4. ASSUME NEW k \in 1 .. n - 1 PROVE t[1 + k - 1].name = Needs[p][Len(di[p]) + k]
    <3>1. k + 1 \in 1 .. n /\ a + (k + 1) - 1 = k + 1 /\ 1 + k - 1 = k BY <1>4
    <3>2. tasks[k + 1].name = Needs[p][Len(c) + (k + 1)] BY <1>3, <1>5, <3>1 DEF PendingAt
    <3>3. k \in 1 .. Len(t) BY <1>1, <1>3, <1>4 DEF PendingAt
    <3>4. Len(c) + (k + 1) = Len(di[p]) + k
      <4>1. Len(di[p]) = Len(c) + 1 /\ Len(c) \in Nat /\ k \in Int BY <1>6, <1>7
      <4>2. \A x, y, z \in Int : x = y + 1 => y + (z + 1) = x + z OBVIOUS
      <4> QED BY <4>1, <4>2
    <3> QED BY <1>1, <3>1, <3>2, <3>3, <3>4
  <2> QED BY <2>1, <2>2, <2>3, <2>4 DEF PendingAt
<1> QED BY <1>9, <1>10 DEF Pending, t

LEMMA PendingOther ==
    ASSUME NEW ch \in Children, NEW p \in Libraries, NEW tasks \in Seq(Tasks), tasks # <<>>,
           Head(tasks).needed_by # p, Pending(p, ch, tasks), NEW di, di[p] = ch[p]
    PROVE  Pending(p, di, Tail(tasks))
<1> DEFINE t == Tail(tasks)
<1>1. /\ t \in Seq(Tasks) /\ Len(t) \in Nat /\ Len(tasks) = Len(t) + 1 /\ tasks[1] = Head(tasks)
      /\ \A i \in 1 .. Len(t) : t[i] = tasks[i + 1]
  BY Popped
<1> HIDE DEF t
<1>2. PICK n \in Nat, a \in Nat \ {0} : PendingAt(p, ch, tasks, n, a) BY DEF Pending
<1>3. CASE n = 0
  <2>1. \A i \in 1 .. Len(t) : t[i].needed_by # p
    <3>1. ASSUME NEW i \in 1 .. Len(t) PROVE t[i].needed_by # p
      <4>1. i + 1 \in 1 .. Len(tasks) BY <1>1
      <4> QED BY <1>1, <1>2, <1>3, <4>1 DEF PendingAt
    <3> QED BY <3>1
  <2>2. PendingAt(p, di, t, 0, 1) BY <1>1, <1>2, <1>3, <2>1 DEF PendingAt
  <2> QED BY <2>2 DEF Pending, t
<1>4. CASE n # 0
  <2>1. a > 1
    <3>1. 1 \in 1 .. Len(tasks) BY <1>1
    <3>2. ~(a <= 1 /\ 1 < a + n) BY <1>1, <1>2, <3>1 DEF PendingAt
    <3> QED BY <1>4, <3>2
  <2>2. a - 1 \in Nat \ {0} BY <2>1
  <2>3. PendingAt(p, di, t, n, a - 1)
    <3>1. Len(Needs[p]) = Len(di[p]) + n /\ (a - 1) + n <= Len(t) + 1 BY <1>1, <1>2 DEF PendingAt
    <3>2. \A k \in 1 .. Len(di[p]) : di[p][k] = Needs[p][k] BY <1>2 DEF PendingAt
    <3>3. ASSUME NEW i \in 1 .. Len(t) PROVE t[i].needed_by = p <=> a - 1 <= i /\ i < (a - 1) + n
      <4>1. i + 1 \in 1 .. Len(tasks) BY <1>1
      <4>2. tasks[i + 1].needed_by = p <=> a <= i + 1 /\ i + 1 < a + n BY <1>2, <4>1 DEF PendingAt
      <4> QED BY <1>1, <4>2
    <3>4. ASSUME NEW k \in 1 .. n PROVE t[(a - 1) + k - 1].name = Needs[p][Len(di[p]) + k]
      <4>1. (a - 1) + k - 1 \in 1 .. Len(t) BY <1>1, <1>2, <2>1 DEF PendingAt
      <4>2. ((a - 1) + k - 1) + 1 = a + k - 1 OBVIOUS
      <4>3. t[(a - 1) + k - 1] = tasks[a + k - 1] BY <1>1, <4>1, <4>2
      <4>4. tasks[a + k - 1].name = Needs[p][Len(ch[p]) + k] BY <1>2 DEF PendingAt
      <4> QED BY <4>3, <4>4
    <3> QED BY <3>1, <3>2, <3>3, <3>4 DEF PendingAt
  <2> QED BY <2>2, <2>3 DEF Pending, t
<1> QED BY <1>3, <1>4

(* The tasks of a library that is new come behind.                         *)
Asked(y) == [i \in DOMAIN Needs[y] |-> [name |-> Needs[y][i], needed_by |-> y]]
AskedFor(y, needed) ==
    \A i \in 1 .. Len(needed) : needed[i].needed_by = y /\ needed[i].name \in Members(Needs[y])

LEMMA PendingNew ==
    ASSUME NEW ch \in Children, NEW y \in Libraries, NEW tasks \in Seq(Tasks), ch[y] = <<>>,
           \A i \in 1 .. Len(tasks) : tasks[i].needed_by # y,
           NEW needed, needed = Asked(y)
    PROVE  /\ needed \in Seq(Tasks) /\ Len(needed) = Len(Needs[y])
           /\ AskedFor(y, needed) /\ Pending(y, ch, tasks \o needed)
<1>1. Needs[y] \in Seq(Libraries) /\ Len(Needs[y]) \in Nat /\ DOMAIN Needs[y] = 1 .. Len(Needs[y])
  BY NeedsAre
<1>2. /\ needed \in Seq(Tasks) /\ Len(needed) = Len(Needs[y])
      /\ \A i \in 1 .. Len(needed) : needed[i] = [name |-> Needs[y][i], needed_by |-> y]
  <2>1. ASSUME NEW i \in 1 .. Len(Needs[y])
        PROVE  [name |-> Needs[y][i], needed_by |-> y] \in Tasks
    BY <1>1 DEF Tasks
  <2> QED BY <1>1, <2>1 DEF Asked
<1>3. \A i \in 1 .. Len(needed) : needed[i].needed_by = y /\ needed[i].name \in Members(Needs[y])
  <2>1. ASSUME NEW i \in 1 .. Len(needed)
        PROVE  needed[i].needed_by = y /\ needed[i].name = Needs[y][i] /\ i \in DOMAIN Needs[y]
    <3>1. needed[i] = [name |-> Needs[y][i], needed_by |-> y] BY <1>2
    <3>2. Len(needed) = Len(Needs[y]) BY <1>2
    <3>3. i \in DOMAIN Needs[y] BY <1>1, <3>2
    <3> QED BY <3>1, <3>3
  <2> QED BY <2>1 DEF Members
<1> DEFINE t == tasks \o needed
           m == Len(tasks)
<1>4. /\ m \in Nat /\ t \in Seq(Tasks) /\ Len(t) = m + Len(needed)
      /\ \A i \in 1 .. m : t[i] = tasks[i] /\ \A j \in 1 .. Len(needed) : t[m + j] = needed[j]
  BY <1>2
<1>5. \A i \in 1 .. m : t[i] = tasks[i] BY <1>2
<1>6. \A i \in 1 .. Len(needed) : t[m + i] = needed[i] BY <1>2
<1>7. \A i \in 1 .. m : tasks[i].needed_by # y OBVIOUS
<1> HIDE DEF t, m
<1>8. PendingAt(y, ch, t, Len(needed), m + 1)
  <2>1. Len(Needs[y]) = Len(ch[y]) + Len(needed) /\ (m + 1) + Len(needed) <= Len(t) + 1
    <3>1. PICK a, b : a = Len(Needs[y]) /\ b = Len(t) OBVIOUS
    <3>2. a \in Nat /\ b = m + a /\ m \in Nat /\ Len(needed) = a BY <1>1, <1>2, <1>4, <3>1
    <3>3. Len(ch[y]) = 0 OBVIOUS
    <3>4. a = 0 + a /\ (m + 1) + a <= b + 1 BY <3>2
    <3> QED BY <3>1, <3>2, <3>3, <3>4
  <2>2. \A k \in 1 .. Len(ch[y]) : ch[y][k] = Needs[y][k] OBVIOUS
  <2>3. ASSUME NEW i \in 1 .. Len(t)
        PROVE  t[i].needed_by = y <=> m + 1 <= i /\ i < (m + 1) + Len(needed)
    <3>1. CASE i <= m BY <1>4, <1>5, <1>7, <3>1
    <3>2. CASE i > m
      <4>1. i - m \in 1 .. Len(needed) /\ m + (i - m) = i BY <1>1, <1>2, <1>4, <3>2
      <4>2. t[i] = needed[i - m] BY <1>6, <4>1
      <4>3. t[i].needed_by = y BY <1>3, <4>1, <4>2
      <4> QED BY <1>4, <3>2, <4>3
    <3> QED BY <1>4, <3>1, <3>2
  <2>4. ASSUME NEW k \in 1 .. Len(needed) PROVE t[(m + 1) + k - 1].name = Needs[y][Len(ch[y]) + k]
    <3>1. (m + 1) + k - 1 = m + k BY <1>1, <1>2, <1>4
    <3>2. Len(ch[y]) + k = k BY <1>1, <1>2
    <3>3. t[m + k] = needed[k] BY <1>6
    <3>4. needed[k] = [name |-> Needs[y][k], needed_by |-> y] BY <1>2
    <3>5. t[m + k].name = Needs[y][k] BY <3>3, <3>4
    <3> QED BY <3>1, <3>2, <3>5
  <2> QED BY <2>1, <2>2, <2>3, <2>4 DEF PendingAt
<1>9. Len(needed) \in Nat /\ m + 1 \in Nat \ {0} BY <1>1, <1>2, <1>4
<1>10. Pending(y, ch, t) BY <1>8, <1>9 DEF Pending
<1> QED BY <1>2, <1>3, <1>10 DEF t, AskedFor

LEMMA PendingOld ==
    ASSUME NEW ch \in Children, NEW p \in Libraries, NEW tasks \in Seq(Tasks),
           Pending(p, ch, tasks), NEW needed \in Seq(Tasks),
           \A i \in 1 .. Len(needed) : needed[i].needed_by # p
    PROVE  Pending(p, ch, tasks \o needed)
<1> DEFINE t == tasks \o needed
           m == Len(tasks)
<1>1. m \in Nat /\ Len(needed) \in Nat /\ t \in Seq(Tasks) /\ Len(t) = m + Len(needed) OBVIOUS
<1>2. \A i \in 1 .. m : t[i] = tasks[i] OBVIOUS
<1>3. \A i \in 1 .. Len(needed) : t[m + i] = needed[i] OBVIOUS
<1>4. PICK n \in Nat, a \in Nat \ {0} : PendingAt(p, ch, tasks, n, a) BY DEF Pending
<1>5. /\ Len(Needs[p]) = Len(ch[p]) + n /\ a + n <= m + 1
      /\ \A k \in 1 .. Len(ch[p]) : ch[p][k] = Needs[p][k]
      /\ \A i \in 1 .. m : tasks[i].needed_by = p <=> a <= i /\ i < a + n
      /\ \A k \in 1 .. n : tasks[a + k - 1].name = Needs[p][Len(ch[p]) + k]
  BY <1>4 DEF PendingAt
<1> HIDE DEF t, m
<1>6. PendingAt(p, ch, t, n, a)
  <2>1. a + n <= Len(t) + 1 BY <1>1, <1>5
  <2>2. ASSUME NEW i \in 1 .. Len(t) PROVE t[i].needed_by = p <=> a <= i /\ i < a + n
    <3>1. CASE i <= m BY <1>1, <1>2, <1>5, <3>1
    <3>2. CASE i > m
      <4>1. i - m \in 1 .. Len(needed) /\ m + (i - m) = i BY <1>1, <3>2
      <4>2. t[i] = needed[i - m] BY <1>3, <4>1
      <4> QED BY <1>1, <1>5, <3>2, <4>1, <4>2
    <3> QED BY <1>1, <3>1, <3>2
  <2>3. ASSUME NEW k \in 1 .. n PROVE t[a + k - 1].name = Needs[p][Len(ch[p]) + k]
    <3>1. a + k - 1 \in 1 .. m BY <1>1, <1>5
    <3> QED BY <1>2, <1>5, <3>1
  <2> QED BY <1>5, <2>1, <2>2, <2>3 DEF PendingAt
<1>7. Pending(p, ch, t) BY <1>6 DEF Pending
<1> QED BY <1>7 DEF t

LEMMA PendingDone ==
    ASSUME NEW ch \in Children, NEW p \in Libraries, Pending(p, ch, <<>>)
    PROVE  ch[p] = Needs[p]
<1>1. PICK n \in Nat, a \in Nat \ {0} : PendingAt(p, ch, <<>>, n, a) BY DEF Pending
<1>2. n = 0 BY <1>1 DEF PendingAt
<1>3. ch[p] \in Seq(Libraries) /\ Needs[p] \in Seq(Libraries) BY NeedsAre DEF Children
<1>4. Len(ch[p]) = Len(Needs[p]) /\ \A k \in 1 .. Len(ch[p]) : ch[p][k] = Needs[p][k]
  BY <1>1, <1>2, <1>3 DEF PendingAt
<1> QED BY <1>3, <1>4

----------------------------------------------------------------------------
LinkTypes ==
    /\ solist \in SUBSET Libraries /\ IsFiniteSet(solist) /\ linked \in SUBSET Libraries
    /\ constructors_called \in SUBSET Libraries
    /\ ref_count \in [Libraries -> Nat] /\ handles \in [Libraries -> Nat]
    /\ children \in Children /\ parents \in [Libraries -> SUBSET Libraries]
    /\ load_tasks \in Seq(Tasks) /\ found_libs \in Seq(Libraries) /\ stack \in Seq(Frames)

Counted == RefsAre(ref_count, handles, children, solist, stack)
Stacked == StackOK(stack, children, ref_count, constructors_called)
    /\ TopOK(stack, constructors_called)

Kept ==
    /\ constructors_called \subseteq linked /\ debug_map = linked /\ linked \subseteq solist
    /\ \A l \in Libraries : l \in solist <=> ref_count[l] > 0
    /\ \A l \in Libraries : l \notin solist => children[l] = <<>>
    /\ \A l \in Libraries : handles[l] > 0 => l \in constructors_called
    /\ \A p \in solist : \A k \in Members(children[p]) : p \in parents[k]

(* What a library needs is constructed before it, or is still to be.       *)
ReadyAt(s, cc, l) ==
    \A k \in Members(Needs[l]) :
       \/ k \in cc
       \/ \E i \in 1 .. Len(s) : s[i].fn = "ctor" /\ s[i].lib = l /\ k \in Members(s[i].left)
Ready == \A l \in constructors_called : ReadyAt(stack, constructors_called, l)

(* The libraries in H are half loaded, or go after a load that failed.     *)
(* The others have holders besides, and what they need.                    *)
WholeLib(l) ==
    /\ l \in linked
    /\ l \notin Torn(stack) \/ l \in constructors_called => children[l] = Needs[l]
HalfOK(H) ==
    /\ H \cap constructors_called = {}
    /\ \A l \in solist \ H : WholeLib(l) /\ \A k \in Members(children[l]) : k \notin H
    /\ \A i \in 1 .. Len(stack) : stack[i].lib \in H =>
          stack[i].fn \in {"find", "unload"} /\ \A j \in 1 .. i : stack[j].lib \in H
    /\ H # {} => stack # <<>> /\ stack[1].lib \in H
    /\ \A l \in solist \ H : \/ handles[l] > 0 \/ HeldIn(stack, l) > 0
                            \/ \E p \in solist \ H : l \in Members(children[p])

(* The load under way.  It comes to nothing that is being unloaded.        *)
LoadOK(H) ==
    /\ \A l \in H : /\ l \notin Torn(stack) /\ l \in linked \cup Members(found_libs)
                    /\ Pending(l, children, load_tasks)
    /\ stack[1].left = <<>> => /\ H = {} /\ found_libs = <<>>
                               /\ load_tasks = <<[name |-> stack[1].lib, needed_by |-> Nil]>>
    /\ stack[1].left # <<>> => \A i \in 1 .. Len(load_tasks) : load_tasks[i].needed_by \in H
    /\ Members(found_libs) \subseteq solist
    /\ \E C \in SUBSET Libraries :
          /\ stack[1].lib \in C /\ C \cap Torn(stack) = {}
          /\ \A x \in C : Members(Needs[x]) \subseteq C
          /\ \A i \in 1 .. Len(load_tasks) : load_tasks[i].name \in C

Halves == \E H \in SUBSET solist : HalfOK(H) /\ (Running("find") => LoadOK(H))
LinkInv == /\ LinkTypes /\ Counted /\ Kept /\ Stacked /\ Ready /\ Acyclic(solist, children)
           /\ Halves

LEMMA TopIs ==
    ASSUME NEW s \in Seq(Frames), s # <<>>
    PROVE  Head(s) = s[1] /\ 1 \in 1 .. Len(s) /\ s[1] \in Frames
OBVIOUS

LEMMA TornPushed ==
    ASSUME NEW s \in Seq(Frames), NEW f \in Frames
    PROVE  Torn(<<f>> \o s) = IF f.fn = "unload" THEN Torn(s) \cup {f.lib} ELSE Torn(s)
<1> DEFINE t == <<f>> \o s
<1>1. /\ Len(s) \in Nat /\ Len(t) = Len(s) + 1
      /\ t[1] = f /\ \A i \in 1 .. Len(s) : t[i + 1] = s[i]
  BY Pushed
<1> HIDE DEF t
<1>2. f.lib \in Libraries BY DEF Frames
<1>3. ASSUME NEW l \in Torn(t) PROVE l \in Torn(s) \/ (f.fn = "unload" /\ l = f.lib)
  <2>1. PICK i \in 1 .. Len(t) : t[i].fn = "unload" /\ t[i].lib = l BY DEF Torn
  <2>2. CASE i = 1 BY <1>1, <2>1, <2>2
  <2>3. CASE i # 1
    <3>1. i - 1 \in 1 .. Len(s) /\ (i - 1) + 1 = i BY <1>1, <2>3
    <3>2. t[i] = s[i - 1] BY <1>1, <3>1
    <3> QED BY <2>1, <3>1, <3>2 DEF Torn
  <2> QED BY <2>2, <2>3
<1>4. ASSUME NEW l \in Torn(s) PROVE l \in Torn(t)
  <2>1. PICK i \in 1 .. Len(s) : s[i].fn = "unload" /\ s[i].lib = l BY DEF Torn
  <2>2. i + 1 \in 1 .. Len(t) /\ t[i + 1] = s[i] BY <1>1
  <2> QED BY <2>1, <2>2 DEF Torn
<1>5. f.fn = "unload" => f.lib \in Torn(t)
  <2>1. 1 \in 1 .. Len(t) BY <1>1
  <2> QED BY <1>1, <1>2, <2>1 DEF Torn
<1> QED BY <1>3, <1>4, <1>5 DEF t

LEMMA TornPopped ==
    ASSUME NEW s \in Seq(Frames), s # <<>>
    PROVE  Torn(s) = IF s[1].fn = "unload" THEN Torn(Tail(s)) \cup {s[1].lib} ELSE Torn(Tail(s))
<1>1. Tail(s) \in Seq(Frames) /\ Head(s) \in Frames /\ s = <<Head(s)>> \o Tail(s) /\ Head(s) = s[1]
  BY Popped
<1> QED BY <1>1, TornPushed

(* What is needed is loaded, and so is what is on the stack.               *)
LEMMA NeededIsLoaded ==
    ASSUME LinkTypes, Counted, Kept
    PROVE  \A p \in solist : Members(children[p]) \subseteq solist
<1> SUFFICES ASSUME NEW p \in solist, NEW k \in Members(children[p]) PROVE k \in solist OBVIOUS
<1>1. k \in Libraries
  <2>1. children[p] \in Seq(Libraries) BY DEF LinkTypes, Children
  <2> QED BY <2>1 DEF Members
<1>2. LinksIn(children, solist, k) \in Nat /\ LinksIn(children, solist, k) # 0
  BY LinksNone DEF LinkTypes
<1>3. handles[k] \in Nat /\ HeldIn(stack, k) \in Nat BY <1>1, HeldType DEF LinkTypes
<1>4. ref_count[k] = handles[k] + LinksIn(children, solist, k) + HeldIn(stack, k)
  BY <1>1 DEF Counted, RefsAre
<1>5. ref_count[k] > 0 BY <1>2, <1>3, <1>4
<1> QED BY <1>1, <1>5 DEF Kept

LEMMA HeldIsLoaded ==
    ASSUME LinkTypes, Counted, Kept, NEW i \in 1 .. Len(stack), Holds(stack[i])
    PROVE  stack[i].lib \in solist
<1> DEFINE k == stack[i].lib
<1>1. k \in Libraries
  <2>1. stack[i] \in Frames BY DEF LinkTypes
  <2> QED BY <2>1 DEF Frames
<1>2. LinksIn(children, solist, k) \in Nat BY LinksNone DEF LinkTypes
<1>3. handles[k] \in Nat /\ HeldIn(stack, k) \in Nat /\ HeldIn(stack, k) # 0
  BY <1>1, HeldType DEF LinkTypes
<1>4. ref_count[k] = handles[k] + LinksIn(children, solist, k) + HeldIn(stack, k)
  BY <1>1 DEF Counted, RefsAre
<1> HIDE DEF k
<1>5. ref_count[k] > 0 BY <1>2, <1>3, <1>4
<1> QED BY <1>1, <1>5 DEF Kept, k

LEMMA OnStackIsLoaded ==
    ASSUME LinkTypes, Counted, Kept, Stacked, NEW i \in 1 .. Len(stack),
           stack[i].fn # "find" \/ stack[i].left # <<>>
    PROVE  stack[i].lib \in solist
<1>1. stack[i] \in Frames BY DEF LinkTypes
<1>2. FrameOK(stack, i, children, ref_count, constructors_called) BY DEF Stacked, StackOK
<1>3. CASE stack[i].fn \in {"open", "unload"} \/ (stack[i].fn = "find" /\ stack[i].left # <<>>)
  BY <1>3, HeldIsLoaded DEF Holds
<1>4. CASE stack[i].fn \in {"ctor", "init", "fini"} BY <1>2, <1>4 DEF FrameOK, Kept
<1> QED BY <1>1, <1>3, <1>4 DEF Frames

(* When no load is under way or failing.                                   *)
Calm == \A l \in solist : WholeLib(l)
LEMMA CalmIsWhole == LinkTypes /\ Counted /\ Kept /\ Calm => HalfOK({})
<1> SUFFICES ASSUME LinkTypes, Counted, Kept, Calm PROVE HalfOK({}) OBVIOUS
<1>1. ASSUME NEW l \in solist
      PROVE  \/ handles[l] > 0 \/ HeldIn(stack, l) > 0
             \/ \E p \in solist : l \in Members(children[p])
  <2>1. l \in Libraries BY DEF LinkTypes
  <2>2. LinksIn(children, solist, l) \in Nat
        /\ (LinksIn(children, solist, l) = 0 <=> \A p \in solist : l \notin Members(children[p]))
    BY LinksNone DEF LinkTypes
  <2>3. handles[l] \in Nat /\ HeldIn(stack, l) \in Nat BY <2>1, HeldType DEF LinkTypes
  <2>4. ref_count[l] = handles[l] + LinksIn(children, solist, l) + HeldIn(stack, l)
    BY <2>1 DEF Counted, RefsAre
  <2>5. ref_count[l] > 0 BY <2>1 DEF Kept
  <2> QED BY <2>2, <2>3, <2>4, <2>5
<1> QED BY <1>1 DEF HalfOK, Calm

LEMMA CalmIs == LinkTypes /\ Counted /\ Kept /\ Calm /\ ~Running("find") => Halves
<1> SUFFICES ASSUME LinkTypes, Counted, Kept, Calm, ~Running("find") PROVE Halves OBVIOUS
<1>1. HalfOK({}) BY CalmIsWhole
<1> QED BY <1>1 DEF Halves

LEMMA CalmWhen ==
    ASSUME LinkInv, stack = <<>> \/ stack[1].fn \notin {"find", "unload"}
    PROVE  Calm
<1>1. PICK H \in SUBSET solist : HalfOK(H) BY DEF LinkInv, Halves
<1>2. H = {}
  <2> SUFFICES ASSUME H # {} PROVE FALSE OBVIOUS
  <2>1. stack # <<>> /\ stack[1].lib \in H BY <1>1 DEF HalfOK
  <2>2. 1 \in 1 .. Len(stack) BY <2>1, TopIs DEF LinkInv, LinkTypes
  <2> QED BY <1>1, <2>1, <2>2 DEF HalfOK
<1> QED BY <1>1, <1>2 DEF HalfOK, Calm

----------------------------------------------------------------------------
(* What pushing and popping keep.                                          *)
LEMMA TopPops ==
    ASSUME NEW s \in Seq(Frames), s # <<>>, s[1].fn # "fini", NEW ch, NEW rc, NEW cc,
           StackOK(s, ch, rc, cc)
    PROVE  TopOK(Tail(s), cc)
<1> DEFINE t == Tail(s)
<1>1. /\ t \in Seq(Frames) /\ Len(t) \in Nat /\ Len(s) = Len(t) + 1
      /\ \A i \in 1 .. Len(t) : t[i] = s[i + 1]
  BY Popped
<1>2. t # <<>> => 1 \in 1 .. Len(t) /\ 2 \in 1 .. Len(s) /\ t[1] = s[1 + 1] BY <1>1
<1> HIDE DEF t
<1>3. t # <<>> => FrameOK(s, 2, ch, rc, cc) BY <1>2 DEF StackOK
<1>4. t # <<>> => t[1] = s[2] /\ s[2 - 1] = s[1] BY <1>2
<1> QED BY <1>3, <1>4 DEF FrameOK, TopOK, t

LEMMA ReadyPops ==
    ASSUME NEW s \in Seq(Frames), s # <<>>, NEW dd, NEW l, ReadyAt(s, dd, l),
           s[1].fn # "ctor" \/ s[1].lib # l \/ Members(s[1].left) \subseteq dd
    PROVE  ReadyAt(Tail(s), dd, l)
<1> DEFINE t == Tail(s)
<1>1. /\ Len(t) \in Nat /\ Len(s) = Len(t) + 1 /\ \A i \in 1 .. Len(t) : t[i] = s[i + 1]
  BY Popped
<1> HIDE DEF t
<1>2. ASSUME NEW k \in Members(Needs[l]), k \notin dd
      PROVE  \E i \in 1 .. Len(t) : t[i].fn = "ctor" /\ t[i].lib = l /\ k \in Members(t[i].left)
  <2>1. PICK i \in 1 .. Len(s) : s[i].fn = "ctor" /\ s[i].lib = l /\ k \in Members(s[i].left)
    BY <1>2 DEF ReadyAt
  <2>2. i # 1 BY <1>2, <2>1
  <2>3. i - 1 \in 1 .. Len(t) /\ (i - 1) + 1 = i BY <1>1, <2>2
  <2>4. t[i - 1] = s[i] BY <1>1, <2>3
  <2> QED BY <2>1, <2>3, <2>4
<1> QED BY <1>2 DEF ReadyAt, t

LEMMA ReadyPushes ==
    ASSUME NEW s \in Seq(Frames), NEW f \in Frames, NEW dd, NEW l, ReadyAt(s, dd, l)
    PROVE  ReadyAt(<<f>> \o s, dd, l)
<1> DEFINE t == <<f>> \o s
<1>1. /\ Len(s) \in Nat /\ Len(t) = Len(s) + 1 /\ \A i \in 1 .. Len(s) : t[i + 1] = s[i]
  BY Pushed
<1> HIDE DEF t
<1>2. ASSUME NEW i \in 1 .. Len(s) PROVE i + 1 \in 1 .. Len(t) /\ t[i + 1] = s[i] BY <1>1
<1>3. ASSUME NEW k \in Members(Needs[l]), k \notin dd
      PROVE  \E i \in 1 .. Len(t) : t[i].fn = "ctor" /\ t[i].lib = l /\ k \in Members(t[i].left)
  <2>1. PICK i \in 1 .. Len(s) : s[i].fn = "ctor" /\ s[i].lib = l /\ k \in Members(s[i].left)
    BY <1>3 DEF ReadyAt
  <2>2. i + 1 \in 1 .. Len(t) /\ t[i + 1] = s[i] BY <1>2
  <2> QED BY <2>1, <2>2
<1> QED BY <1>3 DEF ReadyAt, t

(* The constructors of one more child are called.                          *)
LEMMA ReadyAdvances ==
    ASSUME NEW s \in Seq(Frames), NEW f \in Frames, NEW g \in Frames, NEW dd, NEW l,
           ReadyAt(<<f>> \o s, dd, l), f.fn = "ctor", g.fn = "ctor", g.lib = f.lib,
           Members(f.left) \subseteq Members(g.left) \cup dd
    PROVE  ReadyAt(<<g>> \o s, dd, l)
<1> DEFINE t == <<f>> \o s
           u == <<g>> \o s
<1>1. /\ Len(s) \in Nat /\ Len(t) = Len(s) + 1 /\ \A i \in 1 .. Len(s) : t[i + 1] = s[i]
      /\ Len(u) = Len(s) + 1 /\ \A i \in 1 .. Len(s) : u[i + 1] = s[i]
      /\ t[1] = f /\ u[1] = g
  BY Pushed
<1>2. ReadyAt(t, dd, l) OBVIOUS
<1> HIDE DEF t, u
<1>3. ASSUME NEW k \in Members(Needs[l]), k \notin dd
      PROVE  \E i \in 1 .. Len(u) : u[i].fn = "ctor" /\ u[i].lib = l /\ k \in Members(u[i].left)
  <2>1. PICK i \in 1 .. Len(t) : t[i].fn = "ctor" /\ t[i].lib = l /\ k \in Members(t[i].left)
    BY <1>2, <1>3 DEF ReadyAt
  <2>2. i \in 1 .. Len(u) BY <1>1
  <2>3. CASE i = 1 BY <1>1, <1>3, <2>1, <2>2, <2>3
  <2>4. CASE i # 1
    <3>1. i - 1 \in 1 .. Len(s) /\ (i - 1) + 1 = i BY <1>1, <2>4
    <3>2. t[i] = s[i - 1] /\ u[i] = s[i - 1] BY <1>1, <3>1
    <3> QED BY <2>1, <2>2, <3>2
  <2> QED BY <2>3, <2>4
<1> QED BY <1>3 DEF ReadyAt, u

LEMMA ReadyOnTop ==
    ASSUME NEW s \in Seq(Frames), NEW f \in Frames, NEW dd, f.fn = "ctor",
           Members(Needs[f.lib]) \subseteq Members(f.left)
    PROVE  ReadyAt(<<f>> \o s, dd, f.lib)
<1> DEFINE t == <<f>> \o s
<1>1. 1 \in 1 .. Len(t) /\ t[1] = f BY Pushed
<1> HIDE DEF t
<1> QED BY <1>1 DEF ReadyAt, t

(* When nothing changes but the stack, the constructors called and the     *)
(* handles.                                                                *)
LEMMA QuietStep ==
    ASSUME LinkInv, Calm, Constructing, stack' \in Seq(Frames), handles' \in [Libraries -> Nat],
           constructors_called' \subseteq linked, Counted', Stacked', Ready',
           \A l \in Libraries : handles'[l] > 0 => l \in constructors_called',
           Torn(stack') = Torn(stack), ~Running("find")',
           \A l \in constructors_called' : l \in constructors_called \/ l \notin Torn(stack)
    PROVE  LinkInv'
<1>1. /\ solist' = solist /\ ref_count' = ref_count /\ children' = children /\ parents' = parents
      /\ linked' = linked /\ debug_map' = debug_map /\ load_tasks' = load_tasks
      /\ found_libs' = found_libs
  BY DEF Constructing
<1>2. LinkTypes /\ Kept /\ Acyclic(solist, children) BY DEF LinkInv
<1>3. LinkTypes' BY <1>1, <1>2 DEF LinkTypes
<1>4. Kept' BY <1>1, <1>2 DEF Kept
<1>5. Acyclic(solist, children)' BY <1>1, <1>2
<1>6. Calm' BY <1>1, <1>2 DEF Calm, WholeLib, LinkTypes
<1>7. Counted' /\ ~Running("find")' OBVIOUS
<1>8. Halves' BY <1>3, <1>4, <1>6, <1>7, CalmIs, PTL
<1> QED BY <1>3, <1>4, <1>5, <1>7, <1>8 DEF LinkInv

----------------------------------------------------------------------------
(* Constructors and destructors.                                           *)
LEMMA RunningIs ==
    ASSUME LinkInv, NEW f, Running(f)
    PROVE  /\ stack \in Seq(Frames) /\ stack # <<>> /\ Top = stack[1] /\ stack[1] \in Frames
           /\ stack[1].fn = f /\ stack[1].lib \in Libraries /\ stack[1].left \in Seq(Libraries)
           /\ stack = <<stack[1]>> \o Below /\ 1 \in 1 .. Len(stack)
           /\ FrameOK(stack, 1, children, ref_count, constructors_called)
           /\ Below \in Seq(Frames)
           /\ StackOK(Below, children, ref_count, constructors_called)
           /\ Below # <<>> => Below[1].fn # "find" /\ Below[1] = stack[2] /\ 2 \in 1 .. Len(stack)
<1>1. /\ stack \in Seq(Frames) /\ stack # <<>> /\ Head(stack).fn = f
      /\ StackOK(stack, children, ref_count, constructors_called)
  BY DEF LinkInv, LinkTypes, Stacked, Running
<1>2. Head(stack) = stack[1] /\ 1 \in 1 .. Len(stack) /\ stack[1] \in Frames BY <1>1, TopIs
<1>3. stack[1].lib \in Libraries /\ stack[1].left \in Seq(Libraries) BY <1>2 DEF Frames
<1>4. FrameOK(stack, 1, children, ref_count, constructors_called) BY <1>1, <1>2 DEF StackOK
<1>5. /\ StackOK(Tail(stack), children, ref_count, constructors_called)
      /\ Tail(stack) # <<>> => Tail(stack)[1].fn # "find"
  BY <1>1, StackPops
<1>6. /\ Tail(stack) \in Seq(Frames) /\ stack = <<Head(stack)>> \o Tail(stack)
      /\ Len(stack) = Len(Tail(stack)) + 1 /\ Len(Tail(stack)) \in Nat
      /\ \A i \in 1 .. Len(Tail(stack)) : Tail(stack)[i] = stack[i + 1]
  BY <1>1, Popped
<1>7. Tail(stack) # <<>> => 1 \in 1 .. Len(Tail(stack)) BY <1>6
<1>8. Tail(stack) # <<>> => Tail(stack)[1] = stack[2] /\ 2 \in 1 .. Len(stack)
  <2>1. Tail(stack) # <<>> => Tail(stack)[1] = stack[1 + 1] BY <1>6, <1>7
  <2> QED BY <1>6, <1>7, <2>1
<1> QED BY <1>1, <1>2, <1>3, <1>4, <1>5, <1>6, <1>8 DEF Top, Below

LEMMA InvIs ==
    ASSUME LinkInv
    PROVE  /\ LinkTypes /\ Counted /\ Kept /\ Stacked /\ Ready /\ Acyclic(solist, children)
           /\ StackOK(stack, children, ref_count, constructors_called)
           /\ TopOK(stack, constructors_called)
           /\ RefsAre(ref_count, handles, children, solist, stack)
           /\ solist \in SUBSET Libraries /\ IsFiniteSet(solist)
           /\ constructors_called \in SUBSET Libraries /\ constructors_called \subseteq linked
           /\ linked \subseteq solist /\ children \in Children
           /\ handles \in [Libraries -> Nat] /\ ref_count \in [Libraries -> Nat]
           /\ load_tasks \in Seq(Tasks) /\ found_libs \in Seq(Libraries)
           /\ parents \in [Libraries -> SUBSET Libraries]
BY DEF LinkInv, LinkTypes, Counted, Kept, Stacked

LEMMA InitReturnsStep ==
    ASSUME LinkInv, InitReturns
    PROVE  LinkInv'
<1>1. Running("init") /\ Constructing /\ stack' = Below /\ handles' = handles
      /\ constructors_called' = constructors_called /\ ref_count' = ref_count
      /\ children' = children /\ solist' = solist
  BY DEF InitReturns, Constructing
<1>2. /\ stack \in Seq(Frames) /\ stack # <<>> /\ stack[1].fn = "init" /\ Below \in Seq(Frames)
      /\ StackOK(Below, children, ref_count, constructors_called)
      /\ Below # <<>> => Below[1].fn # "find"
      /\ Head(stack) = stack[1]
  BY <1>1, RunningIs DEF Top
<1>3. Calm BY <1>2, CalmWhen
<1>4. \A l \in Libraries : HeldIn(Below, l) = HeldIn(stack, l)
  <2> TAKE l \in Libraries
  <2>1. HeldIn(stack, l) = HeldIn(Below, l) + 0 BY <1>2, HeldPopped DEF Below, Holds, One
  <2>2. HeldIn(Below, l) \in Nat BY <1>2, HeldType
  <2> QED BY <2>1, <2>2
<1>5. Counted' BY <1>1, <1>4, InvIs DEF Counted, RefsAre
<1>6. TopOK(Below, constructors_called) BY <1>2, InvIs, TopPops DEF Below
<1>7. Stacked' BY <1>1, <1>2, <1>6 DEF Stacked
<1>8. Ready'
  <2>1. ASSUME NEW l \in constructors_called PROVE ReadyAt(Below, constructors_called, l)
    <3>1. ReadyAt(stack, constructors_called, l) BY InvIs DEF Ready
    <3> QED BY <1>2, <3>1, ReadyPops DEF Below
  <2> QED BY <1>1, <2>1 DEF Ready
<1>9. Torn(stack') = Torn(stack) BY <1>1, <1>2, TornPopped DEF Below
<1>10. ~Running("find")'
  <2>1. stack' # <<>> => Head(stack') = stack'[1] BY <1>1, <1>2, TopIs
  <2> QED BY <1>1, <1>2, <2>1 DEF Running
<1>11. \A l \in Libraries : handles'[l] > 0 => l \in constructors_called' BY <1>1, InvIs DEF Kept
<1>12. constructors_called' \subseteq linked /\ handles' \in [Libraries -> Nat]
       /\ stack' \in Seq(Frames) /\ \A l \in constructors_called' : l \in constructors_called
  BY <1>1, <1>2, InvIs
<1> QED BY <1>1, <1>3, <1>5, <1>7, <1>8, <1>9, <1>10, <1>11, <1>12, QuietStep

(* An activation takes the place of the running one and holds the same.    *)
LEMMA HeldInstead ==
    ASSUME NEW s \in Seq(Frames), s # <<>>, NEW g \in Frames, g.lib = s[1].lib,
           Holds(g) <=> Holds(s[1]), NEW l \in Libraries
    PROVE  HeldIn(<<g>> \o Tail(s), l) = HeldIn(s, l)
<1>1. Tail(s) \in Seq(Frames) /\ Head(s) = s[1] BY Popped
<1>2. HeldIn(s, l) = HeldIn(Tail(s), l) + One(Holds(s[1]) /\ s[1].lib = l) BY <1>1, HeldPopped
<1>3. HeldIn(<<g>> \o Tail(s), l) = HeldIn(Tail(s), l) + One(Holds(g) /\ g.lib = l)
  BY <1>1, HeldPushed
<1>4. (Holds(g) /\ g.lib = l) = (Holds(s[1]) /\ s[1].lib = l) OBVIOUS
<1> QED BY <1>2, <1>3, <1>4

LEMMA HeldMore ==
    ASSUME NEW s \in Seq(Frames), NEW g \in Frames, ~Holds(g), NEW l \in Libraries
    PROVE  HeldIn(<<g>> \o s, l) = HeldIn(s, l)
<1>1. HeldIn(<<g>> \o s, l) = HeldIn(s, l) + 0 BY HeldPushed DEF One
<1>2. HeldIn(s, l) \in Nat BY HeldType
<1> QED BY <1>1, <1>2

LEMMA FrameIs ==
    ASSUME NEW f \in {"find", "open", "ctor", "init", "fini", "unload"}, NEW l \in Libraries,
           NEW s \in Seq(Libraries)
    PROVE  Frame(f, l, s) \in Frames /\ Frame(f, l, s).fn = f /\ Frame(f, l, s).lib = l
           /\ Frame(f, l, s).left = s
BY DEF Frame, Frames

LEMMA NoneLeft == <<>> \in Seq(Libraries)
OBVIOUS

LEMMA NotFinding ==
    ASSUME NEW s \in Seq(Frames), NEW f \in Frames, f.fn # "find", stack' = <<f>> \o s
    PROVE  ~Running("find")'
<1>1. stack' # <<>> /\ Head(stack') = f BY Pushed
<1> QED BY <1>1 DEF Running

LEMMA StackInstead ==
    ASSUME NEW s \in Seq(Frames), s # <<>>, NEW ch, NEW rc, NEW cc, StackOK(s, ch, rc, cc),
           s[1].fn = "ctor", NEW g \in Frames, g.fn \in {"ctor", "init"}, g.lib = s[1].lib,
           Members(g.left) \subseteq Members(s[1].left)
    PROVE  StackOK(<<g>> \o Tail(s), ch, rc, cc)
<1> DEFINE u == Tail(s)
           t == <<g>> \o u
<1>1. /\ u \in Seq(Frames) /\ Len(u) \in Nat /\ Len(s) = Len(u) + 1
      /\ \A i \in 1 .. Len(u) : u[i] = s[i + 1]
  BY Popped
<1>2. /\ Len(t) = Len(u) + 1 /\ t[1] = g /\ \A i \in 1 .. Len(u) : t[i + 1] = u[i] BY <1>1, Pushed
<1>3. StackOK(u, ch, rc, cc) /\ (u # <<>> => u[1].fn # "find") BY StackPops
<1>4. TopOK(u, cc) BY TopPops
<1> HIDE DEF t, u
<1>5. 1 < Len(s) => 1 \in 1 .. Len(u) BY <1>1
<1>6. 1 < Len(s) => t[1 + 1] = s[1 + 1] /\ 1 < Len(t) BY <1>1, <1>2, <1>5
<1>7. FrameOK(s, 1, ch, rc, cc) BY TopIs DEF StackOK
<1>8. FrameOK(t, 1, ch, rc, cc) BY <1>2, <1>6, <1>7 DEF FrameOK
<1> QED BY <1>1, <1>3, <1>4, <1>8, StackPushes DEF TopOK, t, u

LEMMA CallInitStep ==
    ASSUME LinkInv, CallInit
    PROVE  LinkInv'
<1> DEFINE l == stack[1].lib
           f == Frame("init", l, <<>>)
<1>1. Running("ctor") /\ Constructing /\ stack' = <<Frame("init", Top.lib, <<>>)>> \o Below
      /\ handles' = handles /\ Top.left = <<>>
      /\ constructors_called' = constructors_called /\ ref_count' = ref_count
      /\ children' = children /\ solist' = solist
  BY DEF CallInit, Constructing
<1>2. /\ stack \in Seq(Frames) /\ stack # <<>> /\ stack[1].fn = "ctor" /\ Below \in Seq(Frames)
      /\ StackOK(Below, children, ref_count, constructors_called)
      /\ Below # <<>> => Below[1].fn # "find" /\ Below[1] = stack[2]
      /\ Top = stack[1] /\ l \in Libraries /\ stack = <<stack[1]>> \o Below
      /\ FrameOK(stack, 1, children, ref_count, constructors_called)
  BY <1>1, RunningIs
<1>3. f \in Frames /\ f.fn = "init" /\ f.lib = l /\ f.left = <<>> /\ stack' = <<f>> \o Below
  <2>1. "init" \in {"find", "open", "ctor", "init", "fini", "unload"} OBVIOUS
  <2>2. Frame("init", l, <<>>) \in Frames BY <1>2, <2>1, FrameIs, NoneLeft
  <2> QED BY <1>1, <1>2, <2>2 DEF Frame
<1> HIDE DEF f
<1>4. Calm BY <1>2, CalmWhen
<1>5. \A x \in Libraries : HeldIn(<<f>> \o Below, x) = HeldIn(stack, x)
  BY <1>2, <1>3, HeldInstead DEF Below, Holds
<1>6. Counted' BY <1>1, <1>3, <1>5, InvIs DEF Counted, RefsAre
<1>7. TopOK(Below, constructors_called) BY <1>2, InvIs, TopPops DEF Below
<1>8. Members(f.left) \subseteq Members(stack[1].left) BY <1>3 DEF Members
<1>9. StackOK(<<f>> \o Below, children, ref_count, constructors_called)
  BY <1>2, <1>3, <1>8, InvIs, StackInstead DEF Below
<1>10. Stacked'
  <2>1. stack'[1] = f BY <1>2, <1>3, Pushed
  <2> QED BY <1>1, <1>3, <1>9, <2>1 DEF Stacked, TopOK
<1>11. Ready'
  <2>1. ASSUME NEW x \in constructors_called
        PROVE  ReadyAt(<<f>> \o Below, constructors_called, x)
    <3>1. ReadyAt(stack, constructors_called, x) BY InvIs DEF Ready
    <3>2. Members(stack[1].left) \subseteq constructors_called BY <1>1, <1>2 DEF Members
    <3>3. ReadyAt(Below, constructors_called, x) BY <1>2, <3>1, <3>2, ReadyPops DEF Below
    <3> QED BY <1>2, <1>3, <3>3, ReadyPushes
  <2> QED BY <1>1, <1>3, <2>1 DEF Ready
<1>12. Torn(stack') = Torn(stack) BY <1>2, <1>3, TornPopped, TornPushed DEF Below
<1>13. ~Running("find")' BY <1>2, <1>3, NotFinding
<1>14. \A x \in Libraries : handles'[x] > 0 => x \in constructors_called' BY <1>1, InvIs DEF Kept
<1>15. constructors_called' \subseteq linked /\ handles' \in [Libraries -> Nat]
       /\ stack' \in Seq(Frames) /\ \A x \in constructors_called' : x \in constructors_called
  BY <1>1, <1>2, <1>3, Pushed, InvIs
<1> QED BY <1>1, <1>4, <1>6, <1>10, <1>11, <1>12, <1>13, <1>14, <1>15, QuietStep

LEMMA HandleReturnedStep ==
    ASSUME LinkInv, HandleReturned
    PROVE  LinkInv'
<1> DEFINE l == stack[1].lib
<1>1. Running("open") /\ Constructing /\ stack' = Below
      /\ handles' = [handles EXCEPT ![Top.lib] = @ + 1]
      /\ constructors_called' = constructors_called /\ ref_count' = ref_count
      /\ children' = children /\ solist' = solist
  BY DEF HandleReturned, Constructing
<1>2. /\ stack \in Seq(Frames) /\ stack # <<>> /\ stack[1].fn = "open" /\ Below \in Seq(Frames)
      /\ StackOK(Below, children, ref_count, constructors_called)
      /\ Below # <<>> => Below[1].fn # "find"
      /\ Top = stack[1] /\ Head(stack) = stack[1] /\ l \in Libraries
      /\ FrameOK(stack, 1, children, ref_count, constructors_called)
  BY <1>1, RunningIs DEF Top
<1>3. l \in constructors_called BY <1>2 DEF FrameOK
<1>4. Calm BY <1>2, CalmWhen
<1>5. handles \in [Libraries -> Nat] /\ handles' = [handles EXCEPT ![l] = @ + 1]
  BY <1>1, <1>2, InvIs
<1>6. Holds(stack[1]) BY <1>2 DEF Holds
<1> HIDE DEF l
<1>7. ASSUME NEW x \in Libraries
      PROVE handles'[x] + HeldIn(Below, x) = handles[x] + HeldIn(stack, x)
  <2>1. HeldIn(stack, x) = HeldIn(Below, x) + One(l = x) BY <1>2, <1>6, HeldPopped DEF Below, l
  <2>2. HeldIn(Below, x) \in Nat /\ handles[x] \in Nat BY <1>2, <1>5, HeldType
  <2>3. handles'[x] = handles[x] + One(l = x) BY <1>5, <2>2 DEF One
  <2>4. One(l = x) \in Nat BY DEF One
  <2> QED BY <2>1, <2>2, <2>3, <2>4
<1>8. Counted'
  <2>1. ASSUME NEW x \in Libraries
        PROVE  ref_count[x] = handles'[x] + LinksIn(children, solist, x) + HeldIn(Below, x)
    <3>1. ref_count[x] = handles[x] + LinksIn(children, solist, x) + HeldIn(stack, x)
      BY InvIs DEF RefsAre
    <3>2. HeldIn(Below, x) \in Nat /\ HeldIn(stack, x) \in Nat /\ handles[x] \in Nat
      BY <1>2, <1>5, HeldType
    <3>3. handles'[x] \in Nat BY <1>2, <1>5
    <3>4. LinksIn(children, solist, x) \in Nat BY InvIs, LinksNone
    <3> QED BY <1>7, <3>1, <3>2, <3>3, <3>4
  <2> QED BY <1>1, <2>1 DEF Counted, RefsAre
<1>9. TopOK(Below, constructors_called) BY <1>2, InvIs, TopPops DEF Below
<1>10. Stacked' BY <1>1, <1>2, <1>9 DEF Stacked
<1>11. Ready'
  <2>1. ASSUME NEW x \in constructors_called PROVE ReadyAt(Below, constructors_called, x)
    <3>1. ReadyAt(stack, constructors_called, x) BY InvIs DEF Ready
    <3> QED BY <1>2, <3>1, ReadyPops DEF Below
  <2> QED BY <1>1, <2>1 DEF Ready
<1>12. Torn(stack') = Torn(stack) BY <1>1, <1>2, TornPopped DEF Below
<1>13. ~Running("find")'
  <2>1. stack' # <<>> => Head(stack') = stack'[1] BY <1>1, <1>2, TopIs
  <2> QED BY <1>1, <1>2, <2>1 DEF Running
<1>14. \A x \in Libraries : handles'[x] > 0 => x \in constructors_called'
  BY <1>1, <1>3, <1>5, InvIs DEF Kept
<1>15. constructors_called' \subseteq linked /\ handles' \in [Libraries -> Nat]
       /\ stack' \in Seq(Frames) /\ \A x \in constructors_called' : x \in constructors_called
  <2>1. handles' \in [Libraries -> Nat] BY <1>2, <1>5 DEF l
  <2> QED BY <1>1, <1>2, <2>1, InvIs
<1> QED BY <1>1, <1>4, <1>8, <1>10, <1>11, <1>12, <1>13, <1>14, <1>15, QuietStep

(* More constructors have been called.                                     *)
LEMMA ReadyMore ==
    ASSUME NEW s, NEW cc, NEW dd, cc \subseteq dd, NEW l, ReadyAt(s, cc, l)
    PROVE  ReadyAt(s, dd, l)
BY DEF ReadyAt

LEMMA ChildIsFree ==
    ASSUME LinkInv, NEW p \in solist, NEW c \in Members(children[p])
    PROVE  c \in solist /\ c \notin Torn(stack)
<1>1. c \in solist BY InvIs, NeededIsLoaded
<1>2. ASSUME NEW i \in 1 .. Len(stack), stack[i].fn = "unload", stack[i].lib = c PROVE FALSE
  <2>1. FrameOK(stack, i, children, ref_count, constructors_called) BY InvIs DEF StackOK
  <2>2. ref_count[stack[i].lib] = 1 BY <1>2, <2>1 DEF FrameOK
  <2>3. stack \in Seq(Frames) BY DEF LinkInv, LinkTypes
  <2>4. FreeAt(handles, children, solist, stack, i) BY <1>2, <2>2, <2>3, InvIs, TornIsFree
  <2> QED BY <1>2, <2>4 DEF FreeAt
<1> QED BY <1>1, <1>2 DEF Torn

(* The constructors of c are called: its activation on top of the others.  *)
LEMMA ConstructorsOnTop ==
    ASSUME LinkInv, NEW s \in Seq(Frames), s # <<>>, NEW c \in solist, c \notin Torn(stack),
           Torn(s) = Torn(stack), children[c] = Needs[c],
           StackOK(s, children, ref_count, constructors_called \cup {c}),
           s[1].fn \in {"open", "ctor"},
           \/ s[1].fn = "open" /\ s[1].lib = c
           \/ s[1].fn = "ctor" /\ c \in Members(children[s[1].lib]),
           \A l \in constructors_called : ReadyAt(s, constructors_called \cup {c}, l),
           NEW t, t = <<Frame("ctor", c, children[c])>> \o s
    PROVE  /\ t \in Seq(Frames) /\ t # <<>> /\ t[1].fn = "ctor" /\ Torn(t) = Torn(stack)
           /\ \A l \in Libraries : HeldIn(t, l) = HeldIn(s, l)
           /\ StackOK(t, children, ref_count, constructors_called \cup {c})
           /\ TopOK(t, constructors_called \cup {c})
           /\ \A l \in constructors_called \cup {c} : ReadyAt(t, constructors_called \cup {c}, l)
<1> DEFINE f == Frame("ctor", c, children[c])
           cc == constructors_called \cup {c}
<1>1. f \in Frames /\ f.fn = "ctor" /\ f.lib = c /\ f.left = children[c]
  <2>1. c \in Libraries /\ children[c] \in Seq(Libraries) BY InvIs DEF Children
  <2>2. "ctor" \in {"find", "open", "ctor", "init", "fini", "unload"} OBVIOUS
  <2> QED BY <2>1, <2>2, FrameIs
<1> HIDE DEF f
<1>2. /\ t = <<f>> \o s /\ t \in Seq(Frames) /\ t # <<>> /\ t[1] = f /\ Len(s) \in Nat
      /\ Len(t) = Len(s) + 1 /\ \A i \in 1 .. Len(s) : t[i + 1] = s[i]
  BY <1>1, Pushed DEF f
<1>3. 1 \in 1 .. Len(s) BY <1>2, TopIs
<1>4. t[1 + 1] = s[1] /\ 1 < Len(t) BY <1>2, <1>3
<1>5. FrameOK(t, 1, children, ref_count, cc) BY <1>1, <1>2, <1>4 DEF FrameOK
<1>6. StackOK(t, children, ref_count, cc)
  <2>1. s[1].fn # "find" /\ s[1].fn # "unload" OBVIOUS
  <2> QED BY <1>1, <1>2, <1>5, <2>1, StackPushes
<1>7. TopOK(t, cc) BY <1>1, <1>2 DEF TopOK
<1>8. Torn(t) = Torn(stack) BY <1>1, <1>2, TornPushed
<1>9. \A l \in Libraries : HeldIn(t, l) = HeldIn(s, l)
  BY <1>1, <1>2, HeldMore DEF Holds
<1>10. ASSUME NEW l \in constructors_called \cup {c}
      PROVE ReadyAt(t, constructors_called \cup {c}, l)
  <2>1. CASE l = c
    <3>1. Members(Needs[f.lib]) \subseteq Members(f.left) BY <1>1
    <3>2. ReadyAt(<<f>> \o s, cc, f.lib) BY <1>1, <3>1, ReadyOnTop
    <3> QED BY <1>1, <1>2, <2>1, <3>2
  <2>2. CASE l # c
    <3>1. ReadyAt(s, cc, l) BY <2>2
    <3>2. ReadyAt(<<f>> \o s, cc, l) BY <1>1, <3>1, ReadyPushes
    <3> QED BY <1>2, <3>2
  <2> QED BY <2>1, <2>2
<1> QED BY <1>1, <1>2, <1>6, <1>7, <1>8, <1>9, <1>10

LEMMA StackGrows ==
    ASSUME NEW s \in Seq(Frames), NEW ch, NEW rc, NEW cc, StackOK(s, ch, rc, cc),
           NEW c, c \notin Torn(s)
    PROVE  StackOK(s, ch, rc, cc \cup {c})
<1>1. ASSUME NEW i \in 1 .. Len(s) PROVE s[i].fn = "unload" => s[i].lib # c
  <2>1. s[i] \in Frames OBVIOUS
  <2>2. s[i].lib \in Libraries BY <2>1 DEF Frames
  <2> QED BY <2>2 DEF Torn
<1>2. \A i \in 1 .. Len(s) :
         /\ s[i].fn = "unload" => rc[s[i].lib] = 1
         /\ s[i].fn \in {"open", "ctor", "init", "fini"} => s[i].lib \in cc
  BY DEF StackOK, FrameOK
<1> QED BY <1>1, <1>2, StackStays

LEMMA ConstructChildStep ==
    ASSUME LinkInv, ConstructChild
    PROVE  LinkInv'
<1> DEFINE p == stack[1].lib
           left == stack[1].left
           c == Head(left)
           g == Frame("ctor", p, Tail(left))
           s == <<g>> \o Below
           cc == constructors_called \cup {c}
<1>1. Running("ctor") /\ Constructing /\ Top.left # <<>>
      /\ CallConstructors(Head(Top.left), <<Frame("ctor", Top.lib, Tail(Top.left))>> \o Below)
      /\ handles' = handles /\ ref_count' = ref_count /\ children' = children /\ solist' = solist
  BY DEF ConstructChild, Constructing
<1>2. /\ stack \in Seq(Frames) /\ stack # <<>> /\ stack[1].fn = "ctor" /\ Below \in Seq(Frames)
      /\ Top = stack[1] /\ p \in Libraries /\ stack = <<stack[1]>> \o Below /\ stack[1] \in Frames
      /\ left \in Seq(Libraries)
      /\ FrameOK(stack, 1, children, ref_count, constructors_called)
  BY <1>1, RunningIs
<1>3. left # <<>> BY <1>1, <1>2
<1>4. c \in Members(left) /\ Tail(left) \in Seq(Libraries)
      /\ Members(Tail(left)) \subseteq Members(left)
      /\ Members(left) \subseteq Members(Tail(left)) \cup {c}
  <2>1. /\ Tail(left) \in Seq(Libraries) /\ Head(left) = left[1] /\ Len(left) = Len(Tail(left)) + 1
        /\ Len(Tail(left)) \in Nat /\ \A i \in 1 .. Len(Tail(left)) : Tail(left)[i] = left[i + 1]
    BY <1>2, <1>3, Popped
  <2>2. DOMAIN left = 1 .. Len(left) /\ DOMAIN Tail(left) = 1 .. Len(Tail(left)) BY <1>2, <2>1
  <2>3. 1 \in DOMAIN left BY <2>1, <2>2
  <2>4. ASSUME NEW x \in Members(Tail(left)) PROVE x \in Members(left)
    <3>1. PICK i \in 1 .. Len(Tail(left)) : x = Tail(left)[i] BY <2>2 DEF Members
    <3>2. i + 1 \in 1 .. Len(left) BY <2>1
    <3> QED BY <2>1, <2>2, <3>1, <3>2 DEF Members
  <2>5. ASSUME NEW x \in Members(left), x # c PROVE x \in Members(Tail(left))
    <3>1. PICK i \in 1 .. Len(left) : x = left[i] BY <2>2 DEF Members
    <3>2. i # 1 BY <2>1, <2>5, <3>1
    <3>3. i - 1 \in 1 .. Len(Tail(left)) /\ (i - 1) + 1 = i BY <2>1, <3>2
    <3>4. x = Tail(left)[i - 1] BY <2>1, <3>1, <3>3
    <3> QED BY <2>2, <3>3, <3>4 DEF Members
  <2> QED BY <2>1, <2>3, <2>4, <2>5 DEF Members
<1>5. g \in Frames /\ g.fn = "ctor" /\ g.lib = p /\ g.left = Tail(left)
  <2>1. "ctor" \in {"find", "open", "ctor", "init", "fini", "unload"} OBVIOUS
  <2>2. PICK u : u = Tail(left) OBVIOUS
  <2>3. u \in Seq(Libraries) BY <1>4, <2>2
  <2>4. Frame("ctor", p, u) \in Frames BY <1>2, <2>1, <2>3, FrameIs
  <2> QED BY <2>2, <2>4 DEF Frame
<1>6. CallConstructors(c, s) BY <1>1, <1>2
<1>7. p \in constructors_called /\ c \in Members(children[p])
  BY <1>2, <1>4 DEF FrameOK
<1>8. p \in solist BY <1>7, InvIs
<1>9. c \in solist /\ c \notin Torn(stack) BY <1>7, <1>8, ChildIsFree
<1> HIDE DEF g, left, p, c
<1>10. Calm BY <1>2, CalmWhen
<1>11. c \in linked /\ children[c] = Needs[c] BY <1>9, <1>10 DEF Calm, WholeLib
<1>12. \A x \in Libraries : HeldIn(s, x) = HeldIn(stack, x)
  BY <1>2, <1>5, HeldInstead DEF Below, Holds, p
<1>13. s \in Seq(Frames) /\ s # <<>> /\ s[1] = g BY <1>2, <1>5, Pushed
<1>14. Torn(s) = Torn(stack) BY <1>2, <1>5, TornPopped, TornPushed DEF Below
<1>15. StackOK(s, children, ref_count, constructors_called)
  BY <1>2, <1>4, <1>5, InvIs, StackInstead DEF Below, p, left
<1>16. ASSUME NEW l \in constructors_called, NEW dd, constructors_called \subseteq dd, c \in dd
       PROVE  ReadyAt(s, dd, l)
  <2>1. ReadyAt(<<stack[1]>> \o Below, dd, l)
    <3>1. ReadyAt(stack, constructors_called, l) BY InvIs DEF Ready
    <3> QED BY <1>2, <1>16, <3>1, ReadyMore
  <2>2. Members(stack[1].left) \subseteq Members(g.left) \cup dd BY <1>4, <1>5, <1>16 DEF left
  <2> QED BY <1>2, <1>5, <2>1, <2>2, ReadyAdvances DEF p
<1> HIDE DEF s
<1>17. CASE c \in constructors_called
  <2>1. stack' = s /\ constructors_called' = constructors_called
    BY <1>6, <1>17 DEF CallConstructors
  <2>2. Counted' BY <1>1, <1>12, <2>1, InvIs DEF Counted, RefsAre
  <2>3. Stacked' BY <1>1, <1>5, <1>13, <1>15, <2>1 DEF Stacked, TopOK
  <2>4. Ready' BY <1>16, <1>17, <2>1 DEF Ready
  <2>5. Torn(stack') = Torn(stack) BY <1>14, <2>1
  <2>6. ~Running("find")' BY <1>2, <1>5, <2>1, NotFinding DEF s
  <2>7. \A x \in Libraries : handles'[x] > 0 => x \in constructors_called'
    BY <1>1, <2>1, InvIs DEF Kept
  <2>8. constructors_called' \subseteq linked /\ handles' \in [Libraries -> Nat]
        /\ stack' \in Seq(Frames) /\ \A x \in constructors_called' : x \in constructors_called
    BY <1>1, <1>13, <2>1, InvIs
  <2> QED BY <1>1, <1>10, <2>2, <2>3, <2>4, <2>5, <2>6, <2>7, <2>8, QuietStep
<1>18. CASE c \notin constructors_called
  <2> DEFINE t == <<Frame("ctor", c, children[c])>> \o s
  <2>1. stack' = t /\ constructors_called' = cc BY <1>6, <1>18 DEF CallConstructors
  <2>2. StackOK(s, children, ref_count, cc) BY <1>9, <1>13, <1>14, <1>15, StackGrows
  <2>3. \A l \in constructors_called : ReadyAt(s, cc, l) BY <1>16
  <2>4. /\ t \in Seq(Frames) /\ t # <<>> /\ t[1].fn = "ctor" /\ Torn(t) = Torn(stack)
        /\ \A l \in Libraries : HeldIn(t, l) = HeldIn(s, l)
        /\ StackOK(t, children, ref_count, cc) /\ TopOK(t, cc)
        /\ \A l \in cc : ReadyAt(t, cc, l)
    BY <1>5, <1>7, <1>9, <1>11, <1>13, <1>14, <2>2, <2>3, ConstructorsOnTop
  <2> HIDE DEF t
  <2>5. Counted' BY <1>1, <1>12, <2>1, <2>4, InvIs DEF Counted, RefsAre
  <2>6. Stacked' BY <1>1, <2>1, <2>4 DEF Stacked
  <2>7. Ready' BY <2>1, <2>4 DEF Ready
  <2>8. Torn(stack') = Torn(stack) BY <2>1, <2>4
  <2>9. ~Running("find")'
    <3>1. Head(stack') = stack'[1] BY <2>1, <2>4, TopIs
    <3> QED BY <2>1, <2>4, <3>1 DEF Running
  <2>10. \A x \in Libraries : handles'[x] > 0 => x \in constructors_called'
    BY <1>1, <2>1, InvIs DEF Kept
  <2>11. constructors_called' \subseteq linked /\ handles' \in [Libraries -> Nat]
         /\ stack' \in Seq(Frames)
         /\ \A x \in constructors_called' : x \in constructors_called \/ x \notin Torn(stack)
    BY <1>1, <1>9, <1>11, <2>1, <2>4, InvIs
  <2> QED BY <1>1, <1>10, <2>5, <2>6, <2>7, <2>8, <2>9, <2>10, <2>11, QuietStep
<1> QED BY <1>17, <1>18

LEMMA TornFree ==
    ASSUME LinkInv, NEW i \in 1 .. Len(stack), stack[i].fn = "unload"
    PROVE  /\ FreeAt(handles, children, solist, stack, i) /\ ref_count[stack[i].lib] = 1
           /\ stack[i].lib \in solist /\ stack[i].lib \in Libraries /\ stack[i].lib \in Torn(stack)
<1>1. FrameOK(stack, i, children, ref_count, constructors_called) BY InvIs DEF StackOK
<1>2. ref_count[stack[i].lib] = 1 BY <1>1 DEF FrameOK
<1>3. stack \in Seq(Frames) BY DEF LinkInv, LinkTypes
<1>4. FreeAt(handles, children, solist, stack, i) BY <1>2, <1>3, InvIs, TornIsFree
<1>5. stack[i].lib \in solist BY InvIs, HeldIsLoaded DEF Holds
<1>6. stack[i].lib \in Libraries BY <1>5, InvIs
<1> QED BY <1>2, <1>4, <1>5, <1>6 DEF Torn

LEMMA FiniReturnsStep ==
    ASSUME LinkInv, FiniReturns
    PROVE  LinkInv'
<1> DEFINE l == stack[1].lib
           cc == constructors_called \ {l}
<1>1. Running("fini") /\ Constructing /\ stack' = Below
      /\ constructors_called' = constructors_called \ {Top.lib}
      /\ handles' = handles /\ ref_count' = ref_count /\ children' = children /\ solist' = solist
  BY DEF FiniReturns, Constructing
<1>2. /\ stack \in Seq(Frames) /\ stack # <<>> /\ stack[1].fn = "fini" /\ Below \in Seq(Frames)
      /\ StackOK(Below, children, ref_count, constructors_called)
      /\ Top = stack[1] /\ Head(stack) = stack[1] /\ l \in Libraries
      /\ FrameOK(stack, 1, children, ref_count, constructors_called)
  BY <1>1, RunningIs DEF Top
<1>3. /\ Below \in Seq(Frames) /\ Len(stack) = Len(Below) + 1 /\ Len(Below) \in Nat
      /\ \A i \in 1 .. Len(Below) : Below[i] = stack[i + 1]
  BY <1>2, Popped DEF Below
<1>4. constructors_called' = cc BY <1>1, <1>2
<1>5. 2 \in 1 .. Len(stack) /\ stack[2].fn = "unload" /\ stack[2].lib = l
  <2>1. 1 < Len(stack) /\ stack[1 + 1].fn = "unload" /\ stack[1 + 1].lib = l BY <1>2 DEF FrameOK
  <2> QED BY <1>3, <2>1
<1>6. FreeAt(handles, children, solist, stack, 2) BY <1>5, TornFree
<1>7. /\ handles[l] = 0 /\ \A q \in solist : l \notin Members(children[q])
      /\ \A j \in 1 .. Len(stack) : Holds(stack[j]) /\ stack[j].lib = l => j = 2
  BY <1>5, <1>6 DEF FreeAt
<1>8. 1 \in 1 .. Len(Below) /\ Below # <<>> /\ Below[1] = stack[2]
  <2>1. 1 \in 1 .. Len(Below) BY <1>3, <1>5
  <2>2. Below[1] = stack[1 + 1] BY <1>3, <2>1
  <2> QED BY <1>3, <2>1, <2>2
<1> HIDE DEF l
<1>9. Calm BY <1>2, CalmWhen
<1>10. \A x \in Libraries : HeldIn(Below, x) = HeldIn(stack, x)
  <2> TAKE x \in Libraries
  <2>1. HeldIn(stack, x) = HeldIn(Below, x) + 0 BY <1>2, HeldPopped DEF Below, Holds, One
  <2>2. HeldIn(Below, x) \in Nat BY <1>2, HeldType
  <2> QED BY <2>1, <2>2
<1>11. Counted' BY <1>1, <1>10, InvIs DEF Counted, RefsAre
<1>12. StackOK(Below, children, ref_count, cc)
  <2>1. ASSUME NEW i \in 1 .. Len(Below), Below[i].fn \in {"open", "ctor", "init", "fini"}
        PROVE  Below[i].lib # l
    <3>1. i + 1 \in 1 .. Len(stack) /\ Below[i] = stack[i + 1] BY <1>3
    <3>2. PICK j \in 1 .. Len(stack) : j = i + 1 BY <3>1
    <3>3. Below[i] = stack[j] /\ j # 1 BY <3>1, <3>2
    <3>4. CASE stack[j].fn \in {"open", "ctor", "init"}
      <4>1. stack[j].lib \notin Torn(stack) BY <1>2, <3>4, InvIs, ConstructedIsWhole
      <4>2. l \in Torn(stack) BY <1>2, <1>5 DEF Torn
      <4> QED BY <3>3, <4>1, <4>2
    <3>5. CASE stack[j].fn = "fini"
      <4>1. FrameOK(stack, j, children, ref_count, constructors_called) BY InvIs DEF StackOK
      <4>2. j < Len(stack) /\ stack[j + 1].fn = "unload" /\ stack[j + 1].lib = stack[j].lib
        BY <3>5, <4>1 DEF FrameOK
      <4>3. j + 1 \in 1 .. Len(stack) /\ j + 1 # 2 BY <1>3, <3>3, <4>2
      <4> QED BY <1>7, <3>3, <4>2, <4>3 DEF Holds
    <3> QED BY <2>1, <3>3, <3>4, <3>5
  <2>2. \A i \in 1 .. Len(Below) :
           /\ Below[i].fn = "unload" => ref_count[Below[i].lib] = 1
           /\ Below[i].fn \in {"open", "ctor", "init", "fini"}
                    => Below[i].lib \in constructors_called
    BY <1>2 DEF StackOK, FrameOK
  <2> QED BY <1>2, <2>1, <2>2, StackStays
<1>13. Stacked' BY <1>1, <1>4, <1>5, <1>8, <1>12 DEF Stacked, TopOK
<1>14. Ready'
  <2>1. ASSUME NEW x \in cc PROVE ReadyAt(Below, cc, x)
    <3>1. ReadyAt(stack, constructors_called, x) BY InvIs DEF Ready
    <3>2. ReadyAt(Below, constructors_called, x) BY <1>2, <3>1, ReadyPops DEF Below
    <3>3. x \in solist /\ children[x] = Needs[x] BY <1>9, InvIs DEF Calm, WholeLib
    <3>4. l \notin Members(Needs[x]) BY <1>7, <3>3
    <3> QED BY <3>2, <3>4 DEF ReadyAt
  <2> QED BY <1>1, <1>4, <2>1 DEF Ready
<1>15. Torn(stack') = Torn(stack) BY <1>1, <1>2, TornPopped DEF Below
<1>16. ~Running("find")'
  <2>1. Head(stack') = stack'[1] BY <1>1, <1>3, <1>8, TopIs
  <2> QED BY <1>1, <1>5, <1>8, <2>1 DEF Running
<1>17. \A x \in Libraries : handles'[x] > 0 => x \in constructors_called'
  BY <1>1, <1>4, <1>7, InvIs DEF Kept
<1>18. constructors_called' \subseteq linked /\ handles' \in [Libraries -> Nat]
       /\ stack' \in Seq(Frames) /\ \A x \in constructors_called' : x \in constructors_called
  BY <1>1, <1>2, <1>4, InvIs
<1> QED BY <1>1, <1>9, <1>11, <1>13, <1>14, <1>15, <1>16, <1>17, <1>18, QuietStep

(* All is found and linked.                                                *)
LEMMA FoundStep ==
    ASSUME LinkInv, Found
    PROVE  LinkInv'
<1> DEFINE l == stack[1].lib
           g == Frame("open", l, <<>>)
           s == <<g>> \o Below
           cc == constructors_called \cup {l}
<1>1. Running("find") /\ Constructing /\ load_tasks = <<>> /\ found_libs = <<>>
      /\ CallConstructors(Top.lib, <<Frame("open", Top.lib, <<>>)>> \o Below)
      /\ handles' = handles /\ ref_count' = ref_count /\ children' = children /\ solist' = solist
  BY DEF Found, Constructing
<1>2. /\ stack \in Seq(Frames) /\ stack # <<>> /\ stack[1].fn = "find" /\ Below \in Seq(Frames)
      /\ Top = stack[1] /\ l \in Libraries /\ stack = <<stack[1]>> \o Below /\ stack[1] \in Frames
      /\ FrameOK(stack, 1, children, ref_count, constructors_called) /\ Head(stack) = stack[1]
      /\ StackOK(Below, children, ref_count, constructors_called) /\ 1 \in 1 .. Len(stack)
      /\ Below # <<>> => Below[1].fn # "find"
  BY <1>1, RunningIs DEF Top
<1>3. PICK H \in SUBSET solist : HalfOK(H) /\ LoadOK(H) BY <1>1 DEF LinkInv, Halves
<1>4. stack[1].left # <<>>
  <2> SUFFICES ASSUME stack[1].left = <<>> PROVE FALSE OBVIOUS
  <2>1. load_tasks = <<[name |-> l, needed_by |-> Nil]>> BY <1>3 DEF LoadOK
  <2> QED BY <1>1, <2>1
<1>5. l \notin Torn(stack) BY <1>3 DEF LoadOK
<1>6. Calm
  <2>1. ASSUME NEW x \in H PROVE WholeLib(x)
    <3>1. x \in linked
      <4>1. Members(found_libs) = {} BY <1>1 DEF Members
      <4> QED BY <1>3, <4>1 DEF LoadOK
    <3>2. Pending(x, children, <<>>) BY <1>1, <1>3 DEF LoadOK
    <3>3. x \in Libraries BY InvIs
    <3>4. children[x] = Needs[x] BY <3>2, <3>3, InvIs, PendingDone
    <3> QED BY <3>1, <3>4 DEF WholeLib
  <2> QED BY <1>3, <2>1 DEF HalfOK, Calm
<1>7. g \in Frames /\ g.fn = "open" /\ g.lib = l /\ g.left = <<>>
  <2>1. "open" \in {"find", "open", "ctor", "init", "fini", "unload"} OBVIOUS
  <2>2. Frame("open", l, <<>>) \in Frames BY <1>2, <2>1, FrameIs, NoneLeft
  <2> QED BY <2>2 DEF Frame
<1>8. Holds(stack[1]) /\ Holds(g) BY <1>2, <1>4, <1>7 DEF Holds
<1>9. l \in solist BY <1>2, <1>8, InvIs, HeldIsLoaded
<1>10. l \in linked /\ children[l] = Needs[l] BY <1>5, <1>6, <1>9 DEF Calm, WholeLib
<1>11. CallConstructors(l, s) BY <1>1, <1>2
<1> HIDE DEF g, l
<1>12. \A x \in Libraries : HeldIn(s, x) = HeldIn(stack, x)
  BY <1>2, <1>7, <1>8, HeldInstead DEF Below, l
<1>13. s \in Seq(Frames) /\ s # <<>> /\ s[1] = g BY <1>2, <1>7, Pushed
<1>14. Torn(s) = Torn(stack) BY <1>2, <1>7, TornPopped, TornPushed DEF Below
<1>15. StackOK(s, children, ref_count, cc)
  <2>1. Torn(Below) = Torn(stack) BY <1>2, TornPopped DEF Below
  <2>2. StackOK(Below, children, ref_count, cc) BY <1>2, <1>5, <2>1, StackGrows
  <2>3. FrameOK(s, 1, children, ref_count, cc) BY <1>7, <1>13 DEF FrameOK
  <2>4. TopOK(Below, constructors_called) BY <1>2, InvIs, TopPops DEF Below
  <2>5. TopOK(Below, cc)
    <3> SUFFICES ASSUME Below # <<>>, Below[1].fn = "unload" PROVE Below[1].lib # l
      BY <2>4 DEF TopOK
    <3>1. 1 \in 1 .. Len(Below) BY <1>2, TopIs
    <3>2. Below[1].lib = l => l \in Torn(Below) BY <1>2, <3>1 DEF Torn, l
    <3> QED BY <1>5, <2>1, <3>2
  <2> QED BY <1>2, <1>7, <2>2, <2>3, <2>5, StackPushes DEF TopOK
<1>16. ASSUME NEW x \in constructors_called PROVE ReadyAt(s, constructors_called, x)
  <2>1. ReadyAt(stack, constructors_called, x) BY InvIs DEF Ready
  <2>2. ReadyAt(Below, constructors_called, x) BY <1>2, <2>1, ReadyPops DEF Below
  <2> QED BY <1>2, <1>7, <2>2, ReadyPushes
<1> HIDE DEF s
<1>17. CASE l \in constructors_called
  <2>1. stack' = s /\ constructors_called' = constructors_called
    BY <1>11, <1>17 DEF CallConstructors
  <2>2. Counted' BY <1>1, <1>12, <2>1, InvIs DEF Counted, RefsAre
  <2>3. cc = constructors_called BY <1>17
  <2>4. Stacked' BY <1>1, <1>7, <1>13, <1>15, <2>1, <2>3 DEF Stacked, TopOK
  <2>5. Ready' BY <1>16, <2>1 DEF Ready
  <2>6. Torn(stack') = Torn(stack) BY <1>14, <2>1
  <2>7. ~Running("find")' BY <1>2, <1>7, <2>1, NotFinding DEF s
  <2>8. \A x \in Libraries : handles'[x] > 0 => x \in constructors_called'
    BY <1>1, <2>1, InvIs DEF Kept
  <2>9. constructors_called' \subseteq linked /\ handles' \in [Libraries -> Nat]
        /\ stack' \in Seq(Frames) /\ \A x \in constructors_called' : x \in constructors_called
    BY <1>1, <1>13, <2>1, InvIs
  <2> QED BY <1>1, <1>6, <2>2, <2>4, <2>5, <2>6, <2>7, <2>8, <2>9, QuietStep
<1>18. CASE l \notin constructors_called
  <2> DEFINE t == <<Frame("ctor", l, children[l])>> \o s
  <2>1. stack' = t /\ constructors_called' = cc BY <1>11, <1>18 DEF CallConstructors
  <2>2. \A x \in constructors_called : ReadyAt(s, cc, x) BY <1>16, ReadyMore
  <2>3. /\ t \in Seq(Frames) /\ t # <<>> /\ t[1].fn = "ctor" /\ Torn(t) = Torn(stack)
        /\ \A x \in Libraries : HeldIn(t, x) = HeldIn(s, x)
        /\ StackOK(t, children, ref_count, cc) /\ TopOK(t, cc)
        /\ \A x \in cc : ReadyAt(t, cc, x)
    <3>1. s[1].fn = "open" /\ s[1].lib = l BY <1>7, <1>13
    <3> QED BY <1>5, <1>9, <1>10, <1>13, <1>14, <1>15, <2>2, <3>1, ConstructorsOnTop
  <2> HIDE DEF t
  <2>4. Counted' BY <1>1, <1>12, <2>1, <2>3, InvIs DEF Counted, RefsAre
  <2>5. Stacked' BY <1>1, <2>1, <2>3 DEF Stacked
  <2>6. Ready' BY <2>1, <2>3 DEF Ready
  <2>7. Torn(stack') = Torn(stack) BY <2>1, <2>3
  <2>8. ~Running("find")'
    <3>1. Head(stack') = stack'[1] BY <2>1, <2>3, TopIs
    <3> QED BY <2>1, <2>3, <3>1 DEF Running
  <2>9. \A x \in Libraries : handles'[x] > 0 => x \in constructors_called'
    BY <1>1, <2>1, InvIs DEF Kept
  <2>10. constructors_called' \subseteq linked /\ handles' \in [Libraries -> Nat]
         /\ stack' \in Seq(Frames)
         /\ \A x \in constructors_called' : x \in constructors_called \/ x \notin Torn(stack)
    BY <1>1, <1>5, <1>10, <2>1, <2>3, InvIs
  <2> QED BY <1>1, <1>6, <2>4, <2>5, <2>6, <2>7, <2>8, <2>9, <2>10, QuietStep
<1> QED BY <1>17, <1>18

----------------------------------------------------------------------------
(* The program calls in.                                                   *)
LEMMA UnloadingIs == stack \in Seq(Frames) => Unloading = Torn(stack)
<1> SUFFICES ASSUME stack \in Seq(Frames) PROVE Unloading = Torn(stack) OBVIOUS
<1>1. DOMAIN stack = 1 .. Len(stack) OBVIOUS
<1>2. \A i \in 1 .. Len(stack) : stack[i].lib \in Libraries
  <2>1. \A i \in 1 .. Len(stack) : stack[i] \in Frames OBVIOUS
  <2>2. \A f \in Frames : f.lib \in Libraries BY DEF Frames
  <2> QED BY <2>1, <2>2
<1> QED BY <1>1, <1>2 DEF Unloading, Torn

LEMMA NeedsClosed ==
    ASSUME NEW l \in Libraries
    PROVE  /\ l \in Reach(NeedsOf, l) /\ Reach(NeedsOf, l) \in SUBSET Libraries
           /\ \A x \in Reach(NeedsOf, l) : Members(Needs[x]) \subseteq Reach(NeedsOf, l)
<1>1. NeedsOf \in [Libraries -> SUBSET Libraries]
  <2>1. ASSUME NEW x \in Libraries PROVE Members(Needs[x]) \in SUBSET Libraries
    <3>1. Needs[x] \in Seq(Libraries) BY NeedsAre
    <3> QED BY <3>1 DEF Members
  <2> QED BY <2>1 DEF NeedsOf, Members
<1>2. \A x \in Libraries : NeedsOf[x] = Members(Needs[x]) BY DEF NeedsOf, Members
<1>3. /\ l \in Reach(NeedsOf, l) /\ Reach(NeedsOf, l) \in SUBSET Libraries
      /\ \A x \in Reach(NeedsOf, l) : NeedsOf[x] \subseteq Reach(NeedsOf, l)
  BY <1>1, ReachCloses
<1> QED BY <1>2, <1>3

(* The program's code runs.                                                *)
LEMMA ProgramRuns ==
    ASSUME LinkInv, Outside \/ Running("init") \/ Running("fini")
    PROVE  /\ stack \in Seq(Frames) /\ Calm
           /\ stack # <<>> => stack[1].fn \in {"init", "fini"}
<1>1. stack \in Seq(Frames) BY DEF LinkInv, LinkTypes
<1>2. stack # <<>> => stack[1].fn \in {"init", "fini"} BY <1>1, TopIs DEF Outside, Running
<1>3. stack = <<>> \/ stack[1].fn \notin {"find", "unload"} BY <1>2
<1> QED BY <1>1, <1>2, <1>3, CalmWhen

LEMMA dlopenStep ==
    ASSUME LinkInv, NEW l \in Libraries, dlopen(l)
    PROVE  LinkInv'
<1> DEFINE f == Frame("find", l, <<>>)
           C == Reach(NeedsOf, l)
<1>1. /\ stack' = <<f>> \o stack /\ found_libs' = <<>>
      /\ load_tasks' = <<[name |-> l, needed_by |-> Nil]>>
      /\ C \cap Unloading = {}
  BY DEF dlopen
<1>2. /\ solist' = solist /\ ref_count' = ref_count /\ children' = children /\ parents' = parents
      /\ linked' = linked /\ debug_map' = debug_map /\ handles' = handles
      /\ constructors_called' = constructors_called
  BY DEF dlopen
<1>3. stack \in Seq(Frames) /\ Calm /\ (stack # <<>> => stack[1].fn \in {"init", "fini"})
  BY ProgramRuns DEF dlopen
<1>4. f \in Frames /\ f.fn = "find" /\ f.lib = l /\ f.left = <<>>
  <2>1. "find" \in {"find", "open", "ctor", "init", "fini", "unload"} OBVIOUS
  <2>2. Frame("find", l, <<>>) \in Frames BY <2>1, FrameIs, NoneLeft
  <2> QED BY <2>2 DEF Frame
<1>5. C \cap Torn(stack) = {} BY <1>1, <1>3, UnloadingIs
<1>6. /\ l \in C /\ C \in SUBSET Libraries /\ \A x \in C : Members(Needs[x]) \subseteq C
  BY NeedsClosed
<1> HIDE DEF f, C
<1>7. /\ stack' \in Seq(Frames) /\ stack' # <<>> /\ stack'[1] = f /\ Torn(stack') = Torn(stack)
      /\ \A x \in Libraries : HeldIn(stack', x) = HeldIn(stack, x)
  <2>1. ~Holds(f) BY <1>4 DEF Holds
  <2>2. \A x \in Libraries : HeldIn(<<f>> \o stack, x) = HeldIn(stack, x)
    BY <1>3, <1>4, <2>1, HeldMore
  <2>3. Torn(<<f>> \o stack) = Torn(stack) BY <1>3, <1>4, TornPushed
  <2> QED BY <1>1, <1>3, <1>4, <2>2, <2>3, Pushed
<1>8. LinkTypes'
  <2>1. [name |-> l, needed_by |-> Nil] \in Tasks BY DEF Tasks
  <2>2. load_tasks' \in Seq(Tasks) /\ found_libs' \in Seq(Libraries) BY <1>1, <2>1
  <2> QED BY <1>2, <1>7, <2>2, InvIs DEF LinkTypes
<1>9. Counted' BY <1>2, <1>7, InvIs DEF Counted, RefsAre
<1>10. Kept' BY <1>2, InvIs DEF Kept
<1>11. Stacked'
  <2>1. FrameOK(<<f>> \o stack, 1, children, ref_count, constructors_called)
    BY <1>1, <1>4, <1>7 DEF FrameOK
  <2>2. stack # <<>> => stack[1].fn # "find" /\ stack[1].fn # "unload" BY <1>3
  <2>3. StackOK(<<f>> \o stack, children, ref_count, constructors_called)
    BY <1>3, <1>4, <2>1, <2>2, InvIs, StackPushes
  <2> QED BY <1>1, <1>2, <1>4, <1>7, <2>3 DEF Stacked, TopOK
<1>12. Ready'
  <2>1. ASSUME NEW x \in constructors_called PROVE ReadyAt(stack', constructors_called, x)
    <3>1. ReadyAt(stack, constructors_called, x) BY InvIs DEF Ready
    <3> QED BY <1>1, <1>3, <1>4, <3>1, ReadyPushes
  <2> QED BY <1>2, <2>1 DEF Ready
<1>13. Acyclic(solist, children)' BY <1>2, InvIs
<1>14. Calm' BY <1>2, <1>3, <1>7 DEF Calm, WholeLib
<1>15. HalfOK({})' BY <1>8, <1>9, <1>10, <1>14, CalmIsWhole, PTL
<1>16. LoadOK({})'
  <2>1. Members(found_libs') = {} BY <1>1 DEF Members
  <2>2. \A i \in 1 .. Len(load_tasks') : load_tasks'[i].name \in C BY <1>1, <1>6
  <2>3. stack'[1].left = <<>> /\ stack'[1].lib = l BY <1>4, <1>7
  <2>4. C \cap Torn(stack') = {} BY <1>5, <1>7
  <2> QED BY <1>1, <1>6, <2>1, <2>2, <2>3, <2>4 DEF LoadOK
<1>17. Halves'
  <2>1. {} \in SUBSET solist' OBVIOUS
  <2> QED BY <1>15, <1>16, <2>1 DEF Halves
<1> QED BY <1>8, <1>9, <1>10, <1>11, <1>12, <1>13, <1>17 DEF LinkInv

----------------------------------------------------------------------------
(* A reference is dropped.                                                 *)
Dropping(l, hd, ch, rest) ==
    /\ hd \in [Libraries -> Nat] /\ ch \in Children /\ rest \in Seq(Frames)
    /\ \A x \in Libraries :
          ref_count[x] = hd[x] + LinksIn(ch, solist, x) + HeldIn(rest, x) + One(x = l)
    /\ StackOK(rest, ch, ref_count, constructors_called) /\ TopOK(rest, constructors_called)
    /\ rest # <<>> => rest[1].fn # "find"

(* The last reference: destructors first, if constructors were called.     *)
Unloaded(l, rest) ==
    IF l \in constructors_called
    THEN <<Frame("fini", l, <<>>)>> \o (<<Frame("unload", l, <<>>)>> \o rest)
    ELSE <<Frame("unload", l, <<>>)>> \o rest

LEMMA LastDropped ==
    ASSUME LinkTypes, NEW l \in Libraries, NEW hd, NEW ch, NEW rest, Dropping(l, hd, ch, rest),
           ref_count[l] = 1, NEW s, s = Unloaded(l, rest)
    PROVE  /\ s \in Seq(Frames) /\ s # <<>> /\ Torn(s) = Torn(rest) \cup {l}
           /\ s[1].lib = l /\ s[1].fn = IF l \in constructors_called THEN "fini" ELSE "unload"
           /\ RefsAre(ref_count, hd, ch, solist, s)
           /\ StackOK(s, ch, ref_count, constructors_called) /\ TopOK(s, constructors_called)
           /\ \A x : ReadyAt(rest, constructors_called, x) => ReadyAt(s, constructors_called, x)
<1> DEFINE f == Frame("unload", l, <<>>)
           g == Frame("fini", l, <<>>)
           t == <<f>> \o rest
           u == <<g>> \o t
           cc == constructors_called
<1>1. /\ hd \in [Libraries -> Nat] /\ ch \in Children /\ rest \in Seq(Frames)
      /\ StackOK(rest, ch, ref_count, cc) /\ TopOK(rest, cc)
      /\ rest # <<>> => rest[1].fn # "find"
  BY DEF Dropping
<1>2. f \in Frames /\ f.fn = "unload" /\ f.lib = l /\ f.left = <<>>
  <2>1. "unload" \in {"find", "open", "ctor", "init", "fini", "unload"} OBVIOUS
  <2>2. Frame("unload", l, <<>>) \in Frames BY <2>1, FrameIs, NoneLeft
  <2> QED BY <2>2 DEF Frame
<1>3. g \in Frames /\ g.fn = "fini" /\ g.lib = l /\ g.left = <<>>
  <2>1. "fini" \in {"find", "open", "ctor", "init", "fini", "unload"} OBVIOUS
  <2>2. Frame("fini", l, <<>>) \in Frames BY <2>1, FrameIs, NoneLeft
  <2> QED BY <2>2 DEF Frame
<1>4. s = IF l \in cc THEN u ELSE t BY DEF Unloaded
<1> HIDE DEF f, g
<1>5. /\ t \in Seq(Frames) /\ t # <<>> /\ t[1] = f /\ Len(t) \in Nat /\ 1 \in 1 .. Len(t)
  <2>1. t \in Seq(Frames) /\ t # <<>> /\ t[1] = f BY <1>1, <1>2, Pushed
  <2> HIDE DEF t
  <2> QED BY <2>1
<1>6. Torn(t) = Torn(rest) \cup {l} BY <1>1, <1>2, TornPushed
<1>7. \A x \in Libraries : HeldIn(t, x) = HeldIn(rest, x) + One(x = l)
  <2> TAKE x \in Libraries
  <2>1. HeldIn(t, x) = HeldIn(rest, x) + One(Holds(f) /\ f.lib = x) BY <1>1, <1>2, HeldPushed
  <2>2. (Holds(f) /\ f.lib = x) = (x = l) BY <1>2 DEF Holds
  <2> QED BY <2>1, <2>2
<1>8. StackOK(t, ch, ref_count, cc)
  <2>1. FrameOK(t, 1, ch, ref_count, cc) BY <1>2, <1>5 DEF FrameOK
  <2> QED BY <1>1, <1>2, <2>1, StackPushes DEF TopOK
<1>9. \A x : ReadyAt(rest, cc, x) => ReadyAt(t, cc, x) BY <1>1, <1>2, ReadyPushes
<1> HIDE DEF t
<1>10. RefsAre(ref_count, hd, ch, solist, t)
  <2>1. ASSUME NEW x \in Libraries
        PROVE ref_count[x] = hd[x] + LinksIn(ch, solist, x) + HeldIn(t, x)
    <3>1. ref_count[x] = hd[x] + LinksIn(ch, solist, x) + HeldIn(rest, x) + One(x = l)
      BY DEF Dropping
    <3>2. /\ hd[x] \in Nat /\ LinksIn(ch, solist, x) \in Nat /\ HeldIn(rest, x) \in Nat
          /\ One(x = l) \in Nat
      BY <1>1, LinksNone, HeldType DEF LinkTypes, One
    <3>3. HeldIn(t, x) = HeldIn(rest, x) + One(x = l) BY <1>7
    <3> QED BY <3>1, <3>2, <3>3
  <2> QED BY <2>1 DEF RefsAre
<1>11. CASE l \notin cc
  <2>1. s = t BY <1>4, <1>11
  <2>2. TopOK(s, cc) BY <1>2, <1>5, <1>11, <2>1 DEF TopOK
  <2> QED BY <1>2, <1>5, <1>6, <1>8, <1>9, <1>10, <1>11, <2>1, <2>2
<1>12. CASE l \in cc
  <2>1. s = u BY <1>4, <1>12
  <2>2. /\ u \in Seq(Frames) /\ u # <<>> /\ u[1] = g /\ Len(u) = Len(t) + 1
        /\ \A i \in 1 .. Len(t) : u[i + 1] = t[i]
    BY <1>3, <1>5, Pushed
  <2>3. Torn(u) = Torn(t) BY <1>3, <1>5, TornPushed
  <2>4. \A x \in Libraries : HeldIn(u, x) = HeldIn(t, x)
    <3>1. ~Holds(g) BY <1>3 DEF Holds
    <3> QED BY <1>3, <1>5, <3>1, HeldMore
  <2>5. FrameOK(u, 1, ch, ref_count, cc)
    <3>1. u[1 + 1] = f /\ 1 < Len(u) BY <1>5, <2>2
    <3> QED BY <1>2, <1>3, <1>12, <2>2, <3>1 DEF FrameOK
  <2>6. StackOK(u, ch, ref_count, cc)
    <3>1. t[1].fn = "unload" /\ t[1].lib = l BY <1>2, <1>5
    <3> QED BY <1>3, <1>5, <1>8, <2>5, <3>1, StackPushes
  <2>7. \A x : ReadyAt(rest, cc, x) => ReadyAt(u, cc, x) BY <1>3, <1>5, <1>9, ReadyPushes
  <2> HIDE DEF u
  <2>8. RefsAre(ref_count, hd, ch, solist, u) BY <1>10, <2>4 DEF RefsAre
  <2>9. TopOK(u, cc) BY <1>3, <2>2 DEF TopOK
  <2> QED BY <1>3, <1>6, <1>12, <2>1, <2>2, <2>3, <2>6, <2>7, <2>8, <2>9
<1> QED BY <1>11, <1>12

LEMMA UnloadedIs ==
    ASSUME NEW l \in Libraries, NEW rest \in Seq(Frames)
    PROVE  (IF l \in constructors_called THEN <<Frame("fini", l, <<>>)>> ELSE <<>>)
              \o <<Frame("unload", l, <<>>)>> \o rest = Unloaded(l, rest)
<1> DEFINE f == Frame("unload", l, <<>>)
           g == Frame("fini", l, <<>>)
<1>1. f \in Frames
  <2>1. "unload" \in {"find", "open", "ctor", "init", "fini", "unload"} OBVIOUS
  <2> QED BY <2>1, FrameIs, NoneLeft
<1>2. g \in Frames
  <2>1. "fini" \in {"find", "open", "ctor", "init", "fini", "unload"} OBVIOUS
  <2> QED BY <2>1, FrameIs, NoneLeft
<1> HIDE DEF f, g
<1>3. CASE l \notin constructors_called
  <2>1. <<>> \o <<f>> = <<f>> BY <1>1
  <2> QED BY <1>3, <2>1 DEF Unloaded, f
<1>4. CASE l \in constructors_called
  <2>1. (<<g>> \o <<f>>) \o rest = <<g>> \o (<<f>> \o rest)
    <3>1. <<g>> \in Seq(Frames) /\ <<f>> \in Seq(Frames) BY <1>1, <1>2
    <3> QED BY <3>1
  <2> QED BY <1>4, <2>1 DEF Unloaded, f, g
<1> QED BY <1>3, <1>4

LEMMA Dropped ==
    ASSUME LinkTypes, NEW l \in Libraries, NEW hd, NEW ch, NEW rest, Dropping(l, hd, ch, rest),
           soinfo_unload(l, rest)
    PROVE  /\ ref_count' \in [Libraries -> Nat] /\ stack' \in Seq(Frames)
           /\ RefsAre(ref_count', hd, ch, solist, stack')
           /\ StackOK(stack', ch, ref_count', constructors_called)
           /\ TopOK(stack', constructors_called)
           /\ \A x \in Libraries : ref_count'[x] > 0 <=> ref_count[x] > 0
           /\ \A x : ReadyAt(rest, constructors_called, x)
                    => ReadyAt(stack', constructors_called, x)
           /\ Torn(rest) \subseteq Torn(stack')
           /\ \/ ref_count[l] > 1 /\ stack' = rest
              \/ /\ ref_count[l] = 1 /\ stack' = Unloaded(l, rest)
                 /\ Torn(stack') = Torn(rest) \cup {l}
                 /\ stack'[1].lib = l
                 /\ stack'[1].fn = IF l \in constructors_called THEN "fini" ELSE "unload"
           /\ ~Running("find")'
<1>1. /\ hd \in [Libraries -> Nat] /\ ch \in Children /\ rest \in Seq(Frames)
      /\ StackOK(rest, ch, ref_count, constructors_called) /\ TopOK(rest, constructors_called)
      /\ rest # <<>> => rest[1].fn # "find"
      /\ ref_count \in [Libraries -> Nat]
  BY DEF Dropping, LinkTypes
<1>2. ASSUME NEW x \in Libraries
      PROVE  /\ ref_count[x] = hd[x] + LinksIn(ch, solist, x) + HeldIn(rest, x) + One(x = l)
             /\ hd[x] \in Nat /\ LinksIn(ch, solist, x) \in Nat /\ HeldIn(rest, x) \in Nat
             /\ One(x = l) \in Nat
  BY <1>1, LinksNone, HeldType DEF LinkTypes, One, Dropping
<1>3. ref_count[l] >= 1 BY <1>2 DEF One
<1>4. CASE ref_count[l] # 1 /\ stack' = rest /\ ref_count' = [ref_count EXCEPT ![l] = @ - 1]
  <2>1. ref_count[l] \in Nat BY <1>1
  <2>2. ref_count[l] > 1 BY <1>3, <1>4, <2>1
  <2>3. ref_count' \in [Libraries -> Nat] BY <1>1, <1>4, <2>2
  <2>4. RefsAre(ref_count', hd, ch, solist, rest)
    <3>1. ASSUME NEW x \in Libraries
          PROVE  ref_count'[x] = hd[x] + LinksIn(ch, solist, x) + HeldIn(rest, x)
      <4>1. CASE x = l
        <5>1. ref_count'[l] = ref_count[l] - 1 BY <1>1, <1>4
        <5>2. One(x = l) = 1 BY <4>1 DEF One
        <5> QED BY <1>2, <4>1, <5>1, <5>2
      <4>2. CASE x # l
        <5>1. ref_count'[x] = ref_count[x] BY <1>1, <1>4, <4>2
        <5>2. One(x = l) = 0 BY <4>2 DEF One
        <5> QED BY <1>2, <5>1, <5>2
      <4> QED BY <4>1, <4>2
    <3> QED BY <3>1 DEF RefsAre
  <2>5. \A x \in Libraries : ref_count'[x] > 0 <=> ref_count[x] > 0
    <3> TAKE x \in Libraries
    <3>1. ref_count[x] \in Nat BY <1>1
    <3> QED BY <1>1, <1>4, <2>1, <2>2, <3>1
  <2>6. StackOK(rest, ch, ref_count', constructors_called)
    <3>1. ASSUME NEW i \in 1 .. Len(rest)
          PROVE  /\ rest[i].fn = "unload" => ref_count'[rest[i].lib] = 1
                 /\ rest[i].fn \in {"open", "ctor", "init", "fini"}
                          => rest[i].lib \in constructors_called
      <4>1. FrameOK(rest, i, ch, ref_count, constructors_called) BY <1>1 DEF StackOK
      <4>2. rest[i] \in Frames BY <1>1
      <4>3. rest[i].lib \in Libraries BY <4>2 DEF Frames
      <4>4. rest[i].fn = "unload" => ref_count[rest[i].lib] = 1 /\ rest[i].lib # l
        BY <1>4, <4>1 DEF FrameOK
      <4>5. rest[i].fn = "unload" => ref_count'[rest[i].lib] = 1 BY <1>1, <1>4, <4>3, <4>4
      <4> QED BY <4>1, <4>5 DEF FrameOK
    <3> QED BY <1>1, <3>1, StackStays
  <2>7. ~Running("find")'
    <3>1. stack' # <<>> => Head(stack') = stack'[1] BY <1>1, <1>4, TopIs
    <3> QED BY <1>1, <1>4, <3>1 DEF Running
  <2> QED BY <1>1, <1>4, <2>2, <2>3, <2>4, <2>5, <2>6, <2>7
<1>5. CASE ref_count[l] = 1 /\ stack' = Unloaded(l, rest) /\ ref_count' = ref_count
  <2>1. /\ stack' \in Seq(Frames) /\ stack' # <<>> /\ Torn(stack') = Torn(rest) \cup {l}
        /\ stack'[1].lib = l
        /\ stack'[1].fn = IF l \in constructors_called THEN "fini" ELSE "unload"
        /\ RefsAre(ref_count, hd, ch, solist, stack')
        /\ StackOK(stack', ch, ref_count, constructors_called) /\ TopOK(stack', constructors_called)
        /\ \A x : ReadyAt(rest, constructors_called, x) => ReadyAt(stack', constructors_called, x)
    BY <1>5, LastDropped
  <2>2. ~Running("find")'
    <3>1. Head(stack') = stack'[1] BY <2>1, TopIs
    <3> QED BY <2>1, <3>1 DEF Running
  <2> QED BY <1>1, <1>5, <2>1, <2>2
<1>6. (IF l \in constructors_called THEN <<Frame("fini", l, <<>>)>> ELSE <<>>)
         \o <<Frame("unload", l, <<>>)>> \o rest = Unloaded(l, rest)
  BY <1>1, UnloadedIs
<1> QED BY <1>4, <1>5, <1>6 DEF soinfo_unload

(* Nothing changes but what soinfo_unload does, the handles, the children  *)
(* and what a load that failed leaves.                                     *)
LEMMA DropStep ==
    ASSUME LinkInv, NEW l \in Libraries, NEW rest, Dropping(l, handles', children', rest),
           soinfo_unload(l, rest), load_tasks' \in Seq(Tasks), found_libs' \in Seq(Libraries),
           UNCHANGED <<solist, parents, linked, constructors_called, debug_map>>,
           \A x \in Libraries : handles'[x] > 0 => handles[x] > 0,
           \A p \in Libraries : Members(children'[p]) \subseteq Members(children[p]),
           \A p \in Libraries : children[p] = <<>> => children'[p] = <<>>,
           \A x \in constructors_called : ReadyAt(rest, constructors_called, x)
    PROVE  /\ LinkTypes' /\ Counted' /\ Kept' /\ Stacked' /\ Ready' /\ Acyclic(solist, children)'
           /\ ~Running("find")'
<1>1. /\ ref_count' \in [Libraries -> Nat] /\ stack' \in Seq(Frames)
      /\ RefsAre(ref_count', handles', children', solist, stack')
      /\ StackOK(stack', children', ref_count', constructors_called)
      /\ TopOK(stack', constructors_called)
      /\ \A x \in Libraries : ref_count'[x] > 0 <=> ref_count[x] > 0
      /\ \A x : ReadyAt(rest, constructors_called, x) => ReadyAt(stack', constructors_called, x)
      /\ ~Running("find")'
  BY InvIs, Dropped
<1>2. /\ solist' = solist /\ parents' = parents /\ linked' = linked /\ debug_map' = debug_map
      /\ constructors_called' = constructors_called
  OBVIOUS
<1>3. Counted' BY <1>1, <1>2 DEF Counted
<1>4. Kept'
  <2>1. ASSUME NEW p \in solist, NEW k \in Members(children'[p]) PROVE p \in parents[k]
    <3>1. k \in Members(children[p]) BY InvIs
    <3> QED BY <3>1, InvIs DEF Kept
  <2>2. Kept BY InvIs
  <2>3. \A x \in Libraries : x \notin solist => children'[x] = <<>> BY <2>2 DEF Kept
  <2>4. \A x \in Libraries : handles'[x] > 0 => x \in constructors_called BY <2>2 DEF Kept
  <2>5. \A x \in Libraries : x \in solist <=> ref_count'[x] > 0 BY <1>1, <2>2 DEF Kept
  <2> QED BY <1>2, <2>1, <2>2, <2>3, <2>4, <2>5 DEF Kept
<1>5. Stacked' BY <1>1, <1>2 DEF Stacked
<1>6. Ready' BY <1>1, <1>2 DEF Ready
<1>7. Acyclic(solist, children)'
  <2>1. \A p \in solist : Members(children'[p]) \subseteq Members(children[p]) BY InvIs
  <2>2. Acyclic(solist, children) /\ solist \in SUBSET solist BY InvIs
  <2>3. Acyclic(solist, children') BY <2>1, <2>2, AcyclicLess
  <2> QED BY <1>2, <2>3
<1>8. LinkTypes' BY <1>1, <1>2, InvIs DEF LinkTypes, Dropping
<1> QED BY <1>1, <1>3, <1>4, <1>5, <1>6, <1>7, <1>8

LEMMA dlcloseStep ==
    ASSUME LinkInv, NEW l \in Libraries, dlclose(l)
    PROVE  LinkInv'
<1>1. /\ handles[l] > 0 /\ handles' = [handles EXCEPT ![l] = @ - 1] /\ soinfo_unload(l, stack)
      /\ UNCHANGED <<solist, parents, linked, constructors_called, debug_map>>
      /\ children' = children /\ load_tasks' = load_tasks /\ found_libs' = found_libs
      /\ solist' = solist /\ linked' = linked /\ constructors_called' = constructors_called
  BY DEF dlclose
<1>2. stack \in Seq(Frames) /\ Calm /\ (stack # <<>> => stack[1].fn \in {"init", "fini"})
  BY ProgramRuns DEF dlclose
<1>3. handles \in [Libraries -> Nat] /\ handles' \in [Libraries -> Nat]
  <2>1. handles \in [Libraries -> Nat] BY InvIs
  <2>2. handles[l] - 1 \in Nat BY <1>1, <2>1
  <2> QED BY <1>1, <2>1, <2>2
<1>4. \A x \in Libraries : handles[x] = handles'[x] + One(x = l)
  <2> TAKE x \in Libraries
  <2>1. handles[x] \in Nat /\ handles[l] \in Nat BY <1>3
  <2>2. CASE x = l BY <1>1, <1>3, <2>1, <2>2 DEF One
  <2>3. CASE x # l BY <1>1, <1>3, <2>1, <2>3 DEF One
  <2> QED BY <2>2, <2>3
<1>5. Dropping(l, handles', children', stack)
  <2>1. ASSUME NEW x \in Libraries
        PROVE  ref_count[x] = handles'[x] + LinksIn(children', solist, x) + HeldIn(stack, x)
                     + One(x = l)
    <3>1. ref_count[x] = handles[x] + LinksIn(children, solist, x) + HeldIn(stack, x)
      BY InvIs DEF RefsAre
    <3>2. /\ handles'[x] \in Nat /\ LinksIn(children, solist, x) \in Nat /\ HeldIn(stack, x) \in Nat
          /\ One(x = l) \in Nat
      BY <1>2, <1>3, InvIs, LinksNone, HeldType DEF One
    <3>3. handles[x] = handles'[x] + One(x = l) BY <1>4
    <3> QED BY <1>1, <3>1, <3>2, <3>3
  <2>2. stack # <<>> => stack[1].fn # "find" BY <1>2
  <2> QED BY <1>1, <1>2, <1>3, <2>1, <2>2, InvIs DEF Dropping
<1>6. \A x \in Libraries : handles'[x] > 0 => handles[x] > 0
  <2> TAKE x \in Libraries
  <2>1. handles[x] \in Nat /\ handles'[x] \in Nat BY <1>3
  <2>2. handles[x] = handles'[x] + One(x = l) /\ One(x = l) \in Nat BY <1>4 DEF One
  <2> QED BY <2>1, <2>2
<1>7. \A x \in constructors_called : ReadyAt(stack, constructors_called, x) BY InvIs DEF Ready
<1>8. load_tasks' \in Seq(Tasks) /\ found_libs' \in Seq(Libraries) BY <1>1, InvIs
<1>9. /\ \A p \in Libraries : Members(children'[p]) \subseteq Members(children[p])
      /\ \A p \in Libraries : children[p] = <<>> => children'[p] = <<>>
  BY <1>1
<1>10. /\ LinkTypes' /\ Counted' /\ Kept' /\ Stacked' /\ Ready' /\ Acyclic(solist, children)'
       /\ ~Running("find")'
  BY <1>1, <1>5, <1>6, <1>7, <1>8, <1>9, DropStep
<1>11. Torn(stack) \subseteq Torn(stack') BY <1>1, <1>5, InvIs, Dropped
<1>12. Calm'
  <2>1. ASSUME NEW x \in solist PROVE WholeLib(x)'
    <3>1. WholeLib(x) BY <1>2 DEF Calm
    <3> QED BY <1>1, <1>11, <3>1 DEF WholeLib
  <2> QED BY <1>1, <2>1 DEF Calm
<1>13. Halves' BY <1>10, <1>12, CalmIs, PTL
<1> QED BY <1>10, <1>13 DEF LinkInv

----------------------------------------------------------------------------
(* The loop over the children.                                             *)
LEMMA LinksMore ==
    ASSUME NEW ch \in Children, NEW di \in Children, NEW S, IsFiniteSet(S), S \subseteq Libraries,
           NEW p \in S, \A q \in S : q # p => di[q] = ch[q], NEW x, NEW b \in Nat,
           Times(x, ch[p]) = b + Times(x, di[p])
    PROVE  LinksIn(ch, S, x) = LinksIn(di, S, x) + b
<1>1. LinksIn(di, S, x) + Times(x, ch[p]) = LinksIn(ch, S, x) + Times(x, di[p]) BY LinksChange
<1>2. LinksIn(di, S, x) \in Nat /\ LinksIn(ch, S, x) \in Nat BY LinksNone
<1>3. di[p] \in Seq(Libraries) BY DEF Children
<1>4. Times(x, di[p]) \in Nat BY <1>3, TimesMember
<1> QED BY <1>1, <1>2, <1>4

LosesFirst(ch, di, p) == di = [ch EXCEPT ![p] = Tail(@)]

LinksLose(ch, di, S, p, c) ==
    /\ di \in Children /\ c \in Members(ch[p])
    /\ Members(di[p]) \subseteq Members(ch[p]) /\ \A q \in Libraries : q # p => di[q] = ch[q]
    /\ \A x \in Libraries : LinksIn(ch, S, x) = LinksIn(di, S, x) + One(x = c)

LEMMA LinksLess ==
    ASSUME NEW ch \in Children, NEW S, IsFiniteSet(S), S \subseteq Libraries,
           NEW p \in S, ch[p] # <<>>, NEW di, LosesFirst(ch, di, p)
    PROVE  LinksLose(ch, di, S, p, Head(ch[p]))
<1>1. PICK c : c = ch[p] OBVIOUS
<1>2. p \in Libraries /\ c \in Seq(Libraries) /\ c # <<>> BY <1>1 DEF Children
<1>3. /\ Tail(c) \in Seq(Libraries) /\ Head(c) \in Libraries /\ c = <<Head(c)>> \o Tail(c)
      /\ Head(c) = c[1] /\ Len(c) = Len(Tail(c)) + 1 /\ Len(Tail(c)) \in Nat
      /\ \A i \in 1 .. Len(Tail(c)) : Tail(c)[i] = c[i + 1]
  BY <1>2, Popped
<1>4. di[p] = Tail(c) /\ \A q \in Libraries : q # p => di[q] = ch[q]
  BY <1>1, <1>2 DEF Children, LosesFirst
<1>5. di \in Children BY <1>1, <1>2, <1>3 DEF Children, LosesFirst
<1>6. Head(c) \in Members(c) /\ Members(Tail(c)) \subseteq Members(c)
  <2>1. DOMAIN c = 1 .. Len(c) /\ DOMAIN Tail(c) = 1 .. Len(Tail(c)) BY <1>2, <1>3
  <2>2. 1 \in DOMAIN c BY <1>3, <2>1
  <2>3. ASSUME NEW x \in Members(Tail(c)) PROVE x \in Members(c)
    <3>1. PICK i \in 1 .. Len(Tail(c)) : x = Tail(c)[i] BY <2>1 DEF Members
    <3>2. i + 1 \in 1 .. Len(c) BY <1>3
    <3> QED BY <1>3, <2>1, <3>1, <3>2 DEF Members
  <2> QED BY <1>3, <2>2, <2>3 DEF Members
<1>7. ASSUME NEW x \in Libraries PROVE LinksIn(ch, S, x) = LinksIn(di, S, x) + One(x = Head(c))
  <2>1. <<Head(c)>> \in Seq(Libraries) BY <1>3
  <2>2. /\ Times(x, <<Head(c)>> \o Tail(c)) = Times(x, <<Head(c)>>) + Times(x, Tail(c))
        /\ Times(x, <<Head(c)>>) \in Nat /\ Times(x, Tail(c)) \in Nat
    BY <1>3, <2>1, TimesJoin
  <2>3. Times(x, <<Head(c)>>) = One(x = Head(c)) BY TimesOne DEF One
  <2>4. Times(x, ch[p]) = One(x = Head(c)) + Times(x, di[p]) BY <1>1, <1>3, <1>4, <2>2, <2>3
  <2>5. One(x = Head(c)) \in Nat BY DEF One
  <2>6. \A q \in S : q # p => di[q] = ch[q] BY <1>4
  <2> QED BY <1>5, <2>4, <2>5, <2>6, LinksMore
<1> QED BY <1>1, <1>4, <1>5, <1>6, <1>7 DEF LinksLose

LEMMA UnloadChildBasics ==
    ASSUME LinkInv, UnloadChild, NEW p, p = stack[1].lib, NEW c, c = Head(children[p])
    PROVE  /\ stack \in Seq(Frames) /\ stack # <<>> /\ stack[1].fn = "unload"
           /\ 1 \in 1 .. Len(stack)
           /\ p \in solist /\ p \notin constructors_called /\ p \in Torn(stack)
           /\ c \in Members(children[p]) /\ c \in solist
           /\ UNCHANGED <<solist, parents, linked, constructors_called, debug_map, handles>>
           /\ children' = [children EXCEPT ![p] = Tail(@)] /\ children[p] # <<>>
           /\ soinfo_unload(c, stack) /\ Dropping(c, handles', children', stack)
           /\ LinkTypes' /\ Counted' /\ Kept' /\ Stacked' /\ Ready' /\ Acyclic(solist, children)'
           /\ ~Running("find")'
<1>1. /\ Running("unload") /\ children[Top.lib] # <<>>
      /\ children' = [children EXCEPT ![Top.lib] = Tail(@)]
      /\ soinfo_unload(Head(children[Top.lib]), stack)
      /\ UNCHANGED <<solist, parents, linked, constructors_called, debug_map, handles>>
      /\ load_tasks' = load_tasks /\ found_libs' = found_libs
  BY DEF UnloadChild
<1>2. /\ stack \in Seq(Frames) /\ stack # <<>> /\ stack[1].fn = "unload" /\ 1 \in 1 .. Len(stack)
      /\ Top = stack[1]
  BY <1>1, RunningIs
<1>3. children[p] # <<>> /\ children' = [children EXCEPT ![p] = Tail(@)] /\ soinfo_unload(c, stack)
  BY <1>1, <1>2
<1>4. p \in solist /\ p \in Torn(stack) BY <1>2, TornFree
<1>5. p \notin constructors_called BY <1>2, InvIs DEF TopOK
<1>6. /\ children' \in Children /\ c \in Members(children[p])
      /\ Members(children'[p]) \subseteq Members(children[p])
      /\ \A q \in Libraries : q # p => children'[q] = children[q]
      /\ \A x \in Libraries : LinksIn(children, solist, x) = LinksIn(children', solist, x)
               + One(x = c)
  <2>1. children \in Children /\ IsFiniteSet(solist) /\ solist \subseteq Libraries BY InvIs
  <2>2. LosesFirst(children, children', p) BY <1>3 DEF LosesFirst
  <2>3. children[p] # <<>> BY <1>3
  <2>4. LinksLose(children, children', solist, p, c) BY <1>4, <2>1, <2>2, <2>3, LinksLess
  <2> QED BY <2>4 DEF LinksLose
<1>7. c \in solist BY <1>4, <1>6, InvIs, NeededIsLoaded
<1>8. handles' = handles BY <1>1
<1>9. Dropping(c, handles', children', stack)
  <2>1. ASSUME NEW x \in Libraries
        PROVE  ref_count[x] = handles'[x] + LinksIn(children', solist, x) + HeldIn(stack, x)
                     + One(x = c)
    <3>1. ref_count[x] = handles[x] + LinksIn(children, solist, x) + HeldIn(stack, x)
      BY InvIs DEF RefsAre
    <3>2. /\ handles[x] \in Nat /\ LinksIn(children', solist, x) \in Nat /\ HeldIn(stack, x) \in Nat
          /\ One(x = c) \in Nat
      BY <1>2, <1>6, InvIs, LinksNone, HeldType DEF One
    <3>3. LinksIn(children, solist, x) = LinksIn(children', solist, x) + One(x = c) BY <1>6
    <3> QED BY <1>8, <3>1, <3>2, <3>3
  <2>2. StackOK(stack, children', ref_count, constructors_called)
    <3>1. ASSUME NEW i \in 1 .. Len(stack)
          PROVE  /\ stack[i].fn = "ctor" =>
                       Members(children[stack[i].lib]) \subseteq Members(children'[stack[i].lib])
                 /\ stack[i].fn = "unload" => ref_count[stack[i].lib] = 1
                 /\ stack[i].fn \in {"open", "ctor", "init", "fini"}
                          => stack[i].lib \in constructors_called
      <4>1. FrameOK(stack, i, children, ref_count, constructors_called) BY InvIs DEF StackOK
      <4>2. stack[i] \in Frames BY <1>2
      <4>3. stack[i].lib \in Libraries BY <4>2 DEF Frames
      <4>4. stack[i].fn = "ctor" => stack[i].lib # p BY <1>2, <1>4, InvIs, ConstructedIsWhole
      <4> QED BY <1>6, <4>1, <4>3, <4>4 DEF FrameOK
    <3>2. StackOK(stack, children, ref_count, constructors_called) BY InvIs
    <3> QED BY <1>2, <3>1, <3>2, StackStays
  <2>3. TopOK(stack, constructors_called) /\ handles \in [Libraries -> Nat] BY InvIs
  <2>4. stack # <<>> => stack[1].fn # "find" BY <1>2
  <2> QED BY <1>2, <1>6, <1>8, <2>1, <2>2, <2>3, <2>4 DEF Dropping
<1>10. /\ \A x \in Libraries : handles'[x] > 0 => handles[x] > 0
       /\ \A q \in Libraries : Members(children'[q]) \subseteq Members(children[q])
       /\ \A q \in Libraries : children[q] = <<>> => children'[q] = <<>>
       /\ \A x \in constructors_called : ReadyAt(stack, constructors_called, x)
  <2>1. \A q \in Libraries : Members(children'[q]) \subseteq Members(children[q]) BY <1>6
  <2>2. \A q \in Libraries : children[q] = <<>> => children'[q] = <<>> BY <1>3, <1>6
  <2>3. \A x \in constructors_called : ReadyAt(stack, constructors_called, x) BY InvIs DEF Ready
  <2> QED BY <1>8, <2>1, <2>2, <2>3
<1>11. load_tasks' \in Seq(Tasks) /\ found_libs' \in Seq(Libraries) BY <1>1, InvIs
<1>12. c \in Libraries BY <1>7, InvIs
<1>13. /\ LinkTypes' /\ Counted' /\ Kept' /\ Stacked' /\ Ready' /\ Acyclic(solist, children)'
       /\ ~Running("find")'
  BY <1>1, <1>3, <1>9, <1>10, <1>11, <1>12, DropStep
<1> QED BY <1>1, <1>2, <1>3, <1>4, <1>5, <1>6, <1>7, <1>9, <1>13

(* What is in hand counts once, a link counts once.                        *)
LEMMA LoneLink ==
    ASSUME LinkInv, NEW H \in SUBSET solist, HalfOK(H), NEW p \in H, NEW c \in Members(children[p]),
           ref_count[c] = 1
    PROVE  c \in H
<1>1. c \in solist /\ c \in Libraries BY InvIs, NeededIsLoaded
<1> SUFFICES ASSUME c \notin H PROVE FALSE OBVIOUS
<1>2. \/ handles[c] > 0 \/ HeldIn(stack, c) > 0
      \/ \E q \in solist \ H : c \in Members(children[q])
  BY <1>1 DEF HalfOK
<1>3. ref_count[c] = handles[c] + LinksIn(children, solist, c) + HeldIn(stack, c)
  BY <1>1, InvIs DEF RefsAre
<1>4. stack \in Seq(Frames) BY DEF LinkInv, LinkTypes
<1>5. /\ handles[c] \in Nat /\ LinksIn(children, solist, c) \in Nat /\ HeldIn(stack, c) \in Nat
      /\ LinksIn(children, solist, c) # 0
  <2>1. p \in solist OBVIOUS
  <2> QED BY <1>1, <1>4, <2>1, InvIs, LinksNone, HeldType
<1>6. CASE \E q \in solist \ H : c \in Members(children[q])
  <2>1. PICK q \in solist \ H : c \in Members(children[q]) BY <1>6
  <2>2. p \in solist /\ q \in solist /\ p # q OBVIOUS
  <2>3. LinksIn(children, solist, c) >= 2 BY <2>1, <2>2, InvIs, LinkedTwice
  <2> QED BY <1>3, <1>5, <2>3
<1> QED BY <1>2, <1>3, <1>5, <1>6

(* An unload of one of the half loaded on top of the others.               *)
LEMMA HalfOnTop ==
    ASSUME NEW H, NEW s \in Seq(Frames), NEW f \in Frames, f.lib \in H, f.fn \in {"find", "unload"},
           \A i \in 1 .. Len(s) : s[i].lib \in H =>
              s[i].fn \in {"find", "unload"} /\ \A j \in 1 .. i : s[j].lib \in H,
           NEW t, t = <<f>> \o s
    PROVE  \A i \in 1 .. Len(t) : t[i].lib \in H =>
              t[i].fn \in {"find", "unload"} /\ \A j \in 1 .. i : t[j].lib \in H
<1>1. /\ Len(s) \in Nat /\ Len(t) = Len(s) + 1 /\ t[1] = f
      /\ \A i \in 1 .. Len(s) : t[i + 1] = s[i]
  BY Pushed
<1> SUFFICES ASSUME NEW i \in 1 .. Len(t), t[i].lib \in H
             PROVE  t[i].fn \in {"find", "unload"} /\ \A j \in 1 .. i : t[j].lib \in H
  OBVIOUS
<1>2. CASE i = 1 BY <1>1, <1>2
<1>3. CASE i # 1
  <2>1. i - 1 \in 1 .. Len(s) /\ (i - 1) + 1 = i BY <1>1, <1>3
  <2>2. t[i] = s[i - 1] BY <1>1, <2>1
  <2>3. s[i - 1].fn \in {"find", "unload"} /\ \A j \in 1 .. i - 1 : s[j].lib \in H BY <2>1, <2>2
  <2>4. ASSUME NEW j \in 1 .. i PROVE t[j].lib \in H
    <3>1. CASE j = 1 BY <1>1, <3>1
    <3>2. CASE j # 1
      <4>1. j - 1 \in 1 .. i - 1 /\ j - 1 \in 1 .. Len(s) /\ (j - 1) + 1 = j BY <1>1, <2>1, <3>2
      <4>2. t[j] = s[j - 1] BY <1>1, <4>1
      <4> QED BY <2>3, <4>1, <4>2
    <3> QED BY <3>1, <3>2
  <2> QED BY <2>2, <2>3, <2>4
<1> QED BY <1>2, <1>3

LEMMA UnloadChildStep ==
    ASSUME LinkInv, UnloadChild
    PROVE  LinkInv'
<1>1. PICK p, c : p = stack[1].lib /\ c = Head(children[p]) OBVIOUS
<1>2. /\ stack \in Seq(Frames) /\ stack # <<>> /\ stack[1].fn = "unload" /\ 1 \in 1 .. Len(stack)
      /\ p \in solist /\ p \notin constructors_called /\ p \in Torn(stack)
      /\ c \in Members(children[p]) /\ c \in solist
      /\ UNCHANGED <<solist, parents, linked, constructors_called, debug_map, handles>>
      /\ children' = [children EXCEPT ![p] = Tail(@)]
      /\ soinfo_unload(c, stack) /\ Dropping(c, handles', children', stack)
      /\ LinkTypes' /\ Counted' /\ Kept' /\ Stacked' /\ Ready' /\ Acyclic(solist, children)'
      /\ ~Running("find")'
  BY <1>1, UnloadChildBasics
<1>3. /\ solist' = solist /\ linked' = linked /\ constructors_called' = constructors_called
      /\ handles' = handles
  BY <1>2
<1>4. c \in Libraries BY <1>2, InvIs
<1>5. \A q \in solist : q # p => children'[q] = children[q] BY <1>2, InvIs DEF Children
<1>6. /\ stack' \in Seq(Frames) /\ Torn(stack) \subseteq Torn(stack')
      /\ \/ ref_count[c] > 1 /\ stack' = stack
         \/ /\ ref_count[c] = 1 /\ stack' = Unloaded(c, stack)
            /\ Torn(stack') = Torn(stack) \cup {c}
            /\ stack'[1].lib = c
            /\ stack'[1].fn = IF c \in constructors_called THEN "fini" ELSE "unload"
  BY <1>2, <1>4, InvIs, Dropped
<1>7. PICK H \in SUBSET solist : HalfOK(H) BY DEF LinkInv, Halves
<1>8. ASSUME NEW x \in solist, WholeLib(x), x # p PROVE WholeLib(x)'
  BY <1>3, <1>5, <1>6, <1>8 DEF WholeLib
<1>9. CASE p \notin H
  <2>1. H = {} BY <1>1, <1>7, <1>9 DEF HalfOK
  <2>2. ASSUME NEW x \in solist PROVE WholeLib(x)'
    <3>1. WholeLib(x) BY <1>7, <2>1 DEF HalfOK
    <3>2. CASE x = p
      <4>1. x \in linked' /\ x \in Torn(stack') /\ x \notin constructors_called'
        BY <1>2, <1>3, <1>6, <3>1, <3>2 DEF WholeLib
      <4> QED BY <4>1 DEF WholeLib
    <3> QED BY <1>8, <3>1, <3>2
  <2>3. Calm' BY <1>3, <2>2 DEF Calm
  <2>4. Halves' BY <1>2, <2>3, CalmIs, PTL
  <2> QED BY <1>2, <2>4 DEF LinkInv
<1>10. CASE p \in H
  <2>1. \/ stack' = stack
        \/ /\ c \in H /\ c \notin constructors_called
           /\ stack' = <<Frame("unload", c, <<>>)>> \o stack
    <3> SUFFICES ASSUME ref_count[c] = 1, stack' = Unloaded(c, stack)
                 PROVE  c \in H /\ c \notin constructors_called
                        /\ stack' = <<Frame("unload", c, <<>>)>> \o stack
      BY <1>6
    <3>1. c \in H BY <1>2, <1>7, <1>10, LoneLink
    <3>2. c \notin constructors_called BY <1>7, <3>1 DEF HalfOK
    <3> QED BY <3>1, <3>2 DEF Unloaded
  <2>2. Frame("unload", c, <<>>) \in Frames
    <3>1. "unload" \in {"find", "open", "ctor", "init", "fini", "unload"} OBVIOUS
    <3> QED BY <1>4, <3>1, FrameIs, NoneLeft
  <2>3. \A i \in 1 .. Len(stack) : stack[i].lib \in H =>
           stack[i].fn \in {"find", "unload"} /\ \A j \in 1 .. i : stack[j].lib \in H
    BY <1>7 DEF HalfOK
  <2>4. \A i \in 1 .. Len(stack') : stack'[i].lib \in H =>
           stack'[i].fn \in {"find", "unload"} /\ \A j \in 1 .. i : stack'[j].lib \in H
    <3>1. CASE stack' = stack BY <2>3, <3>1
    <3>2. CASE c \in H /\ stack' = <<Frame("unload", c, <<>>)>> \o stack
      <4>1. PICK f : f = Frame("unload", c, <<>>) OBVIOUS
      <4>2. f \in Frames /\ f.lib \in H /\ f.fn \in {"find", "unload"}
        <5>1. f.lib = c /\ f.fn = "unload" BY <4>1 DEF Frame
        <5> QED BY <2>2, <3>2, <4>1, <5>1
      <4>3. PICK t : t = stack' OBVIOUS
      <4>4. t = <<f>> \o stack BY <3>2, <4>1, <4>3
      <4>5. \A i \in 1 .. Len(t) : t[i].lib \in H =>
               t[i].fn \in {"find", "unload"} /\ \A j \in 1 .. i : t[j].lib \in H
        BY <1>2, <2>3, <4>2, <4>4, HalfOnTop
      <4> QED BY <4>3, <4>5
    <3> QED BY <2>1, <3>1, <3>2
  <2>5. stack' # <<>> /\ stack'[1].lib \in H
    <3>1. CASE stack' = stack BY <1>1, <1>2, <1>10, <3>1
    <3>2. CASE c \in H /\ stack' = <<Frame("unload", c, <<>>)>> \o stack
      <4>1. stack' # <<>> BY <1>2, <2>2, <3>2, Pushed
      <4>2. stack'[1] = Frame("unload", c, <<>>) BY <1>2, <2>2, <3>2, Pushed
      <4> QED BY <3>2, <4>1, <4>2 DEF Frame
    <3> QED BY <2>1, <3>1, <3>2
  <2>6. ASSUME NEW x \in solist \ H
        PROVE  /\ WholeLib(x)' /\ \A k \in Members(children'[x]) : k \notin H
               /\ \/ handles[x] > 0 \/ HeldIn(stack', x) > 0
                  \/ \E q \in solist \ H : x \in Members(children'[q])
    <3>1. /\ WholeLib(x) /\ \A k \in Members(children[x]) : k \notin H
          /\ \/ handles[x] > 0 \/ HeldIn(stack, x) > 0
             \/ \E q \in solist \ H : x \in Members(children[q])
      BY <1>7 DEF HalfOK
    <3>2. x # p /\ x \in solist /\ children'[x] = children[x] BY <1>5, <1>10
    <3>3. WholeLib(x)' BY <1>8, <3>1, <3>2
    <3>4. HeldIn(stack', x) >= HeldIn(stack, x)
      <4>1. x \in Libraries BY InvIs
      <4>2. HeldIn(stack, x) \in Nat BY <1>2, <4>1, HeldType
      <4>3. CASE stack' = stack BY <4>2, <4>3
      <4>4. CASE stack' = <<Frame("unload", c, <<>>)>> \o stack
        <5>1. PICK f : f = Frame("unload", c, <<>>) OBVIOUS
        <5>2. HeldIn(<<f>> \o stack, x) = HeldIn(stack, x) + One(Holds(f) /\ f.lib = x)
          BY <1>2, <2>2, <4>1, <5>1, HeldPushed
        <5>3. One(Holds(f) /\ f.lib = x) \in Nat BY DEF One
        <5> QED BY <4>2, <4>4, <5>1, <5>2, <5>3
      <4> QED BY <2>1, <4>3, <4>4
    <3>5. HeldIn(stack, x) > 0 => HeldIn(stack', x) > 0
      <4>1. x \in Libraries BY InvIs
      <4>2. HeldIn(stack, x) \in Nat /\ HeldIn(stack', x) \in Nat BY <1>2, <1>6, <4>1, HeldType
      <4> QED BY <3>4, <4>2
    <3>6. ASSUME NEW q \in solist \ H PROVE children'[q] = children[q] BY <1>5, <1>10
    <3> QED BY <3>1, <3>2, <3>3, <3>5, <3>6
  <2>7. HalfOK(H)'
    <3>1. H \cap constructors_called' = {} BY <1>3, <1>7 DEF HalfOK
    <3> QED BY <1>3, <2>4, <2>5, <2>6, <3>1 DEF HalfOK
  <2>8. Halves' BY <1>2, <1>3, <2>7 DEF Halves
  <2> QED BY <1>2, <2>8 DEF LinkInv
<1> QED BY <1>9, <1>10

----------------------------------------------------------------------------
(* What is not in a list cannot be taken out of it.                        *)
LEMMA LeastOf ==
    ASSUME NEW S, S \subseteq Nat, S # {}
    PROVE  \E k \in S : \A j \in S : k <= j
<1> DEFINE less == {ss \in Nat \X Nat : ss[1] < ss[2]}
<1>1. IsWellFoundedOn(less, Nat) BY NatLessThanWellFounded DEF OpToRel
<1> HIDE DEF less
<1>2. \E k \in S : \A j \in S : <<j, k>> \notin less BY <1>1, WFMin
<1>3. ASSUME NEW k \in Nat, NEW j \in Nat, <<j, k>> \notin less PROVE k <= j
  BY <1>3 DEF less
<1> QED BY <1>2, <1>3

RemoveStep(s, si, f) ==
    [i \in 0 .. Len(s) |-> IF i = 0 THEN <<>>
                           ELSE IF s[i] = si THEN f[i - 1] ELSE Append(f[i - 1], s[i])]
LEMMA RemovesNone ==
    ASSUME NEW s \in Seq(Libraries), NEW si, \A i \in 1 .. Len(s) : s[i] # si
    PROVE  remove_if(s, si) = s
<1> DEFINE f == CHOOSE g : g = RemoveStep(s, si, g)
           h == [i \in 0 .. Len(s) |-> SubSeq(s, 1, i)]
<1>1. Len(s) \in Nat OBVIOUS
<1>2. h = RemoveStep(s, si, h)
  <2>1. ASSUME NEW i \in 0 .. Len(s)
        PROVE  h[i] = IF i = 0 THEN <<>> ELSE IF s[i] = si THEN h[i - 1] ELSE Append(h[i - 1], s[i])
    <3>1. CASE i = 0 BY <3>1
    <3>2. CASE i # 0
      <4>1. i \in 1 .. Len(s) /\ i - 1 \in 0 .. Len(s) BY <1>1, <3>2
      <4>2. SubSeq(s, 1, i) = Append(SubSeq(s, 1, i - 1), s[i]) BY <1>1, <4>1
      <4> QED BY <3>2, <4>1, <4>2
    <3> QED BY <3>1, <3>2
  <2> QED BY <2>1 DEF RemoveStep
<1>3. f = RemoveStep(s, si, f)
  <2> HIDE DEF h
  <2> QED BY <1>2
<1>4. remove_if(s, si) = f[Len(s)] BY DEF remove_if, RemoveStep
<1> HIDE DEF f
<1>5. ASSUME NEW i \in 0 .. Len(s)
      PROVE  f[i] = IF i = 0 THEN <<>> ELSE IF s[i] = si THEN f[i - 1] ELSE Append(f[i - 1], s[i])
  <2>1. f[i] = RemoveStep(s, si, f)[i] BY <1>3
  <2> QED BY <2>1 DEF RemoveStep
<1> DEFINE D == {i \in 0 .. Len(s) : f[i] # h[i]}
<1>6. D = {}
  <2> SUFFICES ASSUME D # {} PROVE FALSE OBVIOUS
  <2>1. PICK n \in D : \A m \in D : n <= m
    <3>1. D \in SUBSET Nat BY <1>1
    <3> HIDE DEF D
    <3> QED BY <3>1, LeastOf
  <2>2. n \in 0 .. Len(s) /\ f[n] # h[n] OBVIOUS
  <2>3. h[n] = IF n = 0 THEN <<>> ELSE IF s[n] = si THEN h[n - 1] ELSE Append(h[n - 1], s[n])
    <3>1. h[n] = RemoveStep(s, si, h)[n] BY <1>2
    <3> HIDE DEF h
    <3> QED BY <2>2, <3>1 DEF RemoveStep
  <2>4. n # 0
    <3> HIDE DEF h
    <3> QED BY <1>5, <2>2, <2>3
  <2>5. n - 1 \in 0 .. Len(s) /\ n - 1 \notin D
    <3>1. n - 1 \in 0 .. Len(s) /\ ~(n <= n - 1) BY <1>1, <2>2, <2>4
    <3> QED BY <2>1, <3>1
  <2>6. f[n - 1] = h[n - 1] BY <2>5
  <2> HIDE DEF h, D
  <2> QED BY <1>5, <2>2, <2>3, <2>4, <2>6
<1>7. f[Len(s)] = h[Len(s)]
  <2>1. Len(s) \in 0 .. Len(s) BY <1>1
  <2> HIDE DEF h
  <2> QED BY <1>6, <2>1
<1>8. h[Len(s)] = s BY <1>1
<1> QED BY <1>4, <1>7, <1>8

----------------------------------------------------------------------------
(* The soinfo goes.                                                        *)
LEMMA LinksWithout ==
    ASSUME NEW ch \in Children, NEW S, IsFiniteSet(S), S \subseteq Libraries, NEW p \in S,
           ch[p] = <<>>, NEW x
    PROVE  LinksIn(ch, S \ {p}, x) = LinksIn(ch, S, x)
<1> DEFINE R == S \ {p}
<1>1. IsFiniteSet(R) /\ R \subseteq Libraries /\ p \notin R /\ S = R \cup {p} /\ p \in Libraries
  <2>1. IsFiniteSet(R) BY FS_Subset
  <2> QED BY <2>1
<1> HIDE DEF R
<1>2. LinksIn(ch, S, x) = LinksIn(ch, R, x) + Times(x, ch[p]) BY <1>1, LinksSplit
<1>3. ch[p] \in Seq(Libraries) BY <1>1 DEF Children
<1>4. Members(ch[p]) = {} BY DEF Members
<1>5. Times(x, ch[p]) = 0 BY <1>3, <1>4, TimesMember
<1>6. LinksIn(ch, R, x) \in Nat BY <1>1, LinksNone
<1> QED BY <1>2, <1>5, <1>6 DEF R

LEMMA soinfo_freeBasics ==
    ASSUME LinkInv, soinfo_free, NEW p, p = stack[1].lib
    PROVE  /\ stack \in Seq(Frames) /\ stack # <<>> /\ stack[1].fn = "unload"
           /\ 1 \in 1 .. Len(stack)
           /\ Below \in Seq(Frames) /\ Len(stack) = Len(Below) + 1 /\ Len(Below) \in Nat
           /\ \A i \in 1 .. Len(Below) : Below[i] = stack[i + 1]
           /\ p \in solist /\ p \notin constructors_called /\ children[p] = <<>>
           /\ FreeAt(handles, children, solist, stack, 1)
           /\ solist' = solist \ {p} /\ linked' = linked \ {p} /\ stack' = Below
           /\ handles' = handles
           /\ constructors_called' = constructors_called /\ children' = children
           /\ LinkTypes' /\ Counted' /\ Kept' /\ Stacked' /\ Ready' /\ Acyclic(solist, children)'
           /\ ~Running("find")' /\ \A x \in Libraries : x # p => HeldIn(Below, x) = HeldIn(stack, x)
           /\ Torn(stack) = Torn(Below) \cup {p}
<1>1. /\ Running("unload") /\ children[Top.lib] = <<>>
      /\ debug_map' = debug_map \ {Top.lib} /\ ref_count' = [ref_count EXCEPT ![Top.lib] = 0]
      /\ children' = [q \in Libraries |-> IF q \in parents[Top.lib]
                                          THEN remove_if(children[q], Top.lib) ELSE children[q]]
      /\ parents' = [parents EXCEPT ![Top.lib] = {}]
      /\ solist' = solist \ {Top.lib} /\ linked' = linked \ {Top.lib} /\ stack' = Below
      /\ constructors_called' = constructors_called /\ load_tasks' = load_tasks
      /\ found_libs' = found_libs /\ handles' = handles
  BY DEF soinfo_free
<1>2. /\ stack \in Seq(Frames) /\ stack # <<>> /\ stack[1].fn = "unload" /\ 1 \in 1 .. Len(stack)
      /\ Top = stack[1] /\ Head(stack) = stack[1] /\ Below \in Seq(Frames)
      /\ StackOK(Below, children, ref_count, constructors_called)
      /\ Below # <<>> => Below[1].fn # "find"
  BY <1>1, RunningIs DEF Top
<1>3. /\ Len(stack) = Len(Below) + 1 /\ Len(Below) \in Nat
      /\ \A i \in 1 .. Len(Below) : Below[i] = stack[i + 1]
  BY <1>2, Popped DEF Below
<1>4. p \in solist /\ p \in Libraries /\ FreeAt(handles, children, solist, stack, 1)
  BY <1>2, TornFree
<1>5. /\ handles[p] = 0 /\ \A q \in solist : p \notin Members(children[q])
      /\ \A j \in 1 .. Len(stack) : Holds(stack[j]) /\ stack[j].lib = p => j = 1
  BY <1>4 DEF FreeAt
<1>6. p \notin constructors_called BY <1>2, InvIs DEF TopOK
<1>7. children[p] = <<>> BY <1>1, <1>2
<1>8. children' = children
  <2>1. ASSUME NEW q \in Libraries PROVE remove_if(children[q], p) = children[q]
    <3>1. p \notin Members(children[q])
      <4>1. CASE q \in solist BY <1>5, <4>1
      <4>2. CASE q \notin solist
        <5>1. children[q] = <<>> BY <4>2, InvIs DEF Kept
        <5> QED BY <5>1 DEF Members
      <4> QED BY <4>1, <4>2
    <3>2. children[q] \in Seq(Libraries) BY InvIs DEF Children
    <3>3. PICK s : s = children[q] OBVIOUS
    <3>4. DOMAIN s = 1 .. Len(s) BY <3>2, <3>3
    <3>5. \A i \in 1 .. Len(s) : s[i] # p BY <3>1, <3>3, <3>4 DEF Members
    <3>6. remove_if(s, p) = s BY <3>2, <3>3, <3>5, RemovesNone
    <3> QED BY <3>3, <3>6
  <2>2. children \in [Libraries -> Seq(Libraries)] BY InvIs DEF Children
  <2>3. children' = [q \in Libraries |-> IF q \in parents[p] THEN remove_if(children[q], p)
                                   ELSE children[q]]
    BY <1>1, <1>2
  <2>4. children' = [q \in Libraries |-> children[q]] BY <2>1, <2>3
  <2> QED BY <2>2, <2>4
<1>9. /\ solist' = solist \ {p} /\ linked' = linked \ {p} /\ debug_map' = debug_map \ {p}
      /\ ref_count' = [ref_count EXCEPT ![p] = 0] /\ parents' = [parents EXCEPT ![p] = {}]
  BY <1>1, <1>2
<1>10. /\ ref_count' \in [Libraries -> Nat] /\ ref_count'[p] = 0
       /\ \A x \in Libraries : x # p => ref_count'[x] = ref_count[x]
  BY <1>4, <1>9, InvIs
<1>11. /\ parents' \in [Libraries -> SUBSET Libraries]
       /\ \A x \in Libraries : x # p => parents'[x] = parents[x]
  BY <1>4, <1>9, InvIs
<1>12. LinkTypes'
  <2>1. IsFiniteSet(solist') BY <1>9, InvIs, FS_Subset
  <2> QED BY <1>1, <1>2, <1>8, <1>9, <1>10, <1>11, <2>1, InvIs DEF LinkTypes
<1>13. \A x \in Libraries : x # p => HeldIn(Below, x) = HeldIn(stack, x)
  <2> SUFFICES ASSUME NEW x \in Libraries, x # p PROVE HeldIn(Below, x) = HeldIn(stack, x) OBVIOUS
  <2>1. HeldIn(stack, x) = HeldIn(Below, x) + One(Holds(stack[1]) /\ stack[1].lib = x)
    BY <1>2, HeldPopped DEF Below
  <2>2. One(Holds(stack[1]) /\ stack[1].lib = x) = 0 BY DEF One
  <2>3. HeldIn(Below, x) \in Nat BY <1>2, HeldType
  <2> QED BY <2>1, <2>2, <2>3
<1>14. HeldIn(Below, p) = 0
  <2>1. \A i \in 1 .. Len(Below) : Holds(Below[i]) => Below[i].lib # p
    <3> SUFFICES ASSUME NEW i \in 1 .. Len(Below), Holds(Below[i]), Below[i].lib = p PROVE FALSE
      OBVIOUS
    <3>1. i + 1 \in 1 .. Len(stack) /\ i + 1 # 1 /\ Below[i] = stack[i + 1] BY <1>3
    <3> QED BY <1>5, <3>1
  <2> QED BY <1>2, <1>4, <2>1, HeldType
<1>15. Counted'
  <2>1. ASSUME NEW x \in Libraries
        PROVE  ref_count'[x] = handles[x] + LinksIn(children, solist \ {p}, x) + HeldIn(Below, x)
    <3>1. LinksIn(children, solist \ {p}, x) = LinksIn(children, solist, x)
      BY <1>4, <1>7, InvIs, LinksWithout
    <3>2. CASE x = p
      <4>1. LinksIn(children, solist, p) = 0 BY <1>5, InvIs, LinksNone
      <4> QED BY <1>5, <1>10, <1>14, <3>1, <3>2, <4>1
    <3>3. CASE x # p
      <4>1. ref_count[x] = handles[x] + LinksIn(children, solist, x) + HeldIn(stack, x)
        BY InvIs DEF RefsAre
      <4> QED BY <1>10, <1>13, <3>1, <3>3, <4>1
    <3> QED BY <3>2, <3>3
  <2> QED BY <1>1, <1>8, <1>9, <2>1 DEF Counted, RefsAre
<1>16. Kept'
  <2>1. Kept BY InvIs
  <2>2. constructors_called \subseteq linked' /\ debug_map' = linked' /\ linked' \subseteq solist'
    BY <1>6, <1>9, <2>1 DEF Kept
  <2>3. ASSUME NEW x \in Libraries PROVE x \in solist' <=> ref_count'[x] > 0
    BY <1>9, <1>10, <2>1 DEF Kept
  <2>4. ASSUME NEW x \in Libraries, x \notin solist' PROVE children[x] = <<>>
    BY <1>7, <1>9, <2>1, <2>4 DEF Kept
  <2>5. ASSUME NEW q \in solist', NEW k \in Members(children[q]) PROVE q \in parents'[k]
    <3>1. q \in solist /\ q \in parents[k] BY <1>9, <2>1, <2>5 DEF Kept
    <3>2. k # p BY <1>5, <2>5, <3>1
    <3>3. k \in solist /\ k \in Libraries BY <3>1, <2>5, InvIs, NeededIsLoaded
    <3> QED BY <1>11, <3>1, <3>2, <3>3
  <2>6. \A x \in Libraries : handles[x] > 0 => x \in constructors_called BY <2>1 DEF Kept
  <2> QED BY <1>1, <1>8, <2>2, <2>3, <2>4, <2>5, <2>6 DEF Kept
<1>17. Stacked'
  <2>1. ASSUME NEW i \in 1 .. Len(Below)
        PROVE  /\ Below[i].fn = "unload" => ref_count'[Below[i].lib] = 1
               /\ Below[i].fn \in {"open", "ctor", "init", "fini"}
                        => Below[i].lib \in constructors_called
    <3>1. FrameOK(Below, i, children, ref_count, constructors_called) BY <1>2 DEF StackOK
    <3>2. Below[i] \in Frames BY <1>2
    <3>3. Below[i].lib \in Libraries BY <3>2 DEF Frames
    <3>4. i + 1 \in 1 .. Len(stack) /\ i + 1 # 1 /\ Below[i] = stack[i + 1] BY <1>3
    <3>5. Below[i].fn = "unload" => Below[i].lib # p BY <1>5, <3>4 DEF Holds
    <3> QED BY <1>10, <3>1, <3>3, <3>5 DEF FrameOK
  <2>2. StackOK(Below, children, ref_count', constructors_called) BY <1>2, <2>1, StackStays
  <2>3. TopOK(Below, constructors_called) BY <1>2, InvIs, TopPops DEF Below
  <2> QED BY <1>1, <1>8, <2>2, <2>3 DEF Stacked
<1>18. Ready'
  <2>1. ASSUME NEW x \in constructors_called PROVE ReadyAt(Below, constructors_called, x)
    <3>1. ReadyAt(stack, constructors_called, x) BY InvIs DEF Ready
    <3> QED BY <1>2, <3>1, ReadyPops DEF Below
  <2> QED BY <1>1, <2>1 DEF Ready
<1>19. Acyclic(solist, children)'
  <2>1. solist' \in SUBSET solist BY <1>9
  <2>2. Acyclic(solist', children) BY <2>1, InvIs, AcyclicLess
  <2> QED BY <1>8, <2>2
<1>20. ~Running("find")'
  <2>1. stack' # <<>> => Head(stack') = stack'[1] BY <1>1, <1>2, TopIs
  <2> QED BY <1>1, <1>2, <2>1 DEF Running
<1>21. Torn(stack) = Torn(Below) \cup {p} BY <1>2, TornPopped DEF Below
<1> QED BY <1>1, <1>2, <1>3, <1>4, <1>6, <1>7, <1>8, <1>9, <1>12, <1>13, <1>15, <1>16, <1>17, <1>18,
           <1>19, <1>20, <1>21

(* Some half loaded library has no holder but an activation.               *)
LEMMA HalfHeld ==
    ASSUME LinkInv, NEW H \in SUBSET solist, HalfOK(H), NEW X \in SUBSET H, X # {},
           \A q \in H \ X : children[q] = <<>>
    PROVE  \E x \in X : /\ \A q \in solist : x \notin Members(children[q])
                       /\ \E i \in 1 .. Len(stack) : Holds(stack[i]) /\ stack[i].lib = x
<1>1. PICK x \in X : \A q \in X : x \notin Members(children[q])
  <2>1. Acyclic(solist, children) /\ X \in SUBSET solist BY InvIs
  <2> QED BY <2>1 DEF Acyclic
<1>2. x \in H /\ x \in solist /\ x \in Libraries BY <1>1, InvIs
<1>3. ASSUME NEW q \in solist PROVE x \notin Members(children[q])
  <2>1. CASE q \notin H BY <1>2, <2>1 DEF HalfOK
  <2>2. CASE q \in X BY <1>1, <2>2
  <2>3. CASE q \in H \ X
    <3>1. children[q] = <<>> BY <2>3
    <3> QED BY <3>1 DEF Members
  <2> QED BY <2>1, <2>2, <2>3
<1>4. LinksIn(children, solist, x) = 0 BY <1>3, InvIs, LinksNone
<1>5. handles[x] = 0
  <2>1. handles[x] \in Nat BY <1>2, InvIs
  <2>2. x \notin constructors_called BY <1>2 DEF HalfOK
  <2> QED BY <1>2, <2>1, <2>2, InvIs DEF Kept
<1>6. ref_count[x] > 0 BY <1>2, InvIs DEF Kept
<1>7. ref_count[x] = handles[x] + LinksIn(children, solist, x) + HeldIn(stack, x)
  BY <1>2, InvIs DEF RefsAre
<1>8. stack \in Seq(Frames) BY DEF LinkInv, LinkTypes
<1>9. /\ HeldIn(stack, x) \in Nat
      /\ HeldIn(stack, x) = 0 <=> \A i \in 1 .. Len(stack) : Holds(stack[i]) => stack[i].lib # x
  BY <1>2, <1>8, HeldType
<1>10. HeldIn(stack, x) # 0 BY <1>4, <1>5, <1>6, <1>7, <1>9
<1> QED BY <1>1, <1>3, <1>9, <1>10

LEMMA soinfo_freeStep ==
    ASSUME LinkInv, soinfo_free
    PROVE  LinkInv'
<1>1. PICK p : p = stack[1].lib OBVIOUS
<1>2. /\ stack \in Seq(Frames) /\ stack # <<>> /\ stack[1].fn = "unload" /\ 1 \in 1 .. Len(stack)
      /\ Below \in Seq(Frames) /\ Len(stack) = Len(Below) + 1 /\ Len(Below) \in Nat
      /\ \A i \in 1 .. Len(Below) : Below[i] = stack[i + 1]
      /\ p \in solist /\ p \notin constructors_called /\ children[p] = <<>>
      /\ FreeAt(handles, children, solist, stack, 1)
      /\ solist' = solist \ {p} /\ linked' = linked \ {p} /\ stack' = Below /\ handles' = handles
      /\ constructors_called' = constructors_called /\ children' = children
      /\ LinkTypes' /\ Counted' /\ Kept' /\ Stacked' /\ Ready' /\ Acyclic(solist, children)'
      /\ ~Running("find")' /\ \A x \in Libraries : x # p => HeldIn(Below, x) = HeldIn(stack, x)
      /\ Torn(stack) = Torn(Below) \cup {p}
  BY <1>1, soinfo_freeBasics
<1>3. /\ \A q \in solist : p \notin Members(children[q])
      /\ \A j \in 1 .. Len(stack) : Holds(stack[j]) /\ stack[j].lib = p => j = 1
  BY <1>1, <1>2 DEF FreeAt
<1>4. PICK H \in SUBSET solist : HalfOK(H) BY DEF LinkInv, Halves
<1>5. ASSUME NEW x \in solist, WholeLib(x), x # p PROVE WholeLib(x)'
  BY <1>2, <1>5 DEF WholeLib
<1>6. CASE H = {}
  <2>1. ASSUME NEW x \in solist' PROVE WholeLib(x)'
    <3>1. x \in solist /\ x # p BY <1>2
    <3>2. WholeLib(x) BY <1>4, <1>6, <3>1 DEF HalfOK
    <3> QED BY <1>5, <3>1, <3>2
  <2>2. Calm' BY <2>1 DEF Calm
  <2>3. Halves' BY <1>2, <2>2, CalmIs, PTL
  <2> QED BY <1>2, <2>3 DEF LinkInv
<1>7. CASE H # {}
  <2> DEFINE G == H \ {p}
  <2>1. p \in H BY <1>1, <1>4, <1>7 DEF HalfOK
  <2>2. ASSUME NEW i \in 1 .. Len(Below)
        PROVE  i + 1 \in 1 .. Len(stack) /\ i + 1 # 1 /\ Below[i] = stack[i + 1]
    BY <1>2
  <2>3. \A i \in 1 .. Len(stack) : stack[i].lib \in H =>
           stack[i].fn \in {"find", "unload"} /\ \A j \in 1 .. i : stack[j].lib \in H
    BY <1>4 DEF HalfOK
  <2>4. ASSUME NEW i \in 1 .. Len(Below), Below[i].lib \in H
        PROVE  Below[i].lib # p /\ Below[i].fn = "unload"
    <3>1. i + 1 \in 1 .. Len(stack) /\ i + 1 # 1 /\ Below[i] = stack[i + 1] BY <2>2
    <3>2. Below[i].fn \in {"find", "unload"} BY <2>3, <2>4, <3>1
    <3>3. FrameOK(stack, i + 1, children, ref_count, constructors_called) BY <3>1, InvIs DEF StackOK
    <3>4. Below[i].fn = "unload" BY <3>1, <3>2, <3>3 DEF FrameOK
    <3> QED BY <1>3, <3>1, <3>4 DEF Holds
  <2>5. \A i \in 1 .. Len(stack') : stack'[i].lib \in G =>
           stack'[i].fn \in {"find", "unload"} /\ \A j \in 1 .. i : stack'[j].lib \in G
    <3> SUFFICES ASSUME NEW i \in 1 .. Len(Below), Below[i].lib \in G
                 PROVE  Below[i].fn \in {"find", "unload"} /\ \A j \in 1 .. i : Below[j].lib \in G
      BY <1>2
    <3>1. i + 1 \in 1 .. Len(stack) /\ Below[i] = stack[i + 1] BY <2>2
    <3>2. ASSUME NEW j \in 1 .. i PROVE Below[j].lib \in G
      <4>1. j \in 1 .. Len(Below) /\ j + 1 \in 1 .. i + 1 BY <1>2
      <4>2. Below[j] = stack[j + 1] BY <2>2, <4>1
      <4>3. Below[j].lib \in H BY <2>3, <3>1, <4>1, <4>2
      <4> QED BY <2>4, <4>1, <4>3
    <3> QED BY <2>4, <3>2
  <2>6. G # {} => stack' # <<>> /\ stack'[1].lib \in G
    <3> SUFFICES ASSUME G # {} PROVE Below # <<>> /\ Below[1].lib \in G BY <1>2
    <3>1. G \in SUBSET H /\ \A q \in H \ G : children[q] = <<>> BY <1>2
    <3>2. PICK x \in G : \E i \in 1 .. Len(stack) : Holds(stack[i]) /\ stack[i].lib = x
      <4> HIDE DEF G
      <4> QED BY <1>4, <3>1, HalfHeld
    <3>3. PICK i \in 1 .. Len(stack) : stack[i].lib = x BY <3>2
    <3>4. x \in H /\ i # 1 BY <1>1, <3>2, <3>3
    <3>5. 2 \in 1 .. i BY <1>2, <3>3, <3>4
    <3>6. stack[2].lib \in H BY <2>3, <3>3, <3>4, <3>5
    <3>7. 1 \in 1 .. Len(Below) BY <1>2, <3>3, <3>5
    <3>8. Below[1] = stack[1 + 1] BY <2>2, <3>7
    <3>9. Below[1].lib \in H BY <3>6, <3>8
    <3> QED BY <1>2, <2>4, <3>7, <3>9
  <2>7. ASSUME NEW x \in solist' \ G
        PROVE  /\ WholeLib(x)' /\ \A k \in Members(children'[x]) : k \notin G
               /\ \/ handles'[x] > 0 \/ HeldIn(stack', x) > 0
                  \/ \E q \in solist' \ G : x \in Members(children'[q])
    <3>1. x \in solist \ H /\ x # p /\ x \in Libraries BY <1>2, InvIs
    <3>2. /\ WholeLib(x) /\ \A k \in Members(children[x]) : k \notin H
          /\ \/ handles[x] > 0 \/ HeldIn(stack, x) > 0
             \/ \E q \in solist \ H : x \in Members(children[q])
      BY <1>4, <3>1 DEF HalfOK
    <3>3. WholeLib(x)' BY <1>5, <3>1, <3>2
    <3>4. HeldIn(stack', x) = HeldIn(stack, x) BY <1>2, <3>1
    <3>5. \A q \in solist \ H : q \in solist' \ G BY <1>2, <2>1
    <3> QED BY <1>2, <3>2, <3>3, <3>4, <3>5
  <2>8. G \in SUBSET solist' BY <1>2
  <2>9. G \cap constructors_called' = {} BY <1>2, <1>4 DEF HalfOK
  <2> HIDE DEF G
  <2>10. HalfOK(G)' BY <2>5, <2>6, <2>7, <2>9 DEF HalfOK
  <2>11. Halves' BY <1>2, <2>8, <2>10 DEF Halves
  <2> QED BY <1>2, <2>11 DEF LinkInv
<1> QED BY <1>6, <1>7

----------------------------------------------------------------------------
(* A load fails.                                                           *)
LEMMA FindingIs ==
    ASSUME LinkInv, Running("find")
    PROVE  /\ stack \in Seq(Frames) /\ stack # <<>> /\ stack[1].fn = "find" /\ 1 \in 1 .. Len(stack)
           /\ Top = stack[1] /\ Head(stack) = stack[1] /\ Below \in Seq(Frames)
           /\ stack[1] \in Frames /\ stack[1].lib \in Libraries /\ stack = <<stack[1]>> \o Below
           /\ Len(stack) = Len(Below) + 1 /\ Len(Below) \in Nat
           /\ \A i \in 1 .. Len(Below) : Below[i] = stack[i + 1]
           /\ stack[1].left \in {<<>>, <<stack[1].lib>>}
           /\ StackOK(Below, children, ref_count, constructors_called)
           /\ TopOK(Below, constructors_called)
           /\ Below # <<>> => Below[1].fn # "find"
           /\ Torn(stack) = Torn(Below)
           /\ \A x \in constructors_called : ReadyAt(Below, constructors_called, x)
           /\ \E H \in SUBSET solist : HalfOK(H) /\ LoadOK(H)
<1>1. /\ stack \in Seq(Frames) /\ stack # <<>> /\ stack[1].fn = "find" /\ 1 \in 1 .. Len(stack)
      /\ Top = stack[1] /\ Head(stack) = stack[1] /\ Below \in Seq(Frames)
      /\ stack[1] \in Frames /\ stack[1].lib \in Libraries /\ stack = <<stack[1]>> \o Below
      /\ StackOK(Below, children, ref_count, constructors_called)
      /\ FrameOK(stack, 1, children, ref_count, constructors_called)
      /\ Below # <<>> => Below[1].fn # "find"
  BY RunningIs DEF Top
<1>2. /\ Len(stack) = Len(Below) + 1 /\ Len(Below) \in Nat
      /\ \A i \in 1 .. Len(Below) : Below[i] = stack[i + 1]
  BY <1>1, Popped DEF Below
<1>3. TopOK(Below, constructors_called) BY <1>1, InvIs, TopPops DEF Below
<1>4. Torn(stack) = Torn(Below) BY <1>1, TornPopped DEF Below
<1>5. stack[1].left \in {<<>>, <<stack[1].lib>>} BY <1>1 DEF FrameOK
<1>6. ASSUME NEW x \in constructors_called PROVE ReadyAt(Below, constructors_called, x)
  <2>1. ReadyAt(stack, constructors_called, x) BY InvIs DEF Ready
  <2> QED BY <1>1, <2>1, ReadyPops DEF Below
<1>7. \E H \in SUBSET solist : HalfOK(H) /\ LoadOK(H) BY DEF LinkInv, Halves
<1> QED BY <1>1, <1>2, <1>3, <1>4, <1>5, <1>6, <1>7

LEMMA GiveUpStep ==
    ASSUME LinkInv, Running("find"), GiveUp, UNCHANGED solist
    PROVE  LinkInv'
<1> DEFINE l == stack[1].lib
           cc == constructors_called
<1>1. /\ stack \in Seq(Frames) /\ stack # <<>> /\ stack[1].fn = "find" /\ 1 \in 1 .. Len(stack)
      /\ Top = stack[1] /\ Head(stack) = stack[1] /\ Below \in Seq(Frames) /\ l \in Libraries
      /\ Len(stack) = Len(Below) + 1 /\ Len(Below) \in Nat
      /\ \A i \in 1 .. Len(Below) : Below[i] = stack[i + 1]
      /\ stack[1].left \in {<<>>, <<l>>}
      /\ StackOK(Below, children, ref_count, cc) /\ TopOK(Below, cc)
      /\ Below # <<>> => Below[1].fn # "find"
      /\ Torn(stack) = Torn(Below) /\ \A x \in cc : ReadyAt(Below, cc, x)
  BY FindingIs
<1>2. PICK H \in SUBSET solist : HalfOK(H) /\ LoadOK(H) BY FindingIs
<1>3. /\ load_tasks' = <<>> /\ found_libs' = <<>> /\ children' = children /\ handles' = handles
      /\ linked' = linked /\ constructors_called' = cc /\ solist' = solist
      /\ UNCHANGED <<solist, parents, linked, constructors_called, debug_map>>
      /\ parents' = parents /\ debug_map' = debug_map
      /\ \/ stack[1].left = <<>> /\ stack' = Below /\ UNCHANGED ref_count
         \/ stack[1].left # <<>> /\ soinfo_unload(stack[1].left[1], Below)
  BY <1>1 DEF GiveUp
<1>4. load_tasks' \in Seq(Tasks) /\ found_libs' \in Seq(Libraries) BY <1>3
<1>5. ASSUME NEW x \in Libraries
      PROVE  HeldIn(stack, x) = HeldIn(Below, x) + One(stack[1].left # <<>> /\ l = x)
  <2>1. HeldIn(stack, x) = HeldIn(Below, x) + One(Holds(stack[1]) /\ stack[1].lib = x)
    BY <1>1, HeldPopped DEF Below
  <2>2. (Holds(stack[1]) /\ stack[1].lib = x) = (stack[1].left # <<>> /\ l = x) BY <1>1 DEF Holds
  <2> QED BY <2>1, <2>2
<1>6. CASE stack[1].left = <<>>
  <2>1. stack' = Below /\ ref_count' = ref_count BY <1>3, <1>6
  <2>2. H = {} BY <1>2, <1>6 DEF LoadOK
  <2>3. \A x \in Libraries : HeldIn(Below, x) = HeldIn(stack, x)
    <3> TAKE x \in Libraries
    <3>1. One(stack[1].left # <<>> /\ l = x) = 0 BY <1>6 DEF One
    <3>2. HeldIn(Below, x) \in Nat BY <1>1, HeldType
    <3> QED BY <1>5, <3>1, <3>2
  <2>4. LinkTypes' BY <1>1, <1>3, <1>4, <2>1, InvIs DEF LinkTypes
  <2>5. Counted' BY <1>3, <2>1, <2>3, InvIs DEF Counted, RefsAre
  <2>6. Kept' BY <1>3, <2>1, InvIs DEF Kept
  <2>7. Stacked' BY <1>1, <1>3, <2>1 DEF Stacked
  <2>8. Ready' BY <1>1, <1>3, <2>1 DEF Ready
  <2>9. Acyclic(solist, children)' BY <1>3, InvIs
  <2>10. ~Running("find")'
    <3>1. stack' # <<>> => Head(stack') = stack'[1] BY <1>1, <2>1, TopIs
    <3> QED BY <1>1, <2>1, <3>1 DEF Running
  <2>11. Calm'
    <3>1. ASSUME NEW x \in solist PROVE WholeLib(x)'
      <4>1. WholeLib(x) BY <1>2, <2>2 DEF HalfOK
      <4> QED BY <1>1, <1>3, <2>1, <4>1 DEF WholeLib
    <3> QED BY <1>3, <3>1 DEF Calm
  <2>12. Halves' BY <2>4, <2>5, <2>6, <2>10, <2>11, CalmIs, PTL
  <2> QED BY <2>4, <2>5, <2>6, <2>7, <2>8, <2>9, <2>12 DEF LinkInv
<1>7. CASE stack[1].left # <<>>
  <2>1. stack[1].left[1] = l /\ soinfo_unload(l, Below) BY <1>1, <1>3, <1>7
  <2>2. Dropping(l, handles', children', Below)
    <3>1. ASSUME NEW x \in Libraries
          PROVE  ref_count[x] = handles'[x] + LinksIn(children', solist, x) + HeldIn(Below, x)
                       + One(x = l)
      <4>1. ref_count[x] = handles[x] + LinksIn(children, solist, x) + HeldIn(stack, x)
        BY InvIs DEF RefsAre
      <4>2. HeldIn(stack, x) = HeldIn(Below, x) + One(x = l)
        <5>1. (stack[1].left # <<>> /\ l = x) = (x = l) BY <1>7
        <5> QED BY <1>5, <5>1
      <4>3. /\ handles[x] \in Nat /\ LinksIn(children, solist, x) \in Nat
            /\ HeldIn(Below, x) \in Nat
            /\ One(x = l) \in Nat
        BY <1>1, InvIs, LinksNone, HeldType DEF One
      <4> QED BY <1>3, <4>1, <4>2, <4>3
    <3> QED BY <1>1, <1>3, <3>1, InvIs DEF Dropping
  <2>3. /\ \A x \in Libraries : handles'[x] > 0 => handles[x] > 0
        /\ \A q \in Libraries : Members(children'[q]) \subseteq Members(children[q])
        /\ \A q \in Libraries : children[q] = <<>> => children'[q] = <<>>
    BY <1>3
  <2>4. /\ LinkTypes' /\ Counted' /\ Kept' /\ Stacked' /\ Ready' /\ Acyclic(solist, children)'
        /\ ~Running("find")'
    BY <1>1, <1>3, <1>4, <2>1, <2>2, <2>3, DropStep
  <2>5. /\ stack' \in Seq(Frames) /\ Torn(Below) \subseteq Torn(stack')
        /\ \/ ref_count[l] > 1 /\ stack' = Below
           \/ ref_count[l] = 1 /\ stack' = Unloaded(l, Below)
    BY <1>1, <2>1, <2>2, InvIs, Dropped
  <2>6. ASSUME NEW x \in solist, WholeLib(x) PROVE WholeLib(x)'
    BY <1>1, <1>3, <2>5, <2>6 DEF WholeLib
  <2>7. CASE H = {}
    <3>1. Calm'
      <4>1. ASSUME NEW x \in solist PROVE WholeLib(x)'
        <5>1. WholeLib(x) BY <1>2, <2>7 DEF HalfOK
        <5> QED BY <2>6, <5>1
      <4> QED BY <1>3, <4>1 DEF Calm
    <3>2. Halves' BY <2>4, <3>1, CalmIs, PTL
    <3> QED BY <2>4, <3>2 DEF LinkInv
  <2>8. CASE H # {}
    <3>1. l \in H BY <1>2, <2>8 DEF HalfOK
    <3>2. ASSUME NEW i \in 1 .. Len(Below), Below[i].lib \in H PROVE FALSE
      <4>1. i + 1 \in 1 .. Len(stack) /\ i + 1 # 1 /\ Below[i] = stack[i + 1] BY <1>1
      <4>2. Below[i].fn \in {"find", "unload"} BY <1>2, <3>2, <4>1 DEF HalfOK
      <4>3. FrameOK(stack, i + 1, children, ref_count, cc) BY <4>1, InvIs DEF StackOK
      <4>4. Below[i].fn = "unload" BY <4>1, <4>2, <4>3 DEF FrameOK
      <4>5. Below[i].lib \in Libraries BY <3>2, InvIs
      <4>6. Below[i].lib \in Torn(Below) BY <4>4, <4>5 DEF Torn
      <4> QED BY <1>1, <1>2, <3>2, <4>6 DEF LoadOK
    <3>3. \A q \in solist : l \notin Members(children[q])
      <4>1. H \in SUBSET H /\ \A q \in H \ H : children[q] = <<>> OBVIOUS
      <4>2. PICK x \in H : /\ \A q \in solist : x \notin Members(children[q])
                          /\ \E i \in 1 .. Len(stack) : Holds(stack[i]) /\ stack[i].lib = x
        BY <1>2, <2>8, <4>1, HalfHeld
      <4>3. PICK i \in 1 .. Len(stack) : stack[i].lib = x BY <4>2
      <4>4. i = 1
        <5> SUFFICES ASSUME i # 1 PROVE FALSE OBVIOUS
        <5>1. i - 1 \in 1 .. Len(Below) /\ (i - 1) + 1 = i BY <1>1
        <5>2. Below[i - 1] = stack[i] BY <1>1, <5>1
        <5> QED BY <3>2, <4>2, <4>3, <5>1, <5>2
      <4> QED BY <4>2, <4>3, <4>4
    <3>4. ref_count[l] = 1
      <4>1. LinksIn(children, solist, l) = 0 BY <3>3, InvIs, LinksNone
      <4>2. l \notin cc BY <1>2, <3>1 DEF HalfOK
      <4>3. handles[l] \in Nat BY <1>1, InvIs
      <4>4. handles[l] = 0 BY <1>1, <4>2, <4>3, InvIs DEF Kept
      <4>5. HeldIn(Below, l) = 0
        <5>1. \A i \in 1 .. Len(Below) : Below[i].lib # l BY <3>1, <3>2
        <5> QED BY <1>1, <5>1, HeldType
      <4>6. ref_count[l] = handles[l] + LinksIn(children, solist, l) + HeldIn(Below, l) + One(l = l)
        BY <1>1, <1>3, <2>2 DEF Dropping
      <4>7. One(l = l) = 1 BY DEF One
      <4> QED BY <4>1, <4>4, <4>5, <4>6, <4>7
    <3>5. l \notin cc BY <1>2, <3>1 DEF HalfOK
    <3>6. stack' = <<Frame("unload", l, <<>>)>> \o Below BY <2>5, <3>4, <3>5 DEF Unloaded
    <3>7. PICK f : f = Frame("unload", l, <<>>) OBVIOUS
    <3>8. f \in Frames /\ f.lib = l /\ f.fn = "unload"
      <4>1. "unload" \in {"find", "open", "ctor", "init", "fini", "unload"} OBVIOUS
      <4>2. Frame("unload", l, <<>>) \in Frames BY <1>1, <4>1, FrameIs, NoneLeft
      <4> QED BY <3>7, <4>2 DEF Frame
    <3>9. PICK t : t = stack' OBVIOUS
    <3>10. t = <<f>> \o Below BY <3>6, <3>7, <3>9
    <3>11. \A i \in 1 .. Len(t) : t[i].lib \in H =>
              t[i].fn \in {"find", "unload"} /\ \A j \in 1 .. i : t[j].lib \in H
      BY <1>1, <3>1, <3>2, <3>8, <3>10, HalfOnTop
    <3>12. t # <<>> /\ t[1].lib \in H BY <1>1, <3>1, <3>8, <3>10, Pushed
    <3>13. ASSUME NEW x \in solist \ H
           PROVE  /\ WholeLib(x)' /\ \A k \in Members(children[x]) : k \notin H
                  /\ \/ handles[x] > 0 \/ HeldIn(t, x) > 0
                     \/ \E q \in solist \ H : x \in Members(children[q])
      <4>1. /\ WholeLib(x) /\ \A k \in Members(children[x]) : k \notin H
            /\ \/ handles[x] > 0 \/ HeldIn(stack, x) > 0
               \/ \E q \in solist \ H : x \in Members(children[q])
        BY <1>2 DEF HalfOK
      <4>2. x # l /\ x \in Libraries /\ x \in solist BY <3>1, InvIs
      <4>3. HeldIn(t, x) = HeldIn(stack, x)
        <5>1. HeldIn(t, x) = HeldIn(Below, x) + One(Holds(f) /\ f.lib = x)
          BY <1>1, <3>8, <3>10, <4>2, HeldPushed
        <5>2. One(Holds(f) /\ f.lib = x) = 0 BY <3>8, <4>2 DEF One
        <5>3. One(stack[1].left # <<>> /\ l = x) = 0 BY <4>2 DEF One
        <5>4. HeldIn(stack, x) = HeldIn(Below, x) + 0 BY <1>5, <4>2, <5>3
        <5> QED BY <5>1, <5>2, <5>4
      <4> QED BY <2>6, <4>1, <4>2, <4>3
    <3>14. HalfOK(H)'
      <4>1. H \cap constructors_called' = {} BY <1>2, <1>3 DEF HalfOK
      <4> QED BY <1>3, <3>9, <3>11, <3>12, <3>13, <4>1 DEF HalfOK
    <3>15. Halves' BY <1>3, <2>4, <3>14 DEF Halves
    <3> QED BY <2>4, <3>15 DEF LinkInv
  <2> QED BY <2>7, <2>8
<1> QED BY <1>6, <1>7

LEMMA LinkImageStep ==
    ASSUME LinkInv, LinkImage
    PROVE  LinkInv'
<1> DEFINE h == Head(found_libs)
<1>1. /\ Running("find") /\ load_tasks = <<>> /\ found_libs # <<>>
      /\ linked' = linked \cup {h}
      /\ debug_map' = IF h \in linked THEN debug_map ELSE debug_map \cup {h}
      /\ found_libs' = Tail(found_libs)
      /\ solist' = solist /\ ref_count' = ref_count /\ children' = children /\ parents' = parents
      /\ constructors_called' = constructors_called /\ load_tasks' = load_tasks /\ stack' = stack
      /\ handles' = handles
  BY DEF LinkImage
<1>2. PICK H \in SUBSET solist : HalfOK(H) /\ LoadOK(H) BY <1>1, FindingIs
<1>3. /\ found_libs \in Seq(Libraries) /\ found_libs' \in Seq(Libraries) /\ h = found_libs[1]
      /\ Len(found_libs) = Len(found_libs') + 1 /\ Len(found_libs') \in Nat
      /\ \A i \in 1 .. Len(found_libs') : found_libs'[i] = found_libs[i + 1]
  BY <1>1, InvIs, Popped
<1>4. DOMAIN found_libs = 1 .. Len(found_libs) /\ DOMAIN found_libs' = 1 .. Len(found_libs')
  BY <1>3
<1>5. h \in Members(found_libs) /\ Members(found_libs') \subseteq Members(found_libs)
      /\ Members(found_libs) \subseteq Members(found_libs') \cup {h}
  <2>1. 1 \in 1 .. Len(found_libs) BY <1>3
  <2>2. ASSUME NEW x \in Members(found_libs') PROVE x \in Members(found_libs)
    <3>1. PICK i \in 1 .. Len(found_libs') : x = found_libs'[i] BY <1>4 DEF Members
    <3>2. i + 1 \in 1 .. Len(found_libs) BY <1>3
    <3> QED BY <1>3, <1>4, <3>1, <3>2 DEF Members
  <2>3. ASSUME NEW x \in Members(found_libs), x # h PROVE x \in Members(found_libs')
    <3>1. PICK i \in 1 .. Len(found_libs) : x = found_libs[i] BY <1>4 DEF Members
    <3>2. i # 1 BY <1>3, <2>3, <3>1
    <3>3. i - 1 \in 1 .. Len(found_libs') /\ (i - 1) + 1 = i BY <1>3, <3>2
    <3>4. x = found_libs'[i - 1] BY <1>3, <3>1, <3>3
    <3> QED BY <1>4, <3>3, <3>4 DEF Members
  <2> QED BY <1>3, <1>4, <2>1, <2>2, <2>3 DEF Members
<1>6. h \in solist BY <1>2, <1>5 DEF LoadOK
<1> HIDE DEF h
<1>7. LinkTypes' BY <1>1, <1>3, <1>6, InvIs DEF LinkTypes
<1>8. Counted' BY <1>1, InvIs DEF Counted
<1>9. Kept' BY <1>1, <1>6, InvIs DEF Kept
<1>10. Stacked' BY <1>1, InvIs DEF Stacked
<1>11. Ready' BY <1>1, InvIs DEF Ready
<1>12. Acyclic(solist, children)' BY <1>1, InvIs
<1>13. ASSUME NEW x \in solist, WholeLib(x) PROVE WholeLib(x)'
  BY <1>1, <1>13 DEF WholeLib
<1>14. HalfOK(H)'
  <2>1. ASSUME NEW x \in solist \ H PROVE WholeLib(x)'
    <3>1. WholeLib(x) BY <1>2 DEF HalfOK
    <3> QED BY <1>13, <3>1
  <2> QED BY <1>1, <1>2, <2>1 DEF HalfOK
<1>15. LoadOK(H)'
  <2>1. \A x \in H : x \in linked' \cup Members(found_libs')
    <3> TAKE x \in H
    <3>1. x \in linked \cup Members(found_libs) BY <1>2 DEF LoadOK
    <3> QED BY <1>1, <1>5, <3>1
  <2>2. stack[1].left # <<>> BY <1>1, <1>2 DEF LoadOK
  <2>3. Members(found_libs') \subseteq solist BY <1>2, <1>5 DEF LoadOK
  <2> QED BY <1>1, <1>2, <2>1, <2>2, <2>3 DEF LoadOK
<1>16. Halves' BY <1>1, <1>2, <1>14, <1>15 DEF Halves
<1> QED BY <1>7, <1>8, <1>9, <1>10, <1>11, <1>12, <1>16 DEF LinkInv

----------------------------------------------------------------------------
(* A library is taken for one that needs it.                               *)
GainsLast(ch, di, q, c) == di = [ch EXCEPT ![q] = Append(@, c)]
LinksWin(ch, di, S, q, c) ==
    /\ di \in Children /\ di[q] = Append(ch[q], c) /\ Members(di[q]) = Members(ch[q]) \cup {c}
    /\ \A p \in Libraries : p # q => di[p] = ch[p]
    /\ \A x \in Libraries : LinksIn(di, S, x) = LinksIn(ch, S, x) + One(x = c)

LEMMA LinksGain ==
    ASSUME NEW ch \in Children, NEW S, IsFiniteSet(S), S \subseteq Libraries,
           NEW q \in S, NEW c \in Libraries, NEW di, GainsLast(ch, di, q, c)
    PROVE  LinksWin(ch, di, S, q, c)
<1>1. PICK s : s = ch[q] OBVIOUS
<1>2. q \in Libraries /\ s \in Seq(Libraries) BY <1>1 DEF Children
<1>3. Append(s, c) \in Seq(Libraries) /\ Append(s, c) = s \o <<c>> /\ <<c>> \in Seq(Libraries)
  BY <1>2
<1>4. di[q] = Append(s, c) /\ \A p \in Libraries : p # q => di[p] = ch[p]
  BY <1>1, <1>2 DEF Children, GainsLast
<1>5. di \in Children BY <1>1, <1>2, <1>3 DEF Children, GainsLast
<1>6. Members(Append(s, c)) = Members(s) \cup {c}
  <2> DEFINE t == Append(s, c)
  <2>1. /\ Len(s) \in Nat /\ Len(t) = Len(s) + 1 /\ t[Len(s) + 1] = c
        /\ \A i \in 1 .. Len(s) : t[i] = s[i]
        /\ DOMAIN s = 1 .. Len(s) /\ DOMAIN t = 1 .. Len(t)
    BY <1>2
  <2> HIDE DEF t
  <2>2. c \in Members(t)
    <3>1. Len(s) + 1 \in DOMAIN t BY <2>1
    <3> QED BY <2>1, <3>1 DEF Members
  <2>3. ASSUME NEW x \in Members(s) PROVE x \in Members(t)
    <3>1. PICK i \in 1 .. Len(s) : x = s[i] BY <2>1 DEF Members
    <3>2. i \in DOMAIN t BY <2>1
    <3> QED BY <2>1, <3>1, <3>2 DEF Members
  <2>4. ASSUME NEW x \in Members(t), x # c PROVE x \in Members(s)
    <3>1. PICK i \in 1 .. Len(t) : x = t[i] BY <2>1 DEF Members
    <3>2. i # Len(s) + 1 BY <2>1, <2>4, <3>1
    <3>3. i \in 1 .. Len(s) BY <2>1, <3>2
    <3> QED BY <2>1, <3>1, <3>3 DEF Members
  <2> QED BY <2>2, <2>3, <2>4 DEF t
<1>7. ASSUME NEW x \in Libraries PROVE LinksIn(di, S, x) = LinksIn(ch, S, x) + One(x = c)
  <2>1. /\ Times(x, s \o <<c>>) = Times(x, s) + Times(x, <<c>>)
        /\ Times(x, s) \in Nat /\ Times(x, <<c>>) \in Nat
    BY <1>2, <1>3, TimesJoin
  <2>2. Times(x, <<c>>) = One(x = c) BY TimesOne DEF One
  <2>3. Times(x, di[q]) = One(x = c) + Times(x, ch[q]) BY <1>1, <1>3, <1>4, <2>1, <2>2
  <2>4. One(x = c) \in Nat BY DEF One
  <2>5. \A p \in S : p # q => ch[p] = di[p] BY <1>4
  <2> QED BY <1>5, <2>3, <2>4, <2>5, LinksMore
<1> QED BY <1>1, <1>4, <1>5, <1>6, <1>7 DEF LinksWin

(* What Take is called for.                                                *)
Takes(n, by, tasks) ==
    /\ Running("find") /\ n \in Libraries /\ n \notin Torn(stack) /\ tasks \in Seq(Tasks)
    /\ Take(n, by, tasks) /\ solist' = solist \cup {n}
    /\ \/ stack[1].left = <<>> /\ by = Nil /\ n = stack[1].lib
       \/ stack[1].left # <<>> /\ by \in solist /\ (n \in solist => n \notin Reach(parents, by))

LEMMA TakeIs ==
    ASSUME LinkInv, NEW n, NEW by, NEW tasks, Takes(n, by, tasks)
    PROVE  /\ ref_count' \in [Libraries -> Nat]
           /\ \A x \in Libraries : ref_count'[x] = ref_count[x] + One(x = n)
           /\ linked' = linked /\ constructors_called' = constructors_called
           /\ debug_map' = debug_map
           /\ handles' = handles /\ load_tasks' = tasks /\ found_libs' = <<n>> \o found_libs
           /\ \/ /\ stack[1].left = <<>> /\ children' = children /\ parents' = parents
                 /\ stack' = <<Frame("find", n, <<n>>)>> \o Below
              \/ /\ stack[1].left # <<>> /\ stack' = stack /\ by \in solist /\ by \in Libraries
                 /\ GainsLast(children, children', by, n)
                 /\ parents' = [parents EXCEPT ![n] = @ \cup {by}]
                 /\ parents' \in [Libraries -> SUBSET Libraries]
<1>1. Top = stack[1] BY FindingIs DEF Takes
<1>2. ref_count \in [Libraries -> Nat] /\ ref_count' = [ref_count EXCEPT ![n] = @ + 1]
          /\ n \in Libraries
  BY InvIs DEF Takes, Take
<1>3. ref_count' \in [Libraries -> Nat] BY <1>2
<1>4. \A x \in Libraries : ref_count'[x] = ref_count[x] + One(x = n) BY <1>2 DEF One
<1>5. \/ /\ stack[1].left = <<>> /\ children' = children /\ parents' = parents
         /\ stack' = <<Frame("find", n, <<n>>)>> \o Below
      \/ /\ stack[1].left # <<>> /\ stack' = stack /\ by \in solist /\ by \in Libraries
         /\ GainsLast(children, children', by, n)
         /\ parents' = [parents EXCEPT ![n] = @ \cup {by}]
  <2>1. CASE stack[1].left = <<>> BY <1>1, <2>1 DEF Takes, Take
  <2>2. CASE stack[1].left # <<>>
    <3>1. by \in solist /\ by \in Libraries /\ by # Nil BY <2>2, InvIs, NeedsAssumption DEF Takes
    <3> QED BY <1>1, <2>2, <3>1 DEF Takes, Take, GainsLast
  <2> QED BY <2>1, <2>2
<1>6. by \in Libraries /\ parents' = [parents EXCEPT ![n] = @ \cup {by}]
         => parents' \in [Libraries -> SUBSET Libraries]
  BY <1>2, InvIs
<1> QED BY <1>3, <1>4, <1>5, <1>6 DEF Takes, Take

LEMMA TakeOnStack ==
    ASSUME LinkInv, NEW n, NEW by, NEW tasks, Takes(n, by, tasks)
    PROVE  /\ stack' \in Seq(Frames) /\ stack' # <<>> /\ Len(stack') = Len(stack)
           /\ Running("find")'
           /\ stack'[1].fn = "find" /\ stack'[1].lib = stack[1].lib
           /\ stack'[1].left = <<stack[1].lib>> /\ Torn(stack') = Torn(stack)
           /\ \A i \in 1 .. Len(stack) : i # 1 => stack'[i] = stack[i]
           /\ \A x \in Libraries : /\ HeldIn(stack, x) \in Nat
                                   /\ HeldIn(stack', x) = HeldIn(stack, x)
                                         + One(x = n /\ stack[1].left = <<>>)
           /\ StackOK(stack', children', ref_count', constructors_called)
           /\ \A x \in constructors_called : ReadyAt(stack', constructors_called, x)
<1>1. /\ stack \in Seq(Frames) /\ stack # <<>> /\ stack[1].fn = "find" /\ 1 \in 1 .. Len(stack)
      /\ Head(stack) = stack[1] /\ Below \in Seq(Frames)
      /\ stack[1] \in Frames /\ stack[1].lib \in Libraries /\ stack = <<stack[1]>> \o Below
      /\ Len(stack) = Len(Below) + 1 /\ Len(Below) \in Nat
      /\ \A i \in 1 .. Len(Below) : Below[i] = stack[i + 1]
      /\ stack[1].left \in {<<>>, <<stack[1].lib>>}
      /\ StackOK(Below, children, ref_count, constructors_called)
      /\ TopOK(Below, constructors_called)
      /\ Below # <<>> => Below[1].fn # "find"
      /\ Torn(stack) = Torn(Below)
      /\ \A x \in constructors_called : ReadyAt(Below, constructors_called, x)
  BY FindingIs DEF Takes
<1>2. /\ ref_count' \in [Libraries -> Nat] /\ n \in Libraries /\ n \notin Torn(stack)
      /\ \A x \in Libraries : ref_count'[x] = ref_count[x] + One(x = n)
      /\ \/ /\ stack[1].left = <<>> /\ children' = children /\ n = stack[1].lib
            /\ stack' = <<Frame("find", n, <<n>>)>> \o Below
         \/ /\ stack[1].left # <<>> /\ stack' = stack /\ by \in solist /\ by \in Libraries
            /\ GainsLast(children, children', by, n)
  BY TakeIs DEF Takes
<1>3. PICK ch, rc : ch = children' /\ rc = ref_count' OBVIOUS
<1>4. ASSUME NEW x \in Libraries PROVE Members(children[x]) \subseteq Members(ch[x])
  <2>1. CASE ch = children BY <2>1
  <2>2. CASE by \in solist /\ by \in Libraries /\ GainsLast(children, ch, by, n)
    <3>1. LinksWin(children, ch, solist, by, n) BY <1>2, <2>2, InvIs, LinksGain
    <3> QED BY <3>1 DEF LinksWin
  <2> QED BY <1>2, <1>3, <2>1, <2>2
<1>5. ASSUME NEW s \in Seq(Frames), StackOK(s, children, ref_count, constructors_called),
             Torn(s) = Torn(stack)
      PROVE  StackOK(s, ch, rc, constructors_called)
  <2>1. ASSUME NEW i \in 1 .. Len(s)
        PROVE  /\ s[i].lib \in Libraries
               /\ s[i].fn = "unload" => rc[s[i].lib] = 1
               /\ s[i].fn \in {"open", "ctor", "init", "fini"} => s[i].lib \in constructors_called
    <3>1. s[i] \in Frames OBVIOUS
    <3>2. s[i].lib \in Libraries BY <3>1 DEF Frames
    <3>3. FrameOK(s, i, children, ref_count, constructors_called) BY <1>5 DEF StackOK
    <3>4. ASSUME s[i].fn = "unload" PROVE rc[s[i].lib] = 1
      <4>1. s[i].lib # n BY <1>2, <1>5, <3>2, <3>4 DEF Torn
      <4>2. ref_count[s[i].lib] = 1 BY <3>3, <3>4 DEF FrameOK
      <4>3. rc[s[i].lib] = ref_count[s[i].lib] + 0 BY <1>2, <1>3, <3>2, <4>1 DEF One
      <4> QED BY <4>2, <4>3
    <3> QED BY <3>2, <3>3, <3>4 DEF FrameOK
  <2>2. \A i \in 1 .. Len(s) :
           /\ s[i].fn = "ctor" => Members(children[s[i].lib]) \subseteq Members(ch[s[i].lib])
           /\ s[i].fn = "unload" => rc[s[i].lib] = 1
                 /\ (s[i].lib \in constructors_called => s[i].lib \in constructors_called)
           /\ s[i].fn \in {"open", "ctor", "init", "fini"} => s[i].lib \in constructors_called
    BY <1>4, <2>1
  <2>3. PICK cc : cc = constructors_called OBVIOUS
  <2>4. PICK cs, rs : cs = children /\ rs = ref_count OBVIOUS
  <2> QED BY <1>5, <2>2, <2>3, <2>4, StackStays
<1>6. ASSUME NEW x \in Libraries PROVE HeldIn(stack, x) \in Nat BY <1>1, HeldType
<1>7. CASE stack[1].left # <<>>
  <2>1. stack' = stack BY <1>2, <1>7
  <2>2. StackOK(stack, ch, rc, constructors_called) BY <1>1, <1>5, InvIs
  <2>3. \A x \in constructors_called : ReadyAt(stack, constructors_called, x) BY InvIs DEF Ready
  <2>4. \A x \in Libraries : HeldIn(stack, x) = HeldIn(stack, x)
              + One(x = n /\ stack[1].left = <<>>)
    <3> TAKE x \in Libraries
    <3>1. One(x = n /\ stack[1].left = <<>>) = 0 BY <1>7 DEF One
    <3> QED BY <1>6, <3>1
  <2>5. stack[1].left = <<stack[1].lib>> BY <1>1, <1>7
  <2>6. Running("find")' BY <1>1, <2>1 DEF Running
  <2> QED BY <1>1, <1>3, <1>6, <2>1, <2>2, <2>3, <2>4, <2>5, <2>6
<1>8. CASE stack[1].left = <<>>
  <2>1. PICK f : f = Frame("find", n, <<n>>) OBVIOUS
  <2>2. f \in Frames /\ f.fn = "find" /\ f.lib = n /\ f.left = <<n>>
    <3>1. "find" \in {"find", "open", "ctor", "init", "fini", "unload"} OBVIOUS
    <3>2. <<n>> \in Seq(Libraries) /\ n \in Libraries BY <1>2
    <3>3. PICK s : s = <<n>> OBVIOUS
    <3>4. Frame("find", n, s) \in Frames BY <3>1, <3>2, <3>3, FrameIs
    <3> QED BY <2>1, <3>3, <3>4 DEF Frame
  <2>3. PICK t : t = stack' OBVIOUS
  <2>4. t = <<f>> \o Below /\ n = stack[1].lib BY <1>2, <1>8, <2>1, <2>3
  <2>5. /\ t \in Seq(Frames) /\ t # <<>> /\ Len(t) = Len(Below) + 1 /\ t[1] = f /\ Head(t) = f
        /\ \A i \in 1 .. Len(Below) : t[i + 1] = Below[i]
    BY <1>1, <2>2, <2>4, Pushed
  <2>6. Torn(t) = Torn(stack) BY <1>1, <2>2, <2>4, TornPushed
  <2>7. ASSUME NEW i \in 1 .. Len(stack), i # 1 PROVE t[i] = stack[i]
    <3>1. i - 1 \in 1 .. Len(Below) /\ (i - 1) + 1 = i BY <1>1, <2>7
    <3>2. t[i] = Below[i - 1] /\ stack[i] = Below[i - 1] BY <1>1, <2>5, <3>1
    <3> QED BY <3>2
  <2>8. ASSUME NEW x \in Libraries
        PROVE  HeldIn(t, x) = HeldIn(stack, x) + One(x = n /\ stack[1].left = <<>>)
    <3>1. ~Holds(stack[1]) BY <1>1, <1>8 DEF Holds
    <3>2. HeldIn(stack, x) = HeldIn(Below, x) BY <1>1, <3>1, HeldMore
    <3>3. HeldIn(t, x) = HeldIn(Below, x) + One(Holds(f) /\ f.lib = x)
      BY <1>1, <2>2, <2>4, HeldPushed
    <3>4. Holds(f) BY <2>2 DEF Holds
    <3>5. (Holds(f) /\ f.lib = x) = (x = n /\ stack[1].left = <<>>) BY <1>8, <2>2, <3>4
    <3> QED BY <3>2, <3>3, <3>5
  <2>9. StackOK(Below, ch, rc, constructors_called) BY <1>1, <1>5
  <2>10. StackOK(t, ch, rc, constructors_called)
    <3>1. FrameOK(t, 1, ch, rc, constructors_called) BY <2>2, <2>5 DEF FrameOK
    <3>2. Below # <<>> => ~(Below[1].fn = "unload" /\ Below[1].lib \in constructors_called)
      BY <1>1 DEF TopOK
    <3> QED BY <1>1, <2>2, <2>4, <2>9, <3>1, <3>2, StackPushes
  <2>11. \A x \in constructors_called : ReadyAt(t, constructors_called, x)
    BY <1>1, <2>2, <2>4, ReadyPushes
  <2>12. Running("find")' BY <2>2, <2>3, <2>5 DEF Running
  <2>13. Len(t) = Len(stack) BY <1>1, <2>5
  <2> QED BY <1>3, <1>6, <2>2, <2>3, <2>4, <2>5, <2>6, <2>7, <2>8, <2>10, <2>11, <2>12, <2>13
<1> QED BY <1>7, <1>8

LEMMA TakeLinks ==
    ASSUME LinkInv, NEW n, NEW by, NEW tasks, Takes(n, by, tasks)
    PROVE  /\ children' \in Children /\ IsFiniteSet(solist') /\ solist' \in SUBSET Libraries
           /\ solist' = solist \cup {n} /\ n \in Libraries
           /\ n \notin solist => children[n] = <<>> /\ children'[n] = <<>>
           /\ \/ stack[1].left = <<>> /\ children' = children /\ by = Nil
              \/ /\ stack[1].left # <<>> /\ by \in solist /\ by # n
                 /\ children'[by] = Append(children[by], n)
                 /\ Members(children'[by]) = Members(children[by]) \cup {n}
                 /\ \A p \in Libraries : p # by => children'[p] = children[p]
           /\ \A x \in Libraries :
                 /\ LinksIn(children, solist, x) \in Nat
                 /\ LinksIn(children', solist', x) = LinksIn(children, solist, x)
                                                        + One(x = n /\ stack[1].left # <<>>)
<1>1. /\ n \in Libraries /\ solist' = solist \cup {n}
      /\ \/ stack[1].left = <<>> /\ children' = children /\ by = Nil
         \/ /\ stack[1].left # <<>> /\ by \in solist /\ by \in Libraries
            /\ GainsLast(children, children', by, n) /\ (n \in solist
                     => n \notin Reach(parents, by))
  BY TakeIs DEF Takes
<1>2. PICK ch, S : ch = children' /\ S = solist' OBVIOUS
<1>3. S \in SUBSET Libraries /\ IsFiniteSet(S)
  <2>1. IsFiniteSet(solist \cup {n}) BY InvIs, FS_AddElement
  <2> QED BY <1>1, <1>2, <2>1, InvIs
<1>4. n \notin solist => children[n] = <<>> BY <1>1, InvIs DEF Kept
<1>5. /\ ch \in Children /\ (n \notin solist => ch[n] = <<>>)
      /\ \/ stack[1].left = <<>> /\ ch = children /\ by = Nil
         \/ /\ stack[1].left # <<>> /\ by \in solist /\ by # n
            /\ LinksWin(children, ch, solist, by, n)
  <2>1. CASE stack[1].left = <<>> BY <1>1, <1>2, <1>4, <2>1, InvIs
  <2>2. CASE stack[1].left # <<>>
    <3>1. LinksWin(children, ch, solist, by, n) BY <1>1, <1>2, <2>2, InvIs, LinksGain
    <3>2. by \in Reach(parents, by) BY <1>1, <2>2, InvIs, ReachCloses
    <3>3. by # n BY <1>1, <2>2, <3>2
    <3>4. n \notin solist => ch[n] = <<>> BY <1>1, <1>4, <3>1, <3>3 DEF LinksWin
    <3> QED BY <1>1, <2>2, <3>1, <3>3, <3>4 DEF LinksWin
  <2> QED BY <2>1, <2>2
<1>6. ASSUME NEW x \in Libraries
      PROVE  LinksIn(children, solist, x) \in Nat
             /\ LinksIn(ch, S, x) = LinksIn(children, solist, x)
                      + One(x = n /\ stack[1].left # <<>>)
  <2>1. LinksIn(children, solist, x) \in Nat BY InvIs, LinksNone
  <2>2. LinksIn(ch, S, x) = LinksIn(ch, solist, x)
    <3>1. CASE n \in solist BY <1>1, <1>2, <3>1
    <3>2. CASE n \notin solist
      <4>1. n \in S /\ solist = S \ {n} /\ S \subseteq Libraries BY <1>1, <1>2, <1>3, <3>2
      <4>2. LinksIn(ch, S \ {n}, x) = LinksIn(ch, S, x) BY <1>3, <1>5, <3>2, <4>1, LinksWithout
      <4> QED BY <4>1, <4>2
    <3> QED BY <3>1, <3>2
  <2>3. CASE stack[1].left = <<>>
    <3>1. One(x = n /\ stack[1].left # <<>>) = 0 BY <2>3 DEF One
    <3> QED BY <1>5, <2>1, <2>2, <2>3, <3>1
  <2>4. CASE stack[1].left # <<>>
    <3>1. LinksIn(ch, solist, x) = LinksIn(children, solist, x) + One(x = n)
      BY <1>5, <2>4 DEF LinksWin
    <3>2. (x = n /\ stack[1].left # <<>>) = (x = n) BY <2>4
    <3> QED BY <2>1, <2>2, <3>1, <3>2
  <2> QED BY <2>3, <2>4
<1>7. \/ stack[1].left = <<>> /\ ch = children /\ by = Nil
      \/ /\ stack[1].left # <<>> /\ by \in solist /\ by # n
         /\ ch[by] = Append(children[by], n)
         /\ Members(ch[by]) = Members(children[by]) \cup {n}
         /\ \A p \in Libraries : p # by => ch[p] = children[p]
  BY <1>5 DEF LinksWin
<1> QED BY <1>1, <1>2, <1>3, <1>4, <1>5, <1>6, <1>7

LEMMA TakeBasics ==
    ASSUME LinkInv, NEW n, NEW by, NEW tasks, Takes(n, by, tasks)
    PROVE  LinkTypes' /\ Counted' /\ Kept' /\ Stacked' /\ Ready' /\ Acyclic(solist, children)'
<1>1. /\ ref_count' \in [Libraries -> Nat]
      /\ \A x \in Libraries : ref_count'[x] = ref_count[x] + One(x = n)
      /\ linked' = linked /\ constructors_called' = constructors_called /\ debug_map' = debug_map
      /\ handles' = handles /\ load_tasks' = tasks /\ found_libs' = <<n>> \o found_libs
      /\ tasks \in Seq(Tasks)
  <2>1. tasks \in Seq(Tasks) BY DEF Takes
  <2>2. ref_count' \in [Libraries -> Nat] BY TakeIs
  <2>3. \A x \in Libraries : ref_count'[x] = ref_count[x] + One(x = n) BY TakeIs
  <2>4. linked' = linked /\ constructors_called' = constructors_called /\ debug_map' = debug_map
    BY TakeIs
  <2>5. handles' = handles /\ load_tasks' = tasks BY DEF Takes, Take
  <2>6. found_libs' = <<n>> \o found_libs BY TakeIs
  <2> QED BY <2>1, <2>2, <2>3, <2>4, <2>5, <2>6
<1>2. /\ children' \in Children /\ IsFiniteSet(solist') /\ solist' \in SUBSET Libraries
      /\ solist' = solist \cup {n} /\ n \in Libraries
      /\ n \notin solist => children[n] = <<>> /\ children'[n] = <<>>
      /\ \/ stack[1].left = <<>> /\ children' = children /\ by = Nil
         \/ /\ stack[1].left # <<>> /\ by \in solist /\ by # n
            /\ Members(children'[by]) = Members(children[by]) \cup {n}
            /\ \A p \in Libraries : p # by => children'[p] = children[p]
      /\ \A x \in Libraries :
            /\ LinksIn(children, solist, x) \in Nat
            /\ LinksIn(children', solist', x) = LinksIn(children, solist, x)
                                                   + One(x = n /\ stack[1].left # <<>>)
  BY TakeLinks
<1>3. /\ stack' \in Seq(Frames) /\ stack' # <<>> /\ stack'[1].fn = "find"
      /\ \A x \in Libraries : /\ HeldIn(stack, x) \in Nat
                              /\ HeldIn(stack', x) = HeldIn(stack, x)
                                    + One(x = n /\ stack[1].left = <<>>)
      /\ StackOK(stack', children', ref_count', constructors_called)
      /\ \A x \in constructors_called : ReadyAt(stack', constructors_called, x)
  BY TakeOnStack
<1>4. /\ parents' \in [Libraries -> SUBSET Libraries]
      /\ \A x \in Libraries : parents[x] \subseteq parents'[x]
      /\ stack[1].left # <<>> => by \in parents'[n]
  <2>1. \/ parents' = parents /\ stack[1].left = <<>>
        \/ parents' = [parents EXCEPT ![n] = @ \cup {by}]
               /\ parents' \in [Libraries -> SUBSET Libraries]
    BY TakeIs
  <2>2. n \in Libraries /\ parents \in [Libraries -> SUBSET Libraries] BY <1>2, InvIs
  <2> QED BY <2>1, <2>2
<1>5. LinkTypes'
  <2>1. found_libs' \in Seq(Libraries) BY <1>1, <1>2, InvIs, Pushed
  <2> QED BY <1>1, <1>2, <1>3, <1>4, <2>1, InvIs DEF LinkTypes
<1>6. Counted'
  <2>1. ASSUME NEW x \in Libraries
        PROVE  ref_count'[x] = handles[x] + LinksIn(children', solist', x) + HeldIn(stack', x)
    <3>1. PICK a, b, c : /\ a = LinksIn(children, solist, x) /\ b = HeldIn(stack, x)
                         /\ c = handles[x]
      OBVIOUS
    <3>2. a \in Nat /\ b \in Nat /\ c \in Nat BY <1>2, <1>3, <3>1, InvIs
    <3>3. ref_count[x] = c + a + b BY <3>1, InvIs DEF RefsAre
    <3>4. One(x = n) = One(x = n /\ stack[1].left # <<>>) + One(x = n /\ stack[1].left = <<>>)
      BY DEF One
    <3>5. PICK d, e : d = One(x = n /\ stack[1].left # <<>>) /\ e = One(x = n
                          /\ stack[1].left = <<>>)
      OBVIOUS
    <3>6. d \in Nat /\ e \in Nat BY <3>5 DEF One
    <3>7. ref_count'[x] = (c + a + b) + (d + e) BY <1>1, <3>3, <3>4, <3>5
    <3>8. LinksIn(children', solist', x) = a + d /\ HeldIn(stack', x) = b + e
      BY <1>2, <1>3, <3>1, <3>5
    <3>9. (c + a + b) + (d + e) = c + (a + d) + (b + e) BY <3>2, <3>6
    <3> QED BY <3>1, <3>7, <3>8, <3>9
  <2> QED BY <1>1, <2>1 DEF Counted, RefsAre
<1>7. Kept'
  <2>1. \A x \in Libraries : x \in solist' <=> ref_count'[x] > 0
    <3> TAKE x \in Libraries
    <3>1. x \in solist <=> ref_count[x] > 0 BY InvIs DEF Kept
    <3>2. ref_count[x] \in Nat /\ ref_count'[x] = ref_count[x] + One(x = n) BY <1>1, InvIs
    <3>3. x = n => ref_count'[x] = ref_count[x] + 1 BY <3>2 DEF One
    <3>4. x # n => ref_count'[x] = ref_count[x] + 0 BY <3>2 DEF One
    <3> QED BY <1>2, <3>1, <3>2, <3>3, <3>4
  <2>2. \A x \in Libraries : x \notin solist' => children'[x] = <<>>
    BY <1>2, InvIs DEF Kept
  <2>3. ASSUME NEW p \in solist', NEW k \in Members(children'[p]) PROVE p \in parents'[k]
    <3>1. p \in solist /\ p \in Libraries /\ k \in Libraries
      <4>1. p \in Libraries BY <1>2
      <4>2. children'[p] \in Seq(Libraries) BY <1>2, <4>1 DEF Children
      <4>3. k \in Libraries BY <4>2 DEF Members
      <4>4. children'[p] # <<>> BY DEF Members
      <4> QED BY <1>2, <4>1, <4>3, <4>4
    <3>2. CASE k \in Members(children[p])
      <4>1. p \in parents[k] BY <3>1, <3>2, InvIs DEF Kept
      <4> QED BY <1>4, <3>1, <4>1
    <3>3. CASE k \notin Members(children[p])
      <4>1. p = by /\ k = n /\ stack[1].left # <<>> BY <1>2, <3>1, <3>3
      <4> QED BY <1>4, <4>1
    <3> QED BY <3>2, <3>3
  <2>4. /\ constructors_called' \subseteq linked' /\ debug_map' = linked'
        /\ linked' \subseteq solist'
        /\ \A x \in Libraries : handles'[x] > 0 => x \in constructors_called'
    BY <1>1, <1>2, InvIs DEF Kept
  <2> QED BY <2>1, <2>2, <2>3, <2>4 DEF Kept
<1>8. Stacked' BY <1>1, <1>3 DEF Stacked, TopOK
<1>9. Ready' BY <1>1, <1>3 DEF Ready
<1>10. Acyclic(solist, children)'
  <2>1. PICK ch : ch = children' OBVIOUS
  <2>2. CASE n \notin solist
    <3>1. Members(ch[n]) = {} BY <1>2, <2>1, <2>2 DEF Members
    <3>2. \A p \in solist : Members(ch[p]) \subseteq Members(children[p]) \cup {n}
      BY <1>2, <2>1, InvIs
    <3>3. PICK S, cs : S = solist /\ cs = children OBVIOUS
    <3>4. Acyclic(S, cs) /\ n \notin S
              /\ \A p \in S : Members(ch[p]) \subseteq Members(cs[p]) \cup {n}
      BY <2>2, <3>2, <3>3, InvIs
    <3>5. Acyclic(S \cup {n}, ch) BY <3>1, <3>4, AcyclicLoaded
    <3> QED BY <1>2, <2>1, <3>3, <3>5
  <2>3. CASE n \in solist /\ stack[1].left = <<>>
    <3>1. solist' = solist /\ children' = children BY <1>2, <2>3
    <3> QED BY <3>1, InvIs
  <2>4. CASE n \in solist /\ stack[1].left # <<>>
    <3>1. by \in solist /\ n \notin Reach(parents, by) BY <2>4 DEF Takes
    <3>2. \A p \in solist : \A x \in Members(children[p]) : p \in parents[x] BY InvIs DEF Kept
    <3>3. /\ \A p \in solist \ {by} : Members(ch[p]) \subseteq Members(children[p])
          /\ Members(ch[by]) \subseteq Members(children[by]) \cup {n}
      BY <1>2, <2>1, <2>4, InvIs
    <3>4. Acyclic(solist, ch) BY <2>4, <3>1, <3>2, <3>3, InvIs, AcyclicLinked
    <3>5. solist' = solist BY <1>2, <2>4
    <3> QED BY <2>1, <3>4, <3>5
  <2> QED BY <2>2, <2>3, <2>4
<1> QED BY <1>5, <1>6, <1>7, <1>8, <1>9, <1>10

(* What is taken is half loaded too, if it is new.                         *)
LEMMA TakeHalf ==
    ASSUME LinkInv, NEW n, NEW by, NEW tasks, Takes(n, by, tasks),
           NEW H \in SUBSET solist, HalfOK(H), stack[1].left # <<>> => by \in H,
           NEW G, G = H \cup ({n} \ solist)
    PROVE  HalfOK(G)'
<1>1. /\ solist' = solist \cup {n} /\ n \in Libraries
      /\ \/ stack[1].left = <<>> /\ children' = children /\ by = Nil
         \/ /\ stack[1].left # <<>> /\ by \in solist /\ by # n
            /\ \A p \in Libraries : p # by => children'[p] = children[p]
  BY TakeLinks
<1>2. /\ stack' \in Seq(Frames) /\ stack' # <<>> /\ Len(stack') = Len(stack)
      /\ stack'[1].fn = "find" /\ stack'[1].lib = stack[1].lib /\ Torn(stack') = Torn(stack)
      /\ \A i \in 1 .. Len(stack) : i # 1 => stack'[i] = stack[i]
      /\ \A x \in Libraries : /\ HeldIn(stack, x) \in Nat
                              /\ HeldIn(stack', x) = HeldIn(stack, x)
                                    + One(x = n /\ stack[1].left = <<>>)
  BY TakeOnStack
<1>3. linked' = linked /\ constructors_called' = constructors_called /\ handles' = handles
  BY DEF Takes, Take
<1>4. solist' \ G = solist \ H BY <1>1
<1>5. \A q \in solist \ H : q \in Libraries /\ children'[q] = children[q] BY <1>1, InvIs
<1>6. G \cap constructors_called = {}
  <2>1. H \cap constructors_called = {} BY DEF HalfOK
  <2> QED BY <2>1, InvIs
<1>7. ASSUME NEW x \in solist \ H
      PROVE  /\ WholeLib(x)' /\ \A k \in Members(children'[x]) : k \notin G
             /\ \/ handles[x] > 0 \/ HeldIn(stack', x) > 0
                \/ \E q \in solist \ H : x \in Members(children'[q])
  <2>1. /\ WholeLib(x) /\ \A k \in Members(children[x]) : k \notin H
        /\ \/ handles[x] > 0 \/ HeldIn(stack, x) > 0
           \/ \E q \in solist \ H : x \in Members(children[q])
    BY DEF HalfOK
  <2>2. WholeLib(x)' BY <1>2, <1>3, <1>5, <2>1 DEF WholeLib
  <2>3. \A k \in Members(children[x]) : k \in solist BY InvIs, NeededIsLoaded
  <2>4. HeldIn(stack, x) > 0 => HeldIn(stack', x) > 0
    <3>1. /\ HeldIn(stack, x) \in Nat
          /\ HeldIn(stack', x) = HeldIn(stack, x) + One(x = n /\ stack[1].left = <<>>)
      BY <1>2, <1>5
    <3>2. One(x = n /\ stack[1].left = <<>>) \in Nat BY DEF One
    <3>3. \A a, b, c \in Nat : a > 0 /\ c = a + b => c > 0 OBVIOUS
    <3> QED BY <3>1, <3>2, <3>3
  <2> QED BY <1>5, <2>1, <2>2, <2>3, <2>4
<1>8. stack \in Seq(Frames) /\ 1 \in 1 .. Len(stack) /\ stack[1].fn = "find" /\ stack # <<>>
  BY FindingIs DEF Takes
<1>9. \A i \in 1 .. Len(stack) : stack'[i].lib = stack[i].lib BY <1>2
<1>10. ASSUME NEW i \in 1 .. Len(stack), stack'[i].lib \in G
       PROVE  stack'[i].fn \in {"find", "unload"} /\ \A j \in 1 .. i : stack'[j].lib \in G
  <2>1. CASE i = 1
    <3>1. \A j \in 1 .. 1 : j = 1 OBVIOUS
    <3> QED BY <1>2, <1>10, <2>1, <3>1
  <2>2. CASE i # 1
    <3>1. stack'[i] = stack[i] BY <1>2, <2>2
    <3>2. FrameOK(stack, i, children, ref_count, constructors_called) BY InvIs DEF StackOK
    <3>3. stack[i].fn # "find" BY <2>2, <3>2 DEF FrameOK
    <3>4. stack[i].lib \in solist BY <3>3, InvIs, OnStackIsLoaded
    <3>5. stack[i].lib \in H BY <1>10, <3>1, <3>4
    <3>6. stack[i].fn \in {"find", "unload"} /\ \A j \in 1 .. i : stack[j].lib \in H
      BY <3>5 DEF HalfOK
    <3>7. \A j \in 1 .. i : j \in 1 .. Len(stack) BY <1>8
    <3> QED BY <1>9, <3>1, <3>6, <3>7
  <2> QED BY <2>1, <2>2
<1>11. G # {} => stack'[1].lib \in G
  <2>1. CASE H # {}
    <3>1. stack[1].lib \in H BY <2>1 DEF HalfOK
    <3> QED BY <1>2, <3>1
  <2>2. CASE H = {}
    <3>1. stack[1].left = <<>> BY <2>2
    <3>2. n = stack[1].lib BY <3>1 DEF Takes
    <3> QED BY <1>2, <2>2, <3>2
  <2> QED BY <2>1, <2>2
<1> QED BY <1>2, <1>3, <1>4, <1>6, <1>7, <1>10, <1>11 DEF HalfOK

(* The tasks when the first of them is done, with those that a new library *)
(* adds.                                                                   *)
LEMMA TakeLoad ==
    ASSUME LinkInv, NEW n, NEW by, NEW tasks, Takes(n, by, tasks),
           NEW H \in SUBSET solist, HalfOK(H), LoadOK(H), stack[1].left # <<>> => by \in H,
           NEW G, G = H \cup ({n} \ solist),
           load_tasks # <<>>, n = Head(load_tasks).name, by = Head(load_tasks).needed_by,
           NEW added, added \in Seq(Tasks), tasks = Tail(load_tasks) \o added,
           n \in solist => added = <<>>,
           n \notin solist => added = Asked(n)
    PROVE  LoadOK(G)'
<1>1. /\ children' \in Children /\ solist' = solist \cup {n} /\ n \in Libraries
      /\ n \notin solist => children'[n] = <<>>
      /\ \/ stack[1].left = <<>> /\ children' = children /\ by = Nil
         \/ /\ stack[1].left # <<>> /\ by \in solist /\ by # n
            /\ children'[by] = Append(children[by], n)
            /\ \A p \in Libraries : p # by => children'[p] = children[p]
  BY TakeLinks
<1>2. /\ stack'[1].lib = stack[1].lib /\ stack'[1].left = <<stack[1].lib>>
      /\ Torn(stack') = Torn(stack)
  BY TakeOnStack
<1>3. linked' = linked /\ load_tasks' = tasks /\ found_libs' = <<n>> \o found_libs
          /\ n \notin Torn(stack)
  BY DEF Takes, Take
<1>4. PICK rest : rest = Tail(load_tasks) OBVIOUS
<1>5. /\ rest \in Seq(Tasks) /\ Head(load_tasks) \in Tasks /\ Head(load_tasks) = load_tasks[1]
      /\ Len(load_tasks) = Len(rest) + 1 /\ Len(rest) \in Nat
      /\ \A i \in 1 .. Len(rest) : rest[i] = load_tasks[i + 1]
  BY <1>4, InvIs, Popped
<1>6. PICK C \in SUBSET Libraries :
          /\ stack[1].lib \in C /\ C \cap Torn(stack) = {}
          /\ \A x \in C : Members(Needs[x]) \subseteq C
          /\ \A i \in 1 .. Len(load_tasks) : load_tasks[i].name \in C
  BY DEF LoadOK
<1>7. ASSUME NEW i \in 1 .. Len(rest) PROVE rest[i].name \in C /\ rest[i].needed_by \in H
  <2>1. i + 1 \in 1 .. Len(load_tasks) /\ rest[i] = load_tasks[i + 1] BY <1>5
  <2>2. stack[1].left # <<>>
    <3> SUFFICES ASSUME stack[1].left = <<>> PROVE FALSE OBVIOUS
    <3>1. load_tasks = <<[name |-> stack[1].lib, needed_by |-> Nil]>> BY DEF LoadOK
    <3>2. Len(load_tasks) = 1 BY <3>1
    <3>3. \A m \in Nat : 1 = m + 1 => m = 0 OBVIOUS
    <3>4. Len(rest) = 0 BY <1>5, <3>2, <3>3
    <3> QED BY <3>4
  <2>3. load_tasks[i + 1].needed_by \in H BY <2>1, <2>2 DEF LoadOK
  <2> QED BY <1>6, <2>1, <2>3
<1>8. n \in C
  <2>1. 1 \in 1 .. Len(load_tasks) BY <1>5
  <2> QED BY <1>5, <1>6, <2>1
<1>9. /\ Len(added) \in Nat
      /\ \A i \in 1 .. Len(added) : added[i].needed_by = n /\ added[i].name \in C /\ n \notin solist
      /\ n \notin solist => Pending(n, children', rest \o added)
  <2>1. CASE n \in solist BY <2>1
  <2>2. CASE n \notin solist
    <3>1. \A i \in 1 .. Len(rest) : rest[i].needed_by # n BY <1>7, <2>2
    <3>2. PICK ch : ch = children' OBVIOUS
    <3>3. ch \in Children /\ ch[n] = <<>> BY <1>1, <2>2, <3>2
    <3>4. added = Asked(n) BY <2>2
    <3>5. n \in Libraries /\ rest \in Seq(Tasks) BY <1>1, <1>5
    <3>6. AskedFor(n, added) BY <3>1, <3>3, <3>4, <3>5, PendingNew
    <3>7. Pending(n, ch, rest \o added) BY <3>1, <3>3, <3>4, <3>5, PendingNew
    <3> QED BY <1>6, <1>8, <2>2, <3>2, <3>6, <3>7 DEF AskedFor
  <2> QED BY <2>1, <2>2
<1>10. ASSUME NEW x \in H PROVE Pending(x, children', rest \o added)
  <2>1. PICK ch, cs, lt : ch = children' /\ cs = children /\ lt = load_tasks OBVIOUS
  <2>2. x \in Libraries /\ x \in solist /\ cs \in Children /\ lt \in Seq(Tasks) /\ lt # <<>>
    BY <2>1, InvIs
  <2>3. Pending(x, cs, lt) BY <2>1 DEF LoadOK
  <2>4. Pending(x, ch, Tail(lt))
    <3>1. CASE Head(lt).needed_by = x
      <4>1. by = x BY <2>1, <3>1
      <4>2. stack[1].left # <<>> BY <1>1, <2>2, <4>1, NeedsAssumption
      <4>3. ch[x] = Append(cs[x], Head(lt).name) BY <1>1, <2>1, <4>1, <4>2
      <4> QED BY <2>2, <2>3, <3>1, <4>3, PendingHead
    <3>2. CASE Head(lt).needed_by # x
      <4>1. ch[x] = cs[x] BY <1>1, <2>1, <2>2, <3>2
      <4> QED BY <2>2, <2>3, <3>2, <4>1, PendingOther
    <3> QED BY <3>1, <3>2
  <2>5. ch \in Children /\ \A i \in 1 .. Len(added) : added[i].needed_by # x
    BY <1>1, <1>9, <2>1, <2>2
  <2>6. Pending(x, ch, rest) BY <1>4, <2>1, <2>4
  <2>7. Pending(x, ch, rest \o added) BY <1>5, <2>2, <2>5, <2>6, PendingOld
  <2> QED BY <2>1, <2>7
<1>11. /\ \A x \in G : /\ x \notin Torn(stack') /\ x \in linked' \cup Members(found_libs')
                       /\ Pending(x, children', load_tasks')
       /\ Members(found_libs') \subseteq solist'
  <2>1. Members(found_libs') = Members(found_libs) \cup {n}
    <3>1. PICK a, b : a = found_libs /\ b = found_libs' OBVIOUS
    <3>2. a \in Seq(Libraries) /\ b = <<n>> \o a BY <1>3, <3>1, InvIs
    <3>3. /\ b \in Seq(Libraries) /\ Len(a) \in Nat /\ Len(b) = Len(a) + 1 /\ b[1] = n
          /\ \A i \in 1 .. Len(a) : b[i + 1] = a[i]
      BY <1>1, <3>2, Pushed
    <3>4. DOMAIN a = 1 .. Len(a) /\ DOMAIN b = 1 .. Len(b) BY <3>2, <3>3
    <3>5. n \in Members(b)
      <4>1. 1 \in DOMAIN b BY <3>3, <3>4
      <4> QED BY <3>3, <4>1 DEF Members
    <3>6. ASSUME NEW x \in Members(a) PROVE x \in Members(b)
      <4>1. PICK i \in 1 .. Len(a) : x = a[i] BY <3>4 DEF Members
      <4>2. i + 1 \in DOMAIN b /\ b[i + 1] = x BY <3>3, <3>4, <4>1
      <4> QED BY <4>2 DEF Members
    <3>7. ASSUME NEW x \in Members(b), x # n PROVE x \in Members(a)
      <4>1. PICK i \in 1 .. Len(b) : x = b[i] BY <3>4 DEF Members
      <4>2. i # 1 BY <3>3, <3>7, <4>1
      <4>3. i - 1 \in 1 .. Len(a) /\ (i - 1) + 1 = i BY <3>3, <4>2
      <4>4. x = a[i - 1] BY <3>3, <4>1, <4>3
      <4> QED BY <3>4, <4>3, <4>4 DEF Members
    <3> QED BY <3>1, <3>5, <3>6, <3>7
  <2>2. \A x \in H : x \notin Torn(stack) /\ x \in linked \cup Members(found_libs) BY DEF LoadOK
  <2>3. Members(found_libs) \subseteq solist BY DEF LoadOK
  <2>4. load_tasks' = rest \o added BY <1>3, <1>4
  <2> QED BY <1>1, <1>2, <1>3, <1>9, <1>10, <2>1, <2>2, <2>3, <2>4
<1>12. ASSUME NEW i \in 1 .. Len(load_tasks')
       PROVE  load_tasks'[i].needed_by \in G /\ load_tasks'[i].name \in C
  <2>1. PICK lt : lt = load_tasks' OBVIOUS
  <2>2. lt = rest \o added BY <1>3, <1>4, <2>1
  <2>3. CASE i <= Len(rest)
    <3>1. i \in 1 .. Len(rest) BY <1>5, <2>3
    <3>2. lt[i] = rest[i] BY <1>5, <2>2, <3>1
    <3> QED BY <1>7, <2>1, <3>1, <3>2
  <2>4. CASE i > Len(rest)
    <3>1. Len(lt) = Len(rest) + Len(added) BY <1>5, <2>2
    <3>2. i - Len(rest) \in 1 .. Len(added) BY <1>5, <1>9, <2>1, <2>4, <3>1
    <3>3. lt[i] = added[i - Len(rest)] BY <1>5, <2>2, <2>4, <3>1, <3>2
    <3>4. added[i - Len(rest)].needed_by = n /\ added[i - Len(rest)].name \in C /\ n \notin solist
      BY <1>9, <3>2
    <3> QED BY <2>1, <3>3, <3>4
  <2> QED BY <1>5, <2>3, <2>4
<1>13. stack'[1].left # <<>> BY <1>2
<1>14. \E D \in SUBSET Libraries :
          /\ stack'[1].lib \in D /\ D \cap Torn(stack') = {}
          /\ \A x \in D : Members(Needs[x]) \subseteq D
          /\ \A i \in 1 .. Len(load_tasks') : load_tasks'[i].name \in D
  BY <1>2, <1>6, <1>12
<1> QED BY <1>11, <1>12, <1>13, <1>14 DEF LoadOK

LEMMA TakeStep ==
    ASSUME LinkInv, Running("find"), load_tasks # <<>>,
           NEW n, NEW by, n = Head(load_tasks).name, by = Head(load_tasks).needed_by,
           NEW added, added \in Seq(Tasks), NEW tasks, tasks = Tail(load_tasks) \o added,
           n \in solist => added = <<>> /\ ~is_recursive(n, by),
           n \notin solist => added = Asked(n),
           Take(n, by, tasks), solist' = solist \cup {n}
    PROVE  LinkInv'
<1>1. /\ Tail(load_tasks) \in Seq(Tasks) /\ Head(load_tasks) \in Tasks
      /\ Head(load_tasks) = load_tasks[1] /\ 1 \in 1 .. Len(load_tasks)
  <2>1. load_tasks \in Seq(Tasks) BY InvIs
  <2> QED BY <2>1
<1>2. n \in Libraries /\ tasks \in Seq(Tasks) BY <1>1 DEF Tasks
<1>3. PICK H \in SUBSET solist : HalfOK(H) /\ LoadOK(H) BY FindingIs
<1>4. stack[1].left # <<>> => by \in H BY <1>1, <1>3 DEF LoadOK
<1>5. stack[1].left = <<>> => n = stack[1].lib /\ by = Nil
  <2> SUFFICES ASSUME stack[1].left = <<>> PROVE n = stack[1].lib /\ by = Nil OBVIOUS
  <2>1. load_tasks = <<[name |-> stack[1].lib, needed_by |-> Nil]>> BY <1>3 DEF LoadOK
  <2>2. Head(load_tasks) = [name |-> stack[1].lib, needed_by |-> Nil] BY <2>1
  <2> QED BY <2>2
<1>6. n \notin Torn(stack)
  <2>1. PICK C \in SUBSET Libraries :
           C \cap Torn(stack) = {} /\ \A i \in 1 .. Len(load_tasks) : load_tasks[i].name \in C
    BY <1>3 DEF LoadOK
  <2> QED BY <1>1, <2>1
<1>7. Takes(n, by, tasks)
  <2>1. stack[1].left # <<>> => by \in solist /\ (n \in solist => n \notin Reach(parents, by))
    <3> SUFFICES ASSUME stack[1].left # <<>>
                 PROVE  by \in solist /\ (n \in solist => n \notin Reach(parents, by))
      OBVIOUS
    <3>1. by \in solist /\ by \in Libraries BY <1>4, InvIs
    <3>2. by # Nil BY <3>1, NeedsAssumption
    <3> QED BY <3>1, <3>2 DEF is_recursive
  <2> QED BY <1>2, <1>5, <1>6, <2>1 DEF Takes
<1>8. PICK G : G = H \cup ({n} \ solist) OBVIOUS
<1>9. HalfOK(G)' BY <1>3, <1>4, <1>7, <1>8, TakeHalf
<1>10. LoadOK(G)' BY <1>3, <1>4, <1>7, <1>8, TakeLoad
<1>11. G \in SUBSET solist' BY <1>8
<1>12. Halves' BY <1>9, <1>10, <1>11 DEF Halves
<1>13. LinkTypes' /\ Counted' /\ Kept' /\ Stacked' /\ Ready' /\ Acyclic(solist, children)'
  BY <1>7, TakeBasics
<1> QED BY <1>12, <1>13 DEF LinkInv

LEMMA FindLoadedStep ==
    ASSUME LinkInv, FindLoaded
    PROVE  LinkInv'
<1>1. PICK n, by, rest : /\ n = Head(load_tasks).name /\ by = Head(load_tasks).needed_by
                         /\ rest = Tail(load_tasks)
  OBVIOUS
<1>2. /\ Running("find") /\ load_tasks # <<>> /\ n \in solist /\ solist' = solist
      /\ IF is_recursive(n, by) THEN GiveUp ELSE Take(n, by, rest)
  BY <1>1 DEF FindLoaded
<1>3. CASE is_recursive(n, by) BY <1>2, <1>3, GiveUpStep
<1>4. CASE ~is_recursive(n, by)
  <2>1. rest \in Seq(Tasks) BY <1>1, <1>2, InvIs, Popped
  <2>2. PICK added : added = <<>> OBVIOUS
  <2>3. added \in Seq(Tasks) /\ rest = rest \o added BY <2>1, <2>2
  <2>4. solist' = solist \cup {n} /\ Take(n, by, rest) BY <1>2, <1>4
  <2>5. rest = Tail(load_tasks) \o added BY <1>1, <2>3
  <2> QED BY <1>1, <1>2, <1>4, <2>2, <2>3, <2>4, <2>5, TakeStep
<1> QED BY <1>3, <1>4

LEMMA load_libraryStep ==
    ASSUME LinkInv, load_library
    PROVE  LinkInv'
<1>1. PICK n, by, added : /\ n = Head(load_tasks).name /\ by = Head(load_tasks).needed_by
                          /\ added = Asked(n)
  OBVIOUS
<1>2. /\ Running("find") /\ load_tasks # <<>> /\ n \notin solist /\ solist' = solist \cup {n}
      /\ Take(n, by, Tail(load_tasks) \o added)
  BY <1>1 DEF load_library, Asked
<1>3. PICK tasks : tasks = Tail(load_tasks) \o added OBVIOUS
<1>4. Take(n, by, tasks) BY <1>2, <1>3
<1>5. added \in Seq(Tasks)
  <2>1. n \in Libraries
    <3>1. Head(load_tasks) \in Tasks BY <1>2, InvIs, Popped
    <3> QED BY <1>1, <3>1 DEF Tasks
  <2>2. Needs[n] \in Seq(Libraries) /\ DOMAIN Needs[n] = 1 .. Len(Needs[n]) BY <2>1, NeedsAre
  <2>3. ASSUME NEW i \in 1 .. Len(Needs[n])
        PROVE  [name |-> Needs[n][i], needed_by |-> n] \in Tasks
    BY <2>1, <2>2 DEF Tasks
  <2> QED BY <1>1, <2>2, <2>3 DEF Asked
<1> QED BY <1>1, <1>2, <1>3, <1>4, <1>5, TakeStep

----------------------------------------------------------------------------
(* Every step keeps the invariant, and the invariant holds at the start.   *)
LEMMA LinkInvStarts == LinkerInit => LinkInv
<1> SUFFICES ASSUME LinkerInit PROVE LinkInv OBVIOUS
<1>1. /\ solist = {} /\ linked = {} /\ constructors_called = {} /\ debug_map = {}
      /\ ref_count = [l \in Libraries |-> 0] /\ handles = [l \in Libraries |-> 0]
      /\ children = [l \in Libraries |-> <<>>] /\ parents = [l \in Libraries |-> {}]
      /\ load_tasks = <<>> /\ found_libs = <<>> /\ stack = <<>>
  BY DEF LinkerInit
<1>2. LinkTypes
  <2>1. children \in Children BY <1>1, NoneLeft DEF Children
  <2>2. IsFiniteSet(solist) BY <1>1, FS_EmptySet
  <2>3. load_tasks \in Seq(Tasks) /\ found_libs \in Seq(Libraries) /\ stack \in Seq(Frames) BY <1>1
  <2> QED BY <1>1, <2>1, <2>2, <2>3 DEF LinkTypes
<1>3. Len(stack) = 0 /\ \A i \in 1 .. Len(stack) : FALSE BY <1>1
<1>4. Counted
  <2>1. ASSUME NEW l \in Libraries
        PROVE  ref_count[l] = handles[l] + LinksIn(children, solist, l) + HeldIn(stack, l)
    <3>1. LinksIn(children, solist, l) = 0 BY <1>1, <1>2, LinksNone DEF LinkTypes
    <3>2. HeldIn(stack, l) = 0 BY <1>2, <1>3, HeldType DEF LinkTypes
    <3> QED BY <1>1, <3>1, <3>2
  <2> QED BY <2>1 DEF Counted, RefsAre
<1>5. Kept BY <1>1 DEF Kept
<1>6. Stacked BY <1>1, <1>3 DEF Stacked, StackOK, TopOK
<1>7. Ready BY <1>1 DEF Ready
<1>8. Acyclic(solist, children) BY <1>1 DEF Acyclic
<1>9. Calm BY <1>1 DEF Calm
<1>10. ~Running("find") BY <1>1 DEF Running
<1>11. Halves BY <1>2, <1>4, <1>5, <1>9, <1>10, CalmIs
<1> QED BY <1>2, <1>4, <1>5, <1>6, <1>7, <1>8, <1>11 DEF LinkInv

LEMMA LinkInvStays ==
    ASSUME LinkInv, [LinkerNext]_ldvars
    PROVE  LinkInv'
<1>1. ASSUME NEW l \in Libraries, dlopen(l) PROVE LinkInv' BY <1>1, dlopenStep
<1>2. ASSUME NEW l \in Libraries, dlclose(l) PROVE LinkInv' BY <1>2, dlcloseStep
<1>3. CASE FindLoaded BY <1>3, FindLoadedStep
<1>4. CASE load_library BY <1>4, load_libraryStep
<1>5. CASE LoadFails BY <1>5, GiveUpStep DEF LoadFails
<1>6. CASE LinkImage BY <1>6, LinkImageStep
<1>7. CASE LinkFails BY <1>7, GiveUpStep DEF LinkFails
<1>8. CASE Found BY <1>8, FoundStep
<1>9. CASE ConstructChild BY <1>9, ConstructChildStep
<1>10. CASE CallInit BY <1>10, CallInitStep
<1>11. CASE InitReturns BY <1>11, InitReturnsStep
<1>12. CASE FiniReturns BY <1>12, FiniReturnsStep
<1>13. CASE HandleReturned BY <1>13, HandleReturnedStep
<1>14. CASE UnloadChild BY <1>14, UnloadChildStep
<1>15. CASE soinfo_free BY <1>15, soinfo_freeStep
<1>16. CASE UNCHANGED ldvars
  BY <1>16 DEF ldvars, LinkInv, LinkTypes, Counted, Kept, Stacked, Ready, Halves, HalfOK, LoadOK,
               WholeLib, Running
<1> QED
  BY <1>1, <1>2, <1>3, <1>4, <1>5, <1>6, <1>7, <1>8, <1>9, <1>10, <1>11, <1>12, <1>13, <1>14,
     <1>15, <1>16 DEF LinkerNext

LEMMA HoldersAreCounted == LinkInv => LibrariesAreHeld
<1> SUFFICES ASSUME LinkInv PROVE RefsAreHolders /\ NeededIsAlive BY DEF LibrariesAreHeld
<1>1. /\ constructors_called \subseteq linked /\ linked \subseteq solist /\ debug_map = linked
      /\ solist \in SUBSET Libraries /\ stack \in Seq(Frames)
  BY InvIs DEF Kept, LinkInv, LinkTypes
<1>2. ASSUME Outside PROVE RefsAreHolders
  <2>1. stack = <<>> /\ \A i \in 1 .. Len(stack) : FALSE BY <1>2 DEF Outside
  <2>2. Calm /\ Torn(stack) = {} BY <2>1, CalmWhen DEF Torn
  <2>3. ASSUME NEW l \in solist PROVE l \in linked /\ children[l] = Needs[l]
    BY <2>2 DEF Calm, WholeLib
  <2>4. ASSUME NEW l \in Libraries
        PROVE  /\ LinksIn(children, solist, l) \in Nat /\ handles[l] \in Nat
               /\ LinksIn(children, solist, l) = 0
                     <=> \A p \in solist : l \notin Members(children[p])
               /\ ref_count[l] = handles[l] + LinksIn(children, solist, l)
    <3>1. /\ LinksIn(children, solist, l) \in Nat /\ handles[l] \in Nat
          /\ LinksIn(children, solist, l) = 0 <=> \A p \in solist : l \notin Members(children[p])
      BY InvIs, LinksNone
    <3>2. HeldIn(stack, l) = 0 BY <1>1, <2>1, HeldType
    <3>3. ref_count[l] = handles[l] + LinksIn(children, solist, l) + HeldIn(stack, l)
      BY InvIs DEF RefsAre
    <3> QED BY <3>1, <3>2, <3>3
  <2>5. solist \subseteq constructors_called
    <3> DEFINE X == solist \ constructors_called
    <3> SUFFICES ASSUME X # {} PROVE FALSE OBVIOUS
    <3>1. X \in SUBSET solist OBVIOUS
    <3> HIDE DEF X
    <3>2. PICK x \in X : \A p \in X : x \notin Members(children[p]) BY <3>1, InvIs DEF Acyclic
    <3>3. x \in solist /\ x \in Libraries /\ x \notin constructors_called BY <1>1, <3>2 DEF X
    <3>4. ref_count[x] > 0 /\ ~(handles[x] > 0) BY <3>3, InvIs DEF Kept
    <3>5. LinksIn(children, solist, x) # 0 BY <2>4, <3>3, <3>4
    <3>6. PICK p \in solist : x \in Members(children[p]) BY <2>4, <3>3, <3>5
    <3>7. p \in constructors_called BY <3>2, <3>6 DEF X
    <3>8. ReadyAt(stack, constructors_called, p) BY <3>7, InvIs DEF Ready
    <3>9. x \in Members(Needs[p]) BY <2>3, <3>6
    <3> QED BY <2>1, <3>3, <3>8, <3>9 DEF ReadyAt
  <2>6. ASSUME NEW l \in Libraries PROVE l \in solist <=> ref_count[l] > 0 BY InvIs DEF Kept
  <2>7. linked = solist /\ constructors_called = solist /\ debug_map = solist BY <1>1, <2>3, <2>5
  <2>8. \A l \in Libraries : ref_count[l] = handles[l] + LinksTo(l) BY <2>4, LinksToAre
  <2> QED BY <2>3, <2>6, <2>7, <2>8 DEF RefsAreHolders
<1>3. NeededIsAlive
  <2> SUFFICES ASSUME NEW l \in Libraries, Constructed(l)
               PROVE  /\ l \in solist /\ l \in linked
                      /\ \A i \in DOMAIN Needs[l] :
                            Needs[l][i] \in solist \cap linked \cap constructors_called
    BY DEF NeededIsAlive
  <2>1. /\ l \in constructors_called
        /\ \A i \in 1 .. Len(stack) : ~(stack[i].fn = "ctor" /\ stack[i].lib = l)
    <3>1. DOMAIN stack = 1 .. Len(stack) BY <1>1
    <3> QED BY <3>1 DEF Constructed
  <2>2. ReadyAt(stack, constructors_called, l) BY <2>1, InvIs DEF Ready
  <2>3. ASSUME NEW i \in DOMAIN Needs[l] PROVE Needs[l][i] \in constructors_called
    <3>1. Needs[l][i] \in Members(Needs[l]) BY DEF Members
    <3> QED BY <2>1, <2>2, <3>1 DEF ReadyAt
  <2> QED BY <1>1, <2>1, <2>3
<1> QED BY <1>2, <1>3 DEF RefsAreHolders

(* Whatever the program opens and closes and in whatever order, from its   *)
(* own code or from init and fini functions, and whatever loads fail       *)
(* half-way: dlopen and dlclose lose no holder of a library and keep none, *)
(* and the libraries that a constructed one needs outlive it.              *)
THEOREM LibrariesStayHeld == LinkerSpec => []LibrariesAreHeld
<1>1. LinkerInit => LinkInv BY LinkInvStarts
<1>2. LinkInv /\ [LinkerNext]_ldvars => LinkInv' BY LinkInvStays
<1>3. LinkInv => LibrariesAreHeld BY HoldersAreCounted
<1> QED BY <1>1, <1>2, <1>3, PTL DEF LinkerSpec
=============================================================================
