-------------------------- MODULE OwnedMutexProofs --------------------------
(***************************************************************************)
(* Theorems about recursive and error-checking mutexes, for any threads,   *)
(* any width of the counter field and any mix of lock, timedlock, trylock, *)
(* unlock and destroy.  The inductive invariant ties the stale mvalue of a *)
(* thread that is about to change the counter to the word it was copied    *)
(* from: others may have changed the state bits since, never the counter.  *)
(***************************************************************************)
EXTENDS OwnedMutex, TLAPS

(* A word without an owner thread is one of two values.                    *)
WordShape == /\ word.owner = Nobody => word = Free
             /\ word.owner = Poison => word = Dead

AtInc(t) == pc[t] \in {"inc", "incload"}
AtDec(t) == pc[t] \in {"dec", "decload"}

(* What the owner knows at each access it makes as the owner.              *)
OwnerPlaces == \A t \in Threads :
    /\ AtInc(t) => word.owner = t /\ word.counter < MaxCounter
    /\ AtDec(t) => word.owner = t /\ word.counter > 0
    /\ pc[t] \in {"inc", "dec"} => mvalue[t].owner = t /\ mvalue[t].counter = word.counter
    /\ pc[t] = "swap" => word.owner = t /\ word.counter = 0
    /\ pc[t] = "kill" => word.owner = t

IInv == TypeOK /\ CounterIsDepth /\ NoSelfDeadlock /\ WordShape /\ OwnerPlaces

(* Nobody has called anything yet.                                         *)
LEMMA InitIInv == Init => IInv
<1> SUFFICES ASSUME Init PROVE IInv
  OBVIOUS
<1> USE BoundsAssumption, OwnersAssumption DEF Init, Free, Dead, Word, Unlocked
<1>1. TypeOK
  <2>1. word \in Words
    BY DEF Words
  <2>2. calls \in [Threads -> 0 .. MaxCalls]
    OBVIOUS
  <2> QED BY <2>1, <2>2 DEF TypeOK, Places, Ops
<1>2. CounterIsDepth /\ NoSelfDeadlock /\ WordShape /\ OwnerPlaces
  BY DEF CounterIsDepth, NoSelfDeadlock, WordShape, OwnerPlaces, AtInc, AtDec, destroyed
<1> QED BY <1>1, <1>2 DEF IInv

(* The trylock of pthread_mutex_trylock and of pthread_mutex_destroy.      *)
LEMMA TryIInv ==
    ASSUME IInv, NEW t \in Threads, NEW o \in {"trylock", "destroy"},
           Call(t, o), StartTry(t, o), UNCHANGED expired
    PROVE  IInv'
<1> USE BoundsAssumption, OwnersAssumption, RecursiveAssumption
    DEF IInv, TypeOK, Words, Places, Ops, Free, Dead, Word, Unlocked, Uncontended, Contended,
        CounterIsDepth, NoSelfDeadlock, WordShape, OwnerPlaces, AtInc, AtDec, destroyed,
        Goto, IsTimed, Won, Swapped, Call
<1>1. CASE Reenter(t)
  <2>1. CASE ~Recursive \/ word.counter = MaxCounter
    BY <1>1, <2>1 DEF Reenter
  <2>2. CASE Recursive /\ word.counter < MaxCounter
    BY <1>1, <2>2 DEF Reenter
  <2> QED BY <2>1, <2>2
<1>2. CASE word = Free /\ StartTry(t, o)
  <2>1. /\ word' = Word(t, 0, Uncontended) /\ UNCHANGED mvalue
        /\ depth' = [depth EXCEPT ![t] = @ + 1]
        /\ \E place \in {"idle", "kill"} : pc' = [pc EXCEPT ![t] = place]
    BY <1>2 DEF StartTry, Reenter
  <2>2. TypeOK'
    BY <2>1
  <2>3. CounterIsDepth'
    BY <1>2, <2>1
  <2>4. NoSelfDeadlock'
    BY <1>2, <2>1
  <2>5. WordShape' /\ OwnerPlaces'
    BY <1>2, <2>1
  <2> QED BY <2>2, <2>3, <2>4, <2>5
<1>3. CASE word.owner # t /\ UNCHANGED <<word, mvalue, pc, depth>>
  BY <1>3
<1> QED BY <1>1, <1>2, <1>3 DEF StartTry

LEMMA NextIInv == IInv /\ [Next]_vars => IInv'
<1> SUFFICES ASSUME IInv, [Next]_vars PROVE IInv'
  OBVIOUS
<1> USE BoundsAssumption, OwnersAssumption, RecursiveAssumption
    DEF IInv, TypeOK, Words, Places, Ops, Free, Dead, Word, Unlocked, Uncontended, Contended,
        CounterIsDepth, NoSelfDeadlock, WordShape, OwnerPlaces, AtInc, AtDec, destroyed,
        Goto, IsTimed, Won, Swapped
<1>1. CASE UNCHANGED vars
  BY <1>1 DEF vars
<1>2. ASSUME NEW t \in Threads, Lock(t) PROVE IInv'
  BY <1>2 DEF Lock, Call, StartLock, Reenter
<1>3. ASSUME NEW t \in Threads, TimedLock(t) PROVE IInv'
  BY <1>3 DEF TimedLock, Call, StartLock, Reenter
<1>4. ASSUME NEW t \in Threads, TryLock(t) PROVE IInv'
  BY <1>4, TryIInv DEF TryLock
<1>5. ASSUME NEW t \in Threads, Destroy(t) PROVE IInv'
  BY <1>5, TryIInv DEF Destroy
<1>6. ASSUME NEW t \in Threads, Increment(t) PROVE IInv'
  BY <1>6 DEF Increment
<1>7. ASSUME NEW t \in Threads, Quick(t) PROVE IInv'
  BY <1>7 DEF Quick
<1>8. ASSUME NEW t \in Threads, Reload(t) PROVE IInv'
  BY <1>8 DEF Reload
<1>9. ASSUME NEW t \in Threads, LoopAcquire(t) PROVE IInv'
  BY <1>9 DEF LoopAcquire
<1>10. ASSUME NEW t \in Threads, LoopFlip(t) PROVE IInv'
  <2>1. CASE word = mvalue[t]
    <3>1. word' = [word EXCEPT !.state = Contended] /\ word.owner \in Threads
      BY <1>10, <2>1 DEF LoopFlip
    <3> QED BY <1>10, <2>1, <3>1 DEF LoopFlip, BeforeWait
  <2>2. CASE word # mvalue[t]
    BY <1>10, <2>2 DEF LoopFlip
  <2> QED BY <2>1, <2>2
<1>11. ASSUME NEW t \in Threads, LoopContended(t) PROVE IInv'
  BY <1>11 DEF LoopContended, BeforeWait
<1>12. ASSUME NEW t \in Threads, CheckTime(t) PROVE IInv'
  BY <1>12 DEF CheckTime
<1>13. ASSUME NEW t \in Threads, FutexWait(t) PROVE IInv'
  BY <1>13 DEF FutexWait
<1>14. ASSUME NEW t \in Threads, Unlock(t) PROVE IInv'
  BY <1>14 DEF Unlock
<1>15. ASSUME NEW t \in Threads, Decrement(t) PROVE IInv'
  BY <1>15 DEF Decrement, Released
<1>16. ASSUME NEW t \in Threads, SwapOut(t) PROVE IInv'
  BY <1>16 DEF SwapOut, Released
<1>17. ASSUME NEW t \in Threads, FutexWake(t) PROVE IInv'
  BY <1>17 DEF FutexWake, Asleep
<1>18. ASSUME NEW t \in Threads, StoreDead(t) PROVE IInv'
  BY <1>18 DEF StoreDead, Released
<1>19. ASSUME NEW t \in Threads, FutexReturn(t) \/ FutexTimeout(t) \/ Expire(t) PROVE IInv'
  <2>1. CASE FutexReturn(t)   BY <2>1 DEF FutexReturn
  <2>2. CASE FutexTimeout(t)  BY <2>2 DEF FutexTimeout
  <2>3. CASE Expire(t)        BY <2>3 DEF Expire
  <2> QED BY <1>19, <2>1, <2>2, <2>3
<1> QED
  BY <1>1, <1>2, <1>3, <1>4, <1>5, <1>6, <1>7, <1>8, <1>9, <1>10, <1>11, <1>12,
     <1>13, <1>14, <1>15, <1>16, <1>17, <1>18, <1>19 DEF Next, Acquiring, Releasing

(* The word and the copies of it stay within their fields.                 *)
THEOREM TypeCorrect == Spec => []TypeOK
<1> QED BY InitIInv, NextIInv, PTL DEF Spec, IInv

(* The counter counts the nested locks of the one owner, whatever happens  *)
(* to the state bits while it is being changed.                            *)
THEOREM CounterCounts == Spec => []CounterIsDepth
<1> QED BY InitIInv, NextIInv, PTL DEF Spec, IInv

(* Locking a mutex one owns never blocks.                                  *)
THEOREM OwnerNeverWaits == Spec => []NoSelfDeadlock
<1> QED BY InitIInv, NextIInv, PTL DEF Spec, IInv

----------------------------------------------------------------------------
(* What other code sees of the word.                                       *)
Holder == IF destroyed THEN Nobody ELSE word.owner
Blocking == {"quick", "loop", "load", "flipload", "late", "time", "wait", "asleep"}
Waiting == {t \in Threads : pc[t] \in Blocking}

LEMMA MappedIs ==
    /\ UNCHANGED <<Holder, Waiting, destroyed>> => UNCHANGED Abstract!vars
    /\ Abstract!Init <=> Holder = Nobody /\ Waiting = {} /\ destroyed = FALSE
    /\ \A t : /\ Abstract!Request(t) <=> /\ Holder # t /\ t \notin Waiting
                                         /\ Waiting' = Waiting \cup {t}
                                         /\ UNCHANGED <<Holder, destroyed>>
              /\ Abstract!Acquire(t) <=> /\ Holder = Nobody /\ ~destroyed
                                         /\ Holder' = t /\ Waiting' = Waiting \ {t}
                                         /\ UNCHANGED destroyed
              /\ Abstract!GiveUp(t) <=> /\ t \in Waiting /\ Waiting' = Waiting \ {t}
                                        /\ UNCHANGED <<Holder, destroyed>>
              /\ Abstract!Release(t) <=> /\ Holder = t /\ Holder' = Nobody
                                         /\ UNCHANGED <<Waiting, destroyed>>
              /\ Abstract!Destroy(t) <=> /\ Holder = t /\ Holder' = Nobody
                                         /\ destroyed' = TRUE /\ UNCHANGED Waiting
BY DEF Abstract!vars, Abstract!Init, Abstract!Request, Abstract!Acquire, Abstract!GiveUp,
       Abstract!Release, Abstract!Destroy, Holder, Waiting, Blocking

(* Where a call goes decides whether it is seen to wait.                   *)
LEMMA WaitingMoves ==
    ASSUME pc \in [Threads -> Places], NEW t \in Threads, NEW place \in Places, Goto(t, place)
    PROVE  Waiting' = IF place \in Blocking THEN Waiting \cup {t} ELSE Waiting \ {t}
BY DEF Goto, Waiting

(* What the state bits and the counter are never tells who holds the lock. *)
LEMMA HolderIs ==
    ASSUME IInv
    PROVE  /\ destroyed <=> word.owner = Poison
           /\ word = Free => Holder = Nobody /\ ~destroyed
           /\ \A t \in Threads : (Holder = t <=> word.owner = t) /\ (Holder = t => ~destroyed)
BY OwnersAssumption DEF IInv, WordShape, Holder, destroyed, Free, Dead, Word

(* Every step of the word is a step of the lock or no step at all.         *)
LEMMA StepImplements == IInv /\ IInv' /\ [Next]_vars => [Abstract!Next]_(Abstract!vars)
<1> SUFFICES ASSUME IInv, IInv', [Next]_vars PROVE [Abstract!Next]_(Abstract!vars)
  OBVIOUS
<1>1. /\ destroyed <=> word.owner = Poison
      /\ word = Free => Holder = Nobody /\ ~destroyed
      /\ \A t \in Threads : (Holder = t <=> word.owner = t) /\ (Holder = t => ~destroyed)
  BY HolderIs
<1>2. /\ destroyed' <=> word'.owner = Poison
      /\ word' = Free => Holder' = Nobody /\ ~destroyed'
      /\ \A t \in Threads : (Holder' = t <=> word'.owner = t) /\ (Holder' = t => ~destroyed')
  <2>1. IInv' => /\ destroyed' <=> word'.owner = Poison
                 /\ word' = Free => Holder' = Nobody /\ ~destroyed'
                 /\ \A t \in Threads : /\ Holder' = t <=> word'.owner = t
                                       /\ Holder' = t => ~destroyed'
    BY OwnersAssumption DEF IInv, WordShape, Holder, destroyed, Free, Dead, Word
  <2> QED BY <2>1
<1>3. pc \in [Threads -> Places] /\ word \in Words /\ mvalue \in [Threads -> Words]
  BY DEF IInv, TypeOK
<1>4. ASSUME Waiting' = Waiting, word'.owner = word.owner PROVE UNCHANGED Abstract!vars
  <2>1. destroyed' = destroyed BY <1>1, <1>2, <1>4 DEF destroyed
  <2>2. Holder' = Holder BY <1>4, <2>1 DEF Holder
  <2> QED BY <1>4, <2>1, <2>2, MappedIs
(* A call that gets the mutex, from outside or from its place in the loop. *)
<1>5. ASSUME NEW t \in Threads, NEW s \in {Uncontended, Contended},
             Swapped(Free, Word(t, 0, s)), Waiting' = Waiting \ {t}
      PROVE  Abstract!Next
  <2>1. word = Free /\ word'.owner = t BY <1>5 DEF Swapped, Word
  <2>2. Holder = Nobody /\ ~destroyed /\ Holder' = t /\ ~destroyed' BY <1>1, <1>2, <2>1
  <2>3. UNCHANGED destroyed BY <2>2 DEF destroyed
  <2>4. Abstract!Acquire(t) BY <1>5, <2>2, <2>3, MappedIs
  <2> QED BY <2>4 DEF Abstract!Next
<1>6. ASSUME NEW t \in Threads, pc[t] = "idle", StartLock(t)
      PROVE  [Abstract!Next]_(Abstract!vars)
  <2>1. t \notin Waiting BY <1>6 DEF Waiting, Blocking
  <2>2. CASE Reenter(t)
    <3>1. \E p \in {"idle", "inc"} : Goto(t, p) BY <2>2 DEF Reenter
    <3>2. Waiting' = Waiting \ {t} BY <1>3, <3>1, WaitingMoves DEF Places, Blocking
    <3> QED BY <1>4, <2>1, <2>2, <3>2 DEF Reenter
  <2>3. CASE word.owner # t /\ \E p \in {"quick", "loop"} : Goto(t, p) /\ UNCHANGED word
    <3>1. Waiting' = Waiting \cup {t} BY <1>3, <2>3, WaitingMoves DEF Places, Blocking
    <3>2. Holder # t BY <1>1, <2>3
    <3>3. UNCHANGED <<Holder, destroyed>> BY <2>3 DEF Holder, destroyed
    <3>4. Abstract!Request(t) BY <2>1, <3>1, <3>2, <3>3, MappedIs
    <3> QED BY <3>4 DEF Abstract!Next
  <2> QED BY <1>6, <2>2, <2>3 DEF StartLock
<1>7. ASSUME NEW t \in Threads, Lock(t) \/ TimedLock(t)
      PROVE  [Abstract!Next]_(Abstract!vars)
  BY <1>6, <1>7 DEF Lock, TimedLock, Call
<1>8. ASSUME NEW t \in Threads, NEW o \in {"trylock", "destroy"}, pc[t] = "idle", StartTry(t, o)
      PROVE  [Abstract!Next]_(Abstract!vars)
  <2>1. t \notin Waiting BY <1>8 DEF Waiting, Blocking
  <2>2. CASE Reenter(t) BY <1>6, <1>8, <2>2 DEF StartLock
  <2>3. CASE Swapped(Free, Word(t, 0, Uncontended)) /\ Won(t, o)
    <3>1. \E p \in {"idle", "kill"} : Goto(t, p) BY <2>3 DEF Won
    <3>2. Waiting' = Waiting \ {t} BY <1>3, <3>1, WaitingMoves DEF Places, Blocking
    <3> QED BY <1>5, <2>3, <3>2
  <2>4. CASE UNCHANGED <<word, mvalue, pc, depth>> BY <1>4, <2>4 DEF Waiting
  <2> QED BY <1>8, <2>2, <2>3, <2>4 DEF StartTry
<1>9. ASSUME NEW t \in Threads, TryLock(t) \/ Destroy(t)
      PROVE  [Abstract!Next]_(Abstract!vars)
  BY <1>8, <1>9 DEF TryLock, Destroy, Call
<1>10. ASSUME NEW t \in Threads, Increment(t) PROVE [Abstract!Next]_(Abstract!vars)
  <2>1. \E p \in {"idle", "kill", "incload"} : Goto(t, p) BY <1>10 DEF Increment, Won
  <2>2. t \notin Waiting BY <1>10 DEF Increment, Waiting, Blocking
  <2>3. Waiting' = Waiting BY <1>3, <2>1, <2>2, WaitingMoves DEF Places, Blocking
  <2>4. word'.owner = word.owner BY <1>3, <1>10 DEF Increment, Swapped, Words
  <2> QED BY <1>4, <2>3, <2>4
<1>11. ASSUME NEW t \in Threads, Decrement(t) PROVE [Abstract!Next]_(Abstract!vars)
  <2>1. \E p \in {"idle", "decload"} : Goto(t, p) BY <1>11 DEF Decrement
  <2>2. t \notin Waiting BY <1>11 DEF Decrement, Waiting, Blocking
  <2>3. Waiting' = Waiting BY <1>3, <2>1, <2>2, WaitingMoves DEF Places, Blocking
  <2>4. word'.owner = word.owner BY <1>3, <1>11 DEF Decrement, Swapped, Words
  <2> QED BY <1>4, <2>3, <2>4
<1>12. ASSUME NEW t \in Threads, Quick(t) \/ LoopAcquire(t) PROVE [Abstract!Next]_(Abstract!vars)
  <2>1. t \in Waiting BY <1>12 DEF Quick, LoopAcquire, Waiting, Blocking
  <2>2. CASE \E s \in {Uncontended, Contended} : Swapped(Free, Word(t, 0, s)) /\ Won(t, op[t])
    <3>1. \E p \in {"idle", "kill"} : Goto(t, p) BY <2>2 DEF Won
    <3>2. Waiting' = Waiting \ {t} BY <1>3, <3>1, WaitingMoves DEF Places, Blocking
    <3> QED BY <1>5, <2>2, <3>2
  <2>3. CASE UNCHANGED word /\ \E p \in {"load", "late"} : Goto(t, p)
    <3>1. Waiting' = Waiting BY <1>3, <2>1, <2>3, WaitingMoves DEF Places, Blocking
    <3> QED BY <1>4, <2>3, <3>1
  <2> QED BY <1>12, <2>2, <2>3 DEF Quick, LoopAcquire
<1>13. ASSUME NEW t \in Threads, LoopFlip(t) PROVE [Abstract!Next]_(Abstract!vars)
  <2>1. t \in Waiting BY <1>13 DEF LoopFlip, Waiting, Blocking
  <2>2. \E p \in Blocking : Goto(t, p) BY <1>13 DEF LoopFlip, BeforeWait, Blocking
  <2>3. Waiting' = Waiting BY <1>3, <2>1, <2>2, WaitingMoves DEF Places, Blocking
  <2>4. word'.owner = word.owner BY <1>3, <1>13 DEF LoopFlip, Swapped, Words
  <2> QED BY <1>4, <2>3, <2>4
<1>14. ASSUME NEW t \in Threads, LoopContended(t) \/ FutexWait(t) \/ FutexReturn(t)
       PROVE  [Abstract!Next]_(Abstract!vars)
  <2>1. t \in Waiting /\ UNCHANGED word
    BY <1>14 DEF LoopContended, FutexWait, FutexReturn, Waiting, Blocking
  <2>2. \E p \in Blocking : Goto(t, p)
    BY <1>14 DEF LoopContended, FutexWait, FutexReturn, BeforeWait, Blocking
  <2>3. Waiting' = Waiting BY <1>3, <2>1, <2>2, WaitingMoves DEF Places, Blocking
  <2> QED BY <1>4, <2>1, <2>3
<1>15. ASSUME NEW t \in Threads, Reload(t) PROVE [Abstract!Next]_(Abstract!vars)
  <2>1. \/ pc[t] \notin Blocking /\ \E p \in {"inc", "dec"} : Goto(t, p)
        \/ pc[t] \in Blocking /\ \E p \in {"loop", "time"} : Goto(t, p)
    BY <1>15 DEF Reload, Blocking
  <2>2. Waiting' = Waiting BY <1>3, <2>1, WaitingMoves DEF Waiting, Places, Blocking
  <2> QED BY <1>4, <1>15, <2>2 DEF Reload
(* A timedlock that gives up.                                              *)
<1>16. ASSUME NEW t \in Threads, CheckTime(t) \/ FutexTimeout(t)
       PROVE  [Abstract!Next]_(Abstract!vars)
  <2>1. t \in Waiting /\ UNCHANGED word
    BY <1>16 DEF CheckTime, FutexTimeout, Waiting, Blocking
  <2>2. CASE Goto(t, "idle")
    <3>1. Waiting' = Waiting \ {t} BY <1>3, <2>2, WaitingMoves DEF Places, Blocking
    <3>2. UNCHANGED <<Holder, destroyed>> BY <2>1 DEF Holder, destroyed
    <3>3. Abstract!GiveUp(t) BY <2>1, <3>1, <3>2, MappedIs
    <3> QED BY <3>3 DEF Abstract!Next
  <2>3. CASE \E p \in Blocking : Goto(t, p)
    <3>1. Waiting' = Waiting BY <1>3, <2>1, <2>3, WaitingMoves DEF Places, Blocking
    <3> QED BY <1>4, <2>1, <3>1
  <2> QED BY <1>16, <2>2, <2>3 DEF CheckTime, FutexTimeout, Blocking
<1>17. ASSUME NEW t \in Threads, Unlock(t) PROVE [Abstract!Next]_(Abstract!vars)
  <2>1. t \notin Waiting /\ \E p \in {"swap", "dec"} : Goto(t, p)
    BY <1>17 DEF Unlock, Waiting, Blocking
  <2>2. Waiting' = Waiting BY <1>3, <2>1, WaitingMoves DEF Places, Blocking
  <2> QED BY <1>4, <1>17, <2>2 DEF Unlock
<1>18. ASSUME NEW t \in Threads, SwapOut(t) PROVE [Abstract!Next]_(Abstract!vars)
  <2>1. t \notin Waiting /\ \E p \in {"wake", "idle"} : Goto(t, p)
    BY <1>18 DEF SwapOut, Waiting, Blocking
  <2>2. Waiting' = Waiting BY <1>3, <2>1, WaitingMoves DEF Places, Blocking
  <2>3. Holder = t /\ ~destroyed BY <1>1, <1>18 DEF SwapOut, IInv, OwnerPlaces
  <2>4. Holder' = Nobody /\ ~destroyed' BY <1>2, <1>18 DEF SwapOut
  <2>5. UNCHANGED destroyed BY <2>3, <2>4 DEF destroyed
  <2>6. Abstract!Release(t) BY <2>2, <2>3, <2>4, <2>5, MappedIs
  <2> QED BY <2>6 DEF Abstract!Next
<1>19. ASSUME NEW t \in Threads, FutexWake(t) PROVE [Abstract!Next]_(Abstract!vars)
  BY <1>3, <1>4, <1>19 DEF FutexWake, Goto, Asleep, Waiting, Blocking
<1>20. ASSUME NEW t \in Threads, StoreDead(t) PROVE [Abstract!Next]_(Abstract!vars)
  <2>1. t \notin Waiting /\ Goto(t, "idle") BY <1>20 DEF StoreDead, Waiting, Blocking
  <2>2. Waiting' = Waiting BY <1>3, <2>1, WaitingMoves DEF Places, Blocking
  <2>3. Holder = t BY <1>1, <1>20 DEF StoreDead, IInv, OwnerPlaces
  <2>4. destroyed' = TRUE /\ Holder' = Nobody BY <1>20 DEF StoreDead, destroyed, Holder
  <2>5. Abstract!Destroy(t) BY <2>2, <2>3, <2>4, MappedIs
  <2> QED BY <2>5 DEF Abstract!Next
<1>21. CASE UNCHANGED <<word, pc>> BY <1>4, <1>21 DEF Waiting
<1> QED
  BY <1>7, <1>9, <1>10, <1>11, <1>12, <1>13, <1>14, <1>15, <1>16, <1>17, <1>18, <1>19,
     <1>20, <1>21 DEF Next, Acquiring, Releasing, Expire, vars

(* A recursive or error-checking mutex implements AbstractLock: errors,    *)
(* nested locks, races lost at a compare-and-exchange and timeouts are     *)
(* invisible or a call that gives up, and a destroyed mutex has no owner.  *)
THEOREM Implementation == Spec => ImplementsLock
<1>1. Init => Abstract!Init
  BY MappedIs, OwnersAssumption
  DEF Init, Holder, Waiting, Blocking, destroyed, Free, Dead, Word
<1> QED BY <1>1, StepImplements, InitIInv, NextIInv, PTL DEF Spec, ImplementsLock, Abstract!Spec
=============================================================================
