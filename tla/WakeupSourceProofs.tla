------------------------- MODULE WakeupSourceProofs -------------------------
(***************************************************************************)
(* Proofs about WakeupSource, for any number of sources, devices, readers  *)
(* and savers, any width of the counters and of jiffies.                   *)
(***************************************************************************)
EXTENDS WakeupSource, FiniteSetTheorems, TLAPS

(* What has the shape the actions need.  The kernel timer of a source is   *)
(* whatever Expires gave it.                                               *)
Shape == /\ wakeup \in [Devices -> Sources \cup {NoSource}]
         /\ life \in [Sources -> {"free", "made", "attached", "remove", "drop"}]
         /\ dev = [s \in Sources |-> dev[s]]
         /\ active \in [Sources -> BOOLEAN]
         /\ ahead \in [Sources -> {0, 1}]
         /\ timer = [s \in Sources |-> timer[s]]
         /\ fn \in [Sources -> BOOLEAN]
         /\ step \in [Sources -> {"none", "deactivate", "split", "wake"}]
         /\ by \in [Sources -> {"nobody", "device", "timer", "drop"}]

(* A source that no device has been given is as it was made.               *)
Fresh(s) == life[s] \in {"free", "made"} =>
               ~active[s] /\ timer[s] = NoTimer /\ ~fn[s] /\ ~Locked(s)

(* del_timer_sync has been called before the last relaxation.              *)
Dropped(s) == life[s] = "drop" => timer[s] = NoTimer /\ ~fn[s]

(* Each holder of ws->lock keeps the source in existence.                  *)
Holder(s) == /\ Locked(s) <=> by[s] # "nobody"
             /\ by[s] = "device" => life[s] = "attached"
             /\ by[s] = "timer" => fn[s]
             /\ by[s] = "drop" => life[s] = "drop"
             /\ by[s] = "drop" /\ step[s] \in {"split", "wake"} => ~active[s]

(* active_count is ahead of relax_count exactly while the source is active *)
(* and only an active source is being deactivated.                         *)
Counted(s) == /\ ahead[s] = IF active[s] THEN 1 ELSE 0
              /\ step[s] = "deactivate" => active[s]

Owned(s) == life[s] # "free" => dev[s] \in Devices

Sound == \A s \in Sources : Fresh(s) /\ Dropped(s) /\ Holder(s) /\ Counted(s) /\ Owned(s)

(* A device has a source of its own, which is attached to it.              *)
Attached == \A d \in Devices : wakeup[d] # NoSource =>
               life[wakeup[d]] = "attached" /\ dev[wakeup[d]] = d

Inv == Shape /\ Sound /\ Attached

USE CallersAssumption

LEMMA Initially == Init => Inv
BY DEF Init, Inv, Shape, Sound, Attached, Fresh, Dropped, Holder, Counted, Owned, Locked

USE DEF Inv, Shape, Locked, NoTimer

LEMMA DeviceSource ==
    ASSUME Inv, NEW d \in Devices, wakeup[d] # NoSource
    PROVE  wakeup[d] \in Sources /\ life[wakeup[d]] = "attached" /\ dev[wakeup[d]] = d
BY DEF Attached

(* A device uses a source that is attached to it.                          *)
LEMMA Used ==
    ASSUME Inv, NEW d \in Devices, NEW s \in Sources, Using(d, s)
    PROVE  life[s] = "attached" /\ ~Locked(s) /\ by[s] = "nobody" /\ dev[s] = d
BY DEF Using, Sound, Attached, Holder

(* A report leaves its source active and counted once.                     *)
LEMMA Reported ==
    ASSUME Inv, NEW s \in Sources, Report(s)
    PROVE  /\ active' = [active EXCEPT ![s] = TRUE]
           /\ ahead' = [ahead EXCEPT ![s] = 1]
BY DEF Report, Sound, Counted

(* What is left to show of an action on one source.                        *)
Here(s) == Fresh(s) /\ Dropped(s) /\ Holder(s) /\ Counted(s) /\ Owned(s)

Same(u) == UNCHANGED <<life[u], active[u], ahead[u], timer[u], fn[u], step[u], by[u],
                     dev[u]>>

(* An action on one source leaves the others as they are.                  *)
LEMMA Elsewhere ==
    ASSUME Inv, NEW s \in Sources, Shape', UNCHANGED wakeup,
           \A u \in Sources \ {s} : Same(u),
           life[s] = "attached" => life'[s] = "attached" /\ UNCHANGED dev[s],
           Here(s)'
    PROVE  Inv'
<1>1. Sound'
  <2> SUFFICES ASSUME NEW u \in Sources
               PROVE  (Fresh(u) /\ Dropped(u) /\ Holder(u) /\ Counted(u) /\ Owned(u))'
      BY DEF Sound
  <2>1. CASE u = s
        BY <2>1 DEF Here
  <2>2. CASE u # s
        BY <2>2 DEF Same, Sound, Fresh, Dropped, Holder, Counted, Owned
  <2>3. QED  BY <2>1, <2>2
<1>2. Attached'
  <2> SUFFICES ASSUME NEW d \in Devices, wakeup[d] # NoSource
               PROVE  life'[wakeup[d]] = "attached" /\ dev'[wakeup[d]] = d
      BY DEF Attached
  <2>1. wakeup[d] \in Sources /\ life[wakeup[d]] = "attached" /\ dev[wakeup[d]] = d
        BY DeviceSource
  <2>2. QED  BY <2>1 DEF Same
<1>3. QED  BY <1>1, <1>2

USE DEF Same, Sound, Here, Fresh, Dropped, Holder, Counted, Owned

LEMMA DeviceKeeps ==
    ASSUME Inv, NEW d \in Devices, DeviceStep(d)
    PROVE  Inv'
<1>1. CASE pm_stay_awake(d)
  <2> PICK s \in Sources : pm_stay_awake(d)!(s)  BY <1>1 DEF pm_stay_awake
  <2>1. /\ active' = [active EXCEPT ![s] = TRUE]
        /\ ahead' = [ahead EXCEPT ![s] = 1]
        BY Reported
  <2>2. life[s] = "attached" /\ ~Locked(s) /\ by[s] = "nobody" /\ dev[s] = d
        BY Used
  <2>3. Shape'  BY <2>1
  <2>4. Here(s)'  BY <2>1, <2>2
  <2>5. \A u \in Sources \ {s} : Same(u)  BY <2>1
  <2>6. QED  BY <2>2, <2>3, <2>4, <2>5, Elsewhere
<1>2. CASE pm_relax(d)
  <2> PICK s \in Sources : pm_relax(d)!(s)  BY <1>2 DEF pm_relax
  <2>1. Shape'  OBVIOUS
  <2>2. Here(s)'  BY Used
  <2>3. QED  BY <2>1, <2>2, Elsewhere
<1>3. ASSUME NEW delay \in Delays, pm_wakeup_event(d, delay)
      PROVE  Inv'
  <2> PICK s \in Sources : pm_wakeup_event(d, delay)!(s)  BY <1>3 DEF pm_wakeup_event
  <2>1. /\ active' = [active EXCEPT ![s] = TRUE]
        /\ ahead' = [ahead EXCEPT ![s] = 1]
        BY Reported
  <2>2. life[s] = "attached" /\ ~Locked(s) /\ by[s] = "nobody" /\ dev[s] = d
        BY Used
  <2>3. Shape'  BY <2>1
  <2>4. Here(s)'  BY <2>1, <2>2
  <2>5. \A u \in Sources \ {s} : Same(u)  BY <2>1
  <2>6. QED  BY <2>2, <2>3, <2>4, <2>5, Elsewhere
<1>4. QED  BY <1>1, <1>2, <1>3 DEF DeviceStep

(* The three parts of wakeup_source_deactivate, whoever calls it.          *)
LEMMA RelaxingKeeps ==
    ASSUME Inv, NEW s \in Sources, Relaxing(s)
    PROVE  Inv'
<1>1. CASE Deactivate(s)
  <2>1. ahead[s] = 1 /\ Locked(s) /\ life[s] \notin {"free", "made"}
        BY <1>1 DEF Deactivate
  <2>2. /\ active' = [active EXCEPT ![s] = FALSE]
        /\ ahead' = [ahead EXCEPT ![s] = 0]
        /\ timer' = [timer EXCEPT ![s] = NoTimer]
        /\ step' = [step EXCEPT ![s] = "split"]
        /\ UNCHANGED <<wakeup, life, dev, fn, by>>
        BY <1>1, <2>1 DEF Deactivate
  <2>3. Shape'  BY <2>2
  <2>4. Here(s)'  BY <2>1, <2>2
  <2>5. \A u \in Sources \ {s} : Same(u)  BY <2>2
  <2>6. QED  BY <2>2, <2>3, <2>4, <2>5, Elsewhere
<1>2. ASSUME step[s] \in {"split", "wake"}, Finish(s),
             UNCHANGED <<wakeup, dev, active, ahead, timer>>
      PROVE  Inv'
  <2>1. Shape'  BY <1>2 DEF Finish
  <2>2. Here(s)'  BY <1>2 DEF Finish
  <2>3. \A u \in Sources \ {s} : Same(u)  BY <1>2 DEF Finish
  <2>4. QED  BY <1>2, <2>1, <2>2, <2>3, Elsewhere DEF Finish
<1>3. CASE SplitCounters(s)
  <2>1. CASE Finish(s)
        BY <1>2, <1>3, <2>1 DEF SplitCounters
  <2>2. CASE step' = [step EXCEPT ![s] = "wake"] /\ UNCHANGED <<fn, life, by>>
    <3>1. Shape'  BY <1>3, <2>2 DEF SplitCounters
    <3>2. Here(s)'  BY <1>3, <2>2 DEF SplitCounters
    <3>3. \A u \in Sources \ {s} : Same(u)  BY <1>3, <2>2 DEF SplitCounters
    <3>4. QED  BY <1>3, <2>2, <3>1, <3>2, <3>3, Elsewhere DEF SplitCounters
  <2>3. QED  BY <1>3, <2>1, <2>2 DEF SplitCounters
<1>4. CASE WakeReaders(s)
      BY <1>2, <1>4 DEF WakeReaders
<1>5. QED  BY <1>1, <1>3, <1>4 DEF Relaxing

LEMMA TimerKeeps ==
    ASSUME Inv, NEW s \in Sources, Fire(s) \/ pm_wakeup_timer_fn(s)
    PROVE  Inv'
<1>1. Shape'
  <2>1. CASE Fire(s)  BY <2>1 DEF Fire
  <2>2. CASE pm_wakeup_timer_fn(s)
    <3>1. /\ step' \in [Sources -> {"none", "deactivate", "split", "wake"}]
          /\ by' \in [Sources -> {"nobody", "device", "timer", "drop"}]
          BY <2>2 DEF pm_wakeup_timer_fn
    <3>2. fn' \in [Sources -> BOOLEAN]
          BY <2>2 DEF pm_wakeup_timer_fn
    <3>3. UNCHANGED <<wakeup, life, dev, active, ahead, timer>>
          BY <2>2 DEF pm_wakeup_timer_fn
    <3>4. QED  BY <3>1, <3>2, <3>3
  <2>3. QED  BY <2>1, <2>2
<1>2. Here(s)'  BY DEF Fire, pm_wakeup_timer_fn
<1>3. \A u \in Sources \ {s} : Same(u)  BY DEF Fire, pm_wakeup_timer_fn
<1>4. UNCHANGED <<wakeup, life, dev>>  BY DEF Fire, pm_wakeup_timer_fn
<1>5. QED  BY <1>1, <1>2, <1>3, <1>4, Elsewhere

LEMMA DropKeeps ==
    ASSUME Inv, NEW s \in Sources, DelTimerSync(s) \/ DropRelax(s)
    PROVE  Inv'
<1>1. life[s] \in {"remove", "drop"}  BY DEF DelTimerSync, DropRelax
<1>2. Shape'  BY DEF DelTimerSync, DropRelax
<1>3. Here(s)'  BY DEF DelTimerSync, DropRelax
<1>4. \A u \in Sources \ {s} : Same(u)  BY DEF DelTimerSync, DropRelax
<1>5. UNCHANGED wakeup  BY DEF DelTimerSync, DropRelax
<1>6. QED  BY <1>1, <1>2, <1>3, <1>4, <1>5, Elsewhere

LEMMA RegisterKeeps ==
    ASSUME Inv, NEW d \in Devices, wakeup_source_register(d)
    PROVE  Inv'
<1> PICK s \in Sources : wakeup_source_register(d)!(s)  BY DEF wakeup_source_register
<1>1. Shape'
  <2>1. /\ life' \in [Sources -> {"free", "made", "attached", "remove", "drop"}]
        /\ active' \in [Sources -> BOOLEAN] /\ ahead' \in [Sources -> {0, 1}]
        OBVIOUS
  <2>2. /\ dev' = [u \in Sources |-> dev'[u]]
        /\ timer' = [u \in Sources |-> timer'[u]]
        OBVIOUS
  <2>3. QED  BY <2>1, <2>2
<1>2. Here(s)'  OBVIOUS
<1>3. \A u \in Sources \ {s} : Same(u)  OBVIOUS
<1>4. QED  BY <1>1, <1>2, <1>3, Elsewhere

(* A source is attached to a device that has none.                         *)
LEMMA AttachKeeps ==
    ASSUME Inv, NEW s \in Sources, device_wakeup_attach(s)
    PROVE  Inv'
<1> DEFINE d == dev[s]
<1>1. d \in Devices /\ ~Locked(s) /\ by[s] = "nobody"  BY DEF device_wakeup_attach
<1>2. UNCHANGED <<dev, active, ahead, timer, fn, step, by>>  BY DEF device_wakeup_attach
<1>3. CASE wakeup[d] = NoSource
  <2>1. /\ wakeup' = [wakeup EXCEPT ![d] = s]
        /\ life' = [life EXCEPT ![s] = "attached"]
        BY <1>3 DEF device_wakeup_attach
  <2>2. Shape'  BY <1>1, <1>2, <2>1
  <2>3. Sound'  BY <1>1, <1>2, <2>1 DEF device_wakeup_attach
  <2>4. Attached'
    <3> SUFFICES ASSUME NEW e \in Devices, wakeup'[e] # NoSource
                 PROVE  life'[wakeup'[e]] = "attached" /\ dev[wakeup'[e]] = e
        BY <1>2 DEF Attached
    <3>1. CASE e = d  BY <3>1, <1>1, <2>1
    <3>2. CASE e # d
      <4>1. wakeup[e] # NoSource /\ wakeup'[e] = wakeup[e]  BY <3>2, <1>1, <2>1
      <4>2. wakeup[e] \in Sources /\ life[wakeup[e]] = "attached" /\ dev[wakeup[e]] = e
            BY <4>1, DeviceSource
      <4>3. QED  BY <4>1, <4>2, <2>1
    <3>3. QED  BY <3>1, <3>2
  <2>5. QED  BY <2>2, <2>3, <2>4
<1>4. CASE wakeup[d] # NoSource
  <2>1. UNCHANGED wakeup /\ life' = [life EXCEPT ![s] = "remove"] /\ life[s] = "made"
        BY <1>4 DEF device_wakeup_attach
  <2>2. Shape'  BY <1>2, <2>1
  <2>3. Here(s)'  BY <1>1, <1>2, <2>1
  <2>4. \A u \in Sources \ {s} : Same(u)  BY <1>2, <2>1
  <2>5. QED  BY <2>1, <2>2, <2>3, <2>4, Elsewhere
<1>5. QED  BY <1>3, <1>4

(* It is detached from the only device that has it, by a caller that holds *)
(* dev->power.lock.                                                        *)
LEMMA DetachKeeps ==
    ASSUME Inv, NEW d \in Devices, device_wakeup_detach(d)
    PROVE  Inv'
<1> DEFINE s == wakeup[d]
<1>1. s \in Sources /\ life[s] = "attached" /\ dev[s] = d
  <2>1. wakeup[d] # NoSource  BY DEF device_wakeup_detach
  <2>2. QED  BY <2>1, DeviceSource
<1>2. by[s] # "device"
      BY <1>1 DEF device_wakeup_detach, PowerLocked
<1>3. /\ life' = [life EXCEPT ![s] = "remove"]
      /\ wakeup' = [wakeup EXCEPT ![d] = NoSource]
      /\ UNCHANGED <<dev, active, ahead, timer, fn, step, by>>
      BY DEF device_wakeup_detach
<1>4. Shape'  BY <1>1, <1>3
<1>5. Sound'  BY <1>1, <1>2, <1>3
<1>6. Attached'
  <2> SUFFICES ASSUME NEW e \in Devices, wakeup'[e] # NoSource
               PROVE  life'[wakeup'[e]] = "attached" /\ dev[wakeup'[e]] = e
      BY <1>3 DEF Attached
  <2>1. e # d /\ wakeup[e] # NoSource /\ wakeup'[e] = wakeup[e]  BY <1>3
  <2>2. wakeup[e] \in Sources /\ life[wakeup[e]] = "attached" /\ dev[wakeup[e]] = e
        BY <2>1, DeviceSource
  <2>3. wakeup[e] # s  BY <1>1, <2>1, <2>2
  <2>4. QED  BY <1>3, <2>1, <2>2, <2>3
<1>7. QED  BY <1>4, <1>5, <1>6

(* Readers, savers and the clock do not touch the sources.                 *)
LEMMA OthersKeep ==
    ASSUME Inv, UNCHANGED <<wakeup, source>>
    PROVE  Inv'
BY DEF source, Attached

LEMMA Invariance == Spec => []Inv
<1>1. ASSUME Inv, [Next]_vars PROVE Inv'
  <2> USE <1>1
  <2>1. CASE Tick
        BY <2>1, OthersKeep DEF Tick
  <2>2. ASSUME NEW p \in Readers, GetWakeupCount(p) \/ Waiting(p) \/ Signal(p)
        PROVE  Inv'
        BY <2>2, OthersKeep DEF GetWakeupCount, Waiting, Signal, Check, Schedule, ReturnCount
  <2>3. ASSUME NEW p \in Savers, Suspending(p)
        PROVE  Inv'
        BY <2>3, OthersKeep DEF Suspending, DisableCheck, SaveCount, ReturnSaved,
              SuspendFails, suspend_enter, Resume
  <2>4. CASE UNCHANGED vars
        BY <2>4, OthersKeep DEF vars, source
  <2>5. QED
        BY <2>1, <2>2, <2>3, <2>4, DeviceKeeps, RegisterKeeps, DetachKeeps, RelaxingKeeps,
           TimerKeeps, AttachKeeps, DropKeeps DEF Next
<1>2. QED  BY Initially, <1>1, PTL DEF Spec

(* Nothing refers to a source that wakeup_source_destroy has freed: a drop *)
(* waits for the timer function, and a device is detached before it.       *)
THEOREM FreedForGood == Spec => []FreedIsQuiet
<1>1. ASSUME Inv PROVE FreedIsQuiet
  <2> SUFFICES ASSUME NEW s \in Sources, life[s] = "free"
               PROVE  /\ ~active[s] /\ timer[s] = NoTimer /\ ~fn[s] /\ ~Locked(s)
                      /\ \A d \in Devices : wakeup[d] # s
      BY DEF FreedIsQuiet
  <2>1. Fresh(s)
        BY <1>1
  <2>2. ~active[s] /\ timer[s] = NoTimer /\ ~fn[s] /\ ~Locked(s)
        BY <2>1
  <2>3. ASSUME NEW d \in Devices, wakeup[d] = s
        PROVE  FALSE
    <3>1. wakeup[d] # NoSource
          BY <2>3
    <3>2. life[wakeup[d]] = "attached"
          BY <1>1, <3>1, DeviceSource
    <3>3. QED  BY <2>3, <3>2
  <2>4. QED  BY <2>2, <2>3
<1>2. QED  BY Invariance, <1>1, PTL

(* The test of relax_count in wakeup_source_deactivate, which returns with *)
(* the event still in progress, never fails: only an active source, which  *)
(* has one activation more than relaxations, is deactivated.               *)
THEOREM RelaxCountAgrees ==
    Spec => [](\A s \in Sources : step[s] = "deactivate" => active[s] /\ ahead[s] = 1)
<1>1. Inv => \A s \in Sources : step[s] = "deactivate" => active[s] /\ ahead[s] = 1
      OBVIOUS
<1>2. QED  BY Invariance, <1>1, PTL

----------------------------------------------------------------------------
HIDE DEF Inv, Shape, Same, Sound, Here, Fresh, Dropped, Holder, Counted, Owned

(* Quotients and remainders.                                               *)
LEMMA DivMod ==
    ASSUME NEW n \in Nat \ {0}, NEW a \in Int
    PROVE  /\ a = n * (a \div n) + (a % n) /\ a % n \in 0 .. n - 1 /\ a \div n \in Int
OBVIOUS

LEMMA NextMultiple ==
    ASSUME NEW n \in Nat \ {0}, NEW q \in Int, NEW p \in Int, q < p
    PROVE  n * q + n <= n * p
<1>1. p - q - 1 \in Nat OBVIOUS
<1>2. n * (p - q - 1) \in Nat BY <1>1
<1>3. n * (p - q - 1) = n * p - n * q - n OBVIOUS
<1>4. n * p \in Int /\ n * q \in Int OBVIOUS
<1> QED BY <1>2, <1>3, <1>4

LEMMA ModUnique ==
    ASSUME NEW n \in Nat \ {0}, NEW q \in Int, NEW r \in 0 .. n - 1
    PROVE  (n * q + r) % n = r /\ (n * q + r) \div n = q
<1> DEFINE a == n * q + r
<1>1. a \in Int OBVIOUS
<1> HIDE DEF a
<1>2. /\ a = n * (a \div n) + (a % n) /\ a % n \in 0 .. n - 1 /\ a \div n \in Int BY <1>1, DivMod
<1>3. ~(a \div n < q)
  <2> SUFFICES ASSUME a \div n < q PROVE FALSE OBVIOUS
  <2>1. n * (a \div n) + n <= n * q BY <1>2, NextMultiple
  <2> QED BY <1>2, <2>1 DEF a
<1>4. ~(q < a \div n)
  <2> SUFFICES ASSUME q < a \div n PROVE FALSE OBVIOUS
  <2>1. n * q + n <= n * (a \div n) BY <1>2, NextMultiple
  <2> QED BY <1>2, <2>1 DEF a
<1>5. a \div n = q
  <2> DEFINE d == a \div n
  <2>1. d \in Int /\ q \in Int /\ ~(d < q) /\ ~(q < d) BY <1>2, <1>3, <1>4
  <2> HIDE DEF d
  <2>2. d = q BY <2>1
  <2> QED BY <2>2 DEF d
<1>6. n * q \in Int OBVIOUS
<1>7. a % n = r BY <1>2, <1>5, <1>6 DEF a
<1> QED BY <1>5, <1>7 DEF a

(* One more, or one less, in the low half of a word of two halves, which   *)
(* atomic_inc and atomic_add_return(MAX_IN_PROGRESS) add to as a whole.    *)
LEMMA LowUp ==
    ASSUME NEW n \in Nat \ {0}, NEW c \in 0 .. n * n - 1, c % n < n - 1
    PROVE  /\ ((c + 1) % (n * n)) % n = (c % n) + 1
           /\ ((c + 1) % (n * n)) \div n = c \div n
<1> DEFINE q == c \div n
           r == c % n
           m == n * n
<1>1. n \in Nat /\ m \in Nat /\ m > 0 /\ c \in Nat /\ c < m OBVIOUS
<1>2. c = n * q + r /\ r \in 0 .. n - 1 /\ q \in Int BY <1>1, DivMod
<1> HIDE DEF q, r
<1>3. (c + 1) % n = r + 1 /\ (c + 1) \div n = q
  <2>1. r + 1 \in 0 .. n - 1 BY <1>2 DEF r
  <2>2. c + 1 = n * q + (r + 1) BY <1>2
  <2>3. (n * q + (r + 1)) % n = r + 1 /\ (n * q + (r + 1)) \div n = q
    BY <1>2, <2>1, ModUnique
  <2> QED BY <2>2, <2>3
<1>4. c + 1 # m
  <2> SUFFICES ASSUME c + 1 = m PROVE FALSE OBVIOUS
  <2>0. 0 \in 0 .. n - 1 OBVIOUS
  <2>1. \A a \in Int : (n * a + 0) % n = 0 BY <2>0, ModUnique
  <2>2. (n * n) % n = 0
    <3>1. (n * n + 0) % n = 0 BY <1>1, <2>1
    <3> QED BY <3>1
  <2> QED BY <1>2, <1>3, <2>2
<1>5. (m * 0 + (c + 1)) % m = c + 1
  <2>1. c + 1 \in 0 .. m - 1 BY <1>1, <1>4
  <2> HIDE DEF m
  <2> QED BY <1>1, <2>1, ModUnique
<1>6. (c + 1) % m = c + 1
  <2>1. m * 0 + (c + 1) = c + 1 BY <1>1
  <2> QED BY <1>5, <2>1
<1> QED BY <1>3, <1>6 DEF r, q

LEMMA LowDown ==
    ASSUME NEW n \in Nat \ {0}, NEW c \in 0 .. n * n - 1, c % n > 0
    PROVE  /\ ((c + (n - 1)) % (n * n)) % n = (c % n) - 1
           /\ ((c + (n - 1)) % (n * n)) \div n \in {(c \div n) + 1, (c \div n) + 1 - n}
<1> DEFINE q == c \div n
           r == c % n
           m == n * n
           e == c + (n - 1)
<1>1. n \in Nat /\ m \in Nat /\ m > 0 /\ c \in Nat /\ c < m /\ n <= m
  <2>1. n * 0 + n <= n * n BY NextMultiple
  <2> QED BY <2>1
<1>2. c = n * q + r /\ r \in 0 .. n - 1 /\ q \in Int BY <1>1, DivMod
<1>3. r - 1 \in 0 .. n - 1 BY <1>2
<1>4. n * (q + 1) = n * q + n BY <1>2
<1>5. n * (q + 1 - n) = n * q + n - m BY <1>2
<1>6. n * q \in Int BY <1>2
<1>7. e \in Nat /\ e < m + m BY <1>1
<1>u. \A a \in Int, b \in 0 .. n - 1 : (n * a + b) % n = b /\ (n * a + b) \div n = a
  BY ModUnique
<1>v. \A b \in 0 .. m - 1 : b % m = b /\ (m * 1 + b) % m = b
  <2> SUFFICES ASSUME NEW b \in 0 .. m - 1 PROVE b % m = b /\ (m * 1 + b) % m = b OBVIOUS
  <2> HIDE DEF m
  <2>1. (m * 0 + b) % m = b BY <1>1, ModUnique
  <2>2. (m * 1 + b) % m = b BY <1>1, ModUnique
  <2> QED BY <1>1, <2>1, <2>2
<1> HIDE DEF q, r, m
<1>8. e = n * (q + 1) + (r - 1) BY <1>1, <1>2, <1>4, <1>6
<1>9. e - m = n * (q + 1 - n) + (r - 1) BY <1>1, <1>2, <1>5, <1>6
<1>10. CASE e < m
  <2>1. e % m = e BY <1>1, <1>7, <1>10, <1>v DEF m
  <2>2. q + 1 \in Int BY <1>2
  <2>3. (n * (q + 1) + (r - 1)) % n = r - 1 /\ (n * (q + 1) + (r - 1)) \div n = q + 1
    BY <1>3, <2>2, <1>u
  <2> QED BY <1>8, <2>1, <2>3 DEF r, q, m
<1>11. CASE e >= m
  <2>1. (m * 1 + (e - m)) % m = e - m
    <3>1. e - m \in 0 .. m - 1 BY <1>1, <1>7, <1>11
    <3> QED BY <3>1, <1>v DEF m
  <2>2. m * 1 + (e - m) = e BY <1>1, <1>7
  <2>3. q + 1 - n \in Int BY <1>1, <1>2
  <2>4. /\ (n * (q + 1 - n) + (r - 1)) % n = r - 1
        /\ (n * (q + 1 - n) + (r - 1)) \div n = q + 1 - n
    BY <1>3, <2>3, <1>u
  <2> QED BY <1>9, <2>1, <2>2, <2>4 DEF r, q, m
<1> QED BY <1>1, <1>7, <1>10, <1>11

LEMMA SmallMod ==
    ASSUME NEW m \in Nat \ {0}, NEW a \in Int, -2 * m <= a, a < 2 * m
    PROVE  a % m = IF a < -m THEN a + 2 * m ELSE IF a < 0 THEN a + m
                   ELSE IF a < m THEN a ELSE a - m
<1>1. ASSUME NEW q \in {-2, -1, 0, 1}, m * q <= a, a < m * q + m PROVE a % m = a - m * q
  <2>1. a - m * q \in 0 .. m - 1 BY <1>1
  <2>2. (m * q + (a - m * q)) % m = a - m * q BY <2>1, ModUnique
  <2>3. m * q + (a - m * q) = a BY <1>1
  <2> QED BY <2>2, <2>3
<1>2. m * (-2) = -2 * m /\ m * (-1) = -m /\ m * 0 = 0 /\ m * 1 = m OBVIOUS
<1>3. CASE a < -m BY <1>1, <1>2, <1>3
<1>4. CASE -m <= a /\ a < 0 BY <1>1, <1>2, <1>4
<1>5. CASE 0 <= a /\ a < m BY <1>1, <1>2, <1>5
<1>6. CASE m <= a BY <1>1, <1>2, <1>6
<1> QED BY <1>3, <1>4, <1>5, <1>6

LEMMA NearMod ==
    ASSUME NEW m \in Nat \ {0}, NEW a \in Int
    PROVE  /\ -m <= a /\ a < m => a % m = IF a < 0 THEN a + m ELSE a
           /\ 0 <= a /\ a <= m => a % m = IF a < m THEN a ELSE a - m
<1>1. -2 * m <= -m /\ m < 2 * m /\ -m \in Int /\ -2 * m \in Int OBVIOUS
<1>2. ASSUME -m <= a, a < m PROVE a % m = IF a < 0 THEN a + m ELSE a
  <2>1. -2 * m <= a /\ a < 2 * m /\ ~(a < -m) BY <1>1, <1>2
  <2> QED BY <1>2, <2>1, SmallMod
<1>3. ASSUME 0 <= a, a <= m PROVE a % m = IF a < m THEN a ELSE a - m
  <2>1. -2 * m <= a /\ a < 2 * m /\ ~(a < -m) /\ ~(a < 0) BY <1>1, <1>3
  <2> QED BY <1>3, <2>1, SmallMod
<1> QED BY <1>2, <1>3

(* A deadline that has passed, by less than the lag, has passed one jiffy  *)
(* later too, though jiffies wraps.                                        *)
LEMMA StillPassed ==
    ASSUME NEW j \in Jiffies, NEW e \in Jiffies, Delays # {},
           time_after_eq(j, e), ~time_after_eq(j, e + MaxLag)
    PROVE  time_after_eq((j + 1) % JiffyMod, e)
<1> DEFINE m == JiffyMod
           k == (j + 1) % m
<1>1. /\ m \in Nat \ {0} /\ MaxLag \in Nat /\ 2 * (1 + MaxLag) < m
      /\ j \in 0 .. m - 1 /\ e \in 0 .. m - 1
  <2>1. PICK d \in Delays : 2 * (d + 1 + MaxLag) < m BY TimeAssumption
  <2>2. d \in Nat /\ MaxLag \in Nat /\ m \in Nat \ {0, 1} BY TimeAssumption
  <2>3. 2 * (1 + MaxLag) < m BY <2>1, <2>2
  <2> QED BY <2>2, <2>3 DEF Jiffies
<1>2. 2 * ((j - e) % m) < m /\ ~(2 * ((j - (e + MaxLag)) % m) < m) BY DEF time_after_eq
<1> HIDE DEF m, k
<1>3. (j - e) % m = IF j < e THEN j - e + m ELSE j - e
  <2> DEFINE a == j - e
  <2>1. a \in Int /\ -m <= a /\ a < m BY <1>1
  <2> HIDE DEF a
  <2>2. a % m = IF a < 0 THEN a + m ELSE a BY <1>1, <2>1, NearMod
  <2> QED BY <1>1, <2>2 DEF a
<1>4. (j - (e + MaxLag)) % m =
         IF j - e - MaxLag < -m THEN j - e - MaxLag + 2 * m
         ELSE IF j - e - MaxLag < 0 THEN j - e - MaxLag + m ELSE j - e - MaxLag
  <2> DEFINE a == j - (e + MaxLag)
  <2>1. a \in Int /\ a = j - e - MaxLag /\ a < m /\ -2 * m <= a /\ a < 2 * m BY <1>1
  <2> HIDE DEF a
  <2>2. a % m = IF a < -m THEN a + 2 * m ELSE IF a < 0 THEN a + m ELSE a
    BY <1>1, <2>1, SmallMod
  <2>3. a % m = (j - (e + MaxLag)) % m BY DEF a
  <2> QED BY <2>1, <2>2, <2>3
<1>5. k = IF j + 1 < m THEN j + 1 ELSE j + 1 - m
  <2> DEFINE a == j + 1
  <2>1. a \in Int /\ 0 <= a /\ a <= m BY <1>1
  <2> HIDE DEF a
  <2>2. a % m = IF a < m THEN a ELSE a - m BY <1>1, <2>1, NearMod
  <2>3. a = j + 1 /\ k = a % m BY DEF a, k
  <2> QED BY <1>1, <2>1, <2>2, <2>3
<1>6. (k - e) % m = IF k < e THEN k - e + m ELSE k - e
  <2> DEFINE a == k - e
  <2>1. k \in Int BY <1>1, <1>5
  <2>2. a \in Int /\ -m <= a /\ a < m BY <1>1, <1>5
  <2> HIDE DEF a
  <2>3. a % m = IF a < 0 THEN a + m ELSE a BY <1>1, <2>2, NearMod
  <2> QED BY <1>1, <2>1, <2>3 DEF a
<1>7. 2 * ((k - e) % m) < m BY <1>1, <1>2, <1>3, <1>4, <1>5, <1>6
<1> QED BY <1>7 DEF time_after_eq, k, m

----------------------------------------------------------------------------
(* The low half of combined_event_count.                                   *)
Actives == {s \in Sources : active[s]}
CountInv == /\ comb \in 0 .. CountMod * CountMod - 1
            /\ inpr = Cardinality(Actives)

(* A source is active as long as it has a deadline and is not being        *)
(* reported to have stopped.                                               *)
DeadlineInv(s) ==
    /\ timer_expires[s] # 0 => active[s] /\ Delays # {}
    /\ timer[s] # NoTimer => timer_expires[s] = timer[s] /\ timer[s] # 0
    /\ timer_expires[s] # 0 /\ timer[s] = NoTimer /\ life[s] # "drop" =>
          fn[s] /\ time_after_eq(jiffies, timer_expires[s])
    /\ step[s] \in {"split", "wake"} => ~active[s]
TimeInv == /\ jiffies \in Jiffies
           /\ timer_expires \in [Sources -> Jiffies]
           /\ \A s \in Sources : DeadlineInv(s)

(* The counter has room for every source.                                  *)
LEMMA Room ==
    /\ CountMod \in Nat \ {0} /\ Cardinality(Sources) < CountMod
    /\ Cardinality(Actives) \in Nat /\ IsFiniteSet(Actives)
    /\ \A s \in Sources : ~active[s] => Cardinality(Actives) < Cardinality(Sources)
<1>1. CountMod \in Int BY WidthAssumption DEF CountMod
<1>2. IsFiniteSet(Sources) /\ Cardinality(Sources) <= CountMod - 1
  BY WidthAssumption DEF MAX_IN_PROGRESS
<1>3. Cardinality(Sources) \in Nat BY <1>2, FS_CardinalityType
<1>4. Actives \subseteq Sources BY DEF Actives
<1>5. IsFiniteSet(Actives) /\ Cardinality(Actives) \in Nat
  BY <1>2, <1>4, FS_Subset, FS_CardinalityType
<1>6. ASSUME NEW s \in Sources, ~active[s] PROVE Cardinality(Actives) < Cardinality(Sources)
  <2>1. Actives # Sources BY <1>6 DEF Actives
  <2>2. Cardinality(Actives) <= Cardinality(Sources)
        /\ (Cardinality(Actives) = Cardinality(Sources) => Actives = Sources)
    BY <1>2, <1>4, FS_Subset
  <2> QED BY <1>3, <1>5, <2>1, <2>2
<1> QED BY <1>1, <1>2, <1>3, <1>5, <1>6

(* wakeup_source_activate counts a source that was not active.             *)
LEMMA ReportCounts ==
    ASSUME Inv, CountInv, NEW s \in Sources, Report(s)
    PROVE  CountInv'
<1>1. CASE active[s] BY <1>1 DEF Report, CountInv, inpr, Actives
<1>2. CASE ~active[s]
  <2>1. /\ active' = [active EXCEPT ![s] = TRUE]
        /\ comb' = (comb + 1) % (CountMod * CountMod)
    BY <1>2 DEF Report, AddToCounters
  <2>2. Actives' = Actives \cup {s} /\ s \notin Actives
    BY <1>2, <2>1 DEF Inv, Shape, Actives
  <2>3. Cardinality(Actives') = Cardinality(Actives) + 1 BY <2>2, Room, FS_AddElement
  <2>4. comb % CountMod < CountMod - 1
    <3>1. Cardinality(Actives) < Cardinality(Sources) BY <1>2, Room
    <3>2. Cardinality(Sources) \in Nat BY WidthAssumption, FS_CardinalityType
    <3> QED BY <3>1, <3>2, Room DEF CountInv, inpr
  <2> DEFINE n == CountMod
  <2>5. n \in Nat \ {0} /\ comb \in 0 .. n * n - 1 BY Room DEF CountInv
  <2> HIDE DEF n
  <2>6. ((comb + 1) % (n * n)) % n = (comb % n) + 1 BY <2>4, <2>5, LowUp DEF n
  <2>7. comb' \in 0 .. n * n - 1 BY <2>1, <2>5, DivMod DEF n
  <2> QED BY <2>1, <2>3, <2>6, <2>7 DEF CountInv, inpr, n
<1> QED BY <1>1, <1>2

(* wakeup_source_deactivate uncounts one that was.                         *)
LEMMA DeactivateCounts ==
    ASSUME Inv, CountInv, NEW s \in Sources, Deactivate(s)
    PROVE  CountInv'
<1>1. active[s] /\ ahead[s] = 1 BY DEF Deactivate, Inv, Sound, Counted
<1>2. /\ active' = [active EXCEPT ![s] = FALSE]
      /\ comb' = (comb + (CountMod - 1)) % (CountMod * CountMod)
  BY <1>1 DEF Deactivate, AddToCounters, MAX_IN_PROGRESS
<1>3. Actives' = Actives \ {s} /\ s \in Actives BY <1>1, <1>2 DEF Inv, Shape, Actives
<1>4. Cardinality(Actives') = Cardinality(Actives) - 1 BY <1>3, Room, FS_RemoveElement
<1>5. comb % CountMod > 0
  <2>1. Cardinality(Actives) # 0 BY <1>3, Room, FS_EmptySet
  <2> QED BY <2>1, Room DEF CountInv, inpr
<1> DEFINE n == CountMod
<1>6. n \in Nat \ {0} /\ comb \in 0 .. n * n - 1 BY Room DEF CountInv
<1> HIDE DEF n
<1>7. ((comb + (n - 1)) % (n * n)) % n = (comb % n) - 1 BY <1>5, <1>6, LowDown DEF n
<1>8. comb' \in 0 .. n * n - 1 BY <1>2, <1>6, DivMod DEF n
<1> QED BY <1>2, <1>4, <1>7, <1>8 DEF CountInv, inpr, n

----------------------------------------------------------------------------
SameTime(u) == UNCHANGED <<life[u], active[u], timer[u], timer_expires[u], fn[u], step[u]>>

LEMMA TimeElsewhere ==
    ASSUME TimeInv, NEW s \in Sources, UNCHANGED jiffies,
           timer_expires' \in [Sources -> Jiffies],
           \A u \in Sources \ {s} : SameTime(u),
           DeadlineInv(s)'
    PROVE  TimeInv'
<1>1. ASSUME NEW u \in Sources, u # s PROVE DeadlineInv(u)'
  BY <1>1 DEF TimeInv, DeadlineInv, SameTime
<1> QED BY <1>1 DEF TimeInv

LEMMA DeadlineGiven ==
    ASSUME NEW j \in Jiffies, NEW delay \in Delays
    PROVE  LET at == (j + delay) % JiffyMod
           IN  (IF at = 0 THEN 1 ELSE at) \in Jiffies \ {0, NoTimer}
<1>1. JiffyMod \in Nat \ {0} /\ JiffyMod > 1 BY TimeAssumption
<1>2. j \in Int /\ delay \in Int BY <1>1, TimeAssumption DEF Jiffies
<1>3. j + delay \in Int BY <1>2
<1>4. (j + delay) % JiffyMod \in 0 .. JiffyMod - 1 BY <1>1, <1>3, DivMod
<1> QED BY <1>1, <1>4 DEF Jiffies, NoTimer

(* What a device does with its source.                                     *)
LEMMA DeviceAccounts ==
    ASSUME Inv, CountInv, TimeInv, NEW d \in Devices, DeviceStep(d)
    PROVE  CountInv' /\ TimeInv'
<1>0. jiffies \in Jiffies /\ timer_expires \in [Sources -> Jiffies] BY DEF TimeInv
<1>1. CASE pm_stay_awake(d)
  <2> PICK s \in Sources : pm_stay_awake(d)!(s)  BY <1>1 DEF pm_stay_awake
  <2>1. active' = [active EXCEPT ![s] = TRUE] BY Reported
  <2>2. timer_expires' \in [Sources -> Jiffies]
    <3>1. 0 \in Jiffies BY TimeAssumption DEF Jiffies
    <3> QED BY <1>0, <3>1
  <2>3. DeadlineInv(s)'
    BY <1>0, <2>1 DEF Using, TimeInv, DeadlineInv, Inv, Shape, Locked
  <2>4. \A u \in Sources \ {s} : SameTime(u) BY <1>0, <2>1 DEF SameTime, Inv, Shape
  <2> QED BY <2>2, <2>3, <2>4, ReportCounts, TimeElsewhere
<1>2. CASE pm_relax(d)
  <2> PICK s \in Sources : pm_relax(d)!(s)  BY <1>2 DEF pm_relax
  <2>1. DeadlineInv(s)' BY DEF Using, TimeInv, DeadlineInv, Inv, Shape
  <2>2. \A u \in Sources \ {s} : SameTime(u) BY DEF SameTime, Inv, Shape
  <2>3. TimeInv' BY <1>0, <2>1, <2>2, TimeElsewhere
  <2> QED BY <2>3 DEF CountInv, inpr, Actives
<1>3. ASSUME NEW delay \in Delays, pm_wakeup_event(d, delay)
      PROVE  CountInv' /\ TimeInv'
  <2> PICK s \in Sources : pm_wakeup_event(d, delay)!(s)  BY <1>3 DEF pm_wakeup_event
  <2>1. active' = [active EXCEPT ![s] = TRUE] BY Reported
  <2>2. ~Locked(s) BY Used
  <2>3. Expires(delay) \in Jiffies \ {0, NoTimer} BY <1>0, DeadlineGiven DEF Expires
  <2>4. timer_expires' \in [Sources -> Jiffies] BY <1>0, <2>3
  <2>5. DeadlineInv(s)'
    <3>1. CASE /\ timer' = [timer EXCEPT ![s] = Expires(delay)]
               /\ timer_expires' = [timer_expires EXCEPT ![s] = Expires(delay)]
               /\ UNCHANGED step
      BY <1>0, <2>1, <2>2, <2>3, <3>1 DEF DeadlineInv, Inv, Shape, Locked
    <3>2. CASE /\ UNCHANGED <<timer, timer_expires>>
               /\ step' = step \/ step' = [step EXCEPT ![s] = "deactivate"]
      BY <1>0, <2>1, <2>2, <3>2 DEF TimeInv, DeadlineInv, Inv, Shape, Locked
    <3> QED BY <3>1, <3>2
  <2>6. \A u \in Sources \ {s} : SameTime(u) BY <1>0, <2>1 DEF SameTime, Inv, Shape
  <2> QED BY <2>4, <2>5, <2>6, ReportCounts, TimeElsewhere
<1> QED  BY <1>1, <1>2, <1>3 DEF DeviceStep

(* Relaxation ends the deadline with the event.                            *)
LEMMA RelaxingAccounts ==
    ASSUME Inv, CountInv, TimeInv, NEW s \in Sources, Relaxing(s)
    PROVE  CountInv' /\ TimeInv'
<1>0. jiffies \in Jiffies /\ timer_expires \in [Sources -> Jiffies] BY DEF TimeInv
<1>1. CASE Deactivate(s)
  <2>1. ahead[s] = 1 BY <1>1 DEF Deactivate, Inv, Sound, Counted
  <2>2. /\ active' = [active EXCEPT ![s] = FALSE]
        /\ timer' = [timer EXCEPT ![s] = NoTimer]
        /\ timer_expires' = [timer_expires EXCEPT ![s] = 0]
        /\ step' = [step EXCEPT ![s] = "split"]
        /\ UNCHANGED <<jiffies, life, fn>>
    BY <1>1, <2>1 DEF Deactivate
  <2>3. timer_expires' \in [Sources -> Jiffies]
    <3>1. 0 \in Jiffies BY TimeAssumption DEF Jiffies
    <3> QED BY <1>0, <2>2, <3>1
  <2>4. DeadlineInv(s)' BY <1>0, <2>2 DEF DeadlineInv, Inv, Shape
  <2>5. \A u \in Sources \ {s} : SameTime(u) BY <1>0, <2>2 DEF SameTime, Inv, Shape
  <2> QED BY <1>1, <2>2, <2>3, <2>4, <2>5, DeactivateCounts, TimeElsewhere
<1>2. ASSUME step[s] \in {"split", "wake"}, Finish(s),
             UNCHANGED <<comb, jiffies, active, timer, timer_expires>>
      PROVE  CountInv' /\ TimeInv'
  <2>1. timer_expires[s] = 0 /\ timer[s] = NoTimer BY <1>2 DEF TimeInv, DeadlineInv
  <2>2. DeadlineInv(s)' BY <1>2, <2>1 DEF Finish, DeadlineInv, Inv, Shape
  <2>3. \A u \in Sources \ {s} : SameTime(u) BY <1>2 DEF Finish, SameTime, Inv, Shape
  <2>4. TimeInv' BY <1>0, <1>2, <2>2, <2>3, TimeElsewhere
  <2> QED BY <1>2, <2>4 DEF CountInv, inpr, Actives
<1>3. CASE SplitCounters(s)
  <2>1. CASE Finish(s) BY <1>2, <1>3, <2>1 DEF SplitCounters
  <2>2. CASE step' = [step EXCEPT ![s] = "wake"] /\ UNCHANGED <<fn, life, by>>
    <3>1. DeadlineInv(s)'
      BY <1>3, <2>2 DEF SplitCounters, TimeInv, DeadlineInv, Inv, Shape
    <3>2. \A u \in Sources \ {s} : SameTime(u)
      BY <1>3, <2>2 DEF SplitCounters, SameTime, Inv, Shape
    <3>3. TimeInv' BY <1>0, <1>3, <3>1, <3>2, TimeElsewhere DEF SplitCounters
    <3> QED BY <1>3, <3>3 DEF SplitCounters, CountInv, inpr, Actives
  <2> QED BY <1>3, <2>1, <2>2 DEF SplitCounters
<1>4. CASE WakeReaders(s) BY <1>2, <1>4 DEF WakeReaders
<1> QED BY <1>1, <1>3, <1>4 DEF Relaxing

(* The timer and its function, which sees the deadline passed; a drop.     *)
LEMMA TimerAccounts ==
    ASSUME Inv, TimeInv, NEW s \in Sources,
           Fire(s) \/ pm_wakeup_timer_fn(s) \/ DelTimerSync(s) \/ DropRelax(s)
    PROVE  TimeInv'
<1>0. jiffies \in Jiffies /\ timer_expires \in [Sources -> Jiffies] /\ DeadlineInv(s)
  BY DEF TimeInv
<1>1. UNCHANGED <<jiffies, timer_expires, active>>
  BY DEF Fire, pm_wakeup_timer_fn, DelTimerSync, DropRelax
<1>2. \A u \in Sources \ {s} : SameTime(u)
  BY DEF Fire, pm_wakeup_timer_fn, DelTimerSync, DropRelax, SameTime, Inv, Shape
<1>3. DeadlineInv(s)'
  <2>1. CASE Fire(s) BY <1>0, <2>1 DEF Fire, DeadlineInv, Inv, Shape
  <2>2. CASE pm_wakeup_timer_fn(s)
    BY <1>0, <2>2 DEF pm_wakeup_timer_fn, DeadlineInv, Inv, Shape
  <2>3. CASE DelTimerSync(s) BY <1>0, <2>3 DEF DelTimerSync, DeadlineInv, Inv, Shape
  <2>4. CASE DropRelax(s) BY <1>0, <2>4 DEF DropRelax, DeadlineInv, Inv, Shape
  <2> QED BY <2>1, <2>2, <2>3, <2>4
<1> QED BY <1>0, <1>1, <1>2, <1>3, TimeElsewhere

LEMMA CreationAccounts ==
    ASSUME Inv, CountInv, TimeInv,
           \/ \E d \in Devices : wakeup_source_register(d) \/ device_wakeup_detach(d)
           \/ \E s \in Sources : device_wakeup_attach(s)
    PROVE  CountInv' /\ TimeInv'
<1>0. jiffies \in Jiffies /\ timer_expires \in [Sources -> Jiffies] BY DEF TimeInv
<1>1. ASSUME NEW d \in Devices, wakeup_source_register(d) PROVE CountInv' /\ TimeInv'
  <2> PICK s \in Sources : wakeup_source_register(d)!(s)  BY <1>1 DEF wakeup_source_register
  <2>1. UNCHANGED active BY DEF Inv, Shape, Sound, Fresh
  <2>2. timer_expires' \in [Sources -> Jiffies]
    <3>1. 0 \in Jiffies BY TimeAssumption DEF Jiffies
    <3> QED BY <1>0, <3>1
  <2>3. DeadlineInv(s)' BY <1>0 DEF TimeInv, DeadlineInv, Inv, Shape
  <2>4. \A u \in Sources \ {s} : SameTime(u) BY <1>0 DEF SameTime, Inv, Shape
  <2>5. TimeInv' BY <2>2, <2>3, <2>4, TimeElsewhere
  <2> QED BY <2>1, <2>5 DEF CountInv, inpr, Actives
<1>2. ASSUME NEW s \in Sources, life[s] # "drop", life' = [life EXCEPT ![s] = life'[s]],
             UNCHANGED <<comb, jiffies, active, timer, timer_expires, fn, step>>
      PROVE  CountInv' /\ TimeInv'
  <2>1. DeadlineInv(s)' BY <1>2 DEF TimeInv, DeadlineInv
  <2>2. \A u \in Sources \ {s} : SameTime(u) BY <1>2 DEF SameTime, Inv, Shape
  <2>3. TimeInv' BY <1>0, <1>2, <2>1, <2>2, TimeElsewhere
  <2> QED BY <1>2, <2>3 DEF CountInv, inpr, Actives
<1>3. ASSUME NEW d \in Devices, device_wakeup_detach(d) PROVE CountInv' /\ TimeInv'
  <2>1. wakeup[d] \in Sources /\ life[wakeup[d]] = "attached"
    BY <1>3, DeviceSource DEF device_wakeup_detach
  <2> QED BY <1>2, <1>3, <2>1 DEF device_wakeup_detach, Inv, Shape
<1>4. ASSUME NEW s \in Sources, device_wakeup_attach(s) PROVE CountInv' /\ TimeInv'
  BY <1>2, <1>4 DEF device_wakeup_attach, Inv, Shape
<1> QED BY <1>1, <1>3, <1>4

LEMMA TickAccounts ==
    ASSUME Inv, CountInv, TimeInv, Tick
    PROVE  CountInv' /\ TimeInv'
<1>0. jiffies \in Jiffies /\ timer_expires \in [Sources -> Jiffies] BY DEF TimeInv
<1>1. UNCHANGED <<comb, life, active, timer, timer_expires, fn, step>> BY DEF Tick, source
<1>2. jiffies' \in Jiffies
  <2>1. JiffyMod \in Nat \ {0} /\ jiffies + 1 \in Int BY <1>0, TimeAssumption DEF Jiffies
  <2>2. (jiffies + 1) % JiffyMod \in 0 .. JiffyMod - 1 BY <2>1, DivMod
  <2> QED BY <2>2 DEF Tick, Jiffies
<1>3. ASSUME NEW s \in Sources PROVE DeadlineInv(s)'
  <2>1. DeadlineInv(s) BY DEF TimeInv
  <2>2. ASSUME timer_expires[s] # 0, time_after_eq(jiffies, timer_expires[s])
        PROVE  time_after_eq(jiffies', timer_expires[s])
    <3>1. Delays # {} /\ timer_expires[s] \in Jiffies BY <1>0, <2>1, <2>2 DEF DeadlineInv
    <3>2. ~time_after_eq(jiffies, timer_expires[s] + MaxLag) BY <2>2 DEF Tick
    <3>3. jiffies' = (jiffies + 1) % JiffyMod BY DEF Tick
    <3> QED BY <1>0, <2>2, <3>1, <3>2, <3>3, StillPassed
  <2> QED BY <1>1, <2>1, <2>2 DEF DeadlineInv
<1> QED BY <1>0, <1>1, <1>2, <1>3 DEF TimeInv, CountInv, inpr, Actives

LEMMA AccountsInit == Init => CountInv /\ TimeInv
<1> SUFFICES ASSUME Init PROVE CountInv /\ TimeInv OBVIOUS
<1>1. CountInv
  <2>1. comb = 0 /\ Actives = {} BY DEF Init, Actives
  <2>2. CountMod \in Nat \ {0} BY Room
  <2> DEFINE n == CountMod
  <2>3. (n * 0 + 0) % n = 0
    <3> HIDE DEF n
    <3>1. n \in Nat \ {0} /\ 0 \in 0 .. n - 1 BY <2>2 DEF n
    <3> QED BY <3>1, ModUnique
  <2>4. 0 % n = 0 BY <2>2, <2>3
  <2>5. 0 \in 0 .. n * n - 1
    <3> HIDE DEF n
    <3>1. n \in Nat \ {0} BY <2>2 DEF n
    <3>2. n * 0 + n <= n * n BY <3>1, NextMultiple
    <3> QED BY <3>1, <3>2
  <2> QED BY <2>1, <2>4, <2>5, FS_EmptySet DEF CountInv, inpr
<1>2. TimeInv
  <2>1. 0 \in Jiffies BY TimeAssumption DEF Jiffies
  <2>2. jiffies \in Jiffies BY TimeAssumption DEF Init, Jiffies
  <2> QED BY <2>1, <2>2 DEF Init, TimeInv, DeadlineInv
<1> QED BY <1>1, <1>2

LEMMA AccountsNext == Inv /\ CountInv /\ TimeInv /\ [Next]_vars => CountInv' /\ TimeInv'
<1> SUFFICES ASSUME Inv, CountInv, TimeInv, [Next]_vars PROVE CountInv' /\ TimeInv' OBVIOUS
<1>1. ASSUME UNCHANGED <<comb, jiffies, source>> PROVE CountInv' /\ TimeInv'
  BY <1>1 DEF CountInv, inpr, Actives, TimeInv, DeadlineInv, source
<1>2. ASSUME NEW p \in Readers, GetWakeupCount(p) \/ Waiting(p) \/ Signal(p)
      PROVE  CountInv' /\ TimeInv'
  BY <1>1, <1>2 DEF GetWakeupCount, Waiting, Signal, Check, Schedule, ReturnCount
<1>3. ASSUME NEW p \in Savers, Suspending(p) PROVE CountInv' /\ TimeInv'
  BY <1>1, <1>3 DEF Suspending, DisableCheck, SaveCount, ReturnSaved, SuspendFails,
                    suspend_enter, Resume
<1>4. ASSUME NEW s \in Sources,
             Fire(s) \/ pm_wakeup_timer_fn(s) \/ DelTimerSync(s) \/ DropRelax(s)
      PROVE  CountInv' /\ TimeInv'
  <2>1. UNCHANGED <<comb, active>> BY <1>4 DEF Fire, pm_wakeup_timer_fn, DelTimerSync, DropRelax
  <2> QED BY <1>4, <2>1, TimerAccounts DEF CountInv, inpr, Actives
<1>5. CASE UNCHANGED vars BY <1>1, <1>5 DEF vars, source
<1> QED BY <1>2, <1>3, <1>4, <1>5, TickAccounts, DeviceAccounts, RelaxingAccounts,
           CreationAccounts DEF Next

(* wakeup.c: the events in progress that the suspend code reads off one    *)
(* half of the atomic word are the active sources, and every deadline of   *)
(* an active source has a timer, or a timer function under way, that will  *)
(* see to it, though jiffies wraps and the three callers of a relaxation   *)
(* race with new events and with the destruction of the source.            *)
THEOREM EventsAreAccounted == Spec => []ActiveIsAccounted
<1>1. ASSUME Inv, CountInv, TimeInv PROVE ActiveIsAccounted
  <2>1. CountersAreTrue BY <1>1 DEF CountersAreTrue, CountInv, Actives, Inv, Sound, Counted
  <2>2. DeadlineIsArmed BY <1>1 DEF DeadlineIsArmed, TimeInv, DeadlineInv
  <2> QED BY <2>1, <2>2 DEF ActiveIsAccounted
<1>2. Spec => [](CountInv /\ TimeInv)
  <2>1. Spec => []Inv BY Invariance
  <2> QED BY <2>1, AccountsInit, AccountsNext, PTL DEF Spec
<1> QED BY <1>1, <1>2, Invariance, PTL
----------------------------------------------------------------------------
(* One process at a time goes from a count to a suspend.                   *)
OneSaver == \A p, q \in Savers : p = q

(* The events registered and in progress are those of the count a saver    *)
(* was given and those since, but for what a carry out of the high half    *)
(* of the word has lost.                                                   *)
Told(p) == \E k \in Int : count[p] + missed[p] = cnt + inpr + CountMod * k

(* What a saver may rely on at each step of the handshake.                 *)
NoticeInv(p) == /\ pc[p] \in Working => Told(p)
                /\ pc[p] = "save" => ~events_check_enabled
                /\ pc[p] = "saved" /\ events_check_enabled => saved_count = count[p]
                /\ pc[p] = "suspend" => events_check_enabled /\ saved_count = count[p]

Places == {"idle", "check", "schedule", "count", "asleep"} \cup Working
ReaderShape == /\ pc \in [Readers -> Places]
               /\ count \in [Readers -> Int] /\ missed \in [Savers -> Int]

Handshake == ReaderShape /\ \A p \in Savers : NoticeInv(p)

LEMMA Halves ==
    ASSUME CountInv
    PROVE  cnt \in Int /\ inpr \in 0 .. CountMod - 1 /\ CountMod \in Nat \ {0}
<1> DEFINE n == CountMod
<1>1. n \in Nat \ {0} /\ comb \in 0 .. n * n - 1 BY Room DEF CountInv
<1> HIDE DEF n
<1>2. comb \in Int BY <1>1
<1>3. comb \div n \in Int /\ comb % n \in 0 .. n - 1 BY <1>1, <1>2, DivMod
<1> QED BY <1>1, <1>3 DEF cnt, inpr, n

(* An activation is one more of both.                                      *)
LEMMA ReportIsTold ==
    ASSUME Inv, CountInv, Handshake, NEW s \in Sources, Report(s), UNCHANGED reader
    PROVE  Handshake'
<1>0. UNCHANGED <<pc, count, events_check_enabled, saved_count>> BY DEF reader
<1>1. CASE active[s]
  BY <1>0, <1>1 DEF Report, Handshake, ReaderShape, NoticeInv, Told, cnt, inpr
<1>2. CASE ~active[s]
  <2>1. /\ comb' = (comb + 1) % (CountMod * CountMod)
        /\ missed' = [p \in Savers |-> IF pc[p] \in Working THEN missed[p] + 1 ELSE 0]
    BY <1>2 DEF Report, AddToCounters
  <2>2. cnt' = cnt /\ inpr' = inpr + 1
    <3>1. comb % CountMod < CountMod - 1
      <4>1. Cardinality(Actives) < Cardinality(Sources) BY <1>2, Room
      <4>2. Cardinality(Sources) \in Nat BY WidthAssumption, FS_CardinalityType
      <4> QED BY <4>1, <4>2, Room DEF CountInv, inpr
    <3> DEFINE n == CountMod
    <3>2. n \in Nat \ {0} /\ comb \in 0 .. n * n - 1 BY Room DEF CountInv
    <3> HIDE DEF n
    <3>3. /\ ((comb + 1) % (n * n)) % n = (comb % n) + 1
          /\ ((comb + 1) % (n * n)) \div n = comb \div n
      BY <3>1, <3>2, LowUp DEF n
    <3> QED BY <2>1, <3>3 DEF cnt, inpr, n
  <2>3. ReaderShape' BY <1>0, <2>1 DEF Handshake, ReaderShape
  <2>4. ASSUME NEW p \in Savers PROVE NoticeInv(p)'
    <3>1. NoticeInv(p) BY DEF Handshake
    <3>2. ASSUME pc[p] \in Working, Told(p) PROVE Told(p)'
      <4>1. PICK k \in Int : count[p] + missed[p] = cnt + inpr + CountMod * k BY <3>2 DEF Told
      <4>2. missed'[p] = missed[p] + 1 BY <2>1, <3>2
      <4>3. count[p] \in Int /\ missed[p] \in Int BY DEF Handshake, ReaderShape
      <4> DEFINE z == CountMod * k
      <4>4. z \in Int /\ cnt \in Int /\ inpr \in Int BY Halves
      <4>5. count[p] + missed[p] = cnt + inpr + z BY <4>1
      <4> HIDE DEF z
      <4>6. count[p] + missed'[p] = cnt + (inpr + 1) + z BY <4>2, <4>3, <4>4, <4>5
      <4> QED BY <1>0, <2>2, <4>6 DEF Told, z
    <3> QED BY <1>0, <3>1, <3>2 DEF NoticeInv
  <2> QED BY <2>3, <2>4 DEF Handshake
<1> QED BY <1>1, <1>2

(* A relaxation moves one event from the low half to the high half.        *)
LEMMA DeactivateIsTold ==
    ASSUME Inv, CountInv, Handshake, NEW s \in Sources, Deactivate(s)
    PROVE  Handshake'
<1>0. UNCHANGED <<pc, count, events_check_enabled, saved_count, missed>>
  BY DEF reader, Deactivate
<1>1. active[s] /\ ahead[s] = 1 BY DEF Deactivate, Inv, Sound, Counted
<1>2. comb' = (comb + (CountMod - 1)) % (CountMod * CountMod)
  BY <1>1 DEF Deactivate, AddToCounters, MAX_IN_PROGRESS
<1>3. inpr' = inpr - 1 /\ cnt' \in {cnt + 1, cnt + 1 - CountMod}
  <2>1. comb % CountMod > 0
    <3>1. s \in Actives BY <1>1 DEF Actives
    <3>2. Cardinality(Actives) # 0 BY <3>1, Room, FS_EmptySet
    <3> QED BY <3>2, Room DEF CountInv, inpr
  <2> DEFINE n == CountMod
  <2>2. n \in Nat \ {0} /\ comb \in 0 .. n * n - 1 BY Room DEF CountInv
  <2> HIDE DEF n
  <2>3. /\ ((comb + (n - 1)) % (n * n)) % n = (comb % n) - 1
        /\ ((comb + (n - 1)) % (n * n)) \div n \in {(comb \div n) + 1, (comb \div n) + 1 - n}
    BY <2>1, <2>2, LowDown DEF n
  <2> QED BY <1>2, <2>3 DEF cnt, inpr, n
<1>4. ASSUME NEW p \in Savers, Told(p) PROVE Told(p)'
  <2>1. PICK k \in Int : count[p] + missed[p] = cnt + inpr + CountMod * k BY <1>4 DEF Told
  <2>2. count[p] \in Int /\ missed[p] \in Int BY DEF Handshake, ReaderShape
  <2>3. CountMod \in Int /\ cnt \in Int /\ inpr \in Int BY Halves
  <2>4. CASE cnt' = cnt + 1
    <3> DEFINE z == CountMod * k
    <3>1. z \in Int BY <2>3
    <3>2. count[p] + missed[p] = cnt + inpr + z BY <2>1
    <3> HIDE DEF z
    <3>3. count[p] + missed[p] = (cnt + 1) + (inpr - 1) + z BY <2>3, <3>1, <3>2
    <3> QED BY <1>0, <1>3, <2>4, <3>3 DEF Told, z
  <2>5. CASE cnt' = cnt + 1 - CountMod
    <3> DEFINE z == CountMod * k
               y == CountMod * (k + 1)
    <3>1. z \in Int /\ y = z + CountMod BY <2>3
    <3>2. count[p] + missed[p] = cnt + inpr + z BY <2>1
    <3> HIDE DEF z, y
    <3>3. count[p] + missed[p] = (cnt + 1 - CountMod) + (inpr - 1) + y BY <2>3, <3>1, <3>2
    <3>4. k + 1 \in Int OBVIOUS
    <3>5. UNCHANGED CountMod BY DEF CountMod
    <3> QED BY <1>0, <1>3, <2>5, <3>3, <3>4, <3>5 DEF Told, y
  <2> QED BY <1>3, <2>4, <2>5
<1> QED BY <1>0, <1>4 DEF Handshake, ReaderShape, NoticeInv

(* A reader is given the count; of a saver nothing is in progress then.    *)
LEMMA WaitingIsTold ==
    ASSUME CountInv, Handshake, NEW r \in Readers,
           GetWakeupCount(r) \/ Waiting(r) \/ Signal(r)
    PROVE  Handshake'
<1>0. UNCHANGED <<comb, events_check_enabled, saved_count>>
  BY DEF GetWakeupCount, Waiting, Signal, Check, Schedule, ReturnCount
<1>1. CASE ReturnCount(r)
  <2>1. /\ count' = [count EXCEPT ![r] = cnt]
        /\ pc' = [pc EXCEPT ![r] = IF inpr = 0 /\ r \in Savers THEN "got" ELSE "idle"]
        /\ missed' = [q \in Savers |-> IF q = r THEN 0 ELSE missed[q]]
    BY <1>1 DEF ReturnCount, Goto
  <2>2. cnt \in Int /\ inpr \in Int /\ CountMod \in Int BY Halves
  <2>3. ReaderShape' BY <2>1, <2>2 DEF Handshake, ReaderShape, Working, Places
  <2>4. ASSUME NEW p \in Savers PROVE NoticeInv(p)'
    <3>1. CASE p = r
      <4>1. count'[p] = cnt /\ missed'[p] = 0 BY <2>1, <3>1 DEF Handshake, ReaderShape
      <4>2. ASSUME inpr = 0 PROVE Told(p)'
        <5>1. CountMod * 0 = 0 BY <2>2
        <5>2. count'[p] + missed'[p] = cnt + inpr + CountMod * 0 BY <2>2, <4>1, <4>2, <5>1
        <5>3. UNCHANGED <<cnt, inpr, CountMod>> BY <1>0 DEF cnt, inpr
        <5> QED BY <5>2, <5>3 DEF Told
      <4>3. pc'[p] \in {"got", "idle"} /\ (pc'[p] = "got" => inpr = 0)
        BY <2>1, <3>1 DEF Handshake, ReaderShape
      <4> QED BY <4>2, <4>3 DEF NoticeInv, Working, Places
    <3>2. CASE p # r
      BY <1>0, <2>1, <3>2 DEF Handshake, ReaderShape, NoticeInv, Told, cnt, inpr
    <3> QED BY <3>1, <3>2
  <2> QED BY <2>3, <2>4 DEF Handshake
<1>2. CASE GetWakeupCount(r) \/ Check(r) \/ Schedule(r) \/ Signal(r)
  <2>1. UNCHANGED <<count, missed>> /\ pc' \in {[pc EXCEPT ![r] = "check"],
          [pc EXCEPT ![r] = "count"], [pc EXCEPT ![r] = "schedule"]}
    BY <1>2 DEF GetWakeupCount, Check, Schedule, Signal, Goto
  <2>2. ReaderShape' BY <2>1 DEF Handshake, ReaderShape, Places
  <2>3. ASSUME NEW p \in Savers PROVE NoticeInv(p)'
    <3>1. NoticeInv(p) BY DEF Handshake
    <3>2. pc'[p] = pc[p] \/ pc'[p] \notin Working
      BY <2>1 DEF Handshake, ReaderShape, Working, Places
    <3>3. Told(p)' <=> Told(p) BY <1>0, <2>1 DEF Told, cnt, inpr
    <3> QED BY <1>0, <2>1, <3>1, <3>2, <3>3 DEF NoticeInv, Working, Places
  <2> QED BY <2>2, <2>3 DEF Handshake
<1> QED BY <1>1, <1>2 DEF Waiting

(* The one saver's own steps.                                              *)
LEMMA SuspendingIsTold ==
    ASSUME OneSaver, CountInv, Handshake, NEW p \in Savers, Suspending(p)
    PROVE  Handshake'
<1>0. UNCHANGED <<comb, count, missed>>
  BY DEF Suspending, DisableCheck, SaveCount, ReturnSaved, SuspendFails, suspend_enter, Resume
<1>1. \E place \in {"idle", "asleep"} \cup Working : pc' = [pc EXCEPT ![p] = place]
  BY DEF Suspending, DisableCheck, SaveCount, ReturnSaved, SuspendFails, suspend_enter, Resume,
         Goto, Working, Places
<1>2. ReaderShape' BY <1>0, <1>1 DEF Handshake, ReaderShape, Places
<1>3. NoticeInv(p) /\ (Told(p)' <=> Told(p)) BY <1>0 DEF Handshake, Told, cnt, inpr
<1>4. p \in Readers /\ pc \in [Readers -> Places]
  BY DEF Handshake, ReaderShape
<1>5. NoticeInv(p)'
  <2>1. CASE DisableCheck(p)
    BY <1>0, <1>3, <1>4, <2>1 DEF DisableCheck, Goto, NoticeInv, Working, Places
  <2>2. CASE SaveCount(p)
    BY <1>0, <1>3, <1>4, <2>2 DEF SaveCount, Goto, NoticeInv, Working, Places
  <2>3. CASE ReturnSaved(p)
    BY <1>0, <1>3, <1>4, <2>3 DEF ReturnSaved, Goto, NoticeInv, Working, Places
  <2>4. CASE SuspendFails(p)
    BY <1>0, <1>3, <1>4, <2>4 DEF SuspendFails, Goto, NoticeInv, Working, Places
  <2>5. CASE suspend_enter(p)
    BY <1>0, <1>3, <1>4, <2>5 DEF suspend_enter, Goto, NoticeInv, Working, Places
  <2>6. CASE Resume(p)
    BY <1>0, <1>3, <1>4, <2>6 DEF Resume, Goto, NoticeInv, Working, Places
  <2> QED BY <2>1, <2>2, <2>3, <2>4, <2>5, <2>6 DEF Suspending
<1> QED BY <1>2, <1>5 DEF Handshake, OneSaver

LEMMA HandshakeNext ==
    ASSUME OneSaver, Inv, CountInv, Handshake, [Next]_vars
    PROVE  Handshake'
<1>1. ASSUME UNCHANGED <<comb, reader, missed>> PROVE Handshake'
  BY <1>1 DEF reader, Handshake, ReaderShape, NoticeInv, Told, cnt, inpr
<1>2. ASSUME NEW d \in Devices, DeviceStep(d) PROVE Handshake'
  <2>1. CASE pm_stay_awake(d)
    <3> PICK s \in Sources : pm_stay_awake(d)!(s) BY <2>1 DEF pm_stay_awake
    <3> QED BY ReportIsTold
  <2>2. CASE pm_relax(d) BY <1>1, <2>2 DEF pm_relax
  <2>3. ASSUME NEW delay \in Delays, pm_wakeup_event(d, delay) PROVE Handshake'
    <3> PICK s \in Sources : pm_wakeup_event(d, delay)!(s) BY <2>3 DEF pm_wakeup_event
    <3> QED BY ReportIsTold
  <2> QED BY <1>2, <2>1, <2>2, <2>3 DEF DeviceStep
<1>3. ASSUME NEW d \in Devices, wakeup_source_register(d) \/ device_wakeup_detach(d)
      PROVE  Handshake'
  BY <1>1, <1>3 DEF wakeup_source_register, device_wakeup_detach
<1>4. ASSUME NEW s \in Sources, Relaxing(s) PROVE Handshake'
  BY <1>1, <1>4, DeactivateIsTold DEF Relaxing, SplitCounters, WakeReaders, reader,
     Handshake, ReaderShape, NoticeInv, Told, cnt, inpr
<1>5. ASSUME NEW s \in Sources, \/ Fire(s) \/ pm_wakeup_timer_fn(s) \/ device_wakeup_attach(s)
                                \/ DelTimerSync(s) \/ DropRelax(s)
      PROVE  Handshake'
  BY <1>1, <1>5 DEF Fire, pm_wakeup_timer_fn, device_wakeup_attach, DelTimerSync, DropRelax
<1>6. CASE Tick BY <1>1, <1>6 DEF Tick
<1>7. CASE UNCHANGED vars BY <1>1, <1>7 DEF vars, reader
<1> QED BY <1>2, <1>3, <1>4, <1>5, <1>6, <1>7, WaitingIsTold, SuspendingIsTold DEF Next

LEMMA HandshakeInit == Init => Handshake
BY DEF Init, Handshake, ReaderShape, NoticeInv, Working, Places

(* suspend_enter and pm_wakeup_pending: the system goes to sleep only if   *)
(* no source is active and none was activated since the saver was given    *)
(* its count, but for a multiple of CountMod events, which the counter     *)
(* cannot tell from none.  One saver at a time: a second one's             *)
(* pm_save_wakeup_count disables the check that the first relies on.       *)
THEOREM NoEventIsLost == ASSUME OneSaver PROVE Spec => NoEventGoesUnnoticed
<1>1. ASSUME CountInv, Handshake, [Next]_vars, NEW p \in Savers,
             pc[p] # "asleep", pc'[p] = "asleep"
      PROVE  (\A s \in Sources : ~active[s]) /\ missed[p] % CountMod = 0
  <2>0. pc \in [Readers -> Places]
    BY <1>1 DEF Handshake, ReaderShape
  <2>1. suspend_enter(p)
    <3>1. ASSUME NEW q \in Savers, Suspending(q) PROVE suspend_enter(p)
      <4>1. q = p BY <1>1, <3>1, OneSaver DEF OneSaver
      <4>2. ~(\/ DisableCheck(p) \/ SaveCount(p) \/ ReturnSaved(p) \/ SuspendFails(p) \/ Resume(p))
        BY <1>1, <2>0 DEF DisableCheck, SaveCount, ReturnSaved, SuspendFails, Resume, Goto
      <4> QED BY <3>1, <4>1, <4>2 DEF Suspending
    <3>2. ASSUME NEW r \in Readers, GetWakeupCount(r) \/ Waiting(r) \/ Signal(r) PROVE FALSE
      <4>1. pc' \in {[pc EXCEPT ![r] = "check"], [pc EXCEPT ![r] = "count"],
                     [pc EXCEPT ![r] = "schedule"], [pc EXCEPT ![r] = "got"],
                     [pc EXCEPT ![r] = "idle"]}
        BY <3>2 DEF GetWakeupCount, Waiting, Check, Schedule, Signal, ReturnCount, Goto
      <4> QED BY <1>1, <2>0, <4>1
    <3>3. ASSUME UNCHANGED pc PROVE FALSE BY <1>1, <3>3
    <3>4. ASSUME NEW d \in Devices, DeviceStep(d) \/ wakeup_source_register(d)
                                    \/ device_wakeup_detach(d)
          PROVE  UNCHANGED pc
      BY <3>4 DEF DeviceStep, pm_stay_awake, pm_relax, pm_wakeup_event,
                  wakeup_source_register, device_wakeup_detach, reader
    <3>5. ASSUME NEW s \in Sources, \/ Relaxing(s) \/ Fire(s) \/ pm_wakeup_timer_fn(s)
                                    \/ device_wakeup_attach(s) \/ DelTimerSync(s)
                                    \/ DropRelax(s)
          PROVE  UNCHANGED pc
      BY <3>5 DEF Relaxing, Deactivate, SplitCounters, WakeReaders, Fire, pm_wakeup_timer_fn,
                  device_wakeup_attach, DelTimerSync, DropRelax, reader
    <3>6. Tick \/ UNCHANGED vars => UNCHANGED pc BY DEF Tick, vars, reader
    <3> QED BY <1>1, <3>1, <3>2, <3>3, <3>4, <3>5, <3>6 DEF Next
  <2>2. pc[p] = "suspend" /\ ~pending BY <1>1, <2>0, <2>1 DEF suspend_enter, Goto
  <2>3. Told(p) /\ events_check_enabled /\ saved_count = count[p]
    BY <1>1, <2>2 DEF Handshake, NoticeInv, Working, Places
  <2>4. cnt = count[p] /\ inpr = 0 /\ cnt \in Int /\ CountMod \in Nat \ {0}
    BY <1>1, <2>2, <2>3, Halves DEF pending
  <2>5. missed[p] % CountMod = 0
    <3>1. PICK k \in Int : count[p] + missed[p] = cnt + inpr + CountMod * k BY <2>3 DEF Told
    <3>2. missed[p] \in Int BY <1>1 DEF Handshake, ReaderShape
    <3> DEFINE n == CountMod
               z == n * k
    <3>3. n \in Nat \ {0} BY <2>4
    <3>4. count[p] + missed[p] = cnt + inpr + z BY <3>1
    <3> HIDE DEF n
    <3>5. z \in Int /\ (n * k + 0) % n = 0 BY <3>3, ModUnique
    <3>6. z % n = 0 BY <3>3, <3>5
    <3> HIDE DEF z
    <3>7. missed[p] = z BY <2>4, <3>2, <3>4, <3>5
    <3> QED BY <3>6, <3>7 DEF n
  <2>6. ASSUME NEW s \in Sources, active[s] PROVE FALSE
    <3>1. s \in Actives BY <2>6 DEF Actives
    <3>2. Cardinality(Actives) = 0 BY <1>1, <2>4 DEF CountInv
    <3> QED BY <3>1, <3>2, Room, FS_EmptySet
  <2> QED BY <2>5, <2>6
<1>2. CountInv /\ Handshake /\ [Next]_vars =>
        [\A p \in Savers : (pc[p] # "asleep" /\ pc'[p] = "asleep") =>
            /\ \A s \in Sources : ~active[s]
            /\ missed[p] % CountMod = 0]_vars
  BY <1>1
<1>3. Inv /\ CountInv /\ Handshake /\ [Next]_vars => Handshake' BY OneSaver, HandshakeNext
<1>4. Spec => []Inv BY Invariance
<1>5. Spec => [](CountInv /\ TimeInv) BY <1>4, AccountsInit, AccountsNext, PTL DEF Spec
<1>6. Spec => []Handshake BY <1>3, <1>4, <1>5, HandshakeInit, PTL DEF Spec
<1> QED BY <1>2, <1>5, <1>6, PTL DEF Spec, NoEventGoesUnnoticed
=============================================================================
