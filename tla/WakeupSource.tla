---------------------------- MODULE WakeupSource ----------------------------
(***************************************************************************)
(* drivers/base/power/wakeup.c: wakeup sources that devices activate and   *)
(* relax, the timers that relax them, the one atomic word that counts the  *)
(* events in progress and the events registered, and the handshake by      *)
(* which a suspend learns of events since a reader looked.  One action is  *)
(* one critical section of ws->lock, dev->power.lock or events_lock, cut   *)
(* where other processors see what it has done so far.  Time is jiffies,   *)
(* which wraps.  Devices are wakeup capable throughout.                    *)
(***************************************************************************)
EXTENDS Integers, FiniteSets

CONSTANTS Sources,   \* wakeup_source objects that may exist at once
          Devices,   \* devices that may have one
          NoSource,  \* dev->power.wakeup = NULL
          Readers,   \* callers of pm_get_wakeup_count
          Savers,    \* those that go on to save the count and suspend
          InProgressBits, \* IN_PROGRESS_BITS
          JiffyMod,  \* jiffies are unsigned long: 2^32 or 2^64
          Delays,    \* bound: the msec of pm_wakeup_event, in jiffies
          MaxLag,    \* bound: jiffies by which a timer may run late
          MaxMissed  \* bound: activations while a saver is at work

CountMod == 2 ^ InProgressBits
MAX_IN_PROGRESS == CountMod - 1

ASSUME WidthAssumption ==
    /\ InProgressBits \in Nat \ {0} /\ IsFiniteSet(Sources)
    /\ Cardinality(Sources) <= MAX_IN_PROGRESS
ASSUME TimeAssumption ==
    /\ JiffyMod \in Nat \ {0, 1} /\ Delays \subseteq Nat /\ MaxLag \in Nat
    /\ \A d \in Delays : 2 * (d + 1 + MaxLag) < JiffyMod
ASSUME CallersAssumption == NoSource \notin Sources /\ Savers \subseteq Readers

VARIABLES comb,     \* combined_event_count
          jiffies,
          wakeup,   \* dev->power.wakeup
          life,     \* where the creation or destruction of a source is
          dev,      \* the device it is created for
          active,   \* ws->active
          ahead,    \* ws->active_count - ws->relax_count
          timer_expires, \* ws->timer_expires, 0 for none
          timer,    \* when the pending kernel timer expires, or NoTimer
          fn,       \* pm_wakeup_timer_fn has been started and has not returned
          step,     \* how far the holder of ws->lock is in deactivating it
          by,       \* who that is
          pc,       \* where each reader is
          queued,   \* readers on wakeup_count_wait_queue and not woken
          count,    \* the count each reader was given
          events_check_enabled, saved_count,
          missed    \* history: activations since a saver was given its count
source == <<life, dev, active, ahead, timer_expires, timer, fn, step, by>>
reader == <<pc, queued, count, events_check_enabled, saved_count>>
vars == <<comb, jiffies, wakeup, life, dev, active, ahead, timer_expires, timer, fn,
          step, by, pc, queued, count, events_check_enabled, saved_count, missed>>

NoTimer == -1
Jiffies == 0 .. JiffyMod - 1
Working == {"got", "save", "saved", "suspend"}

TypeOK ==
    /\ comb \in 0 .. CountMod * CountMod - 1
    /\ jiffies \in Jiffies
    /\ wakeup \in [Devices -> Sources \cup {NoSource}]
    /\ life \in [Sources -> {"free", "made", "attached", "remove", "drop"}]
    /\ dev \in [Sources -> Devices]
    /\ active \in [Sources -> BOOLEAN]
    /\ ahead \in [Sources -> 0 .. 1]
    /\ timer_expires \in [Sources -> Jiffies]
    /\ timer \in [Sources -> Jiffies \cup {NoTimer}]
    /\ fn \in [Sources -> BOOLEAN]
    /\ step \in [Sources -> {"none", "deactivate", "split", "wake"}]
    /\ by \in [Sources -> {"nobody", "device", "timer", "drop"}]
    /\ pc \in [Readers -> {"idle", "check", "schedule", "count", "asleep"} \cup Working]
    /\ queued \subseteq Readers
    /\ count \in [Readers -> 0 .. CountMod - 1]
    /\ events_check_enabled \in BOOLEAN /\ saved_count \in 0 .. CountMod - 1
    /\ missed \in [Savers -> 0 .. MaxMissed]

(* Nothing is registered yet; jiffies starts shortly before it wraps.      *)
Init ==
    /\ comb = 0 /\ jiffies = JiffyMod - 2
    /\ wakeup = [d \in Devices |-> NoSource]
    /\ life = [s \in Sources |-> "free"]
    /\ dev \in [Sources -> {CHOOSE d \in Devices : TRUE}]
    /\ active = [s \in Sources |-> FALSE] /\ ahead = [s \in Sources |-> 0]
    /\ timer_expires = [s \in Sources |-> 0] /\ timer = [s \in Sources |-> NoTimer]
    /\ fn = [s \in Sources |-> FALSE]
    /\ step = [s \in Sources |-> "none"] /\ by = [s \in Sources |-> "nobody"]
    /\ pc = [p \in Readers |-> "idle"] /\ queued = {}
    /\ count = [p \in Readers |-> 0]
    /\ events_check_enabled = FALSE /\ saved_count = 0
    /\ missed = [p \in Savers |-> 0]

(* split_counters.                                                         *)
cnt == comb \div CountMod
inpr == comb % CountMod
AddToCounters(n) == comb' = (comb + n) % (CountMod * CountMod)

(* The signed comparisons of linux/jiffies.h.                              *)
time_after(a, b) == 2 * ((b - a) % JiffyMod) >= JiffyMod
time_after_eq(a, b) == 2 * ((a - b) % JiffyMod) < JiffyMod

Locked(s) == step[s] # "none"   \* ws->lock is held from one action to the next
Goto(p, place) == pc' = [pc EXCEPT ![p] = place]

----------------------------------------------------------------------------
(* wakeup_source_report_event, with wakeup_source_activate.                *)
Report(s) ==
    IF active[s]
    THEN UNCHANGED <<comb, active, ahead, missed>>
    ELSE /\ \A p \in Savers : pc[p] \in Working => missed[p] < MaxMissed
         /\ active' = [active EXCEPT ![s] = TRUE]
         /\ ahead' = [ahead EXCEPT ![s] = @ + 1]
         /\ AddToCounters(1)
         /\ missed' = [p \in Savers |-> IF pc[p] \in Working THEN missed[p] + 1 ELSE 0]

(* The device's source, when dev->power.lock and ws->lock are free.        *)
Using(d, s) == wakeup[d] = s /\ s # NoSource /\ ~Locked(s)

pm_stay_awake(d) ==
    \E s \in Sources :
        /\ Using(d, s) /\ Report(s)
        /\ timer' = [timer EXCEPT ![s] = NoTimer]
        /\ timer_expires' = [timer_expires EXCEPT ![s] = 0]
        /\ UNCHANGED <<jiffies, wakeup, life, dev, fn, step, by, reader>>

pm_relax(d) ==
    \E s \in Sources :
        /\ Using(d, s) /\ active[s]
        /\ step' = [step EXCEPT ![s] = "deactivate"]
        /\ by' = [by EXCEPT ![s] = "device"]
        /\ UNCHANGED <<comb, jiffies, wakeup, life, dev, active, ahead, timer_expires,
                       timer, fn, reader, missed>>

(* The deadline, which is never the 0 that stands for none.                *)
Expires(delay) == LET at == (jiffies + delay) % JiffyMod IN IF at = 0 THEN 1 ELSE at

pm_wakeup_event(d, delay) ==
    \E s \in Sources :
        /\ Using(d, s) /\ Report(s)
        /\ \/ /\ delay = 0
              /\ step' = [step EXCEPT ![s] = "deactivate"]
              /\ by' = [by EXCEPT ![s] = "device"]
              /\ UNCHANGED <<timer_expires, timer>>
           \/ /\ delay # 0
              /\ IF timer_expires[s] = 0 \/ time_after(Expires(delay), timer_expires[s])
                 THEN /\ timer' = [timer EXCEPT ![s] = Expires(delay)]
                      /\ timer_expires' = [timer_expires EXCEPT ![s] = Expires(delay)]
                 ELSE UNCHANGED <<timer_expires, timer>>
              /\ UNCHANGED <<step, by>>
        /\ UNCHANGED <<jiffies, wakeup, life, dev, fn, reader>>

(* The way out of ws->lock for each caller of wakeup_source_deactivate.    *)
Finish(s) == /\ step' = [step EXCEPT ![s] = "none"]
             /\ by' = [by EXCEPT ![s] = "nobody"]
             /\ fn' = [fn EXCEPT ![s] = @ /\ by[s] # "timer"]
             /\ life' = [life EXCEPT ![s] = IF by[s] = "drop" THEN "free" ELSE @]

(* wakeup_source_deactivate up to its atomic_add_return.                   *)
Deactivate(s) ==
    /\ step[s] = "deactivate"
    /\ IF ahead[s] # 1
       THEN /\ Finish(s)
            /\ UNCHANGED <<comb, active, ahead, timer_expires, timer>>
       ELSE /\ active' = [active EXCEPT ![s] = FALSE]
            /\ ahead' = [ahead EXCEPT ![s] = 0]
            /\ timer' = [timer EXCEPT ![s] = NoTimer]
            /\ timer_expires' = [timer_expires EXCEPT ![s] = 0]
            /\ AddToCounters(MAX_IN_PROGRESS)
            /\ step' = [step EXCEPT ![s] = "split"]
            /\ UNCHANGED <<life, fn, by>>
    /\ UNCHANGED <<jiffies, wakeup, dev, reader, missed>>

(* The counters as they were before the addition.                          *)
SplitBeforeAdding(s) ==
    /\ step[s] = "split"
    /\ IF (comb - MAX_IN_PROGRESS) % CountMod = 0
       THEN step' = [step EXCEPT ![s] = "wake"] /\ UNCHANGED <<fn, life, by>>
       ELSE Finish(s)
    /\ UNCHANGED <<comb, jiffies, wakeup, dev, active, ahead, timer_expires, timer, reader,
                   missed>>

(* The counters are read again, and may have changed since.                *)
SplitCounters(s) ==
    /\ step[s] = "split"
    /\ IF inpr = 0
       THEN step' = [step EXCEPT ![s] = "wake"] /\ UNCHANGED <<fn, life, by>>
       ELSE Finish(s)
    /\ UNCHANGED <<comb, jiffies, wakeup, dev, active, ahead, timer_expires, timer, reader,
                   missed>>

WakeReaders(s) ==
    /\ step[s] = "wake"
    /\ queued' = {}
    /\ Finish(s)
    /\ UNCHANGED <<comb, jiffies, wakeup, dev, active, ahead, timer_expires, timer, pc,
                   count, events_check_enabled, saved_count, missed>>

----------------------------------------------------------------------------
(* The timer softirq takes an expired timer off its list and calls it.     *)
Fire(s) == /\ timer[s] # NoTimer /\ ~fn[s]
           /\ time_after_eq(jiffies, timer[s])
           /\ timer' = [timer EXCEPT ![s] = NoTimer]
           /\ fn' = [fn EXCEPT ![s] = TRUE]
           /\ UNCHANGED <<comb, jiffies, wakeup, life, dev, active, ahead, timer_expires,
                          step, by, reader, missed>>

(* A timer function that waits for the jiffy after the deadline.           *)
TimerFnAfter(s) ==
    /\ fn[s] /\ ~Locked(s)
    /\ IF active[s] /\ timer_expires[s] # 0 /\ time_after(jiffies, timer_expires[s])
       THEN /\ step' = [step EXCEPT ![s] = "deactivate"]
            /\ by' = [by EXCEPT ![s] = "timer"]
            /\ UNCHANGED fn
       ELSE fn' = [fn EXCEPT ![s] = FALSE] /\ UNCHANGED <<step, by>>
    /\ UNCHANGED <<comb, jiffies, wakeup, life, dev, active, ahead, timer_expires,
                   timer, reader, missed>>

pm_wakeup_timer_fn(s) ==
    /\ fn[s] /\ ~Locked(s)
    /\ IF active[s] /\ timer_expires[s] # 0 /\ time_after_eq(jiffies, timer_expires[s])
       THEN /\ step' = [step EXCEPT ![s] = "deactivate"]
            /\ by' = [by EXCEPT ![s] = "timer"]
            /\ UNCHANGED fn
       ELSE fn' = [fn EXCEPT ![s] = FALSE] /\ UNCHANGED <<step, by>>
    /\ UNCHANGED <<comb, jiffies, wakeup, life, dev, active, ahead, timer_expires,
                   timer, reader, missed>>

(* Bound: a deadline is acted on within MaxLag jiffies.                    *)
Tick == /\ \A s \in Sources : timer_expires[s] # 0 =>
              ~time_after_eq(jiffies, timer_expires[s] + MaxLag)
        /\ jiffies' = (jiffies + 1) % JiffyMod
        /\ UNCHANGED <<comb, wakeup, source, reader, missed>>

----------------------------------------------------------------------------
(* device_wakeup_enable: a source is made and registered first, and        *)
(* unregistered again when the device turns out to have one.               *)
wakeup_source_register(d) ==
    \E s \in Sources :
        /\ life[s] = "free"
        /\ life' = [life EXCEPT ![s] = "made"]
        /\ dev' = [dev EXCEPT ![s] = d]
        /\ active' = [active EXCEPT ![s] = FALSE]
        /\ ahead' = [ahead EXCEPT ![s] = 0]
        /\ timer_expires' = [timer_expires EXCEPT ![s] = 0]
        /\ timer' = [timer EXCEPT ![s] = NoTimer]
        /\ UNCHANGED <<comb, jiffies, wakeup, fn, step, by, reader, missed>>

(* A pm_relax under way holds dev->power.lock.                             *)
PowerLocked(d) == wakeup[d] # NoSource /\ Locked(wakeup[d]) /\ by[wakeup[d]] = "device"

device_wakeup_attach(s) ==
    /\ life[s] = "made" /\ ~PowerLocked(dev[s])
    /\ IF wakeup[dev[s]] = NoSource
       THEN /\ wakeup' = [wakeup EXCEPT ![dev[s]] = s]
            /\ life' = [life EXCEPT ![s] = "attached"]
       ELSE life' = [life EXCEPT ![s] = "remove"] /\ UNCHANGED wakeup
    /\ UNCHANGED <<comb, jiffies, dev, active, ahead, timer_expires, timer, fn, step, by,
                   reader, missed>>

(* device_wakeup_disable: detach, then unregister.                         *)
device_wakeup_detach(d) ==
    /\ wakeup[d] # NoSource /\ ~PowerLocked(d)
    /\ life' = [life EXCEPT ![wakeup[d]] = "remove"]
    /\ wakeup' = [wakeup EXCEPT ![d] = NoSource]
    /\ UNCHANGED <<comb, jiffies, dev, active, ahead, timer_expires, timer, fn, step, by,
                   reader, missed>>

(* A wakeup_source_drop that does not wait for a running timer function.   *)
DropUnsynchronised(s) ==
    /\ life[s] = "remove"
    /\ timer' = [timer EXCEPT ![s] = NoTimer]
    /\ life' = [life EXCEPT ![s] = "drop"]
    /\ UNCHANGED <<comb, jiffies, wakeup, dev, active, ahead, timer_expires, fn, step, by,
                   reader, missed>>

(* wakeup_source_drop, its del_timer_sync.                                 *)
DelTimerSync(s) ==
    /\ life[s] = "remove" /\ ~fn[s]
    /\ timer' = [timer EXCEPT ![s] = NoTimer]
    /\ life' = [life EXCEPT ![s] = "drop"]
    /\ UNCHANGED <<comb, jiffies, wakeup, dev, active, ahead, timer_expires, fn, step, by,
                   reader, missed>>

(* A drop that frees the source as it is.                                  *)
DropActive(s) ==
    /\ life[s] = "drop" /\ ~Locked(s)
    /\ life' = [life EXCEPT ![s] = "free"]
    /\ UNCHANGED <<comb, jiffies, wakeup, dev, active, ahead, timer_expires, timer, fn,
                   step, by, reader, missed>>

(* wakeup_source_drop, its __pm_relax, and wakeup_source_destroy.          *)
DropRelax(s) ==
    /\ life[s] = "drop" /\ ~Locked(s)
    /\ IF active[s]
       THEN /\ step' = [step EXCEPT ![s] = "deactivate"]
            /\ by' = [by EXCEPT ![s] = "drop"]
            /\ UNCHANGED life
       ELSE life' = [life EXCEPT ![s] = "free"] /\ UNCHANGED <<step, by>>
    /\ UNCHANGED <<comb, jiffies, wakeup, dev, active, ahead, timer_expires, timer, fn,
                   reader, missed>>

----------------------------------------------------------------------------
(* pm_get_wakeup_count.  A reader may look once, or block until nothing is *)
(* in progress: prepare_to_wait, then the test.                            *)
GetWakeupCount(p) ==
    /\ pc[p] = "idle"
    /\ \/ Goto(p, "check") /\ queued' = queued \cup {p}
       \/ Goto(p, "count") /\ UNCHANGED queued
    /\ UNCHANGED <<comb, jiffies, wakeup, source, count, events_check_enabled, saved_count,
                   missed>>

(* Out of the loop when nothing is in progress, or on a signal.            *)
Check(p) ==
    /\ pc[p] = "check"
    /\ \/ Goto(p, "count") /\ queued' = queued \ {p}
       \/ inpr # 0 /\ Goto(p, "schedule") /\ UNCHANGED queued
    /\ UNCHANGED <<comb, jiffies, wakeup, source, count, events_check_enabled, saved_count,
                   missed>>

(* schedule() returns, woken or by a signal, and the loop queues it again. *)
Schedule(p) ==
    /\ pc[p] = "schedule" /\ p \notin queued
    /\ Goto(p, "check") /\ queued' = queued \cup {p}
    /\ UNCHANGED <<comb, jiffies, wakeup, source, count, events_check_enabled, saved_count,
                   missed>>

Signal(p) ==
    /\ pc[p] = "schedule" /\ p \in queued
    /\ Goto(p, "check")
    /\ UNCHANGED <<comb, jiffies, wakeup, source, queued, count, events_check_enabled,
                   saved_count, missed>>

(* The last split_counters: the count, and whether it may be used.         *)
ReturnCount(p) ==
    /\ pc[p] = "count"
    /\ count' = [count EXCEPT ![p] = cnt]
    /\ Goto(p, IF inpr = 0 /\ p \in Savers THEN "got" ELSE "idle")
    /\ missed' = [q \in Savers |-> IF q = p THEN 0 ELSE missed[q]]
    /\ UNCHANGED <<comb, jiffies, wakeup, source, queued, events_check_enabled, saved_count>>

(* pm_save_wakeup_count: its first statement, its critical section, and    *)
(* its return, which reads the flag again.                                 *)
DisableCheck(p) ==
    /\ pc[p] = "got"
    /\ events_check_enabled' = FALSE
    /\ Goto(p, "save")
    /\ UNCHANGED <<comb, jiffies, wakeup, source, queued, count, saved_count, missed>>

(* A save of the present count in place of the one that was read.          *)
SavePresent(p) ==
    /\ pc[p] = "save"
    /\ Goto(p, "saved")
    /\ IF inpr = 0
       THEN saved_count' = cnt /\ events_check_enabled' = TRUE
       ELSE UNCHANGED <<saved_count, events_check_enabled>>
    /\ UNCHANGED <<comb, jiffies, wakeup, source, queued, count, missed>>

SaveCount(p) ==
    /\ pc[p] = "save"
    /\ Goto(p, "saved")
    /\ IF cnt = count[p] /\ inpr = 0
       THEN saved_count' = count[p] /\ events_check_enabled' = TRUE
       ELSE UNCHANGED <<saved_count, events_check_enabled>>
    /\ UNCHANGED <<comb, jiffies, wakeup, source, queued, count, missed>>

ReturnSaved(p) ==
    /\ pc[p] = "saved"
    /\ Goto(p, IF events_check_enabled THEN "suspend" ELSE "idle")
    /\ UNCHANGED <<comb, jiffies, wakeup, source, queued, count, events_check_enabled,
                   saved_count, missed>>

(* A suspend that fails before suspend_enter gets to its last check.       *)
SuspendFails(p) ==
    /\ pc[p] = "suspend"
    /\ Goto(p, "idle")
    /\ UNCHANGED <<comb, jiffies, wakeup, source, queued, count, events_check_enabled,
                   saved_count, missed>>

(* pm_wakeup_pending.                                                      *)
pending == events_check_enabled /\ (cnt # saved_count \/ inpr > 0)

(* suspend_enter, where interrupts are off on the one cpu that is left:    *)
(* the last check, and the sleep state unless an event is pending.         *)
suspend_enter(p) ==
    /\ pc[p] = "suspend"
    /\ Goto(p, IF pending THEN "idle" ELSE "asleep")
    /\ events_check_enabled' = FALSE
    /\ UNCHANGED <<comb, jiffies, wakeup, source, queued, count, saved_count, missed>>

Resume(p) ==
    /\ pc[p] = "asleep"
    /\ Goto(p, "idle")
    /\ UNCHANGED <<comb, jiffies, wakeup, source, queued, count, events_check_enabled,
                   saved_count, missed>>

----------------------------------------------------------------------------
DeviceStep(d) == \/ pm_stay_awake(d) \/ pm_relax(d)
                 \/ \E delay \in Delays : pm_wakeup_event(d, delay)
Relaxing(s) == Deactivate(s) \/ SplitCounters(s) \/ WakeReaders(s)
Waiting(p) == Check(p) \/ Schedule(p) \/ ReturnCount(p)
Suspending(p) == \/ DisableCheck(p) \/ SaveCount(p) \/ ReturnSaved(p)
                 \/ SuspendFails(p) \/ suspend_enter(p) \/ Resume(p)

Next == \/ Tick
        \/ \E d \in Devices : \/ DeviceStep(d)
                              \/ wakeup_source_register(d) \/ device_wakeup_detach(d)
        \/ \E s \in Sources : \/ Relaxing(s) \/ Fire(s) \/ pm_wakeup_timer_fn(s)
                              \/ device_wakeup_attach(s)
                              \/ DelTimerSync(s) \/ DropRelax(s)
        \/ \E p \in Readers : GetWakeupCount(p) \/ Waiting(p) \/ Signal(p)
        \/ \E p \in Savers : Suspending(p)

Spec == Init /\ [][Next]_vars

(* Critical sections end, time passes, expired timers are run, and a       *)
(* runnable reader is run.  Nobody has to relax a source or send a signal. *)
FairSpec == /\ Spec /\ WF_vars(Tick)
            /\ \A s \in Sources : /\ WF_vars(Relaxing(s)) /\ WF_vars(Fire(s))
                                  /\ WF_vars(pm_wakeup_timer_fn(s))
                                  /\ WF_vars(DelTimerSync(s) \/ DropRelax(s))
            /\ \A p \in Readers : WF_vars(Waiting(p))

----------------------------------------------------------------------------
(* The low half of the combined counter is the number of active sources:   *)
(* activations, relaxations from three callers and the destruction of      *)
(* sources never lose or repeat an event in progress.  The test of         *)
(* relax_count that wakeup_source_deactivate makes never fails.            *)
CountersAreTrue ==
    /\ inpr = Cardinality({s \in Sources : active[s]})
    /\ \A s \in Sources : ahead[s] = IF active[s] THEN 1 ELSE 0

(* A source with a deadline has a timer that will see to it: pending for   *)
(* that deadline, or expired and about to take ws->lock.  No source is     *)
(* left active with a timer that does nothing, which would keep the system *)
(* awake for good.                                                         *)
DeadlineIsArmed ==
    \A s \in Sources :
        /\ timer[s] # NoTimer => active[s] /\ timer_expires[s] = timer[s] /\ timer[s] # 0
        /\ (timer_expires[s] # 0 /\ timer[s] = NoTimer /\ life[s] # "drop") =>
              active[s] /\ fn[s] /\ time_after_eq(jiffies, timer_expires[s])

(* What is active is counted as long as it is, and will end if it has a    *)
(* deadline.                                                               *)
ActiveIsAccounted == CountersAreTrue /\ DeadlineIsArmed

(* Nothing refers to a source that wakeup_source_destroy has freed: no     *)
(* timer, timer function, device or holder of its lock.                    *)
FreedIsQuiet ==
    \A s \in Sources : life[s] = "free" =>
        /\ ~active[s] /\ timer[s] = NoTimer /\ ~fn[s] /\ ~Locked(s)
        /\ \A d \in Devices : wakeup[d] # s

(* The promise of the handshake: the system goes to sleep only if no       *)
(* source is active and none was activated since the saver was given its   *)
(* count, but for a multiple of as many events as the counter can tell     *)
(* apart (pm_wakeup_pending).                                              *)
NoEventGoesUnnoticed ==
    [][\A p \in Savers : (pc[p] # "asleep" /\ pc'[p] = "asleep") =>
         /\ \A s \in Sources : ~active[s]
         /\ missed[p] % CountMod = 0]_vars

(* A reader asleep while nothing is in progress is woken, whatever         *)
(* happened between its test and its sleep.                                *)
BlockedReaderWakes ==
    \A p \in Readers : (pc[p] = "schedule" /\ inpr = 0) ~> (pc[p] # "schedule" \/ inpr # 0)

(* No deadline is outlived: the timer function relaxes the source, or the  *)
(* deadline is moved or dropped by a later call; it never stays for ever.  *)
DeadlinesPass ==
    \A s \in Sources : \/ []<>(timer_expires[s] = 0)
                       \/ []<><<timer_expires'[s] # timer_expires[s]>>_vars
=============================================================================
