------------------------------ MODULE MCWakeup ------------------------------
(***************************************************************************)
(* Sources are checked with their timers, which the handshake does not     *)
(* see, and with the handshake, where timers would only multiply the ways  *)
(* in which a source is relaxed.  The initial state says which.            *)
(***************************************************************************)
EXTENDS WakeupSource

VARIABLE with
WakeupInit == Init /\ with \in {"timers", "readers"}
WakeupNext ==
    /\ Next /\ UNCHANGED with
    /\ IF with = "timers" THEN UNCHANGED reader
       ELSE UNCHANGED <<jiffies, timer_expires>>

(* The fairness of FairSpec.                                               *)
WakeupSpec ==
    /\ WakeupInit /\ [][WakeupNext]_<<vars, with>>
    /\ WF_vars(with = "timers" /\ Tick)
    /\ \A s \in Sources : /\ WF_vars(Relaxing(s)) /\ WF_vars(Fire(s))
                          /\ WF_vars(pm_wakeup_timer_fn(s))
                          /\ WF_vars(DelTimerSync(s) \/ DropRelax(s))
    /\ \A p \in Readers : WF_vars(with = "readers" /\ Waiting(p))
=============================================================================
