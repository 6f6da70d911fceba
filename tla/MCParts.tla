------------------------------ MODULE MCParts -------------------------------
(***************************************************************************)
(* The parts that are small enough share one run.  They have no state in   *)
(* common: the initial state says which of them moves, and the others stay *)
(* as they are, so that their state spaces add up.                         *)
(***************************************************************************)
EXTENDS BpSlots, OwnedMutex, LoggerDevices, Console, LogBuf, MCRegulator,
        RegulatorVoltage, CameraTest

(* Two cpus, each with one instruction slot and two data slots.            *)
TwoTypes == {"inst", "data"}
UnequalSlots == [y \in TwoTypes |-> IF y = "inst" THEN 1 ELSE 2]
Event(cpu, t, y, n) == [cpu |-> cpu, target |-> t, type |-> y, id |-> n]
MixedEvents ==
    {Event(k, "none", "data", n) : k \in {1, 2}, n \in 1 .. 2}
      \cup {Event(k, t, "data", n) : k \in {0, 1, 2}, t \in {"t1", "t2"}, n \in 1 .. 2}
      \cup {Event(1, "none", "inst", 1), Event(0, "t1", "inst", 1), Event(2, "t2", "inst", 1)}

CONSTANT Nesting \* threads that may make MaxCalls calls; the others make one
OthersCallOnce == \A t \in Threads \ Nesting : calls'[t] <= 1

FourLogs == <<1, 2, 3, 4>>

(* A table in no order, an ascending one, a linear one and a fixed voltage.*)
Described(how, t, min, step, first_sel) ==
    [map |-> how, volt_table |-> [i \in 0 .. Len(t) - 1 |-> t[i + 1]],
     min_uV |-> min, uV_step |-> step, linear_min_sel |-> first_sel]
FourDescs == {Described("iterate", <<5, 3, 2, 5>>, 0, 0, 0),
              Described("ascend", <<2, 3, 5, 6>>, 0, 0, 0),
              Described("linear", <<0, 2, 4, 6>>, 2, 2, 1), Described("linear", <<4>>, 4, 0, 0)}
AnyRange == {v \in [min : 1 .. 6, max : 1 .. 6] : v.min <= v.max}

----------------------------------------------------------------------------
VARIABLE part
partvars == <<part, slots, vars, devvars, convars, lbvars, regvars, volvars, camvars>>

PartsInit ==
    /\ part \in {"slots", "mutex", "devices", "console", "ring", "regulator", "voltage", "camera"}
    /\ SlotsInit /\ Init /\ LogDevInit /\ ConInit /\ LogBufInit /\ RegInit /\ CamInit
    /\ VoltageInit /\ (part # "voltage" => desc.map = "iterate" /\ sel = 0)

PartsNext ==
    \/ part = "slots" /\ SlotsNext
    \/ part = "mutex" /\ Next /\ OthersCallOnce
    \/ part = "devices" /\ LogDevNext
    \/ part = "console" /\ ConNext
    \/ part = "ring" /\ LogBufNext
    \/ part = "regulator" /\ RegNext
    \/ part = "voltage" /\ VoltageNext
    \/ part = "camera" /\ CamNext

OthersStay ==
    /\ part # "slots" => UNCHANGED slots
    /\ part # "mutex" => UNCHANGED vars
    /\ part # "devices" => UNCHANGED devvars
    /\ part # "console" => UNCHANGED convars
    /\ part # "ring" => UNCHANGED lbvars
    /\ part # "regulator" => UNCHANGED regvars
    /\ part # "voltage" => UNCHANGED volvars
    /\ part # "camera" => UNCHANGED camvars

(* The fairness that each part states, while that part moves.              *)
PartsSpec ==
    /\ PartsInit /\ [][PartsNext /\ OthersStay /\ UNCHANGED part]_partvars
    /\ \A t \in Threads : /\ WF_vars(part = "mutex" /\ Acquiring(t))
                          /\ WF_vars(part = "mutex" /\ Releasing(t))
                          /\ WF_vars(part = "mutex" /\ Expire(t))
                          /\ WF_vars(part = "mutex" /\ FutexTimeout(t))
    /\ \A u \in Users : WF_convars(part = "console" /\ Unlocking(u))
    /\ \A who \in Printers : WF_convars(part = "console" /\ Arriving(who))
    /\ WF_convars(part = "console" /\ console_flush)
    /\ WF_convars(part = "console" /\ Resuming)
    /\ WF_convars(part = "console" /\ (Read \/ Sleep))
    /\ WF_camvars(part = "camera" /\ CamStep)
=============================================================================
