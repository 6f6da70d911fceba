------------------------------ MODULE BpSlots -------------------------------
(***************************************************************************)
(* The constraint table of kernel/events/hw_breakpoint.c: how many debug   *)
(* registers of each cpu are spoken for, by events bound to the cpu and by *)
(* events bound to tasks.  Every step is one critical section of           *)
(* nr_bp_mutex.  nr_bp_flexible is never written, so it is zero; a         *)
(* breakpoint weighs one register.                                         *)
(***************************************************************************)
EXTENDS Integers, FiniteSets

CONSTANTS Cpus,     \* possible cpus
          Types,    \* TYPE_INST, TYPE_DATA
          nr_slots, \* registers of each type on a cpu
          Events,   \* breakpoint events that callers may register
          AnyCpu,   \* bp->cpu = -1
          NoTask    \* bp->hw.bp_target = NULL

Tasks == {bp.target : bp \in Events} \ {NoTask}

(* perf gives every event a cpu or a task.                                 *)
ASSUME SlotsAssumption ==
    /\ nr_slots \in [Types -> Nat] /\ AnyCpu \notin Cpus
    /\ IsFiniteSet(Events) /\ IsFiniteSet(Cpus)
    /\ \A bp \in Events : /\ bp.type \in Types /\ bp.cpu \in Cpus \cup {AnyCpu}
                          /\ bp.cpu = AnyCpu => bp.target # NoTask

VARIABLES nr_cpu_bp_pinned,  \* per type and cpu
          nr_task_bp_pinned, \* per type, cpu and n: tasks with n + 1 breakpoints
          bp_task_head,      \* the events bound to tasks
          reserved           \* history: the events that hold a slot
slots == <<nr_cpu_bp_pinned, nr_task_bp_pinned, bp_task_head, reserved>>

SlotsInit == /\ nr_cpu_bp_pinned = [y \in Types |-> [c \in Cpus |-> 0]]
             /\ nr_task_bp_pinned =
                   [y \in Types |-> [c \in Cpus |-> [n \in 0 .. nr_slots[y] - 1 |-> 0]]]
             /\ bp_task_head = {}
             /\ reserved = {}

SlotsTypeOK == /\ nr_cpu_bp_pinned \in [Types -> [Cpus -> Nat]]
               /\ \A y \in Types :
                     nr_task_bp_pinned[y] \in [Cpus -> [0 .. nr_slots[y] - 1 -> Nat]]
               /\ bp_task_head \subseteq reserved
               /\ reserved \subseteq Events

On(cpu) == IF cpu = AnyCpu THEN Cpus ELSE {cpu}

max_task_bp_pinned(cpu, type) ==
    LET held == {n \in 0 .. nr_slots[type] - 1 : nr_task_bp_pinned[type][cpu][n] > 0}
    IN  IF held = {} THEN 0 ELSE 1 + CHOOSE n \in held : \A m \in held : m <= n

(* The other breakpoints of the same type and the same task.               *)
task_bp_pinned(cpu, bp, type) ==
    Cardinality({e \in bp_task_head \ {bp} : /\ e.target = bp.target /\ e.type = type
                                             /\ cpu \in On(e.cpu)})

(* fetch_bp_busy_slots, on one of the event's cpus.                        *)
Busy(bp, cpu) ==
    nr_cpu_bp_pinned[bp.type][cpu]
      + IF bp.target = NoTask THEN max_task_bp_pinned(cpu, bp.type)
                              ELSE task_bp_pinned(cpu, bp, bp.type)

(* The test of __reserve_bp_slot on the largest count.                     *)
Fits(bp) == \A cpu \in On(bp.cpu) : Busy(bp, cpu) + 1 <= nr_slots[bp.type]

(* A toggle that adds the task under its new number of breakpoints and     *)
(* never takes it out of the old one.                                      *)
toggle_forgetful(bp, by) ==
    nr_task_bp_pinned' =
        [nr_task_bp_pinned EXCEPT ![bp.type] =
            [c \in Cpus |-> [n \in DOMAIN @[c] |->
                IF c \in On(bp.cpu) /\ n = task_bp_pinned(c, bp, bp.type)
                THEN @[c][n] + by ELSE @[c][n]]]]

(* toggle_bp_task_slot on each of the event's cpus: the task moves from    *)
(* the tasks with old_count breakpoints to those with one more, or back.   *)
toggle_bp_task_slot(bp, by) ==
    nr_task_bp_pinned' =
        [nr_task_bp_pinned EXCEPT ![bp.type] =
            [c \in Cpus |-> [n \in DOMAIN @[c] |->
                LET old_count == task_bp_pinned(c, bp, bp.type)
                IN  IF c \notin On(bp.cpu) THEN @[c][n]
                    ELSE IF n = old_count THEN @[c][n] + by
                    ELSE IF n = old_count - 1 THEN @[c][n] - by
                    ELSE @[c][n]]]]

toggle_bp_slot(bp, by) ==
    IF bp.target = NoTask
    THEN /\ nr_cpu_bp_pinned' = [nr_cpu_bp_pinned EXCEPT ![bp.type][bp.cpu] = @ + by]
         /\ UNCHANGED <<nr_task_bp_pinned, bp_task_head>>
    ELSE /\ toggle_bp_task_slot(bp, by)
         /\ bp_task_head' = IF by = 1 THEN bp_task_head \cup {bp} ELSE bp_task_head \ {bp}
         /\ UNCHANGED nr_cpu_bp_pinned

reserve_bp_slot(bp) == /\ bp \notin reserved /\ Fits(bp)
                       /\ toggle_bp_slot(bp, 1)
                       /\ reserved' = reserved \cup {bp}

release_bp_slot(bp) == /\ bp \in reserved
                       /\ toggle_bp_slot(bp, -1)
                       /\ reserved' = reserved \ {bp}

SlotsNext == \E bp \in Events : reserve_bp_slot(bp) \/ release_bp_slot(bp)

SlotsSpec == SlotsInit /\ [][SlotsNext]_slots

----------------------------------------------------------------------------
NeedOf(task, type, cpu) ==
    Cardinality({e \in reserved : e.target = task /\ e.type = type /\ cpu \in On(e.cpu)})

(* "tsk_pinned[n] is the number of tasks having n breakpoints", counting   *)
(* from zero, and nr_cpu_bp_pinned is the number of the cpu's own events:  *)
(* reserve and release in any order keep the table equal to what is held.  *)
TableIsExact ==
    \A type \in Types : \A cpu \in Cpus :
       /\ nr_cpu_bp_pinned[type][cpu] = NeedOf(NoTask, type, cpu)
       /\ \A n \in 0 .. nr_slots[type] - 1 :
             nr_task_bp_pinned[type][cpu][n]
               = Cardinality({t \in Tasks : NeedOf(t, type, cpu) = n + 1})

(* Whatever task a cpu runs, its registers hold that task's breakpoints    *)
(* and the cpu's own: __reserve_bp_slot never admits one too many.         *)
NeverOvercommitted ==
    \A type \in Types : \A cpu \in Cpus :
       /\ NeedOf(NoTask, type, cpu) <= nr_slots[type]
       /\ \A t \in Tasks : NeedOf(NoTask, type, cpu) + NeedOf(t, type, cpu) <= nr_slots[type]

(* The table says what is held, and never lets too much be held.           *)
SlotsAreAccounted == TableIsExact /\ NeverOvercommitted
=============================================================================
