--------------------------- MODULE BreakpointDev ----------------------------
(***************************************************************************)
(* /dev/breakpoint (drivers/misc/breakpoint) over wide hardware            *)
(* breakpoints: an open file keeps a list of breakpoints, each of them one *)
(* event per cpu, registered cpu by cpu and all or none.  Beside it,       *)
(* debuggers register breakpoints for tasks, cpus come and go, and tasks   *)
(* are scheduled; each cpu's debug registers are those of                  *)
(* arch/arm/kernel/hw_breakpoint.c.  A file is used by one thread at a     *)
(* time, as its client libwatchpoint does.                                 *)
(***************************************************************************)
EXTENDS BpSlots, Sequences, SequencesExt

CONSTANTS Files,    \* open files, and the threads that use them
          BpIds,    \* the struct bp_lists that may exist at once
          Addrs,    \* addresses to watch
          WideType, \* the type of breakpoints asked of the device
          Free      \* no event in a register

VARIABLES online,  \* online cpus
          running, \* the task each cpu runs, or NoTask
          regs,    \* bp_on_reg and wp_on_reg of each cpu
          active,  \* events that perf has enabled
          pc,      \* what each file's thread does
          list,    \* the file's bp_list records, newest first
          cur,     \* the record being made or taken down
          cpus     \* the cpus its loop has still to visit
device == <<pc, list, cur, cpus>>
cpuState == <<online, running, regs, active>>
vars == <<slots, online, running, regs, active, pc, list, cur, cpus>>

WideEvent(bp, cpu) == [cpu |-> cpu, target |-> NoTask, type |-> WideType, id |-> bp.id]
WideEvents == {WideEvent(bp, c) : bp \in [id : BpIds], c \in Cpus}
TaskEvents == Events \ WideEvents
Records == [id : BpIds, addr : Addrs]

(* The registers followed are those of WideType, which debuggers use too.  *)
ASSUME DeviceAssumption ==
    /\ WideEvents \subseteq Events /\ \A bp \in Events : bp.type = WideType
    /\ Cpus \subseteq Nat /\ Cpus # {} /\ Records # {}
    /\ WideType \in Types /\ Free \notin Events

TypeOK == /\ SlotsTypeOK
          /\ online \subseteq Cpus
          /\ running \in [Cpus -> Tasks \cup {NoTask}]
          /\ \A c \in Cpus : regs[c] \in [1 .. nr_slots[WideType] -> Events \cup {Free}]
          /\ active \subseteq reserved
          /\ pc \in [Files -> {"idle", "reserve", "validate", "fail", "alloc", "undo",
                               "delete", "close", "closed"}]
          /\ list \in [Files -> Seq(Records)]
          /\ \A f \in Files : cur[f] \in Records /\ cpus[f] \subseteq Cpus

NoRegs == [i \in 1 .. nr_slots[WideType] |-> Free]
Init == /\ SlotsInit
        /\ online = Cpus
        /\ running = [c \in Cpus |-> NoTask]
        /\ regs = [c \in Cpus |-> NoRegs]
        /\ active = {}
        /\ pc = [f \in Files |-> "closed"]
        /\ list = [f \in Files |-> <<>>]
        /\ cur \in [Files -> {CHOOSE bp \in Records : TRUE}]
        /\ cpus = [f \in Files |-> {}]

First(S) == CHOOSE c \in S : \A d \in S : c <= d
Goto(f, place) == pc' = [pc EXCEPT ![f] = place]

----------------------------------------------------------------------------
(* perf keeps in the registers of a cpu the active events bound to it and  *)
(* those of its task.                                                      *)
Wanted(cpu, task) == {bp \in active : cpu \in On(bp.cpu) /\ bp.target \in {NoTask, task}}

(* arch_install_hw_breakpoint takes the first free register, and is        *)
(* refused with EBUSY when there is none.                                  *)
install(held, bp) ==
    LET free == {i \in DOMAIN held : held[i] = Free}
    IN  IF free = {} THEN held ELSE [held EXCEPT ![First(free)] = bp]

(* arch_uninstall_hw_breakpoint, of each event in gone.                    *)
uninstall(held, gone) == [i \in DOMAIN held |-> IF held[i] \in gone THEN Free ELSE held[i]]

(* The new events get registers one after another, in any order, for as   *)
(* long as there are free ones.                                            *)
Installed(held, new, after) ==
    LET given == {i \in DOMAIN held : held[i] = Free /\ after[i] # Free}
    IN  /\ \A i \in DOMAIN held : after[i] = held[i] \/ (i \in given /\ after[i] \in new)
        /\ \A i, j \in given : i # j => after[i] # after[j]
        /\ (\E i \in DOMAIN held : after[i] = Free) => new \subseteq {after[i] : i \in given}
installAll(held, new) ==
    CHOOSE after \in [DOMAIN held -> Events \cup {Free}] : Installed(held, new, after)

IsRunning(task) == \E c \in online : running[c] = task

(* The scheduler takes the old task's breakpoints off and puts the new     *)
(* task's on.                                                              *)
ContextSwitch(c) ==
    /\ c \in online
    /\ \E t \in {t \in Tasks \cup {NoTask} : t # running[c] /\ (t = NoTask \/ ~IsRunning(t))} :
          /\ running' = [running EXCEPT ![c] = t]
          /\ regs' = [regs EXCEPT ![c] =
                installAll(uninstall(@, {bp \in active : bp.target # NoTask}),
                           {bp \in Wanted(c, t) : bp.target # NoTask})]
    /\ UNCHANGED <<slots, online, active, device>>

(* get_online_cpus in register_wide_hw_breakpoint holds hotplug off.       *)
HotplugAllowed == \A f \in Files : pc[f] \notin {"reserve", "validate", "fail"}

(* events_across_hotplug: the events of a cpu outlive its absence.         *)
Offline(c) == /\ HotplugAllowed /\ c \in online /\ running[c] = NoTask /\ online # {c}
              /\ online' = online \ {c}
              /\ regs' = [regs EXCEPT ![c] = NoRegs]
              /\ UNCHANGED <<slots, running, active, device>>

Online(c) == /\ HotplugAllowed /\ c \in Cpus \ online
             /\ online' = online \cup {c}
             /\ regs' = [regs EXCEPT ![c] = installAll(NoRegs, Wanted(c, NoTask))]
             /\ UNCHANGED <<slots, running, active, device>>

(* perf_event_create_kernel_counter, once the event's init has passed.     *)
Activate(bp) ==
    /\ active' = active \cup {bp}
    /\ regs' = [c \in Cpus |->
          IF c \in online \cap On(bp.cpu) /\ bp.target \in {NoTask, running[c]}
          THEN install(regs[c], bp) ELSE regs[c]]
    /\ UNCHANGED <<online, running>>

(* perf_event_release_kernel takes the event off its context and then      *)
(* calls bp_perf_event_destroy.                                            *)
Deactivate(bp) == /\ active' = active \ {bp}
                  /\ regs' = [c \in Cpus |-> uninstall(regs[c], {bp})]
                  /\ UNCHANGED <<online, running>>

(* A debugger's breakpoints on tasks: register, enable, disable, release.  *)
RegisterUser(bp) == /\ reserve_bp_slot(bp)
                    /\ UNCHANGED <<cpuState, device>>
ValidateUser(bp) == /\ bp \in reserved \ active
                    /\ \/ Activate(bp) /\ UNCHANGED slots
                       \/ release_bp_slot(bp) /\ UNCHANGED cpuState
                    /\ UNCHANGED device
DisableUser(bp) == /\ bp \in active
                   /\ Deactivate(bp)
                   /\ UNCHANGED <<slots, device>>

----------------------------------------------------------------------------
bp_dev_open(f) == /\ pc[f] = "closed"
                  /\ Goto(f, "idle")
                  /\ UNCHANGED <<slots, cpuState, list, cur, cpus>>

InUse == (UNION {{list[g][i].id : i \in DOMAIN list[g]} : g \in Files})
           \cup {cur[g].id : g \in {g \in Files : pc[g] \notin {"idle", "closed"}}}

(* BP_CREATE, up to register_wide_hw_breakpoint's loop.                    *)
create_bp(f) == /\ pc[f] = "idle"
                /\ \E id \in BpIds \ InUse, addr \in Addrs :
                      cur' = [cur EXCEPT ![f] = [id |-> id, addr |-> addr]]
                /\ cpus' = [cpus EXCEPT ![f] = online]
                /\ Goto(f, "reserve")
                /\ UNCHANGED <<slots, cpuState, list>>

Event(f) == WideEvent(cur[f], First(cpus[f]))
Advance(f) == cpus' = [cpus EXCEPT ![f] = @ \ {First(@)}]

(* One round of the loop: reserve_bp_slot ...                              *)
Reserve(f) == /\ pc[f] = "reserve"
              /\ IF Fits(Event(f))
                 THEN reserve_bp_slot(Event(f)) /\ Goto(f, "validate") /\ UNCHANGED cpus
                 ELSE /\ Goto(f, "fail")
                      /\ cpus' = [cpus EXCEPT ![f] = online \ @]
                      /\ UNCHANGED slots
              /\ UNCHANGED <<cpuState, list, cur>>

(* A refusal that keeps the slot.                                          *)
ValidateKeepsSlot(f) ==
    /\ pc[f] = "validate"
    /\ \/ /\ Activate(Event(f))
          /\ Advance(f)
          /\ Goto(f, IF cpus[f] = {First(cpus[f])} THEN "alloc" ELSE "reserve")
       \/ /\ Goto(f, "fail")
          /\ cpus' = [cpus EXCEPT ![f] = online \ @]
          /\ UNCHANGED cpuState
    /\ UNCHANGED <<slots, list, cur>>

(* ... and validate_hw_breakpoint, which may refuse the address and give   *)
(* the slot back.                                                          *)
Validate(f) ==
    /\ pc[f] = "validate"
    /\ \/ /\ Activate(Event(f))
          /\ Advance(f)
          /\ Goto(f, IF cpus[f] = {First(cpus[f])} THEN "alloc" ELSE "reserve")
          /\ UNCHANGED slots
       \/ /\ release_bp_slot(Event(f))
          /\ Goto(f, "fail")
          /\ cpus' = [cpus EXCEPT ![f] = online \ @]
          /\ UNCHANGED cpuState
    /\ UNCHANGED <<list, cur>>

(* An unregister that leaves the event in its register.                    *)
UnregisterReserved(f) ==
    /\ cpus[f] # {} /\ Event(f) \in reserved
    /\ release_bp_slot(Event(f))
    /\ active' = active \ {Event(f)}
    /\ Advance(f) /\ UNCHANGED <<online, running, regs>>

(* unregister_hw_breakpoint on the next cpu: nothing on a cpu that never   *)
(* had the event, else off the registers and then out of the table.        *)
Unregister(f) ==
    /\ cpus[f] # {}
    /\ \/ Event(f) \in active /\ Deactivate(Event(f)) /\ UNCHANGED <<slots, cpus>>
       \/ Event(f) \in reserved \ active /\ release_bp_slot(Event(f))
            /\ Advance(f) /\ UNCHANGED cpuState
       \/ Event(f) \notin reserved /\ Advance(f) /\ UNCHANGED <<slots, cpuState>>

(* The fail label: the online cpus before the one that failed.             *)
Fail(f) == /\ pc[f] = "fail"
           /\ \/ Unregister(f) /\ UNCHANGED pc
              \/ cpus[f] = {} /\ Goto(f, "idle") /\ UNCHANGED <<slots, cpuState, cpus>>
           /\ UNCHANGED <<list, cur>>

(* kmalloc of the record, and list_add.                                    *)
Alloc(f) == /\ pc[f] = "alloc"
            /\ \/ /\ list' = [list EXCEPT ![f] = <<cur[f]>> \o @]
                  /\ Goto(f, "idle") /\ UNCHANGED cpus
               \/ /\ cpus' = [cpus EXCEPT ![f] = Cpus]
                  /\ Goto(f, "undo") /\ UNCHANGED list
            /\ UNCHANGED <<slots, cpuState, cur>>

(* unregister_wide_hw_breakpoint visits every possible cpu.                *)
Start(f, bp, place) == /\ cur' = [cur EXCEPT ![f] = bp]
                       /\ cpus' = [cpus EXCEPT ![f] = Cpus]
                       /\ Goto(f, place)

(* BP_DEL finds the newest breakpoint at the address, if any.              *)
del_bp(f) ==
    /\ pc[f] = "idle"
    /\ \E i \in DOMAIN list[f] :
          /\ \A j \in 1 .. i - 1 : list[f][j].addr # list[f][i].addr
          /\ Start(f, list[f][i], "delete")
    /\ UNCHANGED <<slots, cpuState, list>>

(* bp_dev_release, from the head of the list on, until it is empty.        *)
bp_dev_release(f) ==
    /\ pc[f] = "idle"
    /\ IF list[f] = <<>> THEN Goto(f, "closed") /\ UNCHANGED <<cur, cpus>>
                         ELSE Start(f, list[f][1], "close")
    /\ UNCHANGED <<slots, cpuState, list>>

Next3(f) == IF pc[f] = "close" /\ Len(list[f]) > 1 THEN Start(f, list[f][2], "close")
            ELSE /\ Goto(f, IF pc[f] = "close" THEN "closed" ELSE "idle")
                 /\ UNCHANGED <<cur, cpus>>

list_del(s, bp) == LET at == {i \in DOMAIN s : s[i] = bp}
                   IN  IF at = {} THEN s ELSE RemoveAt(s, First(at))

TearDown(f) ==
    /\ pc[f] \in {"undo", "delete", "close"}
    /\ \/ Unregister(f) /\ UNCHANGED <<pc, list, cur>>
       \/ /\ cpus[f] = {}
          /\ list' = [list EXCEPT ![f] = list_del(@, cur[f])]
          /\ Next3(f)
          /\ UNCHANGED <<slots, cpuState>>

Next == \/ \E c \in Cpus : ContextSwitch(c) \/ Offline(c) \/ Online(c)
        \/ \E bp \in TaskEvents : RegisterUser(bp) \/ ValidateUser(bp) \/ DisableUser(bp)
        \/ \E f \in Files : \/ bp_dev_open(f) \/ create_bp(f) \/ Reserve(f) \/ Validate(f)
                            \/ Fail(f) \/ Alloc(f) \/ del_bp(f) \/ bp_dev_release(f)
                            \/ TearDown(f)

Spec == Init /\ [][Next]_vars
----------------------------------------------------------------------------
(* All or none: a wide event holds a slot only for a listed breakpoint or  *)
(* the one its thread is at work on.  Failures at any cpu, of the address  *)
(* check and of kmalloc, a delete and a close leave nothing behind.        *)
NoSlotLeaks == \A bp \in reserved \cap WideEvents : bp.id \in InUse

(* The other way round, a listed breakpoint that is not being taken down   *)
(* watches some cpu.                                                       *)
ListedIsWatching ==
    \A f \in Files : \A i \in DOMAIN list[f] :
       pc[f] \notin {"delete", "close"} =>
          \E c \in Cpus : WideEvent(list[f][i], c) \in active

(* arch_install_hw_breakpoint never has to say "Can't find any breakpoint  *)
(* slot": the table and the registers agree, whichever task is scheduled.  *)
RegistersSuffice ==
    \A c \in online : {regs[c][i] : i \in DOMAIN regs[c]} \ {Free} = Wanted(c, running[c])

(* Slots, lists and registers go together, through every failure of a      *)
(* registration, hotplug and context switch.                               *)
DeviceIsSound == NoSlotLeaks /\ ListedIsWatching /\ RegistersSuffice
=============================================================================
