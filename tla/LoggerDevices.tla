---------------------------- MODULE LoggerDevices ---------------------------
(***************************************************************************)
(* How drivers/staging/android/logger.c makes its log devices while the    *)
(* ones already made are being opened.  misc_mtx, which misc_register and  *)
(* the open of a misc device hold, is the kernel's.                        *)
(***************************************************************************)
EXTENDS Integers, Sequences

CONSTANTS Logs,    \* main, events, radio and system, in the order of logger_init
          Openers  \* tasks that open a log device

ASSUME LogsAssumption ==
          /\ Logs \in Seq(Nat) /\ Logs # <<>>
          /\ \A i, j \in DOMAIN Logs : Logs[i] = Logs[j] => i = j

VARIABLES making,    \* the log logger_init is at, an index of Logs
          made,      \* how far create_log is with it, or "out" of logger_init
          log_list,
          freed,     \* logs that were freed while on log_list
          minors,    \* misc devices that can be opened
          misc_mtx,  \* who holds it
          sought,    \* the log whose minor each opener looks for
          cursor     \* where get_log_from_minor is on log_list
devvars == <<making, made, log_list, freed, minors, misc_mtx, sought, cursor>>

NobodyHolds == "nobody"

LogDevInit == /\ making = 1 /\ made = "allocating" /\ log_list = <<>>
              /\ freed = {} /\ minors = {} /\ misc_mtx = NobodyHolds
              /\ sought = [o \in Openers |-> 0] /\ cursor = [o \in Openers |-> 0]

(* logger_init goes on with the next log, or leaves.                       *)
NextLog == /\ making' = making + 1
           /\ made' = IF making = Len(Logs) THEN "out" ELSE "allocating"

(* create_log: the buffer, the log and its name, then the list; a failed   *)
(* allocation ends logger_init with nothing listed.                        *)
create_log ==
    /\ made = "allocating"
    /\ \/ log_list' = Append(log_list, Logs[making]) /\ made' = "listed"
       \/ made' = "out" /\ UNCHANGED log_list
    /\ UNCHANGED <<making, freed, minors, misc_mtx, sought, cursor>>

TakeMiscMtx == /\ made = "listed" /\ misc_mtx = NobodyHolds
               /\ misc_mtx' = "init" /\ made' = "registering"
               /\ UNCHANGED <<making, log_list, freed, minors, sought, cursor>>

(* A logger_init that goes on after a failure.                             *)
GoesOn == /\ made = "registering" /\ misc_mtx' = NobodyHolds
          /\ NextLog
          /\ \/ minors' = minors \cup {Logs[making]} /\ UNCHANGED freed
             \/ freed' = freed \cup {Logs[making]} /\ UNCHANGED minors
          /\ UNCHANGED <<log_list, sought, cursor>>

(* misc_register, whose failure frees the log that is on the list.         *)
misc_register ==
    /\ made = "registering" /\ misc_mtx' = NobodyHolds
    /\ \/ minors' = minors \cup {Logs[making]} /\ NextLog /\ UNCHANGED freed
       \/ freed' = freed \cup {Logs[making]} /\ made' = "out" /\ UNCHANGED <<making, minors>>
    /\ UNCHANGED <<log_list, sought, cursor>>

(* misc_open of a registered minor, up to logger_open's walk.              *)
OpenDevice(o) == /\ sought[o] = 0 /\ misc_mtx = NobodyHolds
                 /\ misc_mtx' = o
                 /\ \E l \in minors : sought' = [sought EXCEPT ![o] = l]
                 /\ cursor' = [cursor EXCEPT ![o] = 1]
                 /\ UNCHANGED <<making, made, log_list, freed, minors>>

(* get_log_from_minor: one entry of list_for_each_entry.                   *)
get_log_from_minor(o) ==
    /\ cursor[o] # 0 /\ cursor[o] <= Len(log_list)
    /\ log_list[cursor[o]] # sought[o]
    /\ cursor' = [cursor EXCEPT ![o] = cursor[o] + 1]
    /\ UNCHANGED <<making, made, log_list, freed, minors, misc_mtx, sought>>

(* The log is found, or the walk is over and the open fails.               *)
OpenReturns(o) == /\ cursor[o] # 0
                  /\ cursor[o] <= Len(log_list) => log_list[cursor[o]] = sought[o]
                  /\ misc_mtx' = NobodyHolds
                  /\ sought' = [sought EXCEPT ![o] = 0] /\ cursor' = [cursor EXCEPT ![o] = 0]
                  /\ UNCHANGED <<making, made, log_list, freed, minors>>

LogDevNext == \/ create_log \/ TakeMiscMtx \/ misc_register
              \/ \E o \in Openers : OpenDevice(o) \/ get_log_from_minor(o) \/ OpenReturns(o)

LogDevSpec == LogDevInit /\ [][LogDevNext]_devvars

----------------------------------------------------------------------------
(* Although a log whose misc_register failed stays on log_list after its   *)
(* kfree, no open comes across it, and every open of a device that exists  *)
(* finds its log: create_log lists a log before it registers it, and       *)
(* logger_init stops at the first failure, which is thus the last entry.   *)
OpensFindTheirLog ==
    \A o \in Openers : cursor[o] # 0 => /\ cursor[o] <= Len(log_list)
                                        /\ log_list[cursor[o]] \notin freed
=============================================================================
