------------------------------ MODULE Regulator -----------------------------
(***************************************************************************)
(* regulator/core.c: how often each regulator is in use, through its       *)
(* consumers, its supply, deferred disables and an enable gpio it may      *)
(* share.  One action is one critical section of rdev->mutex; a supply is  *)
(* enabled before, and disabled after, the section of the regulator it     *)
(* feeds.  A supply has none of its own.  Consumers balance their calls.   *)
(***************************************************************************)
EXTENDS Integers, FiniteSets

CONSTANTS Rdevs, Consumers,
          Of,         \* the regulator of each consumer
          Supply,     \* rdev->supply, or None
          Pin,        \* rdev->ena_pin, or None
          None,
          Switchable, \* with REGULATOR_CHANGE_STATUS
          AlwaysOn,   \* constraints->always_on
          BootOn,     \* switched on when they are registered
          MaxEnables, \* bound: enables of a consumer that are not undone yet
          MaxFailures \* bound: operations of drivers that fail

ASSUME RegulatorAssumption ==
    /\ IsFiniteSet(Rdevs) /\ IsFiniteSet(Consumers) /\ None \notin Rdevs
    /\ Of \in [Consumers -> Rdevs] /\ Supply \in [Rdevs -> Rdevs \cup {None}]
    /\ \A r \in Rdevs : Supply[r] # None => Supply[Supply[r]] = None
    /\ AlwaysOn \subseteq BootOn /\ BootOn \cup Switchable \subseteq Rdevs

VARIABLES use_count, open_count,
          on,                \* what _regulator_is_enabled says
          enable_count,      \* of the pins
          high,              \* gpios that are switched on
          deferred_disables,
          pending,           \* disable_work is queued
          supplies_off,      \* disables of the supply that disable_work has left
          handle,            \* a consumer: not open, open, or with always_on
          regpc,             \* how far its call is
          owed,              \* history: enables it has not balanced
          slipped,           \* history: a deferred disable has failed
          failures,          \* operations of drivers that have failed
          checked,           \* regulators that regulator_init_complete has seen
          astray             \* history: pins that it switched for a regulator that was off
regvars == <<use_count, open_count, on, enable_count, high, deferred_disables, pending,
             supplies_off, handle, regpc, owed, slipped, failures, checked, astray>>
hardware == <<on, enable_count, high, failures>>
deferral == <<deferred_disables, pending, supplies_off, slipped>>
boot == <<checked, astray>>

Pins == {Pin[r] : r \in Rdevs} \ {None}
Sharing(p) == {r \in Rdevs : Pin[r] = p}

RegTypeOK ==
    /\ use_count \in [Rdevs -> Nat] /\ open_count \in [Rdevs -> Nat]
    /\ on \in [Rdevs -> BOOLEAN] /\ enable_count \in [Pins -> Nat] /\ high \subseteq Pins
    /\ deferred_disables \in [Rdevs -> Nat] /\ pending \in [Rdevs -> BOOLEAN]
    /\ supplies_off \in [Rdevs -> Nat]
    /\ handle \in [Consumers -> {"closed", "open", "always_on"}]
    /\ regpc \in [Consumers -> {"idle", "enable", "undo", "disable", "schedule"}]
    /\ owed \in [Consumers -> 0 .. MaxEnables] /\ slipped \in BOOLEAN
    /\ failures \in 0 .. MaxFailures
    /\ checked \subseteq Rdevs /\ astray \subseteq Pins

RegInit == /\ use_count = [r \in Rdevs |-> 0] /\ open_count = [r \in Rdevs |-> 0]
           /\ on = [r \in Rdevs |-> r \in BootOn]
           /\ enable_count = [p \in Pins |-> Cardinality(Sharing(p) \cap BootOn)]
           /\ high = {p \in Pins : Sharing(p) \cap BootOn # {}}
           /\ deferred_disables = [r \in Rdevs |-> 0] /\ pending = [r \in Rdevs |-> FALSE]
           /\ supplies_off = [r \in Rdevs |-> 0]
           /\ handle = [c \in Consumers |-> "closed"] /\ regpc = [c \in Consumers |-> "idle"]
           /\ owed = [c \in Consumers |-> 0] /\ slipped = FALSE /\ failures = 0
           /\ checked = {} /\ astray = {}

----------------------------------------------------------------------------
(* The pin goes up with its first user and down with its last.             *)
regulator_ena_gpio_ctrl(p, enable) ==
    IF enable THEN /\ enable_count' = [enable_count EXCEPT ![p] = @ + 1]
                   /\ high' = high \cup {p}
    ELSE IF enable_count[p] > 1
         THEN enable_count' = [enable_count EXCEPT ![p] = @ - 1] /\ UNCHANGED high
         ELSE enable_count' = [enable_count EXCEPT ![p] = 0] /\ high' = high \ {p}

SwitchTo(r, to) == /\ on' = [on EXCEPT ![r] = to] /\ UNCHANGED failures
                   /\ IF Pin[r] = None THEN UNCHANGED <<enable_count, high>>
                                       ELSE regulator_ena_gpio_ctrl(Pin[r], to)

(* A gpio does not fail; the operations of a driver do.                    *)
Fail(r) == /\ Pin[r] = None /\ failures < MaxFailures
           /\ failures' = failures + 1
           /\ UNCHANGED <<on, enable_count, high>>

Count(r, by) == use_count' = [use_count EXCEPT ![r] = @ + by]

EnableOk(r) == /\ Count(r, 1)
               /\ IF use_count[r] = 0 /\ ~on[r] THEN r \in Switchable /\ SwitchTo(r, TRUE)
                                                ELSE UNCHANGED hardware
EnableFails(r) == /\ use_count[r] = 0 /\ ~on[r]
                  /\ IF r \in Switchable THEN Fail(r) ELSE UNCHANGED hardware
                  /\ UNCHANGED use_count

(* _regulator_disable n times in a row: only the last may touch the        *)
(* hardware, and fail.  What is always on keeps its last use, and says     *)
(* that it is disabled.                                                    *)
DisableOk(r, n) ==
    LET last == n > 0 /\ use_count[r] = n
    IN  /\ use_count[r] >= n
        /\ Count(r, IF last /\ r \in AlwaysOn THEN 1 - n ELSE -n)
        /\ IF last /\ r \in Switchable \ AlwaysOn THEN SwitchTo(r, FALSE) ELSE UNCHANGED hardware
DisableFails(r, n) == \/ use_count[r] = 0 /\ UNCHANGED <<use_count, hardware>>
                      \/ /\ n > 0 /\ use_count[r] = n
                         /\ r \in Switchable \ AlwaysOn /\ Fail(r)
                         /\ Count(r, 1 - n)

RegStep(c, from, to) == regpc[c] = from /\ regpc' = [regpc EXCEPT ![c] = to]
Supplied(c) == Supply[Of[c]] # None

----------------------------------------------------------------------------
regulator_get(c) ==
    /\ handle[c] = "closed"
    /\ handle' = [handle EXCEPT ![c] =
                     IF Of[c] \notin Switchable /\ on[Of[c]] THEN "always_on" ELSE "open"]
    /\ open_count' = [open_count EXCEPT ![Of[c]] = @ + 1]
    /\ UNCHANGED <<use_count, hardware, deferral, regpc, owed, boot>>

regulator_put(c) ==
    /\ handle[c] # "closed" /\ regpc[c] = "idle" /\ owed[c] = 0
    /\ handle' = [handle EXCEPT ![c] = "closed"]
    /\ open_count' = [open_count EXCEPT ![Of[c]] = @ - 1]
    /\ UNCHANGED <<use_count, hardware, deferral, regpc, owed, boot>>

(* regulator_enable: the supply, then the regulator, or the supply again.  *)
MayEnable(c) == handle[c] = "open" /\ owed[c] + deferred_disables[Of[c]] < MaxEnables
EnableSupply(c) ==
    /\ MayEnable(c) /\ Supplied(c)
    /\ \/ EnableOk(Supply[Of[c]]) /\ RegStep(c, "idle", "enable")
       \/ EnableFails(Supply[Of[c]]) /\ RegStep(c, "idle", "idle")
    /\ UNCHANGED <<open_count, deferral, handle, owed, boot>>

Enable(c) ==
    /\ Supplied(c) \/ MayEnable(c)
    /\ \/ /\ EnableOk(Of[c])
          /\ owed' = [owed EXCEPT ![c] = @ + 1]
          /\ RegStep(c, IF Supplied(c) THEN "enable" ELSE "idle", "idle")
       \/ /\ EnableFails(Of[c]) /\ UNCHANGED owed
          /\ IF Supplied(c) THEN RegStep(c, "enable", "undo") ELSE RegStep(c, "idle", "idle")
    /\ UNCHANGED <<open_count, deferral, handle, boot>>

(* A disable that takes the supply away although the regulator stays on.   *)
DisableRegardless(c) ==
    /\ handle[c] = "open" /\ owed[c] > 0
    /\ \/ DisableOk(Of[c], 1) /\ owed' = [owed EXCEPT ![c] = @ - 1]
       \/ DisableFails(Of[c], 1) /\ UNCHANGED owed
    /\ RegStep(c, "idle", IF Supplied(c) THEN "disable" ELSE "idle")
    /\ UNCHANGED <<open_count, deferral, handle, boot>>

(* regulator_disable: the regulator, then, if that is done, its supply,    *)
(* whose failure is not looked at.                                         *)
Disable(c) ==
    /\ handle[c] = "open" /\ owed[c] > 0
    /\ \/ /\ DisableOk(Of[c], 1)
          /\ owed' = [owed EXCEPT ![c] = @ - 1]
          /\ RegStep(c, "idle", IF Supplied(c) THEN "disable" ELSE "idle")
       \/ DisableFails(Of[c], 1) /\ UNCHANGED owed /\ RegStep(c, "idle", "idle")
    /\ UNCHANGED <<open_count, deferral, handle, boot>>

DisableSupply(c) ==
    /\ RegStep(c, "undo", "idle") \/ RegStep(c, "disable", "idle")
    /\ DisableOk(Supply[Of[c]], 1) \/ DisableFails(Supply[Of[c]], 1)
    /\ UNCHANGED <<open_count, deferral, handle, owed, boot>>

(* regulator_disable_deferred: the count and the work are apart.           *)
Defer(c) ==
    /\ handle[c] = "open" /\ owed[c] > 0 /\ RegStep(c, "idle", "schedule")
    /\ owed' = [owed EXCEPT ![c] = @ - 1]
    /\ deferred_disables' = [deferred_disables EXCEPT ![Of[c]] = @ + 1]
    /\ UNCHANGED <<use_count, open_count, hardware, pending, supplies_off, handle, slipped, boot>>

Schedule(c) == /\ RegStep(c, "schedule", "idle")
               /\ pending' = [pending EXCEPT ![Of[c]] = TRUE]
               /\ UNCHANGED <<use_count, open_count, hardware, deferred_disables, supplies_off,
                              handle, owed, slipped, boot>>

(* regulator_disable_work: as many disables as were deferred, whose        *)
(* failure stops nothing, and then as many of the supply.  BUG_ON stops    *)
(* it where there is nothing to do.                                        *)
regulator_disable_work(r) ==
    LET n == deferred_disables[r] IN
    /\ pending[r] /\ supplies_off[r] = 0 /\ n > 0
    /\ pending' = [pending EXCEPT ![r] = FALSE]
    /\ deferred_disables' = [deferred_disables EXCEPT ![r] = 0]
    /\ supplies_off' = [supplies_off EXCEPT ![r] = IF Supply[r] = None THEN 0 ELSE n]
    /\ \/ DisableOk(r, n) /\ UNCHANGED slipped
       \/ DisableFails(r, n) /\ slipped' = TRUE
    /\ UNCHANGED <<open_count, handle, regpc, owed, boot>>

WorkDisablesSupply(r) ==
    /\ supplies_off[r] > 0
    /\ supplies_off' = [supplies_off EXCEPT ![r] = @ - 1]
    /\ DisableOk(Supply[r], 1) \/ DisableFails(Supply[r], 1)
    /\ UNCHANGED <<open_count, deferred_disables, pending, handle, regpc, owed, slipped, boot>>

(* regulator_init_complete looks at each regulator once.  The drivers that *)
(* use a gpio have no is_enabled, and are assumed to be on.                *)
regulator_init_complete(r) ==
    /\ r \notin checked
    /\ checked' = checked \cup {r}
    /\ IF r \notin AlwaysOn /\ use_count[r] = 0 /\ (on[r] \/ Pin[r] # None)
       THEN SwitchTo(r, FALSE) \/ Fail(r)
       ELSE UNCHANGED hardware
    /\ astray' = IF r \notin AlwaysOn /\ use_count[r] = 0 /\ ~on[r] /\ Pin[r] # None
                 THEN astray \cup {Pin[r]} ELSE astray
    /\ UNCHANGED <<use_count, open_count, deferral, handle, regpc, owed>>

RegNext == \/ \E c \in Consumers : \/ regulator_get(c) \/ regulator_put(c)
                                   \/ EnableSupply(c) \/ Enable(c)
                                   \/ Disable(c) \/ DisableSupply(c)
                                   \/ Defer(c) \/ Schedule(c)
           \/ \E r \in Rdevs : \/ regulator_disable_work(r) \/ WorkDisablesSupply(r)
                               \/ regulator_init_complete(r)

RegSpec == RegInit /\ [][RegNext]_regvars
----------------------------------------------------------------------------
(* What r is in use for: calls that its consumers have not balanced, and   *)
(* those made for what it supplies, up to the end of the call.  What is    *)
(* always on keeps its last use, but its supply is disabled with every     *)
(* disable.                                                                *)
Sum(f) == Cardinality(UNION {{x} \X (1 .. f[x]) : x \in DOMAIN f})
InCalls(r) == supplies_off[r]
    + Cardinality({c \in Consumers : Of[c] = r /\ regpc[c] \in {"enable", "undo", "disable"}})
OwnUses(r) == deferred_disables[r] + Sum([c \in {c \in Consumers : Of[c] = r} |-> owed[c]])
HeldBy(f) == InCalls(f) + IF f \in AlwaysOn THEN OwnUses(f) ELSE use_count[f]
Uses(r) == OwnUses(r) + Sum([f \in {f \in Rdevs : Supply[f] = r} |-> HeldBy(f)])

(* "Calls to regulator_enable() must be balanced": then no interleaving of *)
(* enables, disables, their failures and deferred disables takes away a    *)
(* use, of a supply either, and what is used is on.  The exception is a    *)
(* deferred disable that fails and has its supply disabled all the same.   *)
UsesAreCounted == /\ \A r \in Rdevs : use_count[r] > 0 => on[r]
                  /\ ~slipped => \A r \in Rdevs : use_count[r] >= Uses(r)

(* "GPIO is disabled when it is not shared any more": while any regulator  *)
(* that shares it is in use it is high, once the late disabling of unused  *)
(* regulators has not taken it down for one that was off.                  *)
SharedPinIsHigh ==
    \A p \in Pins \ astray : /\ enable_count[p] = Cardinality({r \in Sharing(p) : on[r]})
                             /\ p \in high <=> enable_count[p] > 0

(* No use is lost, neither of a regulator nor of a pin it shares.          *)
UsesAreServed == UsesAreCounted /\ SharedPinIsHigh

(* "BUG_ON(!rdev->deferred_disables)": the work runs with something to do. *)
DeferralIsCounted == \A r \in Rdevs : pending[r] /\ supplies_off[r] = 0
                                         => deferred_disables[r] > 0
=============================================================================
