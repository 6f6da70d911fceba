--------------------------- MODULE RegulatorVoltage -------------------------
(***************************************************************************)
(* regulator/core.c: the voltage of one regulator whose consumers vote for *)
(* ranges, and the selector by which the driver sets it.  One action is    *)
(* one critical section of rdev->mutex.  Voltages are in steps, not in uV. *)
(***************************************************************************)
EXTENDS Integers

CONSTANTS Voters,      \* the consumers
          Descs,       \* descriptions: map, volt_table, min_uV, uV_step, linear_min_sel
          CMin, CMax,  \* the constraints of the machine
          uV_offset,
          Asked        \* ranges that consumers ask for

NoVote == [min |-> 0, max |-> 0]
EINVAL == -1

ASSUME VoltageAssumption ==
    /\ CMin \in Nat \ {0} /\ CMax \in Nat /\ CMin <= CMax /\ uV_offset \in Int
    /\ \A v \in Asked : v \in [min : Nat \ {0}, max : Nat] /\ v.min <= v.max

(* A table has a voltage for each selector.  The linear one is worked out: *)
(* regulator_list_voltage_linear, of which a fixed voltage is one step of  *)
(* no height.                                                              *)
Selectors(d) == DOMAIN d.volt_table
Linear(d, s) == IF s < d.linear_min_sel THEN 0
                ELSE d.min_uV + d.uV_step * (s - d.linear_min_sel)
ASSUME DescsAssumption == \A d \in Descs :
    /\ d.map \in {"iterate", "ascend", "linear"}
    /\ Selectors(d) \subseteq Nat /\ \A s \in Selectors(d) : d.volt_table[s] \in Nat
    /\ d.map = "ascend" =>
          \A s, t \in Selectors(d) : s <= t => d.volt_table[s] <= d.volt_table[t]
    /\ d.map = "linear" =>
          /\ d.min_uV \in Nat /\ d.uV_step \in Nat /\ d.linear_min_sel \in Nat
          /\ \A s \in Selectors(d) : d.volt_table[s] = Linear(d, s)
          /\ d.uV_step = 0 => Selectors(d) = {0} /\ d.linear_min_sel = 0

VARIABLES desc,
          vote,  \* regulator->min_uV and max_uV of each consumer
          sel    \* the selector that is set
volvars == <<desc, vote, sel>>

list_voltage(d, s) == IF s \in Selectors(d) THEN d.volt_table[s] ELSE EINVAL
uV == list_voltage(desc, sel) - uV_offset

VoltageTypeOK == /\ desc \in Descs /\ sel \in Selectors(desc)
                 /\ vote \in [Voters -> [min : 0 .. CMax, max : 0 .. CMax]]

VoltageInit == /\ desc \in Descs /\ sel \in Selectors(desc)
               /\ vote = [c \in Voters |-> NoVote]

----------------------------------------------------------------------------
(* The selector for [lo, hi], or EINVAL: the lowest voltage of the table;  *)
(* the first of an ascending one; the quotient, rounded up, of a linear    *)
(* one, whose selectors below linear_min_sel have no voltage, or its only   *)
(* voltage if it is fixed.                                                 *)
Suits(d, lo, hi) == {s \in Selectors(d) : lo <= d.volt_table[s] /\ d.volt_table[s] <= hi}

map_voltage_iterate(d, lo, hi) ==
    LET ok == Suits(d, lo, hi)
    IN  IF ok = {} THEN EINVAL
        ELSE CHOOSE s \in ok : \A t \in ok : \/ d.volt_table[s] < d.volt_table[t]
                                             \/ d.volt_table[s] = d.volt_table[t] /\ s <= t

map_voltage_ascend(d, lo, hi) ==
    LET stop == {s \in Selectors(d) : d.volt_table[s] >= lo}
        s == CHOOSE s \in stop : \A t \in stop : s <= t
    IN  IF stop = {} \/ d.volt_table[s] > hi THEN EINVAL ELSE s

map_voltage_linear(d, lo, hi) ==
    LET low == IF lo < d.min_uV THEN d.min_uV ELSE lo
        s == d.linear_min_sel + (low - d.min_uV + d.uV_step - 1) \div d.uV_step
    IN  IF d.uV_step = 0 THEN IF lo <= d.min_uV /\ d.min_uV <= hi THEN 0 ELSE EINVAL
        ELSE IF list_voltage(d, s) < low \/ list_voltage(d, s) > hi THEN EINVAL ELSE s

map_voltage(d, lo, hi) == CASE d.map = "iterate" -> map_voltage_iterate(d, lo, hi)
                            [] d.map = "ascend" -> map_voltage_ascend(d, lo, hi)
                            [] d.map = "linear" -> map_voltage_linear(d, lo, hi)

Least(a, b) == IF a < b THEN a ELSE b
Greatest(a, b) == IF a < b THEN b ELSE a

(* regulator_check_consumers: what suits those who have said something.    *)
check_consumers(votes) ==
    LET said == {c \in Voters : votes[c] # NoVote}
        lows == {votes[c].min : c \in said}
        highs == {votes[c].max : c \in said}
    IN  [min |-> CHOOSE n \in lows : \A m \in lows : m <= n,
         max |-> CHOOSE n \in highs : \A m \in highs : n <= m]

(* regulator_check_voltage: the part of a range that the machine allows.    *)
check_voltage(asked) == [min |-> Greatest(asked.min, CMin), max |-> Least(asked.max, CMax)]

(* check_voltage, check_consumers and _regulator_do_set_voltage; when the  *)
(* consumers disagree, no selector suits or the driver fails, the votes    *)
(* become `kept'.                                                          *)
Applied(c, asked, kept) ==
    LET mine == check_voltage(asked)
        votes == [vote EXCEPT ![c] = mine]
        all == check_consumers(votes)
        s == map_voltage(desc, all.min + uV_offset, all.max + uV_offset)
    IN  /\ mine.min <= mine.max
        /\ \/ /\ all.min <= all.max /\ s # EINVAL
              /\ vote' = votes /\ sel' = s
           \/ vote' = kept /\ UNCHANGED sel
        /\ UNCHANGED desc

(* A failed call whose vote stays.                                         *)
VoteKept(c) == \E asked \in Asked : /\ vote[c] # asked
                                    /\ Applied(c, asked, [vote EXCEPT ![c] = check_voltage(asked)])

regulator_set_voltage(c) == \E asked \in Asked : vote[c] # asked /\ Applied(c, asked, vote)

regulator_sync_voltage(c) == vote[c] # NoVote /\ Applied(c, vote[c], vote)

(* regulator_put, after which the consumer may be got again.               *)
PutVoter(c) == vote' = [vote EXCEPT ![c] = NoVote] /\ UNCHANGED <<desc, sel>>

VoltageNext == \E c \in Voters : \/ regulator_set_voltage(c) \/ regulator_sync_voltage(c)
                                 \/ PutVoter(c)

VoltageSpec == VoltageInit /\ [][VoltageNext]_volvars

----------------------------------------------------------------------------
(* "If the regulator is shared between several devices then the lowest     *)
(* request voltage that meets the system constraints will be used": what   *)
(* is set suits everyone who has said something, after failed calls too;   *)
(* a call that changes a vote sets the lowest voltage that does, whichever *)
(* way the driver maps voltages to selectors.                              *)
Meets(votes, v) == \A c \in Voters : votes[c] = NoVote \/ (votes[c].min <= v /\ v <= votes[c].max)
VoltageSuitsAll ==
    /\ [](Meets(vote, uV))
    /\ [][\A c \in Voters : vote'[c] \notin {vote[c], NoVote} =>
             \A s \in Selectors(desc) :
                LET v == list_voltage(desc, s) - uV_offset
                IN  CMin <= v /\ v <= CMax /\ Meets(vote', v) => uV' <= v]_volvars
=============================================================================
