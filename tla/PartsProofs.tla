----------------------------- MODULE PartsProofs ----------------------------
(***************************************************************************)
(* Theorems about parts that MCParts checks together, each for every value *)
(* of its own constants: the voltage of a shared regulator, opens while    *)
(* the logs are made, where the text of printk is, the cameras of the      *)
(* stress test, the uses of regulators, and the places in printk's ring.   *)
(***************************************************************************)
EXTENDS RegulatorVoltage, Regulator, LoggerDevices, Console, LogBuf, CameraTest,
        WellFoundedInduction, FiniteSetTheorems, TLAPS

(* What the CHOOSEs of least and greatest elements find.                   *)
LEMMA LeastOf ==
    ASSUME NEW S, S \subseteq Nat, S # {}
    PROVE  \E k \in S : \A j \in S : k <= j
<1> DEFINE less == {ss \in Nat \X Nat : ss[1] < ss[2]}
<1>1. IsWellFoundedOn(less, Nat) BY NatLessThanWellFounded DEF OpToRel
<1> HIDE DEF less
<1>2. \E k \in S : \A j \in S : <<j, k>> \notin less BY <1>1, WFMin
<1>3. ASSUME NEW k \in Nat, NEW j \in Nat, <<j, k>> \notin less PROVE k <= j
  BY <1>3 DEF less
<1> QED BY <1>2, <1>3

LEMMA GreatestOf ==
    ASSUME NEW n \in Nat, NEW S, S \subseteq 0 .. n, S # {}
    PROVE  \E k \in S : \A j \in S : j <= k
<1> DEFINE D == {n - j : j \in S}
<1>1. D \subseteq Nat /\ D # {}
  <2>1. PICK j \in S : TRUE OBVIOUS
  <2>2. n - j \in D OBVIOUS
  <2>3. \A i \in S : n - i \in Nat OBVIOUS
  <2> QED BY <2>2, <2>3
<1>2. PICK d \in D : \A e \in D : d <= e BY <1>1, LeastOf
<1>3. PICK k \in S : d = n - k BY <1>2
<1>4. ASSUME NEW j \in S PROVE j <= k
  <2>1. n - k <= n - j BY <1>2, <1>3
  <2> QED BY <2>1
<1> QED BY <1>4

LEMMA Quotient ==
    ASSUME NEW n \in Nat \ {0}, NEW a \in Int
    PROVE  a \div n \in Int /\ n * (a \div n) <= a /\ a < n * (a \div n) + n
OBVIOUS

LEMMA NextMultiple ==
    ASSUME NEW n \in Nat \ {0}, NEW q \in Int, NEW p \in Int, q < p
    PROVE  n * q + n <= n * p
<1>1. p - q - 1 \in Nat OBVIOUS
<1>2. n * (p - q - 1) \in Nat BY <1>1
<1>3. n * (p - q - 1) = n * p - n * q - n OBVIOUS
<1>4. n * p \in Int /\ n * q \in Int OBVIOUS
<1> QED BY <1>2, <1>3, <1>4

----------------------------------------------------------------------------
(* A selector for the lowest voltage in a range.                           *)
Lowest(d, lo, hi, s) == /\ s \in Suits(d, lo, hi)
                        /\ \A t \in Suits(d, lo, hi) : d.volt_table[s] <= d.volt_table[t]

LEMMA IterateIsLowest ==
    ASSUME NEW d \in Descs, NEW lo, NEW hi, map_voltage_iterate(d, lo, hi) # EINVAL
    PROVE  Lowest(d, lo, hi, map_voltage_iterate(d, lo, hi))
<1> DEFINE ok == Suits(d, lo, hi)
           Better(s, t) == \/ d.volt_table[s] < d.volt_table[t]
                           \/ d.volt_table[s] = d.volt_table[t] /\ s <= t
<1>1. ok # {} BY DEF map_voltage_iterate
<1>2. ok \subseteq Nat /\ \A s \in ok : d.volt_table[s] \in Nat BY DescsAssumption DEF Suits
<1> HIDE DEF ok
<1>3. PICK v \in {d.volt_table[s] : s \in ok} : \A w \in {d.volt_table[s] : s \in ok} : v <= w
  BY <1>1, <1>2, LeastOf
<1> DEFINE T == {s \in ok : d.volt_table[s] = v}
<1>4. PICK s \in T : \A t \in T : s <= t
  <2>1. T # {} /\ T \subseteq Nat BY <1>2, <1>3
  <2> QED BY <2>1, LeastOf
<1>5. s \in ok /\ \A t \in ok : Better(s, t)
  <2>1. ASSUME NEW t \in ok PROVE Better(s, t)
    <3>1. v <= d.volt_table[t] /\ v = d.volt_table[s] BY <1>3, <1>4
    <3>2. CASE d.volt_table[t] = v BY <1>4, <3>1, <3>2
    <3>3. CASE d.volt_table[t] # v BY <1>2, <1>4, <3>1, <3>3
    <3> QED BY <3>2, <3>3
  <2> QED BY <1>4, <2>1
<1> DEFINE m == map_voltage_iterate(d, lo, hi)
<1>6. m = CHOOSE s_1 \in ok : \A t \in ok : Better(s_1, t) BY <1>1 DEF map_voltage_iterate, ok
<1>7. m \in ok /\ \A t \in ok : Better(m, t)
  <2> HIDE DEF m, Better
  <2> QED BY <1>5, <1>6
<1>8. ASSUME NEW t \in ok PROVE d.volt_table[m] <= d.volt_table[t]
  <2> HIDE DEF m
  <2> QED BY <1>2, <1>7
<1> QED BY <1>7, <1>8 DEF Lowest, ok

LEMMA AscendIsLowest ==
    ASSUME NEW d \in Descs, d.map = "ascend", NEW lo \in Int, NEW hi \in Int,
           map_voltage_ascend(d, lo, hi) # EINVAL
    PROVE  Lowest(d, lo, hi, map_voltage_ascend(d, lo, hi))
<1> DEFINE stop == {s \in Selectors(d) : d.volt_table[s] >= lo}
           m == CHOOSE s \in stop : \A t \in stop : s <= t
<1>1. Selectors(d) \subseteq Nat /\ \A s \in Selectors(d) : d.volt_table[s] \in Nat
  BY DescsAssumption
<1>2. stop # {} /\ ~(d.volt_table[m] > hi) /\ map_voltage_ascend(d, lo, hi) = m
  BY DEF map_voltage_ascend
<1>3. m \in stop /\ \A t \in stop : m <= t
  <2>1. \E s \in stop : \A t \in stop : s <= t BY <1>1, <1>2, LeastOf
  <2> HIDE DEF stop
  <2> QED BY <2>1
<1> HIDE DEF m
<1>4. m \in Suits(d, lo, hi) BY <1>1, <1>2, <1>3 DEF Suits
<1>5. ASSUME NEW t \in Suits(d, lo, hi) PROVE d.volt_table[m] <= d.volt_table[t]
  <2>1. t \in stop /\ m \in Selectors(d) /\ t \in Selectors(d) BY <1>1, <1>3 DEF Suits
  <2>2. m <= t BY <1>3, <2>1
  <2> QED BY <2>1, <2>2, DescsAssumption
<1> QED BY <1>2, <1>4, <1>5 DEF Lowest

(* The quotient is rounded up to a voltage in range, and no lower one is.  *)
LEMMA LinearIsLowest ==
    ASSUME NEW d \in Descs, d.map = "linear", NEW lo \in Nat \ {0}, NEW hi \in Int,
           map_voltage_linear(d, lo, hi) # EINVAL
    PROVE  Lowest(d, lo, hi, map_voltage_linear(d, lo, hi))
<1> DEFINE step == d.uV_step
           min == d.min_uV
           base == d.linear_min_sel
           low == IF lo < min THEN min ELSE lo
           a == low - min + step - 1
           q == a \div step
           m == base + q
<1>1. /\ min \in Nat /\ step \in Nat /\ base \in Nat
      /\ Selectors(d) \subseteq Nat
      /\ \A s \in Selectors(d) : /\ d.volt_table[s] \in Nat
                                 /\ d.volt_table[s] = IF s < base THEN 0
                                                      ELSE min + step * (s - base)
      /\ step = 0 => Selectors(d) = {0} /\ base = 0
  BY DescsAssumption DEF Linear
<1>2. CASE step = 0
  <2>1. map_voltage_linear(d, lo, hi) = 0 /\ lo <= min /\ min <= hi
    BY <1>2 DEF map_voltage_linear
  <2>2. d.volt_table[0] = min BY <1>1, <1>2
  <2>3. 0 \in Suits(d, lo, hi) /\ Suits(d, lo, hi) \subseteq {0}
    BY <1>1, <1>2, <2>1, <2>2 DEF Suits
  <2> QED BY <1>1, <2>1, <2>2, <2>3 DEF Lowest
<1>3. CASE step # 0
  <2>1. /\ map_voltage_linear(d, lo, hi) = m
        /\ ~(list_voltage(d, m) < low) /\ ~(list_voltage(d, m) > hi)
    BY <1>3 DEF map_voltage_linear
  <2>2. low \in Nat /\ low >= lo /\ low >= min BY <1>1
  <2>3. a \in Int /\ a >= 0 /\ a >= step - 1 BY <1>1, <1>3, <2>2
  <2> HIDE DEF a, low
  <2>4. q \in Int /\ step * q <= a /\ a < step * q + step BY <1>1, <1>3, <2>3, Quotient
  <2> HIDE DEF q, m, step, min, base
  <2>5. m \in Selectors(d)
    <3>1. CASE m \notin Selectors(d)
      <4>1. list_voltage(d, m) = -1 BY <3>1 DEF list_voltage, EINVAL
      <4> QED BY <2>1, <2>2, <4>1
    <3> QED BY <3>1
  <2>6. list_voltage(d, m) = d.volt_table[m] /\ d.volt_table[m] \in Nat
    BY <1>1, <2>5 DEF list_voltage
  <2>7. m \in Suits(d, lo, hi) BY <2>1, <2>2, <2>5, <2>6 DEF Suits
  <2>8. m >= base /\ d.volt_table[m] = min + step * q
    <3>1. d.volt_table[m] # 0 BY <2>1, <2>2, <2>6
    <3>2. m >= base BY <1>1, <2>5, <3>1
    <3>3. m - base = q BY <1>1, <2>4 DEF m
    <3> QED BY <1>1, <2>5, <3>2, <3>3
  <2>9. ASSUME NEW t \in Suits(d, lo, hi) PROVE d.volt_table[m] <= d.volt_table[t]
    <3>1. t \in Selectors(d) /\ lo <= d.volt_table[t] BY DEF Suits
    <3>2. t >= base /\ t \in Nat /\ d.volt_table[t] = min + step * (t - base)
      BY <1>1, <3>1
    <3> DEFINE k == t - base
               y == step * k
               x == step * q
    <3>3. k \in Nat /\ y \in Nat /\ x \in Int BY <1>1, <2>4, <3>2
    <3>4. d.volt_table[t] = min + y BY <3>2
    <3>5. low <= min + y BY <1>1, <2>2, <3>1, <3>3, <3>4 DEF low
    <3>6. ~(k < q)
      <4>1. ASSUME k < q PROVE FALSE
        <5>1. y + step <= x BY <1>1, <1>3, <2>4, <3>3, <4>1, NextMultiple
        <5>2. x <= a BY <2>4
        <5> HIDE DEF y, x
        <5> QED BY <1>1, <2>2, <3>3, <3>5, <5>1, <5>2 DEF a
      <4> QED BY <4>1
    <3>7. x <= y
      <4>1. CASE q = k BY <3>3, <4>1
      <4>2. CASE q < k
        <5>1. x + step <= y BY <1>1, <1>3, <2>4, <3>3, <4>2, NextMultiple
        <5> HIDE DEF y, x
        <5> QED BY <1>1, <3>3, <5>1
      <4> QED BY <2>4, <3>3, <3>6, <4>1, <4>2
    <3> HIDE DEF y, x
    <3>8. d.volt_table[m] = min + x BY <2>8 DEF x
    <3> QED BY <1>1, <3>3, <3>4, <3>7, <3>8
  <2> QED BY <2>1, <2>7, <2>9 DEF Lowest
<1> QED BY <1>2, <1>3

(* Whichever way the driver maps voltages to selectors.                    *)
LEMMA MapIsLowest ==
    ASSUME NEW d \in Descs, NEW lo \in Nat \ {0}, NEW hi \in Int,
           map_voltage(d, lo, hi) # EINVAL
    PROVE  Lowest(d, lo, hi, map_voltage(d, lo, hi))
<1>1. d.map \in {"iterate", "ascend", "linear"} BY DescsAssumption
<1>2. CASE d.map = "iterate" BY <1>2, IterateIsLowest DEF map_voltage
<1>3. CASE d.map = "ascend" BY <1>3, AscendIsLowest DEF map_voltage
<1>4. CASE d.map = "linear" BY <1>4, LinearIsLowest DEF map_voltage
<1> QED BY <1>1, <1>2, <1>3, <1>4

----------------------------------------------------------------------------
(* A vote is a part of what the machine allows.                            *)
IsVote(v) == v = NoVote \/ /\ v.min \in Nat /\ v.max \in Nat
                           /\ CMin <= v.min /\ v.min <= v.max /\ v.max <= CMax

VoltageInv == /\ desc \in Descs /\ sel \in Selectors(desc)
              /\ vote = [c \in Voters |-> vote[c]]
              /\ \A c \in Voters : IsVote(vote[c])
              /\ Meets(vote, uV)

(* What the driver is given when somebody has voted: the range that all of *)
(* the votes have in common.                                               *)
LEMMA ConsumersAgree ==
    ASSUME NEW votes, \A c \in Voters : IsVote(votes[c]),
           NEW b \in Voters, votes[b] # NoVote
    PROVE  LET all == check_consumers(votes)
           IN  /\ all.min \in CMin .. CMax /\ all.max \in Nat
               /\ \A v \in Int : Meets(votes, v) <=> all.min <= v /\ v <= all.max
<1> DEFINE said == {c \in Voters : votes[c] # NoVote}
           lows == {votes[c].min : c \in said}
           highs == {votes[c].max : c \in said}
           n == CHOOSE n \in lows : \A m \in lows : m <= n
           h == CHOOSE h \in highs : \A m \in highs : h <= m
<1>1. CMin \in Nat \ {0} /\ CMax \in Nat BY VoltageAssumption
<1>2. \A c \in said : /\ votes[c].min \in CMin .. CMax /\ votes[c].max \in Nat
  <2> SUFFICES ASSUME NEW c \in said
               PROVE  votes[c].min \in CMin .. CMax /\ votes[c].max \in Nat
    OBVIOUS
  <2>1. IsVote(votes[c]) /\ votes[c] # NoVote OBVIOUS
  <2> DEFINE u == votes[c]
  <2> HIDE DEF u
  <2>2. u.min \in Nat /\ CMin <= u.min /\ u.min <= u.max /\ u.max <= CMax /\ u.max \in Nat
    BY <2>1 DEF IsVote, u
  <2>3. u.min \in CMin .. CMax BY <1>1, <2>2
  <2> QED BY <2>2, <2>3 DEF u
<1>3. b \in said OBVIOUS
<1>4. check_consumers(votes) = [min |-> n, max |-> h] BY DEF check_consumers
<1>5. n \in lows /\ \A m \in lows : m <= n
  <2>1. lows # {} /\ lows \subseteq 0 .. CMax
    <3> HIDE DEF said
    <3> QED BY <1>1, <1>2, <1>3
  <2> HIDE DEF lows
  <2>2. \E k \in lows : \A j \in lows : j <= k BY <1>1, <2>1, GreatestOf
  <2> QED BY <2>2
<1>6. h \in highs /\ \A m \in highs : h <= m
  <2>1. highs # {} /\ highs \subseteq Nat
    <3> HIDE DEF said
    <3> QED BY <1>2, <1>3
  <2> HIDE DEF highs
  <2>2. \E k \in highs : \A j \in highs : k <= j BY <2>1, LeastOf
  <2> QED BY <2>2
<1> HIDE DEF n, h
<1>7. n \in CMin .. CMax /\ h \in Nat
  <2> HIDE DEF said
  <2> QED BY <1>2, <1>5, <1>6
<1>8. ASSUME NEW v \in Int PROVE Meets(votes, v) <=> n <= v /\ v <= h
  <2>1. ASSUME Meets(votes, v) PROVE n <= v /\ v <= h
    <3>1. PICK c \in said : n = votes[c].min BY <1>5
    <3>2. PICK d \in said : h = votes[d].max BY <1>6
    <3> QED BY <2>1, <3>1, <3>2 DEF Meets
  <2>2. ASSUME n <= v, v <= h PROVE Meets(votes, v)
    <3> SUFFICES ASSUME NEW c \in said PROVE votes[c].min <= v /\ v <= votes[c].max
      BY DEF Meets
    <3>1. votes[c].min <= n /\ h <= votes[c].max BY <1>5, <1>6
    <3>2. votes[c].min \in Int /\ votes[c].max \in Int BY <1>1, <1>2
    <3> HIDE DEF said
    <3> QED BY <1>1, <1>7, <2>2, <3>1, <3>2
  <2> QED BY <2>1, <2>2
<1> QED BY <1>4, <1>7, <1>8

(* A call of one consumer: its vote is applied, or nothing changes.        *)
LEMMA AppliedSuits ==
    ASSUME CMin + uV_offset > 0, VoltageInv,
           NEW b \in Voters, NEW asked, Applied(b, asked, vote),
           asked \in [min : Nat \ {0}, max : Nat] \/ asked = vote[b]
    PROVE  /\ VoltageInv'
           /\ \A c \in Voters : vote'[c] \notin {vote[c], NoVote} =>
                \A s \in Selectors(desc) :
                   LET v == list_voltage(desc, s) - uV_offset
                   IN  CMin <= v /\ v <= CMax /\ Meets(vote', v) => uV' <= v
<1> DEFINE mine == check_voltage(asked)
           votes == [vote EXCEPT ![b] = mine]
           all == check_consumers(votes)
           m == map_voltage(desc, all.min + uV_offset, all.max + uV_offset)
<1>1. mine.min <= mine.max BY DEF Applied
<1>2. CASE vote' = vote /\ UNCHANGED <<sel, desc>>
  BY <1>2 DEF VoltageInv, uV, Meets
<1>3. CASE vote' = votes /\ sel' = m /\ UNCHANGED desc /\ m # EINVAL
  <2>1. CMin \in Nat \ {0} /\ CMax \in Nat /\ uV_offset \in Int BY VoltageAssumption
  <2>2. asked.min \in Nat /\ asked.max \in Nat
    BY DEF VoltageInv, IsVote, NoVote
  <2>3. IsVote(mine) /\ mine # NoVote
    BY <1>1, <2>1, <2>2 DEF check_voltage, Greatest, Least, IsVote, NoVote
  <2>4. votes = [c \in Voters |-> votes[c]] /\ votes[b] = mine
        /\ \A c \in Voters : IsVote(votes[c])
    BY <2>3 DEF VoltageInv
  <2>5. /\ all.min \in CMin .. CMax /\ all.max \in Nat
        /\ \A v \in Int : Meets(votes, v) <=> all.min <= v /\ v <= all.max
    <3> HIDE DEF votes, mine
    <3> QED BY <2>3, <2>4, ConsumersAgree
  <2> HIDE DEF all, votes, mine
  <2> DEFINE lo == all.min + uV_offset
             hi == all.max + uV_offset
  <2>6. lo \in Nat \ {0} /\ hi \in Int BY <2>1, <2>5
  <2>7. Lowest(desc, lo, hi, m)
    <3>1. desc \in Descs BY DEF VoltageInv
    <3>2. m = map_voltage(desc, lo, hi) OBVIOUS
    <3> HIDE DEF lo, hi, m
    <3> QED BY <1>3, <2>6, <3>1, <3>2, MapIsLowest
  <2> HIDE DEF m
  <2>8. desc \in Descs /\ Selectors(desc) \subseteq Nat
        /\ \A s \in Selectors(desc) : desc.volt_table[s] \in Nat
    BY DescsAssumption DEF VoltageInv
  <2>9. /\ m \in Selectors(desc) /\ lo <= desc.volt_table[m] /\ desc.volt_table[m] <= hi
        /\ uV' = desc.volt_table[m] - uV_offset
    BY <1>3, <2>7 DEF Lowest, Suits, uV, list_voltage
  <2>10. uV' \in Int /\ all.min <= uV' /\ uV' <= all.max
    <3> DEFINE x == desc.volt_table[m]
    <3>1. x \in Int BY <2>8, <2>9
    <3> HIDE DEF x
    <3>2. lo <= x /\ x <= hi /\ uV' = x - uV_offset BY <2>9 DEF x
    <3> QED BY <2>1, <2>5, <3>1, <3>2
  <2>11. VoltageInv'
    <3>1. Meets(votes, uV') BY <2>5, <2>10
    <3>2. Meets(vote, uV)' BY <1>3, <3>1 DEF Meets
    <3> QED BY <1>3, <2>4, <2>8, <2>9, <3>2 DEF VoltageInv, IsVote
  <2>12. ASSUME NEW s \in Selectors(desc), Meets(vote', list_voltage(desc, s) - uV_offset)
         PROVE  uV' <= list_voltage(desc, s) - uV_offset
    <3> DEFINE x == desc.volt_table[s]
    <3>1. list_voltage(desc, s) = x BY DEF list_voltage
    <3>2. x \in Int BY <2>8
    <3>3. all.min <= x - uV_offset /\ x - uV_offset <= all.max
      <4> HIDE DEF x
      <4>1. x - uV_offset \in Int /\ Meets(votes, x - uV_offset)
        BY <1>3, <2>1, <2>12, <3>1, <3>2
      <4> QED BY <2>5, <4>1
    <3>4. lo <= x /\ x <= hi
      <4> HIDE DEF x
      <4> QED BY <2>1, <2>5, <3>2, <3>3
    <3>5. desc.volt_table[m] <= x BY <2>7, <3>4 DEF Lowest, Suits
    <3>6. desc.volt_table[m] \in Int BY <2>8, <2>9
    <3> HIDE DEF x
    <3> QED BY <2>1, <2>9, <3>1, <3>2, <3>5, <3>6
  <2> QED BY <2>11, <2>12
<1>4. \/ vote' = vote /\ UNCHANGED <<sel, desc>>
      \/ vote' = votes /\ sel' = m /\ UNCHANGED desc /\ m # EINVAL
  BY DEF Applied
<1> QED BY <1>2, <1>3, <1>4

(* core.c: "if the regulator is shared between several devices then the    *)
(* lowest request voltage that meets the system constraints will be used": *)
(* for any number of consumers, any requests and any description whose     *)
(* driver lists its voltages as it says; the constraints of the machine    *)
(* are taken to be voltages of the regulator.                              *)
THEOREM VoltagesSuit == ASSUME CMin + uV_offset > 0 PROVE VoltageSpec => VoltageSuitsAll
<1>1. VoltageInit => VoltageInv BY DEF VoltageInit, VoltageInv, IsVote, Meets
<1> DEFINE LowestIsSet ==
             \A c \in Voters : vote'[c] \notin {vote[c], NoVote} =>
                \A s \in Selectors(desc) :
                   LET v == list_voltage(desc, s) - uV_offset
                   IN  CMin <= v /\ v <= CMax /\ Meets(vote', v) => uV' <= v
<1>2. ASSUME VoltageInv, [VoltageNext]_volvars PROVE VoltageInv' /\ [LowestIsSet]_volvars
  <2>1. ASSUME NEW b \in Voters, regulator_set_voltage(b) PROVE VoltageInv' /\ LowestIsSet
    <3>1. PICK asked \in Asked : Applied(b, asked, vote) BY <2>1 DEF regulator_set_voltage
    <3>2. asked \in [min : Nat \ {0}, max : Nat] BY VoltageAssumption
    <3> QED BY <1>2, <3>1, <3>2, AppliedSuits
  <2>2. ASSUME NEW b \in Voters, regulator_sync_voltage(b) PROVE VoltageInv' /\ LowestIsSet
    BY <1>2, <2>2, AppliedSuits DEF regulator_sync_voltage
  <2>3. ASSUME NEW b \in Voters, PutVoter(b) PROVE VoltageInv' /\ LowestIsSet
    BY <1>2, <2>3 DEF PutVoter, VoltageInv, IsVote, uV, Meets
  <2>4. CASE UNCHANGED volvars BY <1>2, <2>4 DEF volvars, VoltageInv, IsVote, uV, Meets
  <2> QED BY <1>2, <2>1, <2>2, <2>3, <2>4 DEF VoltageNext
<1>3. VoltageInv => Meets(vote, uV) BY DEF VoltageInv
<1>4. VoltageInv /\ [VoltageNext]_volvars => VoltageInv' /\ [LowestIsSet]_volvars BY <1>2
<1>5. VoltageSpec => [](Meets(vote, uV)) /\ [][LowestIsSet]_volvars
  <2> HIDE DEF LowestIsSet
  <2> QED BY <1>1, <1>3, <1>4, PTL DEF VoltageSpec
<1> QED BY <1>5 DEF VoltageSuitsAll

----------------------------------------------------------------------------
(* Opens find their logs whatever fails, for any sequence of logs without  *)
(* repetitions and any number of openers.  A walk along log_list is safe   *)
(* without a lock because the list only grows, what is sought is on it and *)
(* not freed, and a freed log is the last one, behind what is sought.      *)

LogDevTypeOK ==
    /\ making \in 1 .. Len(Logs) + 1
    /\ made \in {"allocating", "listed", "registering", "out"}
    /\ log_list \in Seq(Nat) /\ freed \subseteq Nat /\ minors \subseteq Nat
    /\ cursor \in [Openers -> Nat] /\ sought \in [Openers -> Nat]

(* The list holds the first logs of logger_init, up to the one under way.  *)
Listed ==
    /\ made # "out" => making <= Len(Logs)
    /\ made = "allocating" => Len(log_list) = making - 1
    /\ made \in {"listed", "registering"} => Len(log_list) = making
    /\ Len(log_list) \in {making - 1, making} /\ Len(log_list) <= Len(Logs)
    /\ \A i \in 1 .. Len(log_list) : log_list[i] = Logs[i]

(* What can be opened came before the log under way; what was freed is     *)
(* that log, on the list when logger_init gave up.                         *)
Registered ==
    /\ \A l \in minors : \E i \in 1 .. making - 1 : l = Logs[i]
    /\ \A l \in freed : made = "out" /\ making <= Len(Logs) /\ l = Logs[making]

(* An opener seeks a registered log, which its walk has not passed.        *)
Walks == \A o \in Openers :
            cursor[o] # 0 => /\ sought[o] \in minors
                             /\ \A i \in 1 .. cursor[o] - 1 : log_list[i] # sought[o]

LogDevInv == LogDevTypeOK /\ Listed /\ Registered /\ Walks

(* A registered log is on the list, and not the freed one.                 *)
LEMMA SoughtIsThere ==
    ASSUME LogDevInv, NEW l \in minors
    PROVE  /\ l \notin freed
           /\ \E i \in 1 .. Len(log_list) : log_list[i] = l
<1>1. PICK i \in 1 .. making - 1 : l = Logs[i] BY DEF LogDevInv, Registered
<1>2. /\ making \in Nat /\ Len(log_list) \in Nat /\ Len(Logs) \in Nat
      /\ making <= Len(Logs) + 1
      /\ DOMAIN Logs = 1 .. Len(Logs)
  BY LogsAssumption DEF LogDevInv, LogDevTypeOK
<1>3. l \notin freed
  BY <1>1, <1>2, LogsAssumption DEF LogDevInv, Registered
<1>4. i \in 1 .. Len(log_list) /\ log_list[i] = l
  BY <1>1, <1>2 DEF LogDevInv, Listed
<1> QED BY <1>3, <1>4

(* The invariant is enough.                                                *)
LEMMA LogDevFinds == LogDevInv => OpensFindTheirLog
<1> SUFFICES ASSUME LogDevInv, NEW o \in Openers, cursor[o] # 0
             PROVE  cursor[o] <= Len(log_list) /\ log_list[cursor[o]] \notin freed
  BY DEF OpensFindTheirLog
<1>1. sought[o] \in minors /\ \A i \in 1 .. cursor[o] - 1 : log_list[i] # sought[o]
  BY DEF LogDevInv, Walks
<1>2. sought[o] \notin freed BY <1>1, SoughtIsThere
<1>3. PICK k \in 1 .. Len(log_list) : log_list[k] = sought[o] BY <1>1, SoughtIsThere
<1>4. cursor[o] \in Nat /\ Len(log_list) \in Nat /\ making \in Nat /\ Len(Logs) \in Nat
      /\ DOMAIN Logs = 1 .. Len(Logs)
  BY LogsAssumption DEF LogDevInv, LogDevTypeOK
<1>5. cursor[o] <= k BY <1>1, <1>3, <1>4
<1>6. cursor[o] <= Len(log_list) /\ cursor[o] >= 1 BY <1>3, <1>4, <1>5
<1>7. ASSUME log_list[cursor[o]] \in freed PROVE FALSE
  <2>1. Logs[cursor[o]] = Logs[making] /\ making <= Len(Logs) /\ making >= 1
    BY <1>4, <1>6, <1>7 DEF LogDevInv, Listed, Registered, LogDevTypeOK
  <2>2. cursor[o] = making
    BY <2>1, <1>4, <1>6, LogsAssumption DEF LogDevInv, Listed
  <2>3. k = cursor[o] BY <2>2, <1>3, <1>4, <1>5 DEF LogDevInv, Listed
  <2> QED BY <2>3, <1>2, <1>3, <1>7
<1> QED BY <1>6, <1>7

LEMMA LogDevStart == LogDevInit => LogDevInv
<1> SUFFICES ASSUME LogDevInit PROVE LogDevInv OBVIOUS
<1>1. Len(Logs) \in Nat /\ Len(Logs) >= 1 BY LogsAssumption
<1>2. log_list = <<>> /\ Len(log_list) = 0 /\ log_list \in Seq(Nat) BY DEF LogDevInit
<1> QED BY <1>1, <1>2 DEF LogDevInit, LogDevInv, LogDevTypeOK, Listed, Registered, Walks

LEMMA LogDevSteps == LogDevInv /\ [LogDevNext]_devvars => LogDevInv'
<1> SUFFICES ASSUME LogDevInv, [LogDevNext]_devvars PROVE LogDevInv' OBVIOUS
<1> USE DEF LogDevInv
<1>0. /\ Len(Logs) \in Nat /\ Len(log_list) \in Nat /\ making \in Nat
      /\ \A i \in 1 .. Len(Logs) : Logs[i] \in Nat
      /\ DOMAIN Logs = 1 .. Len(Logs)
  BY LogsAssumption DEF LogDevTypeOK
<1>1. CASE create_log
  <2>1. CASE log_list' = Append(log_list, Logs[making]) /\ made' = "listed"
    <3>1. making \in 1 .. Len(Logs) /\ Logs[making] \in Nat
      BY <1>0, <1>1 DEF create_log, Listed, LogDevTypeOK
    <3>2. /\ log_list' \in Seq(Nat) /\ Len(log_list') = Len(log_list) + 1
          /\ \A i \in 1 .. Len(log_list) : log_list'[i] = log_list[i]
          /\ log_list'[Len(log_list) + 1] = Logs[making]
      BY <2>1, <3>1 DEF LogDevTypeOK
    <3>3. LogDevTypeOK' BY <1>1, <2>1, <3>2 DEF create_log, LogDevTypeOK
    <3>4. Listed' BY <1>0, <1>1, <2>1, <3>1, <3>2 DEF create_log, Listed
    <3>5. Registered' BY <1>1, <2>1 DEF create_log, Registered
    <3>6. Walks'
      <4> SUFFICES ASSUME NEW o \in Openers, cursor[o] # 0, NEW i \in 1 .. cursor[o] - 1
                   PROVE  sought[o] \in minors /\ log_list'[i] # sought[o]
        BY <1>1 DEF create_log, Walks
      <4>1. sought[o] \in minors /\ log_list[i] # sought[o] BY DEF Walks
      <4>2. cursor[o] <= Len(log_list) BY LogDevFinds DEF OpensFindTheirLog
      <4>3. i \in 1 .. Len(log_list) BY <4>2, <1>0 DEF LogDevTypeOK
      <4> QED BY <4>1, <4>3, <3>2
    <3> QED BY <3>3, <3>4, <3>5, <3>6
  <2>2. CASE made' = "out" /\ UNCHANGED log_list
    BY <1>0, <1>1, <2>2 DEF create_log, LogDevTypeOK, Listed, Registered, Walks
  <2> QED BY <1>1, <2>1, <2>2 DEF create_log
<1>2. CASE TakeMiscMtx
  BY <1>0, <1>2 DEF TakeMiscMtx, LogDevTypeOK, Listed, Registered, Walks
<1>3. CASE misc_register
  <2>0. making \in 1 .. Len(Logs) /\ Logs[making] \in Nat
    BY <1>0, <1>3 DEF misc_register, Listed, LogDevTypeOK
  <2>1. CASE minors' = minors \cup {Logs[making]} /\ NextLog /\ UNCHANGED freed
    <3>a. making' = making + 1 BY <2>1 DEF NextLog
    <3>b. /\ made' \in {"allocating", "out"}
          /\ made' # "out" => making # Len(Logs)
      BY <2>1 DEF NextLog
    <3>c. making \in Nat /\ making <= Len(Logs) /\ making >= 1 BY <1>0, <2>0
    <3>d. making # Len(Logs) => making' <= Len(Logs)
      <4> \A m, n \in Nat : m <= n /\ m # n => m + 1 <= n OBVIOUS
      <4> Len(Logs) \in Nat BY <1>0
      <4> QED BY <3>a, <3>c
    <3>0. /\ made = "registering"
          /\ minors' = minors \cup {Logs[making]} /\ freed' = freed
          /\ log_list' = log_list /\ sought' = sought /\ cursor' = cursor
      BY <1>3, <2>1 DEF misc_register, NextLog
    <3>1. LogDevTypeOK'
      <4>1. making' \in 1 .. Len(Logs) + 1 BY <1>0, <3>a, <3>c
      <4>2. made' \in {"allocating", "listed", "registering", "out"} BY <3>b
      <4>3. minors' \subseteq Nat BY <2>0, <3>0 DEF LogDevTypeOK
      <4> QED BY <3>0, <4>1, <4>2, <4>3 DEF LogDevTypeOK
    <3>2. Listed'
      <4>1. Len(log_list) = making BY <3>0 DEF Listed
      <4>2. made' # "out" => making' <= Len(Logs) BY <3>b, <3>d
      <4>3. made' \notin {"listed", "registering"} BY <3>b
      <4>4. Len(log_list') = making' - 1 BY <3>0, <3>a, <3>c, <4>1
      <4> QED BY <1>0, <3>0, <3>a, <3>c, <4>1, <4>2, <4>3, <4>4 DEF Listed
    <3>3. Registered'
      <4>1. \A l \in minors' : \E i \in 1 .. making' - 1 : l = Logs[i]
        BY <1>0, <3>0, <3>a, <3>c DEF Registered
      <4>2. \A l \in freed' : FALSE BY <3>0 DEF Registered
      <4> QED BY <4>1, <4>2 DEF Registered
    <3>4. Walks' BY <3>0 DEF Walks
    <3> QED BY <3>1, <3>2, <3>3, <3>4
  <2>2. CASE freed' = freed \cup {Logs[making]} /\ made' = "out" /\ UNCHANGED <<making, minors>>
    BY <1>0, <1>3, <2>0, <2>2 DEF misc_register, LogDevTypeOK, Listed, Registered, Walks
  <2> QED BY <1>3, <2>1, <2>2 DEF misc_register
<1>4. ASSUME NEW o \in Openers, OpenDevice(o) PROVE LogDevInv'
  <2>1. PICK l \in minors : sought' = [sought EXCEPT ![o] = l] BY <1>4 DEF OpenDevice
  <2>2. LogDevTypeOK' BY <1>4, <2>1 DEF OpenDevice, LogDevTypeOK
  <2>3. Listed' /\ Registered' BY <1>4 DEF OpenDevice, Listed, Registered
  <2>4. Walks' BY <1>4, <2>1 DEF OpenDevice, Walks, LogDevTypeOK
  <2> QED BY <2>2, <2>3, <2>4
<1>5. ASSUME NEW o \in Openers, get_log_from_minor(o) PROVE LogDevInv'
  <2>1. LogDevTypeOK' BY <1>5 DEF get_log_from_minor, LogDevTypeOK
  <2>2. Listed' /\ Registered' BY <1>5 DEF get_log_from_minor, Listed, Registered
  <2>3. Walks' BY <1>5 DEF get_log_from_minor, Walks, LogDevTypeOK
  <2> QED BY <2>1, <2>2, <2>3
<1>6. ASSUME NEW o \in Openers, OpenReturns(o) PROVE LogDevInv'
  <2>1. LogDevTypeOK' BY <1>6 DEF OpenReturns, LogDevTypeOK
  <2>2. Listed' /\ Registered' BY <1>6 DEF OpenReturns, Listed, Registered
  <2>3. Walks' BY <1>6 DEF OpenReturns, Walks, LogDevTypeOK
  <2> QED BY <2>1, <2>2, <2>3
<1>7. CASE UNCHANGED devvars
  BY <1>7 DEF devvars, LogDevTypeOK, Listed, Registered, Walks
<1> QED BY <1>1, <1>2, <1>3, <1>4, <1>5, <1>6, <1>7 DEF LogDevNext

(* logger.c: a log that is freed although it is listed is never met by an  *)
(* open, and each open of a device that exists finds its log, however many *)
(* logs are made and whichever step of which fails.                        *)
THEOREM OpensAreSafe == LogDevSpec => []OpensFindTheirLog
<1>1. LogDevSpec => []LogDevInv BY LogDevStart, LogDevSteps, PTL DEF LogDevSpec
<1> QED BY <1>1, LogDevFinds, PTL

----------------------------------------------------------------------------
(* The text of printk is spread over the consoles, what was overrun, what  *)
(* is on its way, what is not in a record yet, and the records.            *)
InRecords(recs) == UNION {Elements(recs[i]) : i \in DOMAIN recs}
Spread(out, lost, going, rest, recs, n) ==
    /\ out \cup lost \cup going \cup rest \cup InRecords(recs) = 1 .. n
    /\ out \cap (lost \cup going \cup rest \cup InRecords(recs)) = {}
    /\ lost \cap (going \cup rest \cup InRecords(recs)) = {}
    /\ going \cap (rest \cup InRecords(recs)) = {}
    /\ rest \cap InRecords(recs) = {}
    /\ \A i, j \in DOMAIN recs : i # j => Elements(recs[i]) \cap Elements(recs[j]) = {}

Line == [frags : Seq(Nat), cons : Nat, owner : Printers \cup {"none"}, flushed : BOOLEAN]
Buffers == {b \in [cont : Line, records : Seq(Seq(Nat)), dropped : SUBSET Nat] :
               b.cont.cons <= Len(b.cont.frags)}
RestIn(line) == Elements(SubSeq(line.frags, line.cons + 1, Len(line.frags)))

LEMMA RecordsJoined ==
    ASSUME NEW recs \in Seq(Seq(Nat)), NEW frags \in Seq(Nat)
    PROVE  LET more == Append(recs, frags) IN
           /\ more \in Seq(Seq(Nat)) /\ DOMAIN more = 1 .. Len(recs) + 1
           /\ Len(more) = Len(recs) + 1 /\ more[Len(recs) + 1] = frags
           /\ \A i \in 1 .. Len(recs) : more[i] = recs[i]
           /\ InRecords(more) = InRecords(recs) \cup Elements(frags)
<1> DEFINE more == Append(recs, frags)
<1>1. /\ more \in Seq(Seq(Nat)) /\ DOMAIN more = 1 .. Len(recs) + 1 /\ Len(more) = Len(recs) + 1
      /\ more[Len(recs) + 1] = frags /\ \A i \in 1 .. Len(recs) : more[i] = recs[i]
      /\ Len(recs) \in Nat /\ DOMAIN recs = 1 .. Len(recs)
  OBVIOUS
<1> HIDE DEF more
<1>2. DOMAIN more = DOMAIN recs \cup {Len(recs) + 1} BY <1>1
<1>3. InRecords(more) = InRecords(recs) \cup Elements(frags)
  BY <1>1, <1>2 DEF InRecords
<1> QED BY <1>1, <1>3 DEF more

LEMMA RecordsHead ==
    ASSUME NEW recs \in Seq(Seq(Nat)), recs # <<>>
    PROVE  /\ Tail(recs) \in Seq(Seq(Nat)) /\ Len(Tail(recs)) = Len(recs) - 1
           /\ Head(recs) = recs[1] /\ 1 \in DOMAIN recs
           /\ \A i \in DOMAIN Tail(recs) : /\ Tail(recs)[i] = recs[i + 1] /\ i + 1 # 1
                                           /\ i + 1 \in DOMAIN recs /\ i \in Nat
           /\ InRecords(recs) = Elements(Head(recs)) \cup InRecords(Tail(recs))
<1> DEFINE less == Tail(recs)
<1>1. /\ less \in Seq(Seq(Nat)) /\ Len(less) = Len(recs) - 1 /\ Head(recs) = recs[1]
      /\ Len(recs) \in Nat /\ Len(recs) >= 1 /\ DOMAIN recs = 1 .. Len(recs)
      /\ DOMAIN less = 1 .. Len(recs) - 1
      /\ \A i \in 1 .. Len(recs) - 1 : less[i] = recs[i + 1]
  OBVIOUS
<1> HIDE DEF less
<1>2. ASSUME NEW i \in DOMAIN recs, i # 1 PROVE i - 1 \in DOMAIN less /\ less[i - 1] = recs[i]
  <2>1. i - 1 \in 1 .. Len(recs) - 1 /\ (i - 1) + 1 = i BY <1>1, <1>2
  <2> QED BY <1>1, <2>1
<1>3. ASSUME NEW i \in DOMAIN less
      PROVE  less[i] = recs[i + 1] /\ i + 1 # 1 /\ i + 1 \in DOMAIN recs /\ i \in Nat
  BY <1>1
<1>4. 1 \in DOMAIN recs BY <1>1
<1>5. InRecords(recs) = Elements(Head(recs)) \cup InRecords(less)
  <2>1. ASSUME NEW e \in InRecords(recs) PROVE e \in Elements(Head(recs)) \cup InRecords(less)
    <3>1. PICK i \in DOMAIN recs : e \in Elements(recs[i]) BY <2>1 DEF InRecords
    <3>2. CASE i = 1 BY <1>1, <3>1, <3>2
    <3>3. CASE i # 1
      <4>1. e \in Elements(less[i - 1]) /\ i - 1 \in DOMAIN less BY <1>2, <3>1, <3>3
      <4> QED BY <4>1 DEF InRecords
    <3> QED BY <3>2, <3>3
  <2>2. ASSUME NEW e \in InRecords(less) PROVE e \in InRecords(recs)
    <3>1. PICK i \in DOMAIN less : e \in Elements(less[i]) BY <2>2 DEF InRecords
    <3>2. e \in Elements(recs[i + 1]) /\ i + 1 \in DOMAIN recs BY <1>3, <3>1
    <3> QED BY <3>2 DEF InRecords
  <2>3. Elements(Head(recs)) \subseteq InRecords(recs) BY <1>1, <1>4 DEF InRecords
  <2> QED BY <2>1, <2>2, <2>3
<1> QED BY <1>1, <1>3, <1>4, <1>5 DEF less

(* What is stored moves to the records, and what was overrun out of them.  *)
LEMMA StoredSpreads ==
    ASSUME NEW b \in Buffers, Len(b.records) <= LogRecords, NEW frags \in Seq(Nat),
           NEW out, NEW going, NEW R, NEW n, R \cap Elements(frags) = {},
           Spread(out, b.dropped, going, R \cup Elements(frags), b.records, n)
    PROVE  LET s == Stored(b, frags) IN
           /\ s \in Buffers /\ s.cont = b.cont /\ Len(s.records) <= LogRecords
           /\ Spread(out, s.dropped, going, R, s.records, n)
<1> DEFINE full == Len(b.records) = LogRecords
           kept == IF full THEN Tail(b.records) ELSE b.records
           gone == IF full THEN Elements(Head(b.records)) ELSE {}
           recs == Append(kept, frags)
           lost == b.dropped \cup gone
           s == Stored(b, frags)
<1>1. /\ b.records \in Seq(Seq(Nat)) /\ b.dropped \in SUBSET Nat /\ b.cont \in Line
      /\ Len(b.records) \in Nat /\ LogRecords \in Nat \ {0}
  BY ConsoleAssumption DEF Buffers
<1>2. /\ kept \in Seq(Seq(Nat)) /\ Len(kept) < LogRecords
      /\ InRecords(b.records) = gone \cup InRecords(kept) /\ gone \subseteq Nat
      /\ \A i, j \in DOMAIN kept : i # j => Elements(kept[i]) \cap Elements(kept[j]) = {}
      /\ \A i \in DOMAIN kept : gone \cap Elements(kept[i]) = {}
  <2>0. \A i, j \in DOMAIN b.records :
           i # j => Elements(b.records[i]) \cap Elements(b.records[j]) = {}
    BY DEF Spread
  <2>1. CASE full
    <3>1. b.records # <<>> BY <1>1, <2>1
    <3> DEFINE old == b.records
    <3> HIDE DEF old
    <3>2. /\ Tail(old) \in Seq(Seq(Nat)) /\ Len(Tail(old)) = Len(old) - 1
          /\ Head(old) = old[1] /\ 1 \in DOMAIN old
          /\ \A i \in DOMAIN Tail(old) : /\ Tail(old)[i] = old[i + 1] /\ i + 1 # 1
                                         /\ i + 1 \in DOMAIN old /\ i \in Nat
          /\ InRecords(old) = Elements(Head(old)) \cup InRecords(Tail(old))
      BY <1>1, <3>1, RecordsHead DEF old
    <3>3. \A i, j \in DOMAIN Tail(old) : i # j => i + 1 # j + 1 BY <3>2
    <3>4. old[1] \in Seq(Nat) /\ Elements(old[1]) \subseteq Nat
      <4>1. old[1] \in Seq(Nat) BY <1>1, <3>2 DEF old
      <4> QED BY <4>1 DEF Elements
    <3>5. Len(Tail(old)) < LogRecords BY <1>1, <2>1, <3>2 DEF old
    <3>6. \A i, j \in DOMAIN old : i # j => Elements(old[i]) \cap Elements(old[j]) = {}
      BY <2>0 DEF old
    <3>7. kept = Tail(old) /\ gone = Elements(Head(old)) BY <2>1 DEF old
    <3>8. InRecords(b.records) = InRecords(old) BY DEF old
    <3> HIDE DEF kept, gone
    <3>9. \A i, j \in DOMAIN kept : i # j => Elements(kept[i]) \cap Elements(kept[j]) = {}
      BY <3>2, <3>3, <3>6, <3>7
    <3>10. \A i \in DOMAIN kept : gone \cap Elements(kept[i]) = {} BY <3>2, <3>6, <3>7
    <3> QED BY <3>2, <3>4, <3>5, <3>7, <3>8, <3>9, <3>10
  <2>2. CASE ~full
    <3>1. kept = b.records /\ gone = {} BY <2>2
    <3>2. Len(b.records) < LogRecords BY <1>1, <2>2
    <3> HIDE DEF kept, gone
    <3> QED BY <1>1, <2>0, <3>1, <3>2
  <2> QED BY <2>1, <2>2
<1>3. /\ s = [b EXCEPT !.records = recs, !.dropped = lost]
  BY DEF Stored
<1>4. /\ s.cont = b.cont /\ s.records = recs /\ s.dropped = lost
      /\ s \in [cont : Line, records : Seq(Seq(Nat)), dropped : SUBSET Nat]
  <2>1. recs \in Seq(Seq(Nat)) /\ lost \in SUBSET Nat
    <3>1. kept \in Seq(Seq(Nat)) /\ gone \subseteq Nat BY <1>2
    <3> HIDE DEF kept, gone
    <3>2. recs \in Seq(Seq(Nat)) BY <3>1
    <3>3. lost \in SUBSET Nat BY <1>1, <3>1
    <3> QED BY <3>2, <3>3
  <2> HIDE DEF recs, lost
  <2> QED BY <1>3, <2>1 DEF Buffers
<1> HIDE DEF kept, gone, s
<1>5. /\ Len(recs) = Len(kept) + 1 /\ DOMAIN recs = 1 .. Len(kept) + 1
      /\ DOMAIN kept = 1 .. Len(kept) /\ Len(kept) \in Nat
      /\ recs[Len(kept) + 1] = frags /\ \A i \in 1 .. Len(kept) : recs[i] = kept[i]
      /\ InRecords(recs) = InRecords(kept) \cup Elements(frags)
  BY <1>2, RecordsJoined
<1>6. s \in Buffers /\ Len(s.records) <= LogRecords
  BY <1>1, <1>2, <1>4, <1>5 DEF Buffers
<1> HIDE DEF recs
<1>7. gone \cap InRecords(kept) = {} BY <1>2 DEF InRecords
<1>8. Elements(frags) \cap InRecords(kept) = {} BY <1>2 DEF Spread
<1>9. ASSUME NEW i \in DOMAIN recs, NEW j \in DOMAIN recs, i # j
      PROVE  Elements(recs[i]) \cap Elements(recs[j]) = {}
  <2>1. \A k \in DOMAIN recs : \/ k \in DOMAIN kept /\ recs[k] = kept[k]
                               \/ k = Len(kept) + 1 /\ recs[k] = frags
    BY <1>5
  <2>2. \A k \in DOMAIN kept : Elements(frags) \cap Elements(kept[k]) = {}
    BY <1>8 DEF InRecords
  <2> QED BY <1>2, <1>9, <2>1, <2>2
<1>10. Spread(out, lost, going, R, recs, n)
  BY <1>2, <1>5, <1>7, <1>8, <1>9 DEF Spread
<1> QED BY <1>4, <1>6, <1>10 DEF s

(* The buffers b and what is out of them hold n fragments, X apart.        *)
Keeps(b, X, out, going, n) ==
    /\ b \in Buffers /\ Len(b.records) <= LogRecords /\ RestIn(b.cont) \cap X = {}
    /\ Spread(out, b.dropped, going, RestIn(b.cont) \cup X, b.records, n)

LEMMA RestElements ==
    ASSUME NEW s \in Seq(Nat), NEW m \in Nat, m <= Len(s)
    PROVE  Elements(SubSeq(s, m + 1, Len(s))) = {s[i] : i \in m + 1 .. Len(s)}
<1> DEFINE r == SubSeq(s, m + 1, Len(s))
<1>1. DOMAIN r = 1 .. Len(s) - m /\ Len(s) \in Nat
  OBVIOUS
<1>2. \A i \in 1 .. Len(s) - m : r[i] = s[i + m]
  OBVIOUS
<1> HIDE DEF r
<1>3. ASSUME NEW i \in m + 1 .. Len(s) PROVE s[i] \in Elements(r)
  <2>1. i - m \in 1 .. Len(s) - m /\ (i - m) + m = i BY <1>1
  <2> QED BY <1>1, <1>2, <2>1 DEF Elements
<1>4. ASSUME NEW e \in Elements(r) PROVE e \in {s[i] : i \in m + 1 .. Len(s)}
  <2>1. PICK i \in DOMAIN r : e = r[i] BY <1>4 DEF Elements
  <2>2. e = s[i + m] /\ i + m \in m + 1 .. Len(s) BY <1>1, <1>2, <2>1
  <2> QED BY <2>2
<1> QED BY <1>3, <1>4 DEF r

LEMMA NothingLeft ==
    /\ RestIn(NoLine) = {} /\ NoLine \in Line
    /\ \A line \in Line : line.cons = 0 => RestIn(line) = Elements(line.frags)
    /\ \A line \in Line : line.cons = Len(line.frags) => RestIn(line) = {}
<1>1. Elements(SubSeq(<<>>, 1, 0)) = {}
  <2>1. SubSeq(<<>>, 1, 0) = <<>> OBVIOUS
  <2>2. Elements(<<>>) = {} BY DEF Elements
  <2> QED BY <2>1, <2>2
<1>2. RestIn(NoLine) = {} /\ NoLine \in Line
  <2>1. NoLine.frags = <<>> /\ NoLine.cons = 0 /\ Len(<<>>) = 0 BY DEF NoLine
  <2>2. RestIn(NoLine) = {} BY <1>1, <2>1 DEF RestIn
  <2>3. NoLine \in Line BY DEF NoLine, Line
  <2> QED BY <2>2, <2>3
<1>3. ASSUME NEW line \in Line, line.cons = 0 PROVE RestIn(line) = Elements(line.frags)
  <2> DEFINE s == line.frags
  <2>1. s \in Seq(Nat) /\ Len(s) \in Nat /\ DOMAIN s = 1 .. Len(s) BY DEF Line
  <2> HIDE DEF s
  <2>2. Elements(SubSeq(s, 0 + 1, Len(s))) = {s[i] : i \in 0 + 1 .. Len(s)}
    BY <2>1, RestElements
  <2>3. RestIn(line) = Elements(SubSeq(s, 0 + 1, Len(s))) BY <1>3 DEF RestIn, s
  <2>4. Elements(s) = {s[i] : i \in 0 + 1 .. Len(s)} BY <2>1 DEF Elements
  <2> QED BY <2>2, <2>3, <2>4 DEF s
<1>4. ASSUME NEW line \in Line, line.cons = Len(line.frags) PROVE RestIn(line) = {}
  <2> DEFINE s == line.frags
  <2>1. s \in Seq(Nat) /\ Len(s) \in Nat BY DEF Line
  <2> HIDE DEF s
  <2>2. Elements(SubSeq(s, Len(s) + 1, Len(s))) = {s[i] : i \in Len(s) + 1 .. Len(s)}
    BY <2>1, RestElements
  <2>3. RestIn(line) = Elements(SubSeq(s, Len(s) + 1, Len(s))) BY <1>4 DEF RestIn, s
  <2>4. Len(s) + 1 .. Len(s) = {} BY <2>1
  <2> QED BY <2>2, <2>3, <2>4
<1> QED BY <1>2, <1>3, <1>4

LEMMA FlushedKeeps ==
    ASSUME NEW b, NEW X, NEW out, NEW going, NEW n, Keeps(b, X, out, going, n)
    PROVE  Keeps(Flushed(b), X, out, going, n)
<1> DEFINE line == b.cont
           b1 == [b EXCEPT !.cont.flushed = TRUE]
           b2 == [b EXCEPT !.cont = NoLine]
<1>1. /\ b \in Buffers /\ Len(b.records) <= LogRecords /\ RestIn(line) \cap X = {}
      /\ Spread(out, b.dropped, going, RestIn(line) \cup X, b.records, n)
      /\ line \in Line /\ line.frags \in Seq(Nat) /\ line.cons <= Len(line.frags)
      /\ line.cons \in Nat
  BY DEF Keeps, Buffers, Line
<1>2. CASE line.flushed \/ line.frags = <<>> BY <1>2 DEF Flushed
<1>3. CASE ~(line.flushed \/ line.frags = <<>>) /\ line.cons > 0
  <2>1. Flushed(b) = Stored(b1, <<>>) BY <1>3 DEF Flushed
  <2>2. /\ b1 \in Buffers /\ b1.records = b.records /\ b1.dropped = b.dropped
        /\ b1.cont \in Line /\ b1.cont.frags = line.frags /\ b1.cont.cons = line.cons
    BY <1>1 DEF Buffers, Line
  <2>3. RestIn(b1.cont) = RestIn(line) BY <2>2 DEF RestIn
  <2>4. <<>> \in Seq(Nat) /\ Elements(<<>>) = {} BY DEF Elements
  <2> HIDE DEF b1
  <2> DEFINE R == RestIn(line) \cup X
  <2>5. Spread(out, b1.dropped, going, R \cup Elements(<<>>), b1.records, n)
    BY <1>1, <2>2, <2>4
  <2> HIDE DEF R
  <2>6. /\ Stored(b1, <<>>) \in Buffers /\ Stored(b1, <<>>).cont = b1.cont
        /\ Len(Stored(b1, <<>>).records) <= LogRecords
        /\ Spread(out, Stored(b1, <<>>).dropped, going, R, Stored(b1, <<>>).records, n)
    BY <1>1, <2>2, <2>4, <2>5, StoredSpreads
  <2> QED BY <1>1, <2>1, <2>3, <2>6 DEF Keeps, R
<1>4. CASE ~(line.flushed \/ line.frags = <<>>) /\ line.cons = 0
  <2>1. Flushed(b) = Stored(b2, line.frags) BY <1>4 DEF Flushed
  <2>2. /\ b2.records = b.records /\ b2.dropped = b.dropped /\ b2.cont = NoLine
        /\ b2 \in Buffers
    <3>1. NoLine.cons <= Len(NoLine.frags) BY DEF NoLine
    <3> QED BY <1>1, <3>1, NothingLeft DEF Buffers
  <2>3. RestIn(line) = Elements(line.frags) BY <1>1, <1>4, NothingLeft
  <2> HIDE DEF b2
  <2>4. Spread(out, b2.dropped, going, X \cup Elements(line.frags), b2.records, n)
    <3>1. X \cup Elements(line.frags) = RestIn(line) \cup X BY <2>3
    <3> QED BY <1>1, <2>2, <3>1
  <2> DEFINE s == Stored(b2, line.frags)
  <2>5. /\ s \in Buffers /\ s.cont = b2.cont /\ Len(s.records) <= LogRecords
        /\ Spread(out, s.dropped, going, X, s.records, n)
    BY <1>1, <2>2, <2>3, <2>4, StoredSpreads
  <2> HIDE DEF s
  <2>6. RestIn(s.cont) = {} /\ {} \cup X = X BY <2>2, <2>5, NothingLeft
  <2> QED BY <2>1, <2>5, <2>6 DEF Keeps, s
<1> QED BY <1>1, <1>2, <1>3, <1>4

LEMMA StoredOne ==
    ASSUME NEW b, NEW f \in Nat, NEW out, NEW going, NEW n, Keeps(b, {f}, out, going, n)
    PROVE  Keeps(Stored(b, <<f>>), {}, out, going, n)
<1> DEFINE last == <<f>>
           R == RestIn(b.cont)
<1>1. last \in Seq(Nat) /\ Elements(last) = {f}
  <2>1. DOMAIN last = {1} /\ last[1] = f OBVIOUS
  <2> QED BY <2>1 DEF Elements
<1> HIDE DEF last
<1>2. /\ b \in Buffers /\ Len(b.records) <= LogRecords /\ R \cap Elements(last) = {}
      /\ Spread(out, b.dropped, going, R \cup Elements(last), b.records, n)
  BY <1>1 DEF Keeps
<1> DEFINE s == Stored(b, last)
<1>3. /\ s \in Buffers /\ s.cont = b.cont /\ Len(s.records) <= LogRecords
      /\ Spread(out, s.dropped, going, R, s.records, n)
  <2> HIDE DEF R
  <2> QED BY <1>1, <1>2, StoredSpreads
<1> HIDE DEF s
<1>4. Keeps(s, {}, out, going, n)
  <2>1. RestIn(s.cont) \cup {} = R /\ RestIn(s.cont) \cap {} = {} BY <1>3
  <2> QED BY <1>3, <2>1 DEF Keeps
<1> QED BY <1>4 DEF s, last

LEMMA AddedKeeps ==
    ASSUME NEW b, NEW p \in Printers, NEW f \in Nat, NEW out, NEW going, NEW n, NEW room,
           Keeps(b, {f}, out, going, n)
    PROVE  Keeps(Added(b, p, f, room), {}, out, going, n)
<1> DEFINE line == IF b.cont.frags = <<>> THEN [NoLine EXCEPT !.owner = p] ELSE b.cont
           new == [line EXCEPT !.frags = Append(@, f)]
           more == [b EXCEPT !.cont = new]
<1>1. /\ b \in Buffers /\ b.cont \in Line /\ b.cont.frags \in Seq(Nat) /\ b.cont.cons \in Nat
      /\ b.cont.cons <= Len(b.cont.frags)
  BY DEF Keeps, Buffers, Line
<1>2. /\ line \in Line /\ line.frags \in Seq(Nat) /\ line.cons \in Nat
      /\ line.cons <= Len(line.frags) /\ RestIn(line) = RestIn(b.cont)
  <2>1. CASE b.cont.frags = <<>>
    <3>1. line = [frags |-> <<>>, cons |-> 0, owner |-> p, flushed |-> FALSE]
      BY <2>1 DEF NoLine
    <3>3. line.frags = <<>> /\ line.cons = 0 BY <3>1
    <3> HIDE DEF line
    <3>2. line \in Line
      <4>1. <<>> \in Seq(Nat) /\ 0 \in Nat /\ p \in Printers \cup {"none"} /\ FALSE \in BOOLEAN
        OBVIOUS
      <4> DEFINE none == <<>>
      <4> HIDE DEF none
      <4>2. [frags |-> none, cons |-> 0, owner |-> p, flushed |-> FALSE] \in Line
        BY <4>1 DEF Line, none
      <4> QED BY <3>1, <4>2 DEF none
    <3>4. b.cont.cons = 0 BY <1>1, <2>1
    <3>5. RestIn(line) = RestIn(b.cont) BY <2>1, <3>3, <3>4 DEF RestIn
    <3>6. <<>> \in Seq(Nat) /\ Len(<<>>) = 0 /\ 0 \in Nat OBVIOUS
    <3>7. line.frags \in Seq(Nat) /\ line.cons \in Nat /\ line.cons <= Len(line.frags)
      BY <3>3, <3>6
    <3> QED BY <3>2, <3>5, <3>7
  <2>2. CASE b.cont.frags # <<>> BY <1>1, <2>2
  <2> QED BY <2>1, <2>2
<1> HIDE DEF line
<1>3. /\ new \in Line /\ new.frags = Append(line.frags, f) /\ new.cons = line.cons
  <2> DEFINE longer == Append(line.frags, f)
  <2>1. longer \in Seq(Nat) BY <1>2
  <2>2. new = [line EXCEPT !.frags = longer] OBVIOUS
  <2> HIDE DEF longer, new
  <2>3. new \in Line /\ new.frags = longer /\ new.cons = line.cons BY <1>2, <2>1, <2>2 DEF Line
  <2> QED BY <2>3 DEF longer
<1> HIDE DEF new
<1>4. RestIn(new) = RestIn(line) \cup {f} /\ new.cons <= Len(new.frags)
  <2> DEFINE old == line.frags
             young == Append(old, f)
             m == line.cons
  <2>1. /\ old \in Seq(Nat) /\ young \in Seq(Nat) /\ Len(young) = Len(old) + 1
        /\ Len(old) \in Nat /\ \A i \in 1 .. Len(old) : young[i] = old[i]
        /\ young[Len(old) + 1] = f
    <3>1. old \in Seq(Nat) BY <1>2
    <3> HIDE DEF old
    <3> QED BY <3>1
  <2>2. m \in Nat /\ m <= Len(old) BY <1>2
  <2>3. RestIn(new) = Elements(SubSeq(young, m + 1, Len(young)))
        /\ RestIn(line) = Elements(SubSeq(old, m + 1, Len(old)))
        /\ new.cons = m /\ Len(new.frags) = Len(young)
    BY <1>3 DEF RestIn
  <2> HIDE DEF old, young, m
  <2>4. /\ RestIn(new) = {young[i] : i \in m + 1 .. Len(young)}
        /\ RestIn(line) = {old[i] : i \in m + 1 .. Len(old)}
    <3>1. m <= Len(young) BY <2>1, <2>2
    <3>2. RestIn(new) = {young[i] : i \in m + 1 .. Len(young)}
      BY <2>1, <2>2, <2>3, <3>1, RestElements
    <3>3. RestIn(line) = {old[i] : i \in m + 1 .. Len(old)}
      BY <2>1, <2>2, <2>3, RestElements
    <3> QED BY <3>2, <3>3
  <2>5. m + 1 .. Len(young) = (m + 1 .. Len(old)) \cup {Len(old) + 1} BY <2>1, <2>2
  <2>6. \A i \in m + 1 .. Len(old) : young[i] = old[i] BY <2>1, <2>2
  <2>7. RestIn(new) = RestIn(line) \cup {f} BY <2>1, <2>4, <2>5, <2>6
  <2>8. new.cons <= Len(new.frags) BY <2>1, <2>2, <2>3
  <2> QED BY <2>7, <2>8
<1>5. /\ more \in Buffers /\ more.cont = new /\ more.records = b.records
      /\ more.dropped = b.dropped
  BY <1>1, <1>3, <1>4 DEF Buffers
<1> HIDE DEF more
<1>6. Keeps(more, {}, out, going, n)
  <2>1. RestIn(more.cont) \cup {} = RestIn(b.cont) \cup {f} /\ RestIn(more.cont) \cap {} = {}
    BY <1>2, <1>4, <1>5
  <2> QED BY <1>5, <2>1 DEF Keeps
<1>7. Added(b, p, f, room) = IF room = "little" THEN Flushed(more) ELSE more
  BY DEF Added, more, new, line
<1>8. Keeps(Flushed(more), {}, out, going, n) BY <1>6, FlushedKeeps
<1> QED BY <1>6, <1>7, <1>8

LEMMA AddedOrStoredKeeps ==
    ASSUME NEW b, NEW p \in Printers, NEW f \in Nat, NEW out, NEW going, NEW n, NEW room,
           Keeps(b, {f}, out, going, n)
    PROVE  Keeps(AddedOrStored(b, p, f, room), {}, out, going, n)
<1>1. Keeps(Added(b, p, f, room), {}, out, going, n) BY AddedKeeps
<1>2. Keeps(Flushed(b), {f}, out, going, n) BY FlushedKeeps
<1>3. Keeps(Stored(b, <<f>>), {}, out, going, n) BY StoredOne
<1>4. Keeps(Stored(Flushed(b), <<f>>), {}, out, going, n) BY <1>2, StoredOne
<1>5. CASE CanAdd(b, room) BY <1>1, <1>5 DEF AddedOrStored
<1>6. CASE ~CanAdd(b, room) BY <1>3, <1>4, <1>6 DEF AddedOrStored
<1> QED BY <1>5, <1>6

(* vprintk_emit puts the new fragment into the buffers once, and takes     *)
(* nothing out of them but what it overruns.                               *)
LEMMA EmittedKeeps ==
    ASSUME NEW b, NEW p \in Printers, NEW n \in Nat, NEW out, NEW going, NEW newline,
           NEW prefix, NEW room, Keeps(b, {}, out, going, n)
    PROVE  Keeps(Emitted(b, p, n + 1, newline, prefix, room), {}, out, going, n + 1)
<1> DEFINE f == n + 1
<1>1. Keeps(b, {f}, out, going, f)
  <2>1. b \in Buffers /\ Len(b.records) <= LogRecords BY DEF Keeps
  <2>2. f \notin 1 .. n /\ 1 .. f = (1 .. n) \cup {f} OBVIOUS
  <2>3. Spread(out, b.dropped, going, RestIn(b.cont), b.records, n) BY DEF Keeps
  <2> HIDE DEF f
  <2>4. RestIn(b.cont) \cap {f} = {} BY <2>2, <2>3 DEF Spread
  <2>5. Spread(out, b.dropped, going, RestIn(b.cont) \cup {f}, b.records, f)
    BY <2>2, <2>3 DEF Spread
  <2> QED BY <2>1, <2>4, <2>5 DEF Keeps
<1>2. f \in Nat OBVIOUS
<1> HIDE DEF f
<1>3. Keeps(Flushed(b), {f}, out, going, f) BY <1>1, FlushedKeeps
<1>4. Keeps(AddedOrStored(b, p, f, room), {}, out, going, f) BY <1>1, <1>2, AddedOrStoredKeeps
<1>5. Keeps(AddedOrStored(Flushed(b), p, f, room), {}, out, going, f)
  BY <1>2, <1>3, AddedOrStoredKeeps
<1>6. Keeps(Flushed(Added(b, p, f, room)), {}, out, going, f)
  <2>1. Keeps(Added(b, p, f, room), {}, out, going, f) BY <1>1, <1>2, AddedKeeps
  <2> QED BY <2>1, FlushedKeeps
<1>7. Keeps(Stored(b, <<f>>), {}, out, going, f) BY <1>1, <1>2, StoredOne
<1>8. Keeps(Stored(Flushed(b), <<f>>), {}, out, going, f) BY <1>2, <1>3, StoredOne
<1>9. Keeps(Emitted(b, p, f, newline, prefix, room), {}, out, going, f)
  BY <1>4, <1>5, <1>6, <1>7, <1>8 DEF Emitted
<1> QED BY <1>9 DEF f

InBuffers == [cont |-> cont, records |-> records, dropped |-> dropped]
Holding == {"unlock", "print", "loop", "up", "unusable", "suspending"}
Places == Holding \cup {"idle", "check", "retry", "wake", "notify", "suspended"}

(* One user has console_sem, and text is on its way only while it prints.  *)
OneHolder ==
    /\ conpc \in [Users -> Places] /\ console_sem \in Users \cup {"free"}
    /\ \A u \in Users : conpc[u] \in Holding <=> console_sem = u
    /\ text # <<>> => \E u \in Users : conpc[u] = "print"

ConInv == /\ emitted \in Nat
          /\ Keeps(InBuffers, {}, output, Elements(text), emitted)
          /\ OneHolder

LEMMA ConStart == ConInit => ConInv
<1> SUFFICES ASSUME ConInit PROVE ConInv OBVIOUS
<1> DEFINE none == <<>>
<1>1. /\ none \in Seq(Seq(Nat)) /\ Len(none) = 0 /\ DOMAIN none = {} /\ Elements(none) = {}
      /\ InRecords(none) = {}
  BY DEF Elements, InRecords
<1>2. /\ emitted = 0 /\ cont = NoLine /\ records = none /\ text = none /\ output = {}
      /\ dropped = {} /\ console_sem = "free" /\ conpc = [u \in Users |-> "idle"]
  BY DEF ConInit
<1> HIDE DEF none
<1>3. InBuffers \in Buffers /\ RestIn(InBuffers.cont) = {}
  <2>1. NoLine.cons <= Len(NoLine.frags) BY DEF NoLine
  <2> QED BY <1>1, <1>2, <2>1, NothingLeft DEF InBuffers, Buffers
<1>4. Spread({}, {}, {}, {}, none, 0) BY <1>1 DEF Spread
<1>5. Keeps(InBuffers, {}, output, Elements(text), emitted)
  <2>1. InBuffers.records = none /\ InBuffers.dropped = {} BY <1>2 DEF InBuffers
  <2>2. Len(none) <= LogRecords BY <1>1, ConsoleAssumption
  <2>3. {} \cup {} = {} /\ {} \cap {} = {} OBVIOUS
  <2> QED BY <1>1, <1>2, <1>3, <1>4, <2>1, <2>2, <2>3 DEF Keeps
<1>6. OneHolder
  <2>1. \A u \in Users : u # "free" BY ConsoleAssumption DEF Users
  <2>2. \A u \in Users : conpc[u] = "idle" BY <1>2
  <2>3. "idle" \notin Holding BY DEF Holding
  <2>4. conpc \in [Users -> Places] BY <1>2 DEF Places
  <2> QED BY <1>2, <2>1, <2>2, <2>3, <2>4 DEF OneHolder, none
<1> QED BY <1>2, <1>5, <1>6 DEF ConInv

(* A step of one user that neither takes nor leaves console_sem, or does.  *)
LEMMA Goes ==
    ASSUME OneHolder, NEW u \in Users, NEW to \in Places, conpc' = [conpc EXCEPT ![u] = to],
           \/ /\ console_sem' = console_sem /\ (to \in Holding <=> conpc[u] \in Holding)
           \/ console_sem = "free" /\ console_sem' = u /\ to \in Holding
           \/ console_sem = u /\ console_sem' = "free" /\ to \notin Holding,
           \/ text' = text /\ (to = "print" \/ conpc[u] # "print")
           \/ text' = <<>>
           \/ to = "print"
    PROVE  OneHolder'
<1>1. "free" \notin Users BY ConsoleAssumption DEF Users
<1>2. /\ conpc' \in [Users -> Places] /\ conpc'[u] = to
      /\ \A v \in Users : v # u => conpc'[v] = conpc[v]
  BY DEF OneHolder
<1>3. console_sem' \in Users \cup {"free"} BY DEF OneHolder
<1>4. \A v \in Users : conpc'[v] \in Holding <=> console_sem' = v
  BY <1>1, <1>2 DEF OneHolder
<1>5. text' # <<>> => \E v \in Users : conpc'[v] = "print"
  BY <1>2 DEF OneHolder
<1> QED BY <1>2, <1>3, <1>4, <1>5 DEF OneHolder

LEMMA Tries ==
    ASSUME OneHolder, NEW u \in Users, NEW got \in Holding, NEW failed \in Places \ Holding,
           got \in Places, conpc[u] \notin Holding, TryConsole(u, got, failed), text' = text
    PROVE  OneHolder'
<1>1. conpc[u] # "print" BY DEF Holding
<1>2. CASE console_sem = "free" /\ ~console_suspended
  BY <1>1, <1>2, Goes DEF TryConsole
<1>3. CASE ~(console_sem = "free" /\ ~console_suspended)
  BY <1>1, <1>3, Goes DEF TryConsole
<1> QED BY <1>2, <1>3

(* A step that leaves the buffers, and what is out of them, alone.         *)
LEMMA BuffersStay ==
    ASSUME ConInv, UNCHANGED <<emitted, cont, records, dropped, text, output>>, OneHolder'
    PROVE  ConInv'
<1>1. InBuffers' = InBuffers /\ Elements(text)' = Elements(text) BY DEF InBuffers, Elements
<1>2. Keeps(InBuffers', {}, output', Elements(text)', emitted') BY <1>1 DEF ConInv
<1> QED BY <1>2 DEF ConInv

LEMMA EmitStep == ASSUME ConInv, NEW p \in Printers, vprintk_emit(p) PROVE ConInv'
<1> DEFINE got == IF p \in online THEN "unlock" ELSE "unusable"
<1>1. /\ conpc[p] = "idle" /\ emitted' = emitted + 1 /\ text' = text /\ output' = output
      /\ TryConsole(p, got, "idle")
  BY DEF vprintk_emit
<1>2. PICK newline \in BOOLEAN, prefix \in BOOLEAN, room \in {"much", "little", "none"} :
         LET b == Emitted(InBuffers, p, emitted', newline, prefix, room)
         IN  cont' = b.cont /\ records' = b.records /\ dropped' = b.dropped
  BY DEF vprintk_emit, InBuffers
<1> DEFINE b == Emitted(InBuffers, p, emitted + 1, newline, prefix, room)
<1>3. cont' = b.cont /\ records' = b.records /\ dropped' = b.dropped BY <1>1, <1>2
<1>4. Keeps(b, {}, output, Elements(text), emitted + 1) BY EmittedKeeps DEF ConInv
<1> HIDE DEF b
<1>5. InBuffers' = b
  <2>1. b \in Buffers BY <1>4 DEF Keeps
  <2>2. b = [cont |-> b.cont, records |-> b.records, dropped |-> b.dropped]
    BY <2>1 DEF Buffers
  <2> QED BY <1>3, <2>2 DEF InBuffers
<1>6. Elements(text)' = Elements(text) BY <1>1 DEF Elements
<1>7. Keeps(InBuffers', {}, output', Elements(text)', emitted') BY <1>1, <1>4, <1>5, <1>6
<1>8. OneHolder'
  <2>1. p \in Users /\ "idle" \in Places \ Holding /\ got \in Holding /\ got \in Places
    BY DEF Users, Holding, Places
  <2> HIDE DEF got
  <2> QED BY <1>1, <2>1, Tries DEF ConInv
<1> QED BY <1>1, <1>7, <1>8 DEF ConInv

LEMMA ContFlushStep == ASSUME ConInv, NEW u \in Users, console_cont_flush(u) PROVE ConInv'
<1>1. /\ conpc[u] = "unlock" /\ emitted' = emitted /\ records' = records /\ dropped' = dropped
      /\ output' = output
  BY DEF console_cont_flush
<1>2. OneHolder /\ console_sem = u /\ text = <<>>
  <2>1. OneHolder /\ console_sem = u BY <1>1 DEF ConInv, OneHolder, Holding
  <2>2. \A v \in Users : v # u => conpc[v] # "print" BY <2>1 DEF OneHolder, Holding
  <2> QED BY <1>1, <2>1, <2>2 DEF OneHolder
<1>3. CASE console_suspended
  <2>1. /\ console_sem' = "free" /\ conpc' = [conpc EXCEPT ![u] = "idle"] /\ cont' = cont
        /\ text' = text
    BY <1>3 DEF console_cont_flush
  <2>2. OneHolder'
    <3>1. "idle" \in Places /\ "idle" \notin Holding BY DEF Holding, Places
    <3> QED BY <1>1, <1>2, <2>1, <3>1, Goes
  <2> QED BY <1>1, <2>1, <2>2, BuffersStay
<1>4. CASE ~console_suspended /\ (cont.frags = <<>> \/ (records # <<>> /\ cont.cons = 0))
  <2>1. /\ console_sem' = console_sem /\ conpc' = [conpc EXCEPT ![u] = "loop"] /\ cont' = cont
        /\ text' = text
    BY <1>4 DEF console_cont_flush
  <2>2. OneHolder'
    <3>1. "loop" \in Places /\ "loop" \in Holding /\ "unlock" \in Holding BY DEF Holding, Places
    <3> QED BY <1>1, <1>2, <2>1, <3>1, Goes
  <2> QED BY <1>1, <2>1, <2>2, BuffersStay
<1>5. CASE ~console_suspended /\ ~(cont.frags = <<>> \/ (records # <<>> /\ cont.cons = 0))
  <2>1. /\ console_sem' = console_sem /\ conpc' = [conpc EXCEPT ![u] = "print"] /\ text' = Rest
        /\ cont' = IF cont.flushed THEN NoLine ELSE [cont EXCEPT !.cons = Len(cont.frags)]
    BY <1>5 DEF console_cont_flush
  <2>2. OneHolder'
    <3>1. "print" \in Places /\ "print" \in Holding /\ "unlock" \in Holding BY DEF Holding, Places
    <3> QED BY <1>1, <1>2, <2>1, <3>1, Goes
  <2>3. /\ cont \in Line /\ cont.frags \in Seq(Nat) /\ InBuffers \in Buffers
        /\ Len(records) <= LogRecords /\ records \in Seq(Seq(Nat)) /\ dropped \in SUBSET Nat
        /\ Spread(output, dropped, Elements(text), RestIn(cont) \cup {}, records, emitted)
    BY DEF ConInv, Keeps, InBuffers, Buffers, Line
  <2>4. cont' \in Line /\ cont'.cons <= Len(cont'.frags) /\ RestIn(cont') = {}
    <3>1. CASE cont.flushed
      <4>1. NoLine.cons <= Len(NoLine.frags) BY DEF NoLine
      <4> QED BY <2>1, <3>1, <4>1, NothingLeft
    <3>2. CASE ~cont.flushed
      <4>1. Len(cont.frags) \in Nat BY <2>3
      <4>2. cont' = [cont EXCEPT !.cons = Len(cont.frags)] BY <2>1, <3>2
      <4>3. cont' \in Line /\ cont'.cons = Len(cont.frags) /\ cont'.frags = cont.frags
        BY <2>3, <4>1, <4>2 DEF Line
      <4>4. cont'.cons <= Len(cont'.frags) BY <4>1, <4>3
      <4> DEFINE line == cont'
      <4>5. line \in Line /\ line.cons = Len(line.frags) BY <4>3
      <4> HIDE DEF line
      <4>6. RestIn(line) = {} BY <4>5, NothingLeft
      <4> QED BY <4>3, <4>4, <4>6 DEF line
    <3> QED BY <3>1, <3>2
  <2>5. Elements(text') = RestIn(cont) /\ Elements(text) = {}
    BY <1>2, <2>1 DEF Rest, RestIn, Elements
  <2>6. InBuffers' \in Buffers /\ InBuffers'.cont = cont' /\ InBuffers'.records = records
        /\ InBuffers'.dropped = dropped
    BY <1>1, <2>3, <2>4 DEF InBuffers, Buffers
  <2>7. Spread(output, dropped, RestIn(cont), {}, records, emitted)
    <3>1. Spread(output, dropped, {}, RestIn(cont), records, emitted) BY <2>3, <2>5
    <3> QED BY <3>1 DEF Spread
  <2>8. Keeps(InBuffers', {}, output, RestIn(cont), emitted)
    <3>1. RestIn(InBuffers'.cont) = {} /\ {} \cup {} = {} /\ {} \cap {} = {} BY <2>4, <2>6
    <3> QED BY <2>3, <2>6, <2>7, <3>1 DEF Keeps
  <2>9. Elements(text)' = RestIn(cont) BY <2>5 DEF Elements
  <2> QED BY <1>1, <2>2, <2>8, <2>9 DEF ConInv
<1> QED BY <1>3, <1>4, <1>5

LEMMA DriversStep == ASSUME ConInv, NEW u \in Users, call_console_drivers(u) PROVE ConInv'
<1>1. /\ conpc[u] = "print" /\ conpc' = [conpc EXCEPT ![u] = "loop"] /\ text' = <<>>
      /\ output' = output \cup Elements(text) /\ console_sem' = console_sem
      /\ emitted' = emitted /\ InBuffers' = InBuffers
  BY DEF call_console_drivers, At, InBuffers, buffered
<1>2. OneHolder'
  <2>1. "loop" \in Places /\ "loop" \in Holding /\ "print" \in Holding BY DEF Holding, Places
  <2> QED BY <1>1, <2>1, Goes DEF ConInv
<1> DEFINE b == InBuffers
           going == Elements(text)
<1>3. Keeps(b, {}, output, going, emitted) BY DEF ConInv
<1> HIDE DEF b, going
<1>4. Keeps(b, {}, output \cup going, {}, emitted) BY <1>3 DEF Keeps, Spread
<1>5. Elements(text)' = {} BY <1>1 DEF Elements
<1> QED BY <1>1, <1>2, <1>4, <1>5 DEF ConInv, b, going

LEMMA WhatRemains ==
    ASSUME NEW T, NEW s \in Seq(T), NEW m \in Nat, m <= Len(s)
    PROVE  LET r == SubSeq(s, m + 1, Len(s)) IN
           /\ r \in Seq(T) /\ Len(r) = Len(s) - m /\ DOMAIN r = 1 .. Len(s) - m
           /\ \A i \in 1 .. Len(s) - m : r[i] = s[i + m]
OBVIOUS

(* Taking record i, when the ones before it have nothing to print.         *)
LEMMA RecordTaken ==
    ASSUME NEW recs \in Seq(Seq(Nat)), NEW i \in DOMAIN recs,
           \A j \in 1 .. i - 1 : recs[j] = <<>>, NEW out, NEW lost, NEW rest, NEW n,
           Spread(out, lost, {}, rest, recs, n)
    PROVE  LET left == SubSeq(recs, i + 1, Len(recs)) IN
           /\ left \in Seq(Seq(Nat)) /\ Len(left) <= Len(recs)
           /\ Spread(out, lost, Elements(recs[i]), rest, left, n)
<1> DEFINE left == SubSeq(recs, i + 1, Len(recs))
<1>1. Len(recs) \in Nat /\ i \in 1 .. Len(recs) /\ DOMAIN recs = 1 .. Len(recs) OBVIOUS
<1>2. /\ left \in Seq(Seq(Nat)) /\ DOMAIN left = 1 .. Len(recs) - i
      /\ Len(left) = Len(recs) - i
      /\ \A j \in 1 .. Len(recs) - i : left[j] = recs[j + i]
  <2>1. i \in Nat /\ i <= Len(recs) BY <1>1
  <2> DEFINE T == Seq(Nat)
  <2>2. recs \in Seq(T) OBVIOUS
  <2> HIDE DEF T
  <2>3. /\ left \in Seq(T) /\ DOMAIN left = 1 .. Len(recs) - i /\ Len(left) = Len(recs) - i
        /\ \A j \in 1 .. Len(recs) - i : left[j] = recs[j + i]
    BY <2>1, <2>2, WhatRemains
  <2> QED BY <2>3 DEF T
<1> HIDE DEF left
<1>0. \A j \in DOMAIN left : /\ left[j] = recs[j + i] /\ j + i \in DOMAIN recs /\ j + i # i
                             /\ j \in Nat /\ i \in Nat
  BY <1>1, <1>2
<1>3. Elements(<<>>) = {} BY DEF Elements
<1>4. InRecords(recs) = Elements(recs[i]) \cup InRecords(left)
  <2>1. ASSUME NEW e \in InRecords(recs) PROVE e \in Elements(recs[i]) \cup InRecords(left)
    <3>1. PICK j \in DOMAIN recs : e \in Elements(recs[j]) BY <2>1 DEF InRecords
    <3>2. CASE j < i
      <4>1. j \in 1 .. i - 1 BY <1>1, <3>1, <3>2
      <4> QED BY <1>3, <3>1, <4>1
    <3>3. CASE j = i BY <3>1, <3>3
    <3>4. CASE j > i
      <4>1. j - i \in 1 .. Len(recs) - i /\ (j - i) + i = j BY <1>1, <3>1, <3>4
      <4>2. e \in Elements(left[j - i]) /\ j - i \in DOMAIN left BY <1>2, <3>1, <4>1
      <4> QED BY <4>2 DEF InRecords
    <3> QED BY <1>1, <3>1, <3>2, <3>3, <3>4
  <2>2. ASSUME NEW e \in InRecords(left) PROVE e \in InRecords(recs)
    <3>1. PICK j \in DOMAIN left : e \in Elements(left[j]) BY <2>2 DEF InRecords
    <3>2. j + i \in DOMAIN recs /\ e \in Elements(recs[j + i]) BY <1>0, <3>1
    <3> QED BY <3>2 DEF InRecords
  <2>3. Elements(recs[i]) \subseteq InRecords(recs) BY DEF InRecords
  <2> QED BY <2>1, <2>2, <2>3
<1>5. ASSUME NEW j \in DOMAIN recs, NEW k \in DOMAIN recs, j # k
      PROVE  Elements(recs[j]) \cap Elements(recs[k]) = {}
  BY <1>5 DEF Spread
<1>6. Elements(recs[i]) \cap InRecords(left) = {}
  <2>1. \A j \in DOMAIN left : Elements(recs[i]) \cap Elements(left[j]) = {} BY <1>0, <1>5
  <2> QED BY <2>1 DEF InRecords
<1>7. ASSUME NEW j \in DOMAIN left, NEW k \in DOMAIN left, j # k
      PROVE  Elements(left[j]) \cap Elements(left[k]) = {}
  <2>1. /\ left[j] = recs[j + i] /\ left[k] = recs[k + i] /\ j + i # k + i
        /\ j + i \in DOMAIN recs /\ k + i \in DOMAIN recs
    <3>1. j \in Nat /\ k \in Nat /\ i \in Nat BY <1>0
    <3>2. j + i # k + i BY <1>7, <3>1
    <3> QED BY <1>0, <3>2
  <2> QED BY <1>5, <2>1
<1>8. Spread(out, lost, Elements(recs[i]), rest, left, n)
  BY <1>4, <1>6, <1>7 DEF Spread
<1>9. Len(left) <= Len(recs) BY <1>1, <1>2
<1> QED BY <1>2, <1>8, <1>9 DEF left

LEMMA NextRecordStep == ASSUME ConInv, NEW u \in Users, NextRecord(u) PROVE ConInv'
<1> DEFINE some == {i \in DOMAIN records : records[i] # <<>>}
<1>1. /\ conpc[u] = "loop" /\ emitted' = emitted /\ cont' = cont /\ dropped' = dropped
      /\ output' = output /\ console_sem' = console_sem
  BY DEF NextRecord
<1>2. OneHolder /\ console_sem = u /\ text = <<>>
  <2>1. OneHolder /\ console_sem = u BY <1>1 DEF ConInv, OneHolder, Holding
  <2>2. \A v \in Users : v # u => conpc[v] # "print" BY <2>1 DEF OneHolder, Holding
  <2> QED BY <1>1, <2>1, <2>2 DEF OneHolder
<1>3. /\ InBuffers \in Buffers /\ RestIn(cont) \cap {} = {} /\ Len(records) <= LogRecords
      /\ records \in Seq(Seq(Nat)) /\ DOMAIN records = 1 .. Len(records) /\ Len(records) \in Nat
      /\ Spread(output, dropped, {}, RestIn(cont) \cup {}, records, emitted)
  <2>1. Elements(text) = {} BY <1>2 DEF Elements
  <2> QED BY <2>1 DEF ConInv, Keeps, InBuffers, Buffers
<1> DEFINE rest == RestIn(cont) \cup {}
<1>4. ASSUME records' \in Seq(Seq(Nat)), Len(records') <= LogRecords,
             Spread(output, dropped, Elements(text'), rest, records', emitted), OneHolder'
      PROVE  ConInv'
  <2>1. InBuffers' \in Buffers BY <1>1, <1>3, <1>4 DEF InBuffers, Buffers
  <2>2. /\ InBuffers'.cont = cont /\ InBuffers'.records = records'
        /\ InBuffers'.dropped = dropped
    BY <1>1 DEF InBuffers
  <2>3. Elements(text)' = Elements(text') BY DEF Elements
  <2>4. Keeps(InBuffers', {}, output', Elements(text)', emitted')
    BY <1>1, <1>3, <1>4, <2>1, <2>2, <2>3 DEF Keeps
  <2> QED BY <1>1, <1>3, <1>4, <2>4 DEF ConInv
<1>5. CASE some = {}
  <2>1. records' = <<>> /\ conpc' = [conpc EXCEPT ![u] = "up"] /\ text' = text
    BY <1>5 DEF NextRecord
  <2>2. OneHolder'
    <3>1. "up" \in Places /\ "up" \in Holding /\ "loop" \in Holding BY DEF Holding, Places
    <3> QED BY <1>1, <1>2, <2>1, <3>1, Goes
  <2>3. InRecords(records) = {} /\ InRecords(<<>>) = {} /\ Elements(text') = {}
    BY <1>2, <1>5, <2>1 DEF InRecords, Elements
  <2> DEFINE none == <<>>
  <2>4. none \in Seq(Seq(Nat)) /\ Len(none) = 0 /\ DOMAIN none = {} OBVIOUS
  <2> HIDE DEF none, rest
  <2>5. InRecords(none) = {} BY <2>4 DEF InRecords
  <2>6. Spread(output, dropped, {}, rest, none, emitted)
    <3>1. Spread(output, dropped, {}, rest, records, emitted) BY <1>3 DEF rest
    <3> QED BY <2>3, <2>4, <2>5, <3>1 DEF Spread
  <2>7. records' = none /\ Len(records') <= LogRecords /\ records' \in Seq(Seq(Nat))
    BY <2>1, <2>4, ConsoleAssumption DEF none
  <2> QED BY <1>4, <2>2, <2>3, <2>6, <2>7
<1>6. CASE some # {}
  <2> DEFINE i == CHOOSE k \in some : \A j \in some : k <= j
  <2>1. i \in some /\ \A j \in some : i <= j
    <3>1. some \subseteq Nat BY <1>3
    <3> HIDE DEF some
    <3> QED BY <1>6, <3>1, LeastOf
  <2>2. /\ text' = records[i] /\ records' = SubSeq(records, i + 1, Len(records))
        /\ conpc' = [conpc EXCEPT ![u] = "print"]
    BY <1>6 DEF NextRecord
  <2> HIDE DEF i
  <2>3. OneHolder'
    <3>1. "print" \in Places /\ "print" \in Holding /\ "loop" \in Holding
      BY DEF Holding, Places
    <3> QED BY <1>1, <1>2, <2>2, <3>1, Goes
  <2>4. i \in DOMAIN records /\ \A j \in 1 .. i - 1 : records[j] = <<>>
    <3>1. i \in DOMAIN records BY <2>1
    <3>2. ASSUME NEW j \in 1 .. i - 1, records[j] # <<>> PROVE FALSE
      <4>1. j \in DOMAIN records /\ ~(i <= j) BY <1>3, <3>1, <3>2
      <4> QED BY <2>1, <3>2, <4>1
    <3> QED BY <3>1, <3>2
  <2>5. /\ records' \in Seq(Seq(Nat)) /\ Len(records') <= Len(records)
        /\ Spread(output, dropped, Elements(text'), rest, records', emitted)
    <3> HIDE DEF rest
    <3>1. Spread(output, dropped, {}, rest, records, emitted) BY <1>3 DEF rest
    <3> QED BY <1>3, <2>2, <2>4, <3>1, RecordTaken
  <2>6. Len(records') <= LogRecords
    <3>1. Len(records') \in Nat BY <2>5
    <3> QED BY <1>3, <2>5, <3>1, ConsoleAssumption
  <2> QED BY <1>4, <2>3, <2>5, <2>6
<1> QED BY <1>5, <1>6

LEMMA InNames ==
    /\ Holding \subseteq Places
    /\ {"unlock", "print", "loop", "up", "unusable", "suspending"} \subseteq Holding
    /\ {"idle", "check", "retry", "wake", "notify", "suspended"} \subseteq Places \ Holding
BY DEF Places, Holding

(* The other steps of console_unlock.                                      *)
LEMMA UnlockSteps ==
    ASSUME ConInv, NEW u \in Users, Up(u) \/ Recheck(u) \/ Retry(u) \/ wake_up_klogd(u)
    PROVE  ConInv'
<1>1. UNCHANGED <<emitted, cont, records, dropped, text, output>>
  BY DEF Up, Recheck, Retry, wake_up_klogd, buffered
<1>2. OneHolder BY DEF ConInv
<1>3. conpc[u] \in Holding => console_sem = u BY <1>2 DEF OneHolder
<1>4. Done(u) \in {"wake", "idle"} BY DEF Done
<1>5. CASE Up(u)
  <2>1. conpc[u] = "up" /\ conpc' = [conpc EXCEPT ![u] = "check"] /\ console_sem' = "free"
    BY <1>5 DEF Up, At
  <2>2. OneHolder' BY <1>1, <1>2, <1>3, <2>1, InNames, Goes
  <2> QED BY <1>1, <2>2, BuffersStay
<1>6. CASE Recheck(u)
  <2> DEFINE to == IF records # <<>> THEN "retry" ELSE Done(u)
  <2>1. conpc[u] = "check" /\ conpc' = [conpc EXCEPT ![u] = to] /\ console_sem' = console_sem
    BY <1>6 DEF Recheck, At
  <2>2. to \in {"retry", "wake", "idle"} BY <1>4
  <2> HIDE DEF to
  <2>3. to \in Places /\ to \notin Holding /\ conpc[u] \notin Holding BY <2>1, <2>2, InNames
  <2>4. OneHolder' BY <1>1, <1>2, <2>1, <2>3, Goes
  <2> QED BY <1>1, <2>4, BuffersStay
<1>7. CASE Retry(u)
  <2>1. conpc[u] = "retry" /\ TryConsole(u, "loop", Done(u)) BY <1>7 DEF Retry
  <2>2. Done(u) \in Places \ Holding /\ conpc[u] \notin Holding BY <1>4, <2>1, InNames
  <2>3. OneHolder' BY <1>1, <1>2, <2>1, <2>2, InNames, Tries
  <2> QED BY <1>1, <2>3, BuffersStay
<1>8. CASE wake_up_klogd(u)
  <2>1. conpc[u] = "wake" /\ conpc' = [conpc EXCEPT ![u] = "idle"] /\ console_sem' = console_sem
    BY <1>8 DEF wake_up_klogd, At, buffered
  <2>2. OneHolder' BY <1>1, <1>2, <2>1, InNames, Goes
  <2> QED BY <1>1, <2>2, BuffersStay
<1> QED BY <1>5, <1>6, <1>7, <1>8

(* The others who take console_sem.                                        *)
LEMMA LocksConsole ==
    ASSUME OneHolder, NEW u \in Users, NEW from \in Places \ Holding, NEW to \in Holding,
           LockConsole(u, from, to), text' = text
    PROVE  OneHolder'
<1>1. /\ conpc[u] = from /\ conpc' = [conpc EXCEPT ![u] = to] /\ console_sem = "free"
      /\ console_sem' = u
  BY DEF LockConsole, At
<1>2. conpc[u] # "print" /\ to \in Places BY <1>1, InNames
<1> QED BY <1>1, <1>2, Goes

LEMMA PrinterSteps ==
    ASSUME ConInv, NEW p \in Printers, Unusable(p) \/ console_cpu_notify(p)
    PROVE  ConInv'
<1>1. UNCHANGED <<emitted, cont, records, dropped, text, output>>
  BY DEF Unusable, console_cpu_notify, buffered
<1>2. OneHolder /\ p \in Users BY DEF ConInv, Users
<1>3. CASE Unusable(p)
  <2>1. /\ conpc[p] = "unusable" /\ conpc' = [conpc EXCEPT ![p] = "idle"]
        /\ console_sem' = "free"
    BY <1>3 DEF Unusable, At
  <2>2. console_sem = p BY <1>2, <2>1, InNames DEF OneHolder
  <2>3. OneHolder' BY <1>1, <1>2, <2>1, <2>2, InNames, Goes
  <2> QED BY <1>1, <2>3, BuffersStay
<1>4. CASE conpc[p] = "idle" /\ conpc' = [conpc EXCEPT ![p] = "notify"]
           /\ console_sem' = console_sem
  <2>1. OneHolder' BY <1>1, <1>2, <1>4, InNames, Goes
  <2> QED BY <1>1, <2>1, BuffersStay
<1>5. CASE conpc[p] = "notify" /\ TryConsole(p, "unlock", "idle")
  <2>1. OneHolder' BY <1>1, <1>2, <1>5, InNames, Tries
  <2> QED BY <1>1, <2>1, BuffersStay
<1> QED BY <1>3, <1>4, <1>5 DEF console_cpu_notify, At

LEMMA OtherSteps ==
    ASSUME ConInv, console_flush \/ suspend_console \/ resume_console \/ Read \/ Sleep
    PROVE  ConInv'
<1>1. UNCHANGED <<emitted, cont, records, dropped, text, output>>
  BY DEF console_flush, suspend_console, resume_console, Read, Sleep, buffered
<1>2. OneHolder /\ "pm" \in Users /\ "work" \in Users BY DEF ConInv, Users
<1>3. CASE console_flush
  <2>1. OneHolder' BY <1>1, <1>2, <1>3, InNames, LocksConsole DEF console_flush
  <2> QED BY <1>1, <2>1, BuffersStay
<1>4. CASE LockConsole("pm", "idle", "suspending")
  <2>1. OneHolder' BY <1>1, <1>2, <1>4, InNames, LocksConsole
  <2> QED BY <1>1, <2>1, BuffersStay
<1>5. CASE At("pm", "suspending", "suspended") /\ console_sem' = "free"
  <2>1. conpc["pm"] = "suspending" /\ conpc' = [conpc EXCEPT !["pm"] = "suspended"]
    BY <1>5 DEF At
  <2>2. console_sem = "pm" BY <1>2, <2>1, InNames DEF OneHolder
  <2>3. OneHolder' BY <1>1, <1>2, <1>5, <2>1, <2>2, InNames, Goes
  <2> QED BY <1>1, <2>3, BuffersStay
<1>6. CASE resume_console
  <2>1. OneHolder' BY <1>1, <1>2, <1>6, InNames, LocksConsole DEF resume_console
  <2> QED BY <1>1, <2>1, BuffersStay
<1>7. CASE Read \/ Sleep
  <2>1. conpc' = conpc /\ console_sem' = console_sem BY <1>7 DEF Read, Sleep, buffered
  <2>2. OneHolder' BY <1>1, <1>2, <2>1 DEF OneHolder
  <2> QED BY <1>1, <2>2, BuffersStay
<1> QED BY <1>3, <1>4, <1>5, <1>6, <1>7 DEF suspend_console

LEMMA ConSteps == ConInv /\ [ConNext]_convars => ConInv'
<1> SUFFICES ASSUME ConInv, [ConNext]_convars PROVE ConInv' OBVIOUS
<1>1. ASSUME NEW p \in Printers, vprintk_emit(p) \/ Unusable(p) \/ console_cpu_notify(p)
      PROVE  ConInv'
  BY <1>1, EmitStep, PrinterSteps
<1>2. ASSUME NEW u \in Users, Unlocking(u) PROVE ConInv'
  BY <1>2, ContFlushStep, DriversStep, NextRecordStep, UnlockSteps DEF Unlocking
<1>3. CASE console_flush \/ suspend_console \/ resume_console \/ Read \/ Sleep
  BY <1>3, OtherSteps
<1>4. CASE UNCHANGED convars
  <2>1. UNCHANGED <<emitted, cont, records, dropped, text, output, conpc, console_sem>>
    BY <1>4 DEF convars
  <2>2. OneHolder' BY <2>1 DEF ConInv, OneHolder
  <2> QED BY <2>1, <2>2, BuffersStay
<1> QED BY <1>1, <1>2, <1>3, <1>4 DEF ConNext

LEMMA Joined ==
    ASSUME NEW T, NEW s \in Seq(T), NEW t \in Seq(T), NEW w, w = s \o t
    PROVE  /\ DOMAIN w = 1 .. Len(s) + Len(t)
           /\ \A i \in 1 .. Len(s) : w[i] = s[i]
           /\ \A j \in 1 .. Len(t) : w[Len(s) + j] = t[j]
<1>1. DOMAIN w = 1 .. Len(s) + Len(t)
  <2>1. s \o t \in Seq(T) /\ Len(s \o t) = Len(s) + Len(t) OBVIOUS
  <2> QED BY <2>1
<1>2. \A i \in 1 .. Len(s) : w[i] = s[i] OBVIOUS
<1>3. \A j \in 1 .. Len(t) : w[Len(s) + j] = t[j] OBVIOUS
<1> QED BY <1>1, <1>2, <1>3

LEMMA PlacesApart == ConInv => FragmentsInOnePlace
<1> SUFFICES ASSUME ConInv PROVE FragmentsInOnePlace OBVIOUS
<1> DEFINE going == Elements(text)
           rest == Elements(Rest)
           four == <<output, dropped, going, rest>>
           recs == [i \in DOMAIN records |-> Elements(records[i])]
<1>1. /\ rest \cup {} = rest /\ rest = RestIn(cont)
      /\ records \in Seq(Seq(Nat)) /\ DOMAIN records = 1 .. Len(records) /\ Len(records) \in Nat
      /\ Spread(output, dropped, going, rest, records, emitted)
  <2>1. rest = RestIn(cont) BY DEF Rest, RestIn
  <2>2. rest \cup {} = rest OBVIOUS
  <2>3. Spread(output, dropped, going, RestIn(cont) \cup {}, records, emitted)
    BY DEF ConInv, Keeps, InBuffers
  <2>4. records \in Seq(Seq(Nat)) BY DEF ConInv, Keeps, InBuffers, Buffers
  <2>5. DOMAIN records = 1 .. Len(records) /\ Len(records) \in Nat BY <2>4
  <2> HIDE DEF rest, going
  <2> QED BY <2>1, <2>2, <2>3, <2>4, <2>5
<1> DEFINE T == SUBSET (1 .. emitted)
           m == Len(records)
<1>2. output \in T /\ dropped \in T /\ going \in T /\ rest \in T
  <2> HIDE DEF going, rest
  <2> QED BY <1>1 DEF Spread
<1>3. /\ recs \in Seq(T) /\ Len(recs) = m /\ \A i \in 1 .. m : recs[i] = Elements(records[i])
  <2>1. \A i \in 1 .. m : Elements(records[i]) \in T BY <1>1 DEF Spread, InRecords
  <2>2. recs = [i \in 1 .. m |-> Elements(records[i])] BY <1>1
  <2> HIDE DEF T
  <2> QED BY <1>1, <2>1, <2>2
<1> HIDE DEF going, rest, T, m
<1>4. /\ four \in Seq(T) /\ Len(four) = 4 /\ four[1] = output /\ four[2] = dropped
      /\ four[3] = going /\ four[4] = rest
  BY <1>2
<1> HIDE DEF four, recs
<1> DEFINE all == four \o recs
<1>5. /\ DOMAIN all = 1 .. 4 + m /\ m \in Nat
      /\ \A i \in 1 .. 4 : all[i] = four[i]
      /\ \A j \in 1 .. m : all[4 + j] = recs[j]
  <2>1. m \in Nat BY <1>1 DEF m
  <2>2. /\ DOMAIN all = 1 .. Len(four) + Len(recs)
        /\ \A i \in 1 .. Len(four) : all[i] = four[i]
        /\ \A j \in 1 .. Len(recs) : all[Len(four) + j] = recs[j]
    <3>1. four \in Seq(T) /\ recs \in Seq(T) BY <1>3, <1>4
    <3>2. all = four \o recs OBVIOUS
    <3> HIDE DEF all
    <3> QED BY <3>1, <3>2, Joined
  <2> HIDE DEF all
  <2> QED BY <1>3, <1>4, <2>1, <2>2
<1>6. WhereTextIs = all BY DEF WhereTextIs, all, four, recs, going, rest
<1> HIDE DEF all
<1>7. /\ all[1] = output /\ all[2] = dropped /\ all[3] = going /\ all[4] = rest
      /\ \A j \in 1 .. m : all[4 + j] = Elements(records[j])
      /\ DOMAIN records = 1 .. m
  <2>1. all[1] = four[1] /\ all[2] = four[2] /\ all[3] = four[3] /\ all[4] = four[4]
    BY <1>5
  <2>2. DOMAIN records = 1 .. m BY <1>1 DEF m
  <2>3. \A j \in 1 .. m : all[4 + j] = Elements(records[j]) BY <1>3, <1>5
  <2> QED BY <1>4, <2>1, <2>2, <2>3
<1>8. \A i \in DOMAIN all : i \in {1, 2, 3, 4} \/ (i - 4 \in 1 .. m /\ 4 + (i - 4) = i)
  BY <1>5
<1>9. UNION {all[i] : i \in DOMAIN all} = 1 .. emitted
  <2>1. 1 \in DOMAIN all /\ 2 \in DOMAIN all /\ 3 \in DOMAIN all /\ 4 \in DOMAIN all
        /\ \A j \in 1 .. m : 4 + j \in DOMAIN all
    BY <1>5
  <2>2. \A j \in 1 .. m : Elements(records[j]) \subseteq InRecords(records)
    BY <1>7 DEF InRecords
  <2>3. \A i \in DOMAIN all : all[i] \subseteq 1 .. emitted
    BY <1>1, <1>7, <1>8, <2>2 DEF Spread
  <2>4. ASSUME NEW e \in 1 .. emitted PROVE \E i \in DOMAIN all : e \in all[i]
    <3>1. CASE e \in InRecords(records)
      <4>1. PICK j \in 1 .. m : e \in Elements(records[j]) BY <1>7, <3>1 DEF InRecords
      <4> QED BY <1>7, <2>1, <4>1
    <3>2. CASE e \notin InRecords(records)
      <4>1. e \in output \cup dropped \cup going \cup rest BY <1>1, <3>2 DEF Spread
      <4> QED BY <1>7, <2>1, <4>1
    <3> QED BY <3>1, <3>2
  <2> QED BY <2>3, <2>4
<1>10. ASSUME NEW i \in DOMAIN all, NEW j \in DOMAIN all, i # j PROVE all[i] \cap all[j] = {}
  <2>1. ASSUME NEW k \in 1 .. m, NEW l \in {1, 2, 3, 4}
        PROVE  all[4 + k] \cap all[l] = {}
    <3>1. Elements(records[k]) \subseteq InRecords(records) BY <1>7 DEF InRecords
    <3> QED BY <1>1, <1>7, <3>1 DEF Spread
  <2>2. ASSUME NEW k \in {1, 2, 3, 4}, NEW l \in {1, 2, 3, 4}, k # l
        PROVE  all[k] \cap all[l] = {}
    BY <1>1, <1>7, <2>2 DEF Spread
  <2>3. ASSUME NEW k \in 1 .. m, NEW l \in 1 .. m, k # l
        PROVE  all[4 + k] \cap all[4 + l] = {}
    BY <1>1, <1>7, <2>3 DEF Spread
  <2>4. CASE i \in {1, 2, 3, 4} /\ j \in {1, 2, 3, 4} BY <1>10, <2>2, <2>4
  <2>5. CASE i \in {1, 2, 3, 4} /\ j \notin {1, 2, 3, 4}
    <3>1. j - 4 \in 1 .. m /\ 4 + (j - 4) = j BY <1>8, <2>5
    <3> QED BY <2>1, <2>5, <3>1
  <2>6. CASE i \notin {1, 2, 3, 4} /\ j \in {1, 2, 3, 4}
    <3>1. i - 4 \in 1 .. m /\ 4 + (i - 4) = i BY <1>8, <2>6
    <3> QED BY <2>1, <2>6, <3>1
  <2>7. CASE i \notin {1, 2, 3, 4} /\ j \notin {1, 2, 3, 4}
    <3>1. /\ i - 4 \in 1 .. m /\ 4 + (i - 4) = i /\ j - 4 \in 1 .. m /\ 4 + (j - 4) = j
      BY <1>8, <2>7
    <3>2. i - 4 # j - 4 BY <1>10, <3>1
    <3> QED BY <2>3, <3>1, <3>2
  <2> QED BY <2>4, <2>5, <2>6, <2>7
<1> QED BY <1>6, <1>9, <1>10 DEF FragmentsInOnePlace

(* Every text given to printk is in one place, for any tasks, any ring and *)
(* any number of calls: no fragment is printed twice or skipped, whatever  *)
(* cont_flush seals half-printed and whoever holds console_sem.            *)
THEOREM TextIsInOnePlace == ConSpec => []FragmentsInOnePlace
BY ConStart, ConSteps, PlacesApart, PTL DEF ConSpec

----------------------------------------------------------------------------
(* The cameras of the stress test are used only when they are ready, for   *)
(* any number of pictures and of rounds, and for a surface that is         *)
(* destroyed at any time.                                                  *)
UiSteps == {"start", "run", "shown", "join", "drop", "quit", "joinlooper", "gone"}
CmdSteps == {"none", "open", "setup", "preview", "take", "picture", "reset",
             "again", "next", "release", "return", "gone"}

(* Who is where: the command thread runs while the activity shows the      *)
(* surface or joins, and at most one of the two waits for the looper.      *)
ThreadsInv ==
    /\ at \in [{"ui", "cmd"} -> UiSteps \cup CmdSteps]
    /\ phase \in [{"ui", "cmd"} -> {"ready", "sent", "waiting"}]
    /\ at["cmd"] \in CmdSteps
    /\ \/ at["cmd"] = "none" /\ at["ui"] = "start"
       \/ at["cmd"] = "none" /\ phase["ui"] = "ready" /\ at["ui"] = "run"
       \/ at["cmd"] \notin {"none", "gone"} /\ phase["ui"] = "ready" /\ at["ui"] = "shown"
       \/ at["cmd"] \notin {"none", "gone"} /\ phase["ui"] = "ready" /\ at["ui"] = "join" /\ exit
       \/ at["cmd"] = "gone" /\ at["ui"] = "shown"
       \/ at["cmd"] = "gone" /\ at["ui"] \in {"join", "drop", "quit", "joinlooper", "gone"} /\ exit
    /\ at["cmd"] \in {"none", "setup", "reset", "next", "return", "gone"} => phase["cmd"] = "ready"
    /\ at["cmd"] = "picture" => phase["cmd"] # "ready"

CamerasInv ==
    /\ camera \in Cameras /\ mCamera \in Cameras \cup {null}
    /\ hw \in [Cameras -> {"closed", "open", "preview", "shooting"}]

Idle == looper = "loop" /\ queue = <<>>
Taken == looper \in {"loop", "handled"} /\ queue = <<>>
OnlyAsked(msg) == looper = "loop" /\ queue = <<msg>>
InUse(state) == mCamera = camera /\ hw[camera] = state

(* The camera that mid-take exit has left in preview.                      *)
LeftOpen == exit /\ camera = 1 /\ hw[0] = "preview"
Untouched == hw[camera] = "closed" /\ (mCamera = null \/ (LeftOpen /\ mCamera = 0))
OtherCamera == hw[1 - camera] = "closed" \/ LeftOpen

(* How far the looper is with the message of the command thread's step,    *)
(* and what has become of the camera by then.                              *)
Opening == \/ Untouched /\ IF phase["cmd"] = "ready" THEN Idle ELSE OnlyAsked("OPENCAMERA")
           \/ phase["cmd"] # "ready" /\ Taken /\ InUse("open")
Previewing == \/ /\ InUse("open")
                 /\ IF phase["cmd"] = "ready" THEN Idle ELSE OnlyAsked("STARTPREVIEW")
              \/ phase["cmd"] # "ready" /\ Taken /\ InUse("preview")
Shot == \/ queue = <<>> /\ InUse("shooting")
        \/ queue \in {<<>>, <<"onPictureTaken">>} /\ InUse("open")
Taking == \/ /\ InUse("preview")
             /\ IF phase["cmd"] = "ready" THEN Idle ELSE OnlyAsked("TAKEPICTURE")
          \/ phase["cmd"] # "ready" /\ looper \in {"loop", "handled"} /\ Shot
Releasing == \/ /\ InUse("preview")
                /\ IF phase["cmd"] = "ready" THEN Idle ELSE OnlyAsked("RELEASE")
             \/ /\ phase["cmd"] # "ready" /\ Taken
                /\ mCamera = null /\ hw[camera] = "closed"

RoundInv ==
    /\ at["cmd"] = "none" => /\ queue = <<>> /\ mCamera = null /\ camera = 0
                             /\ \A c \in Cameras : hw[c] = "closed"
                             /\ looper \in {"none", "new", "loop"}
                             /\ at["ui"] = "run" => looper = "loop"
    /\ at["cmd"] \notin {"none", "gone"} => OtherCamera
    /\ at["cmd"] = "open" => Opening
    /\ at["cmd"] \in {"setup", "reset"} => Idle /\ InUse("open")
    /\ at["cmd"] \in {"preview", "again"} => Previewing
    /\ at["cmd"] = "take" => Taking
    /\ at["cmd"] = "picture" => looper = "loop" /\ Shot
    /\ at["cmd"] = "next" => Idle /\ InUse("preview")
    /\ at["cmd"] = "release" => Releasing
    /\ at["cmd"] = "return" => /\ Idle
                               /\ \/ exit /\ InUse("preview")
                                  \/ mCamera = null /\ hw[camera] = "closed"
    /\ at["cmd"] = "gone" =>
          /\ looper # "new" /\ \A c \in Cameras : hw[c] # "shooting"
          /\ queue \in Seq({"RELEASE", "EXITTHREAD"})
          /\ Opened \subseteq {mCamera} \/ (exit /\ Opened \subseteq {0, mCamera})

CamInv == ThreadsInv /\ CamerasInv /\ RoundInv

----------------------------------------------------------------------------
(* Queues of no and of one message.                                        *)
LEMMA OneMessage ==
    ASSUME NEW m
    PROVE  /\ Append(<<>>, m) = <<m>> /\ Head(<<m>>) = m /\ Tail(<<m>>) = <<>>
           /\ <<m>> # <<>>
OBVIOUS

LEMMA Messages ==
    /\ DOMAIN Message = {"open", "preview", "take", "again", "release", "drop", "quit"}
    /\ Message["open"] = "OPENCAMERA" /\ Message["preview"] = "STARTPREVIEW"
    /\ Message["take"] = "TAKEPICTURE" /\ Message["again"] = "STARTPREVIEW"
    /\ Message["release"] = "RELEASE" /\ Message["drop"] = "RELEASE"
    /\ Message["quit"] = "EXITTHREAD"
BY DEF Message

LEMMA Afters ==
    /\ After["open"] = "setup" /\ After["preview"] = "take" /\ After["take"] = "picture"
    /\ After["picture"] = "reset" /\ After["again"] = "next" /\ After["release"] = "return"
    /\ After["start"] = "run" /\ After["drop"] = "quit" /\ After["quit"] = "joinlooper"
BY DEF After

LEMMA InitInv == CamInit => CamInv
BY DEF CamInit, CamInv, ThreadsInv, CamerasInv, RoundInv, UiSteps, CmdSteps, Cameras, null

(* The looper is idle when a message is sent.                              *)
LEMMA SendInv == ASSUME CamInv, NEW t \in {"ui", "cmd"}, sendMessage(t) PROVE CamInv'
<1> USE Messages DEF sendMessage, CamInv, ThreadsInv, CmdSteps, UiSteps
<1>1. ThreadsInv' OBVIOUS
<1>2. CamerasInv' BY DEF CamerasInv
<1>3. CASE t = "cmd"
  <2>1. /\ at["cmd"] \in {"open", "preview", "take", "again", "release"} /\ at' = at
        /\ phase["cmd"] = "ready" /\ phase'["cmd"] = "sent"
        /\ UNCHANGED <<looper, camera, mCamera, hw, exit>>
    BY <1>3
  <2>2. queue = <<>> /\ looper = "loop"
    BY <2>1 DEF RoundInv, Opening, Previewing, Taking, Releasing, Idle
  <2>3. queue' = <<Message[at["cmd"]]>> BY <1>3, <2>2
  <2>4. OtherCamera' BY <2>1 DEF RoundInv, OtherCamera, LeftOpen
  <2>5. RoundInv OBVIOUS
  <2> HIDE DEF CamInv, ThreadsInv, sendMessage
  <2> USE <2>1, <2>2, <2>3, <2>4, <2>5 DEF RoundInv, OnlyAsked, InUse
  <2>6. CASE at["cmd"] = "open"
    <3>1. Opening' BY <2>6 DEF Opening, Untouched, LeftOpen
    <3> QED BY <1>1, <1>2, <2>6, <3>1 DEF CamInv
  <2>7. CASE at["cmd"] \in {"preview", "again"}
    <3>1. Previewing' BY <2>7 DEF Previewing
    <3> QED BY <1>1, <1>2, <2>7, <3>1 DEF CamInv
  <2>8. CASE at["cmd"] = "take"
    <3>1. Taking' BY <2>8 DEF Taking
    <3> QED BY <1>1, <1>2, <2>8, <3>1 DEF CamInv
  <2>9. CASE at["cmd"] = "release"
    <3>1. Releasing' BY <2>9 DEF Releasing
    <3> QED BY <1>1, <1>2, <2>9, <3>1 DEF CamInv
  <2> QED BY <2>1, <2>6, <2>7, <2>8, <2>9
<1>4. CASE t = "ui"
  <2>1. at["ui"] \in {"drop", "quit"} /\ at["cmd"] = "gone" /\ at'["cmd"] = "gone"
    BY <1>4
  <2>2. queue' \in Seq({"RELEASE", "EXITTHREAD"}) BY <2>1, <1>4 DEF RoundInv
  <2>3. RoundInv' BY <2>1, <2>2 DEF RoundInv, Opened
  <2> QED BY <1>1, <1>2, <2>3
<1> QED BY <1>3, <1>4

LEMMA WaitInv == ASSUME CamInv, NEW t \in {"ui", "cmd"}, Wait(t) PROVE CamInv'
<1> USE DEF Wait, CamInv, ThreadsInv, CmdSteps, UiSteps
<1>1. ThreadsInv' OBVIOUS
<1>2. CamerasInv' BY DEF CamerasInv
<1>3. RoundInv'
  <2>1. phase'["cmd"] = "ready" <=> phase["cmd"] = "ready" OBVIOUS
  <2> QED BY <2>1 DEF RoundInv, Opening, Previewing, Taking, Releasing, OtherCamera, LeftOpen,
       Untouched, Shot, InUse, Idle, Taken, OnlyAsked, Opened
<1> QED BY <1>1, <1>2, <1>3

(* What a notify does to the thread it reaches.                            *)
Woken(t) == /\ at' = [at EXCEPT ![t] = After[@]]
            /\ phase' = [phase EXCEPT ![t] = IF at[t] = "take" THEN "sent" ELSE "ready"]

(* The looper answers while the activity waits for it to start.            *)
LEMMA StartInv == ASSUME CamInv, StartLooper \/ StartCommands \/ Prepare PROVE CamInv'
<1> USE DEF CamInv, ThreadsInv, CmdSteps, UiSteps, RoundInv
<1>1. CASE StartLooper BY <1>1 DEF StartLooper, CamerasInv
<1>2. CASE StartCommands
  BY <1>2 DEF StartCommands, CamerasInv, Opening, Untouched, Idle, OtherCamera, Cameras
<1>3. CASE Prepare
  <2> USE <1>3 DEF Prepare
  <2>1. at["cmd"] = "none"
    BY DEF Opening, Previewing, Taking, Releasing, Idle, Taken, OnlyAsked
  <2>2. CASE UNCHANGED <<at, phase>> BY <2>1, <2>2 DEF CamerasInv
  <2>3. CASE \E t \in Waiters("mTestThread") : Woken(t)
    <3>1. /\ at["ui"] = "start" /\ at' = [at EXCEPT !["ui"] = "run"]
          /\ phase' = [phase EXCEPT !["ui"] = "ready"]
      <4>1. PICK t \in Waiters("mTestThread") : Woken(t) BY <2>3
      <4>2. t = "ui" /\ at["ui"] = "start" BY <2>1, <4>1 DEF Waiters
      <4> QED BY <4>1, <4>2, Afters DEF Woken
    <3> QED BY <2>1, <3>1 DEF CamerasInv
  <2> QED BY <2>2, <2>3 DEF Notify, Woken
<1> QED BY <1>1, <1>2, <1>3

(* What has become of a message that the looper takes up.                  *)
LEMMA HandleInv == ASSUME CamInv, handleMessage PROVE CamInv'
<1> USE DEF CamInv, ThreadsInv, CmdSteps, UiSteps, handleMessage
<1>1. CASE at["cmd"] = "gone"
  <2>1. /\ Head(queue) \in {"RELEASE", "EXITTHREAD"} /\ looper' \in {"quit", "handled"}
        /\ queue' \in Seq({"RELEASE", "EXITTHREAD"})
    BY <1>1 DEF RoundInv
  <2>2. \/ UNCHANGED <<mCamera, hw>>
        \/ mCamera \in Cameras /\ mCamera' = null /\ hw' = [hw EXCEPT ![mCamera] = "closed"]
    BY <2>1 DEF Use, relaseCamera, CamerasInv
  <2>3. CamerasInv' BY <2>2 DEF CamerasInv
  <2>4. Opened' \subseteq {mCamera'} \/ (exit' /\ Opened' \subseteq {0, mCamera'})
    BY <1>1, <2>2 DEF RoundInv, Opened, CamerasInv
  <2>5. \A c \in Cameras : hw'[c] # "shooting" BY <1>1, <2>2 DEF RoundInv, CamerasInv
  <2> QED BY <1>1, <2>1, <2>3, <2>4, <2>5 DEF RoundInv
<1>2. CASE at["cmd"] = "open"
  <2>1. queue = <<"OPENCAMERA">> /\ Untouched /\ OtherCamera /\ phase["cmd"] # "ready"
    BY <1>2 DEF RoundInv, Opening, Idle, Taken, OnlyAsked
  <2>2. /\ mCamera' = camera /\ hw' = [hw EXCEPT ![camera] = "open"]
        /\ looper' = "handled" /\ queue' = <<>>
    BY <2>1, OneMessage DEF Use
  <2>3. CamerasInv' /\ InUse("open")' /\ OtherCamera'
    BY <2>1, <2>2 DEF CamerasInv, InUse, OtherCamera, LeftOpen, Cameras
  <2> QED BY <1>2, <2>1, <2>2, <2>3 DEF RoundInv, Opening, Taken
<1>3. CASE at["cmd"] \in {"preview", "again"}
  <2>1. queue = <<"STARTPREVIEW">> /\ InUse("open") /\ OtherCamera /\ phase["cmd"] # "ready"
    BY <1>3 DEF RoundInv, Previewing, Idle, Taken, OnlyAsked
  <2>2. /\ mCamera' = camera /\ hw' = [hw EXCEPT ![camera] = "preview"]
        /\ looper' = "handled" /\ queue' = <<>>
    BY <2>1, OneMessage DEF Use, InUse
  <2>3. CamerasInv' /\ InUse("preview")' /\ OtherCamera'
    BY <2>1, <2>2 DEF CamerasInv, InUse, OtherCamera, LeftOpen, Cameras
  <2> QED BY <1>3, <2>1, <2>2, <2>3 DEF RoundInv, Previewing, Taken
<1>4. CASE at["cmd"] = "take"
  <2>1. queue = <<"TAKEPICTURE">> /\ InUse("preview") /\ OtherCamera /\ phase["cmd"] # "ready"
    BY <1>4, OneMessage DEF RoundInv, Taking, Shot, Idle, OnlyAsked
  <2>2. /\ mCamera' = camera /\ hw' = [hw EXCEPT ![camera] = "shooting"]
        /\ looper' = "handled" /\ queue' = <<>>
    BY <2>1, OneMessage DEF Use, InUse
  <2>3. CamerasInv' /\ InUse("shooting")' /\ OtherCamera'
    BY <2>1, <2>2 DEF CamerasInv, InUse, OtherCamera, LeftOpen, Cameras
  <2> QED BY <1>4, <2>1, <2>2, <2>3 DEF RoundInv, Taking, Shot
<1>5. CASE at["cmd"] = "release"
  <2>1. queue = <<"RELEASE">> /\ InUse("preview") /\ OtherCamera /\ phase["cmd"] # "ready"
    BY <1>5 DEF RoundInv, Releasing, Idle, Taken, OnlyAsked
  <2>2. /\ mCamera' = null /\ hw' = [hw EXCEPT ![camera] = "closed"]
        /\ looper' = "handled" /\ queue' = <<>>
    BY <2>1, OneMessage DEF Use, relaseCamera, InUse, CamerasInv, Cameras, null
  <2>3. CamerasInv' /\ hw'[camera] = "closed" /\ OtherCamera'
    BY <2>1, <2>2 DEF CamerasInv, OtherCamera, LeftOpen, Cameras
  <2> QED BY <1>5, <2>1, <2>2, <2>3 DEF RoundInv, Releasing, Taken
<1>6. at["cmd"] \in {"gone", "open", "preview", "again", "take", "release"}
  BY OneMessage DEF RoundInv, Idle, Shot
<1> QED BY <1>1, <1>2, <1>3, <1>4, <1>5, <1>6

(* An answer reaches the thread that waits for it, or nobody.              *)
LEMMA AnswerInv == ASSUME CamInv, Answer PROVE CamInv'
<1> USE DEF CamInv, ThreadsInv, CmdSteps, UiSteps, Answer
<1>1. CamerasInv' BY DEF CamerasInv
<1>2. at["cmd"] \in {"open", "preview", "again", "take", "release", "gone"}
  BY DEF RoundInv, Idle
<1>3. at["cmd"] # "gone" => looper' = "loop" /\ phase["cmd"] # "ready"
  BY <1>2 DEF RoundInv, Opening, Previewing, Taking, Releasing, Idle, OnlyAsked, Taken
<1>4. at["cmd"] = "gone" => looper' # "new" OBVIOUS
<1>5. CASE UNCHANGED <<at, phase>>
  BY <1>1, <1>2, <1>3, <1>4, <1>5
  DEF RoundInv, Opening, Previewing, Taking, Releasing, Shot, Taken, InUse, OtherCamera,
      LeftOpen, Idle, OnlyAsked, Opened
<1>6. ASSUME "cmd" \in Waiters("wait"), Woken("cmd") PROVE CamInv'
  <2>1. at["cmd"] # "gone" BY <1>6 DEF Waiters
  <2>2. OtherCamera' BY <1>2, <2>1 DEF RoundInv, OtherCamera, LeftOpen
  <2>3. at'["ui"] = at["ui"] /\ phase'["ui"] = phase["ui"] BY <1>6 DEF Woken
  <2>4. CASE at["cmd"] = "open"
    <3>1. at'["cmd"] = "setup" /\ phase'["cmd"] = "ready" BY <1>6, <2>4, Afters DEF Woken
    <3>2. (Idle /\ InUse("open"))'
      BY <1>3, <2>4 DEF RoundInv, Opening, Idle, OnlyAsked, Taken, InUse
    <3>3. ThreadsInv' BY <1>6, <2>4, <3>1, Afters DEF Woken
    <3> QED BY <1>1, <2>2, <3>1, <3>2, <3>3 DEF RoundInv
  <2>5. CASE at["cmd"] \in {"preview", "again"}
    <3>1. /\ at'["cmd"] = IF at["cmd"] = "preview" THEN "take" ELSE "next"
          /\ phase'["cmd"] = "ready"
      BY <1>6, <2>5, Afters DEF Woken
    <3>2. (Idle /\ InUse("preview"))'
      BY <1>3, <2>5 DEF RoundInv, Previewing, Idle, OnlyAsked, Taken, InUse
    <3>3. ThreadsInv' BY <1>6, <2>5, <3>1, Afters DEF Woken
    <3> QED BY <1>1, <2>2, <3>1, <3>2, <3>3 DEF RoundInv, Taking
  <2>6. CASE at["cmd"] = "take"
    <3>1. at'["cmd"] = "picture" /\ phase'["cmd"] = "sent" BY <1>6, <2>6, Afters DEF Woken
    <3>2. Shot' BY <1>3, <2>6 DEF RoundInv, Taking, Shot, Idle, OnlyAsked, InUse
    <3>3. ThreadsInv' BY <1>6, <2>6, <3>1, Afters DEF Woken
    <3> QED BY <1>1, <1>3, <2>2, <2>6, <3>1, <3>2, <3>3 DEF RoundInv
  <2>7. CASE at["cmd"] = "release"
    <3>1. at'["cmd"] = "return" /\ phase'["cmd"] = "ready" BY <1>6, <2>7, Afters DEF Woken
    <3>2. Idle' /\ mCamera' = null /\ hw'[camera'] = "closed"
      BY <1>3, <2>7 DEF RoundInv, Releasing, Idle, OnlyAsked, Taken
    <3>3. ThreadsInv' BY <1>6, <2>7, <3>1, Afters DEF Woken
    <3> QED BY <1>1, <2>2, <3>1, <3>2, <3>3 DEF RoundInv
  <2> QED BY <1>2, <2>1, <2>4, <2>5, <2>6, <2>7
<1>7. ASSUME "ui" \in Waiters("wait"), Woken("ui") PROVE CamInv'
  <2>1. at["cmd"] = "gone" /\ at["ui"] \in {"drop", "quit"}
    BY <1>2, <1>7, Messages DEF Waiters, Monitor
  <2>2. at' = [at EXCEPT !["ui"] = IF at["ui"] = "drop" THEN "quit" ELSE "joinlooper"]
    BY <1>7, <2>1, Afters DEF Woken
  <2>3. phase' = [phase EXCEPT !["ui"] = "ready"] BY <1>7, <2>1 DEF Woken
  <2>4. ThreadsInv' BY <2>1, <2>2, <2>3
  <2>5. RoundInv' BY <1>4, <2>1, <2>2 DEF RoundInv, Opened
  <2> QED BY <1>1, <2>4, <2>5
<1> QED BY <1>5, <1>6, <1>7 DEF Notify, Waiters, Woken

(* The picture may be there before the command thread waits for it.        *)
LEMMA PictureInv == ASSUME CamInv, onPictureTaken \/ Captured PROVE CamInv'
<1> USE DEF CamInv, ThreadsInv, CmdSteps, UiSteps
<1>1. CASE onPictureTaken
  <2> USE DEF onPictureTaken
  <2>1. /\ at["cmd"] \in {"take", "picture"} /\ phase["cmd"] # "ready" /\ OtherCamera
        /\ InUse("open") /\ queue = <<"onPictureTaken">>
    BY <1>1, OneMessage
    DEF RoundInv, Opening, Previewing, Taking, Releasing, Shot, Idle, OnlyAsked, Taken
  <2>2. queue' = <<>> /\ looper' = "loop" /\ UNCHANGED <<camera, exit, mCamera, hw>>
    BY <1>1, <2>1, OneMessage
  <2>3. CamerasInv' /\ InUse("open")' /\ OtherCamera'
    BY <2>1, <2>2 DEF CamerasInv, InUse, OtherCamera, LeftOpen
  <2>4. CASE UNCHANGED <<at, phase>>
    BY <2>1, <2>2, <2>3, <2>4 DEF RoundInv, Taking, Shot
  <2>5. ASSUME "cmd" \in Waiters("takePictureWait"), Woken("cmd") PROVE CamInv'
    <3>1. at["cmd"] = "picture" BY <2>1, <2>5, Messages DEF Waiters, Monitor
    <3>2. at' = [at EXCEPT !["cmd"] = "reset"] /\ phase' = [phase EXCEPT !["cmd"] = "ready"]
      BY <2>5, <3>1, Afters DEF Woken
    <3>3. ThreadsInv' BY <2>2, <3>1, <3>2
    <3> QED BY <2>2, <2>3, <3>2, <3>3 DEF RoundInv, Idle
  <2>6. "ui" \notin Waiters("takePictureWait") BY Messages DEF Waiters, Monitor
  <2> QED BY <1>1, <2>4, <2>5, <2>6 DEF Notify, Waiters, Woken
<1>2. CASE Captured
  <2> USE DEF Captured
  <2>1. PICK c \in Cameras : hw[c] = "shooting" /\ hw' = [hw EXCEPT ![c] = "open"] BY <1>2
  <2>2. UNCHANGED <<at, phase, looper, camera, exit, mCamera>> BY <1>2
  <2>3. at["cmd"] \in {"take", "picture"} /\ c = camera
    BY <2>1
    DEF RoundInv, OtherCamera, LeftOpen, Cameras, CamerasInv, Opening, Previewing, Releasing,
        Untouched, InUse
  <2>4. queue = <<>> /\ OtherCamera /\ InUse("shooting") /\ phase["cmd"] # "ready"
        /\ looper \in {"loop", "handled"} /\ (at["cmd"] = "picture" => looper = "loop")
    BY <2>1, <2>3 DEF RoundInv, Taking, Shot, InUse
  <2>5. queue' = <<"onPictureTaken">> BY <1>2, <2>4, OneMessage
  <2>6. CamerasInv' /\ InUse("open")' /\ OtherCamera'
    BY <2>1, <2>2, <2>3, <2>4 DEF CamerasInv, InUse, OtherCamera, LeftOpen, Cameras
  <2> QED BY <2>2, <2>3, <2>4, <2>5, <2>6 DEF RoundInv, Taking, Shot
<1> QED BY <1>1, <1>2

(* The command thread between its messages.                                *)
LEMMA CommandInv == ASSUME CamInv, setOtherParameters \/ TestExit \/ Switch PROVE CamInv'
<1> USE DEF CamInv, ThreadsInv, CmdSteps, UiSteps
<1>1. CASE setOtherParameters
  <2>1. UNCHANGED <<phase, looper, camera, queue, exit, mCamera, hw>>
    BY <1>1 DEF setOtherParameters
  <2>2. \/ at["cmd"] = "setup" /\ at' = [at EXCEPT !["cmd"] = "preview"]
        \/ at["cmd"] = "reset" /\ at' = [at EXCEPT !["cmd"] = "again"]
    BY <1>1 DEF setOtherParameters, Step
  <2>3. ThreadsInv' /\ CamerasInv' BY <2>1, <2>2 DEF CamerasInv
  <2>4. RoundInv'
    BY <2>1, <2>2 DEF RoundInv, Previewing, Idle, InUse, OtherCamera, LeftOpen
  <2> QED BY <2>3, <2>4
<1>2. CASE TestExit
  <2>1. UNCHANGED <<phase, looper, camera, queue, exit, mCamera, hw>> BY <1>2 DEF TestExit
  <2>2. /\ at["cmd"] = "next"
        /\ \/ exit /\ at' = [at EXCEPT !["cmd"] = "return"]
           \/ at' = [at EXCEPT !["cmd"] = "take"]
           \/ at' = [at EXCEPT !["cmd"] = "release"]
    BY <1>2 DEF TestExit, Step
  <2>3. ThreadsInv' /\ CamerasInv' BY <2>1, <2>2 DEF CamerasInv
  <2>4. RoundInv'
    BY <2>1, <2>2 DEF RoundInv, Taking, Releasing, Idle, InUse, OtherCamera, LeftOpen
  <2> QED BY <2>3, <2>4
<1>3. CASE Switch
  <2>1. UNCHANGED <<phase, looper, queue, exit, mCamera, hw>> /\ camera' = 1 - camera
    BY <1>3 DEF Switch
  <2>2. /\ at["cmd"] = "return"
        /\ \/ camera = 1 /\ at' = [at EXCEPT !["cmd"] = "gone"]
           \/ (camera = 0 \/ ~exit) /\ at' = [at EXCEPT !["cmd"] = "open"]
    BY <1>3 DEF Switch, Step, CamerasInv, Cameras
  <2>3. ThreadsInv' /\ CamerasInv' BY <2>1, <2>2 DEF CamerasInv, Cameras
  <2>4. CASE at' = [at EXCEPT !["cmd"] = "gone"] /\ camera = 1
    BY <2>1, <2>2, <2>3, <2>4
    DEF RoundInv, Idle, InUse, OtherCamera, LeftOpen, Opened, Cameras, CamerasInv
  <2>5. CASE (camera = 0 \/ ~exit) /\ at' = [at EXCEPT !["cmd"] = "open"]
    BY <2>1, <2>2, <2>3, <2>5
    DEF RoundInv, Idle, InUse, OtherCamera, LeftOpen, Opening, Untouched, Cameras, CamerasInv
  <2> QED BY <2>2, <2>3, <2>4, <2>5
<1> QED BY <1>1, <1>2, <1>3

(* The activity's thread; the surface goes at any time.                    *)
LEMMA ActivityInv == ASSUME CamInv, Join \/ onSurfaceTextureDestroyed PROVE CamInv'
<1> USE DEF CamInv, ThreadsInv, CmdSteps, UiSteps
<1>1. CASE Join
  <2>1. UNCHANGED <<phase, looper, camera, queue, exit, mCamera, hw>> BY <1>1 DEF Join
  <2>2. /\ at["cmd"] = "gone"
        /\ \/ at["ui"] = "join" /\ at' = [at EXCEPT !["ui"] = "drop"]
           \/ at["ui"] = "joinlooper" /\ at' = [at EXCEPT !["ui"] = "gone"]
    BY <1>1 DEF Join, Step
  <2> QED BY <2>1, <2>2 DEF CamerasInv, RoundInv, Opened
<1>2. CASE onSurfaceTextureDestroyed
  <2>1. UNCHANGED <<phase, looper, camera, queue, mCamera, hw>> /\ exit' = TRUE
    BY <1>2 DEF onSurfaceTextureDestroyed
  <2>2. /\ at["ui"] = "shown" /\ at' = [at EXCEPT !["ui"] = "join"]
        /\ at["cmd"] # "none" /\ at'["cmd"] = at["cmd"]
    BY <1>2 DEF onSurfaceTextureDestroyed, Step
  <2>3. ThreadsInv' /\ CamerasInv' BY <2>1, <2>2 DEF CamerasInv
  <2>4. RoundInv'
    BY <2>1, <2>2
    DEF RoundInv, Opening, Previewing, Taking, Releasing, OtherCamera, LeftOpen, Untouched, Shot,
        InUse, Idle, Taken, OnlyAsked, Opened
  <2> QED BY <2>3, <2>4
<1> QED BY <1>1, <1>2

LEMMA NextInv == CamInv /\ [CamNext]_camvars => CamInv'
<1> SUFFICES ASSUME CamInv, [CamNext]_camvars PROVE CamInv' OBVIOUS
<1>1. CASE UNCHANGED camvars
  BY <1>1 DEF camvars, CamInv, ThreadsInv, CamerasInv, RoundInv, Opening, Previewing, Taking,
     Releasing, OtherCamera, LeftOpen, Untouched, Shot, InUse, Idle, Taken, OnlyAsked, Opened
<1> QED BY <1>1, SendInv, WaitInv, StartInv, HandleInv, AnswerInv, PictureInv, CommandInv,
           ActivityInv DEF CamNext, CamStep

LEMMA InvMakesReady == CamInv => CamerasAreReady
<1> SUFFICES ASSUME CamInv PROVE CamerasAreReady OBVIOUS
<1> USE DEF CamInv, CamerasInv
<1>1. at["cmd"] \in {"setup", "reset"} =>
          mCamera = camera /\ hw[camera] = "open" /\ queue = <<>> /\ looper = "loop"
  BY DEF RoundInv, Idle, InUse
<1>2. ASSUME looper = "loop", queue # <<>>
      PROVE  /\ Head(queue) = "OPENCAMERA" => hw[camera] = "closed"
             /\ Head(queue) = "STARTPREVIEW" => mCamera = camera /\ hw[camera] = "open"
             /\ Head(queue) = "TAKEPICTURE" => mCamera = camera /\ hw[camera] = "preview"
  <2>1. CASE at["cmd"] = "gone"
    <3>1. Head(queue) \in {"RELEASE", "EXITTHREAD"} BY <1>2, <2>1 DEF RoundInv
    <3> QED BY <3>1
  <2>2. CASE at["cmd"] # "gone"
    BY <1>2, <2>2, OneMessage
    DEF ThreadsInv, CmdSteps, RoundInv, Opening, Previewing, Taking, Releasing, Untouched, Shot,
        InUse, Idle, Taken, OnlyAsked
  <2> QED BY <2>1, <2>2
<1>3. Opened \subseteq {mCamera} \/ (exit /\ Opened \subseteq {0, mCamera})
  BY DEF ThreadsInv, CmdSteps, RoundInv, Opening, Previewing, Taking, Releasing, Untouched, Shot,
         InUse, OtherCamera, LeftOpen, Opened, Cameras
<1> QED BY <1>1, <1>2, <1>3 DEF CamerasAreReady

(* cameratest.java: whenever the command thread sets a camera's parameters *)
(* or the looper opens one, starts its preview or takes a picture, that    *)
(* camera is in the state the call needs, however long the test runs and   *)
(* even if a notify is lost.                                               *)
THEOREM CamerasStayReady == CamSpec => []CamerasAreReady
<1>1. CamSpec => []CamInv BY InitInv, NextInv, PTL DEF CamSpec
<1> QED BY <1>1, InvMakesReady, PTL

----------------------------------------------------------------------------
(* The uses of regulators are served: sums, which change where one of the  *)
(* numbers does.                                                           *)
Tokens(f) == UNION {{x} \X (1 .. f[x]) : x \in DOMAIN f}

LEMMA TokensOfOne ==
    ASSUME NEW x, NEW n \in Nat
    PROVE  IsFiniteSet({x} \X (1 .. n)) /\ Cardinality({x} \X (1 .. n)) = n
<1>1. IsFiniteSet({x}) /\ Cardinality({x}) = 1 BY FS_Singleton
<1>2. IsFiniteSet(1 .. n) /\ Cardinality(1 .. n) = n
  <2>1. /\ IsFiniteSet(1 .. n)
        /\ Cardinality(1 .. n) = IF 1 > n THEN 0 ELSE n - 1 + 1
    BY FS_Interval
  <2> QED BY <2>1
<1>3. /\ IsFiniteSet({x} \X (1 .. n))
      /\ Cardinality({x} \X (1 .. n)) = Cardinality({x}) * Cardinality(1 .. n)
  BY <1>1, <1>2, FS_Product
<1>4. 1 * n = n OBVIOUS
<1> QED BY <1>1, <1>2, <1>3, <1>4

LEMMA TokensFinite ==
    ASSUME NEW S, IsFiniteSet(S), NEW f \in [S -> Nat]
    PROVE  IsFiniteSet(Tokens(f))
<1> DEFINE T == {{x} \X (1 .. f[x]) : x \in S}
           h == [x \in S |-> {x} \X (1 .. f[x])]
<1>1. h \in Surjection(S, T) BY DEF Surjection
<1>2. IsFiniteSet(T) BY <1>1, FS_Surjection
<1>3. ASSUME NEW t \in T PROVE IsFiniteSet(t)
  <2>1. PICK x \in S : t = {x} \X (1 .. f[x]) OBVIOUS
  <2>2. f[x] \in Nat BY <2>1
  <2> QED BY <2>1, <2>2, TokensOfOne
<1>4. Tokens(f) = UNION T BY DEF Tokens
<1> QED BY <1>2, <1>3, <1>4, FS_UNION

LEMMA DisjointAdd ==
    ASSUME NEW A, NEW B, IsFiniteSet(A), IsFiniteSet(B), A \cap B = {}
    PROVE  Cardinality(A \cup B) = Cardinality(A) + Cardinality(B)
<1>1. Cardinality(A \cup B) = Cardinality(A) + Cardinality(B) - Cardinality(A \cap B)
  BY FS_Union
<1>2. Cardinality(A \cap B) = 0 BY FS_EmptySet
<1>3. Cardinality(A) \in Nat /\ Cardinality(B) \in Nat BY FS_CardinalityType
<1> QED BY <1>1, <1>2, <1>3

LEMMA SumChanges ==
    ASSUME NEW S, IsFiniteSet(S), NEW f \in [S -> Nat], NEW g \in [S -> Nat],
           NEW x \in S, \A y \in S : y # x => g[y] = f[y]
    PROVE  Sum(f) \in Nat /\ Sum(g) \in Nat /\ Sum(g) = Sum(f) - f[x] + g[x]
<1> DEFINE rest == UNION {{y} \X (1 .. f[y]) : y \in S \ {x}}
           fx == {x} \X (1 .. f[x])
           gx == {x} \X (1 .. g[x])
<1>1. Tokens(f) = rest \cup fx /\ Tokens(g) = rest \cup gx BY DEF Tokens
<1>2. rest \cap fx = {} /\ rest \cap gx = {} OBVIOUS
<1>9. f[x] \in Nat /\ g[x] \in Nat OBVIOUS
<1>3. /\ IsFiniteSet(fx) /\ Cardinality(fx) = f[x]
      /\ IsFiniteSet(gx) /\ Cardinality(gx) = g[x]
  BY <1>9, TokensOfOne
<1>4. IsFiniteSet(Tokens(f)) BY TokensFinite
<1> HIDE DEF rest, fx, gx
<1>5. IsFiniteSet(rest) BY <1>1, <1>4, FS_Subset
<1>6. Cardinality(rest) \in Nat BY <1>5, FS_CardinalityType
<1>7. Cardinality(Tokens(f)) = Cardinality(rest) + f[x]
  BY <1>1, <1>2, <1>3, <1>5, DisjointAdd
<1>8. Cardinality(Tokens(g)) = Cardinality(rest) + g[x]
  BY <1>1, <1>2, <1>3, <1>5, DisjointAdd
<1> QED BY <1>6, <1>7, <1>8, <1>9 DEF Sum, Tokens

LEMMA SumIsNat ==
    ASSUME NEW S, IsFiniteSet(S), NEW f \in [S -> Nat] PROVE Sum(f) \in Nat
BY TokensFinite, FS_CardinalityType DEF Sum, Tokens

LEMMA SumOfZeros ==
    ASSUME NEW S, NEW f \in [S -> {0}] PROVE Sum(f) = 0
<1>1. Tokens(f) = {} BY DEF Tokens
<1> QED BY <1>1, FS_EmptySet DEF Sum, Tokens

LEMMA SetChanges ==
    ASSUME NEW A, NEW B, NEW x, IsFiniteSet(A), IsFiniteSet(B), A \ {x} = B \ {x}
    PROVE  /\ Cardinality(A) \in Nat /\ Cardinality(B) \in Nat
           /\ (x \in A <=> x \in B) => Cardinality(B) = Cardinality(A)
           /\ x \in B \ A => Cardinality(B) = Cardinality(A) + 1
           /\ x \in A \ B => Cardinality(B) = Cardinality(A) - 1
<1>1. Cardinality(A) \in Nat /\ Cardinality(B) \in Nat BY FS_CardinalityType
<1>2. CASE x \in A <=> x \in B
  <2>1. A = B BY <1>2
  <2> QED BY <2>1, <1>1, <1>2
<1>3. CASE x \in B \ A
  <2>1. B = A \cup {x} /\ x \notin A BY <1>3
  <2>2. Cardinality(A \cup {x}) = Cardinality(A) + 1 BY <2>1, FS_AddElement
  <2> QED BY <2>1, <2>2, <1>1, <1>3
<1>4. CASE x \in A \ B
  <2>1. B = A \ {x} /\ x \in A BY <1>4
  <2>2. Cardinality(A \ {x}) = Cardinality(A) - 1 BY <2>1, FS_RemoveElement
  <2> QED BY <2>1, <2>2, <1>1, <1>4
<1> QED BY <1>2, <1>3, <1>4

----------------------------------------------------------------------------
(* What the invariant rests on: the types, and that only what has a supply *)
(* is in a call to it.                                                     *)
Calling == {"enable", "undo", "disable"}
RegPlaces == Calling \cup {"idle", "schedule"}
RegTypes ==
    /\ use_count \in [Rdevs -> Nat] /\ on \in [Rdevs -> BOOLEAN]
    /\ enable_count \in [Pins -> Nat] /\ high \subseteq Pins
    /\ deferred_disables \in [Rdevs -> Nat] /\ supplies_off \in [Rdevs -> Nat]
    /\ regpc \in [Consumers -> RegPlaces]
    /\ owed \in [Consumers -> Nat] /\ slipped \in BOOLEAN
CallsAreSupplied == /\ \A c \in Consumers : regpc[c] \in Calling => Supply[Of[c]] # None
                    /\ \A r \in Rdevs : supplies_off[r] > 0 => Supply[r] # None
RegInv == RegTypes /\ CallsAreSupplied /\ UsesAreServed

Callers(r) == {c \in Consumers : Of[c] = r /\ regpc[c] \in Calling}
OwedTo(r) == [c \in {c \in Consumers : Of[c] = r} |-> owed[c]]
Fed(r) == {f \in Rdevs : Supply[f] = r}

Numbers == \A r \in Rdevs : /\ InCalls(r) \in Nat /\ OwnUses(r) \in Nat
                           /\ HeldBy(r) \in Nat /\ Uses(r) \in Nat

LEMMA UsesAreNumbers == RegTypes => Numbers
<1> SUFFICES ASSUME RegTypes, NEW r \in Rdevs
             PROVE  /\ InCalls(r) \in Nat /\ OwnUses(r) \in Nat
                    /\ HeldBy(r) \in Nat /\ Uses(r) \in Nat
  BY DEF Numbers
<1> USE RegulatorAssumption DEF RegTypes
<1>1. ASSUME NEW q \in Rdevs
      PROVE  InCalls(q) \in Nat /\ OwnUses(q) \in Nat /\ HeldBy(q) \in Nat
  <2>1. IsFiniteSet(Callers(q)) BY FS_Subset DEF Callers
  <2>2. Cardinality(Callers(q)) \in Nat BY <2>1, FS_CardinalityType
  <2>3. InCalls(q) \in Nat BY <2>2 DEF InCalls, Callers, Calling
  <2>4. IsFiniteSet({c \in Consumers : Of[c] = q}) BY FS_Subset
  <2>5. OwedTo(q) \in [{c \in Consumers : Of[c] = q} -> Nat] BY DEF OwedTo
  <2>6. Sum(OwedTo(q)) \in Nat BY <2>4, <2>5, SumIsNat
  <2>7. OwnUses(q) \in Nat BY <2>6 DEF OwnUses, OwedTo
  <2> QED BY <2>3, <2>7 DEF HeldBy
<1>2. IsFiniteSet(Fed(r)) BY FS_Subset DEF Fed
<1>3. [f \in Fed(r) |-> HeldBy(f)] \in [Fed(r) -> Nat] BY <1>1 DEF Fed
<1>4. Sum([f \in Fed(r) |-> HeldBy(f)]) \in Nat BY <1>2, <1>3, SumIsNat
<1>5. OwnUses(r) \in Nat BY <1>1
<1>6. Uses(r) \in Nat BY <1>4, <1>5 DEF Uses, Fed
<1> QED BY <1>1, <1>6

LEMMA UsesAreNumbersNext == RegTypes' => Numbers'
BY UsesAreNumbers, PTL

(* One consumer's call leaves the counts of all other regulators.          *)
LEMMA OwnStep ==
    ASSUME RegTypes, RegTypes', NEW c \in Consumers,
           \A d \in Consumers \ {c} : owed'[d] = owed[d], UNCHANGED deferred_disables
    PROVE  \A r \in Rdevs : OwnUses(r)' = OwnUses(r)
                                        + IF r = Of[c] THEN owed'[c] - owed[c] ELSE 0
<1> USE RegulatorAssumption DEF RegTypes
<1> TAKE r \in Rdevs
<1> DEFINE S == {d \in Consumers : Of[d] = r}
           f == [d \in S |-> owed[d]]
           g == [d \in S |-> owed'[d]]
<1>1. IsFiniteSet(S) BY FS_Subset
<1>2. f \in [S -> Nat] /\ g \in [S -> Nat] OBVIOUS
<1>3. OwnUses(r) = deferred_disables[r] + Sum(f) BY DEF OwnUses
<1>4. OwnUses(r)' = deferred_disables[r] + Sum(g) BY DEF OwnUses, Sum
<1>5. Sum(f) \in Nat /\ deferred_disables[r] \in Nat BY <1>1, <1>2, SumIsNat
<1>6. CASE r = Of[c]
  <2>1. c \in S /\ \A d \in S : d # c => g[d] = f[d] BY <1>6
  <2>2. f[c] = owed[c] /\ g[c] = owed'[c] BY <2>1
  <2>3. owed[c] \in Nat /\ owed'[c] \in Nat OBVIOUS
  <2> HIDE DEF f, g, S
  <2>4. Sum(g) = Sum(f) - f[c] + g[c] BY <1>1, <1>2, <2>1, SumChanges
  <2> QED BY <1>3, <1>4, <1>5, <1>6, <2>2, <2>3, <2>4
<1>7. CASE r # Of[c]
  <2>1. g = f BY <1>7
  <2> QED BY <1>3, <1>4, <1>5, <1>7, <2>1
<1> QED BY <1>6, <1>7

LEMMA OwnOfRegulator ==
    ASSUME RegTypes, RegTypes', UNCHANGED owed, NEW r \in Rdevs
    PROVE  OwnUses(r)' = OwnUses(r) + deferred_disables'[r] - deferred_disables[r]
<1> USE RegulatorAssumption DEF RegTypes
<1> DEFINE S == {d \in Consumers : Of[d] = r}
           f == [d \in S |-> owed[d]]
<1>1. IsFiniteSet(S) BY FS_Subset
<1>2. Sum(f) \in Nat BY <1>1, SumIsNat
<1>3. OwnUses(r) = deferred_disables[r] + Sum(f) BY DEF OwnUses
<1>4. OwnUses(r)' = deferred_disables'[r] + Sum(f) BY DEF OwnUses, Sum
<1>5. deferred_disables[r] \in Nat /\ deferred_disables'[r] \in Nat OBVIOUS
<1> QED BY <1>2, <1>3, <1>4, <1>5

LEMMA CallsStep ==
    ASSUME RegTypes, RegTypes', NEW c \in Consumers,
           \A d \in Consumers \ {c} : regpc'[d] = regpc[d], UNCHANGED supplies_off
    PROVE  /\ \A r \in Rdevs : r # Of[c] => InCalls(r)' = InCalls(r)
           /\ (regpc[c] \in Calling <=> regpc'[c] \in Calling)
                => InCalls(Of[c])' = InCalls(Of[c])
           /\ regpc[c] \notin Calling /\ regpc'[c] \in Calling
                => InCalls(Of[c])' = InCalls(Of[c]) + 1
           /\ regpc[c] \in Calling /\ regpc'[c] \notin Calling
                => InCalls(Of[c])' = InCalls(Of[c]) - 1
<1> USE RegulatorAssumption DEF RegTypes
<1>1. \A r \in Rdevs : /\ InCalls(r) = supplies_off[r] + Cardinality(Callers(r))
                       /\ InCalls(r)' = supplies_off[r] + Cardinality(Callers(r)')
  BY DEF InCalls, Callers, Calling
<1>2. ASSUME NEW r \in Rdevs, r # Of[c] PROVE InCalls(r)' = InCalls(r)
  <2>1. Callers(r)' = Callers(r) BY <1>2 DEF Callers
  <2> QED BY <1>1, <2>1
<1> DEFINE q == Of[c]
           A == Callers(q)
           B == Callers(q)'
<1>3. q \in Rdevs /\ supplies_off[q] \in Nat OBVIOUS
<1>4. /\ IsFiniteSet(A) /\ IsFiniteSet(B) /\ A \ {c} = B \ {c}
      /\ (c \in A <=> regpc[c] \in Calling)
      /\ (c \in B <=> regpc'[c] \in Calling)
  BY FS_Subset DEF Callers
<1>5. /\ InCalls(q) = supplies_off[q] + Cardinality(A)
      /\ InCalls(q)' = supplies_off[q] + Cardinality(B)
  BY <1>1, <1>3
<1> HIDE DEF A, B
<1>6. /\ Cardinality(A) \in Nat /\ Cardinality(B) \in Nat
      /\ (c \in A <=> c \in B) => Cardinality(B) = Cardinality(A)
      /\ c \in B \ A => Cardinality(B) = Cardinality(A) + 1
      /\ c \in A \ B => Cardinality(B) = Cardinality(A) - 1
  BY <1>4, SetChanges
<1> HIDE DEF q
<1>7. /\ (regpc[c] \in Calling <=> regpc'[c] \in Calling) => InCalls(q)' = InCalls(q)
      /\ regpc[c] \notin Calling /\ regpc'[c] \in Calling => InCalls(q)' = InCalls(q) + 1
      /\ regpc[c] \in Calling /\ regpc'[c] \notin Calling => InCalls(q)' = InCalls(q) - 1
  BY <1>3, <1>4, <1>5, <1>6
<1> QED BY <1>2, <1>7 DEF q

LEMMA CallsOfRegulator ==
    ASSUME RegTypes, RegTypes', UNCHANGED regpc, NEW r \in Rdevs
    PROVE  InCalls(r)' = InCalls(r) + supplies_off'[r] - supplies_off[r]
<1> USE RegulatorAssumption DEF RegTypes
<1>1. IsFiniteSet(Callers(r)) BY FS_Subset DEF Callers
<1>2. Cardinality(Callers(r)) \in Nat BY <1>1, FS_CardinalityType
<1>3. /\ InCalls(r) = supplies_off[r] + Cardinality(Callers(r))
      /\ InCalls(r)' = supplies_off'[r] + Cardinality(Callers(r))
  BY DEF InCalls, Callers, Calling
<1>4. supplies_off[r] \in Nat /\ supplies_off'[r] \in Nat OBVIOUS
<1> QED BY <1>2, <1>3, <1>4

(* A step of a call to q moves its own uses, and those it makes of its     *)
(* supply, which the counts keep up with.                                  *)
LEMMA CountsStep ==
    ASSUME RegTypes, RegTypes', NEW q \in Rdevs, NEW own \in Int, NEW calls \in Int,
           \A r \in Rdevs : use_count[r] >= Uses(r),
           \A r \in Rdevs : OwnUses(r)' = OwnUses(r) + IF r = q THEN own ELSE 0,
           \A r \in Rdevs : InCalls(r)' = InCalls(r) + IF r = q THEN calls ELSE 0,
           \A r \in Rdevs : r # q /\ r # Supply[q] => use_count'[r] = use_count[r],
           use_count'[q] >= use_count[q] + own,
           Supply[q] # None =>
               use_count'[Supply[q]] >= use_count[Supply[q]] + calls
                   + IF q \in AlwaysOn THEN own ELSE use_count'[q] - use_count[q]
    PROVE  \A r \in Rdevs : use_count'[r] >= Uses(r)'
<1> USE RegulatorAssumption DEF RegTypes
<1> TAKE r \in Rdevs
<1> DEFINE S == Fed(r)
           f == [x \in S |-> HeldBy(x)]
           g == [x \in S |-> HeldBy(x)']
<1>1. Numbers /\ Numbers' BY UsesAreNumbers, UsesAreNumbersNext
<1>2. IsFiniteSet(S) BY FS_Subset DEF Fed
<1>3. \A x \in Rdevs : HeldBy(x) \in Nat /\ HeldBy(x)' \in Nat BY <1>1 DEF Numbers
<1>4. f \in [S -> Nat] /\ g \in [S -> Nat] BY <1>3 DEF Fed
<1>5. Uses(r) = OwnUses(r) + Sum(f) BY DEF Uses, Fed
<1>6. Uses(r)' = OwnUses(r)' + Sum(g) BY DEF Uses, Fed, Sum
<1>7. Sum(f) \in Nat /\ Sum(g) \in Nat BY <1>2, <1>4, SumIsNat
<1>8. OwnUses(r) \in Nat /\ OwnUses(r)' \in Nat BY <1>1 DEF Numbers
<1>9. /\ use_count[r] \in Nat /\ use_count'[r] \in Nat
      /\ use_count[q] \in Nat /\ use_count'[q] \in Nat
  OBVIOUS
<1>10. \A x \in S : x # q /\ x # Supply[q] => g[x] = f[x]
  <2> TAKE x \in S
  <2> HAVE x # q /\ x # Supply[q]
  <2>1. x \in Rdevs BY DEF Fed
  <2>2. use_count'[x] = use_count[x] BY <2>1
  <2>3. OwnUses(x)' = OwnUses(x) + 0 /\ InCalls(x)' = InCalls(x) + 0 BY <2>1
  <2>4. OwnUses(x) \in Nat /\ InCalls(x) \in Nat BY <1>1, <2>1 DEF Numbers
  <2>5. OwnUses(x)' = OwnUses(x) /\ InCalls(x)' = InCalls(x) BY <2>3, <2>4
  <2> QED BY <2>2, <2>5 DEF HeldBy
<1>11. \A x \in S : x # Supply[q] BY DEF Fed
<1>12. CASE r = Supply[q] /\ r # q
  <2>1. q \in S /\ \A x \in S : x # q => g[x] = f[x] BY <1>10, <1>11, <1>12 DEF Fed
  <2>2. f[q] = HeldBy(q) /\ g[q] = HeldBy(q)' BY <2>1
  <2> HIDE DEF f, g, S
  <2>3. Sum(g) = Sum(f) - f[q] + g[q] BY ONLY <1>2, <1>4, <2>1, SumChanges
  <2>4. OwnUses(r)' = OwnUses(r) + 0 BY <1>12
  <2>5. /\ OwnUses(q)' = OwnUses(q) + own /\ InCalls(q)' = InCalls(q) + calls
        /\ OwnUses(q) \in Nat /\ InCalls(q) \in Nat
    BY <1>1 DEF Numbers
  <2>6. HeldBy(q)' - HeldBy(q)
            = calls + IF q \in AlwaysOn THEN own ELSE use_count'[q] - use_count[q]
    BY <2>5, <1>9 DEF HeldBy
  <2>7. HeldBy(q) \in Nat /\ HeldBy(q)' \in Nat BY <1>3
  <2>8. use_count'[r] >= use_count[r] + (HeldBy(q)' - HeldBy(q))
    BY <1>9, <1>12, <2>6
  <2>9. use_count[r] >= Uses(r) OBVIOUS
  <2> QED BY <1>5, <1>6, <1>7, <1>8, <1>9, <2>2, <2>3, <2>4, <2>7, <2>8, <2>9
<1>13. CASE r = q
  <2>1. g = f BY <1>10, <1>11, <1>13 DEF Fed
  <2>2. OwnUses(r)' = OwnUses(r) + own BY <1>13
  <2>3. use_count[r] >= Uses(r) /\ use_count'[r] >= use_count[r] + own BY <1>13
  <2> HIDE DEF f, g, S
  <2> QED BY <1>5, <1>6, <1>7, <1>8, <1>9, <2>1, <2>2, <2>3
<1>14. CASE r # q /\ r # Supply[q]
  <2>1. g = f BY <1>10, <1>11, <1>14 DEF Fed
  <2>2. OwnUses(r)' = OwnUses(r) + 0 BY <1>14
  <2>3. use_count[r] >= Uses(r) /\ use_count'[r] = use_count[r] BY <1>14
  <2> HIDE DEF f, g, S
  <2> QED BY <1>5, <1>6, <1>7, <1>8, <1>9, <2>1, <2>2, <2>3
<1> QED BY <1>12, <1>13, <1>14

(* A pin is counted with the regulators that have it on.                   *)
OnAt(p) == {r \in Sharing(p) : on[r]}
PinIsCounted(p) == /\ enable_count[p] = Cardinality(OnAt(p))
                   /\ (p \in high <=> enable_count[p] > 0)
SwitchTypes == /\ on \in [Rdevs -> BOOLEAN] /\ enable_count \in [Pins -> Nat]
               /\ high \subseteq Pins

LEMMA PinsAreCounted == SharedPinIsHigh <=> \A p \in Pins \ astray : PinIsCounted(p)
BY DEF SharedPinIsHigh, PinIsCounted, OnAt

LEMMA PinsAreCountedNext ==
    SharedPinIsHigh' <=> (\A p \in Pins \ astray : PinIsCounted(p))'
BY DEF SharedPinIsHigh, PinIsCounted, OnAt

LEMMA SwitchStep ==
    ASSUME RegTypes, SharedPinIsHigh, NEW r \in Rdevs, NEW to \in BOOLEAN,
           SwitchTo(r, to), astray \subseteq astray',
           on[r] = to => Pin[r] = None \/ Pin[r] \in astray'
    PROVE  SwitchTypes' /\ SharedPinIsHigh' /\ on' = [on EXCEPT ![r] = to]
<1> USE RegulatorAssumption DEF RegTypes
<1>1. on' = [on EXCEPT ![r] = to] BY DEF SwitchTo
<1>2. Pins \in SUBSET Pins /\ (Pin[r] # None => Pin[r] \in Pins) BY DEF Pins
<1>3. SwitchTypes'
  BY <1>1, <1>2 DEF SwitchTo, regulator_ena_gpio_ctrl, SwitchTypes
<1>4. ASSUME NEW p \in Pins, p \notin astray' PROVE PinIsCounted(p)'
  <2>1. PinIsCounted(p) BY <1>4, PinsAreCounted
  <2>2. IsFiniteSet(OnAt(p)) /\ IsFiniteSet(OnAt(p)')
    BY FS_Subset DEF OnAt, Sharing
  <2>3. CASE p # Pin[r]
    <3>1. OnAt(p)' = OnAt(p) BY <1>1, <2>3 DEF OnAt, Sharing
    <3>2. enable_count'[p] = enable_count[p] /\ (p \in high' <=> p \in high)
      BY <2>3 DEF SwitchTo, regulator_ena_gpio_ctrl
    <3> QED BY <2>1, <3>1, <3>2 DEF PinIsCounted
  <2>4. CASE p = Pin[r]
    <3>1. Pin[r] # None /\ on[r] # to /\ on[r] \in BOOLEAN BY <1>4, <2>4 DEF Pins
    <3>2. OnAt(p)' \ {r} = OnAt(p) \ {r} BY <1>1 DEF OnAt, Sharing
    <3>3. (r \in OnAt(p) <=> ~to) /\ (r \in OnAt(p)' <=> to)
      BY <1>1, <2>4, <3>1 DEF OnAt, Sharing
    <3>4. regulator_ena_gpio_ctrl(p, to) BY <2>4, <3>1 DEF SwitchTo
    <3>5. enable_count[p] \in Nat /\ enable_count[p] = Cardinality(OnAt(p))
      BY <2>1 DEF PinIsCounted
    <3>6. /\ Cardinality(OnAt(p)') \in Nat
          /\ (r \in OnAt(p)' \ OnAt(p) =>
                Cardinality(OnAt(p)') = Cardinality(OnAt(p)) + 1)
          /\ (r \in OnAt(p) \ OnAt(p)' =>
                Cardinality(OnAt(p)') = Cardinality(OnAt(p)) - 1)
      BY ONLY <2>2, <3>2, SetChanges
    <3>7. CASE to
      <4>1. enable_count'[p] = enable_count[p] + 1 /\ p \in high'
        BY <3>4, <3>7 DEF regulator_ena_gpio_ctrl
      <4>2. Cardinality(OnAt(p)') = enable_count[p] + 1 BY <3>3, <3>5, <3>6, <3>7
      <4> QED BY <3>5, <4>1, <4>2 DEF PinIsCounted
    <3>8. CASE ~to
      <4>1. Cardinality(OnAt(p)') = enable_count[p] - 1 BY <3>3, <3>5, <3>6, <3>8
      <4>2. Cardinality(OnAt(p)') \in Nat BY <3>6
      <4>3. enable_count[p] >= 1 BY <3>5, <4>1, <4>2
      <4>4. p \in high BY <2>1, <4>3 DEF PinIsCounted
      <4>5. CASE enable_count[p] > 1
        <5>1. enable_count'[p] = enable_count[p] - 1 /\ high' = high
          BY <3>4, <3>8, <4>5 DEF regulator_ena_gpio_ctrl
        <5> QED BY <3>5, <4>1, <4>4, <4>5, <5>1 DEF PinIsCounted
      <4>6. CASE ~(enable_count[p] > 1)
        <5>1. enable_count'[p] = 0 /\ p \notin high'
          BY <3>4, <3>8, <4>6 DEF regulator_ena_gpio_ctrl
        <5>2. enable_count[p] = 1 BY <3>5, <4>3, <4>6
        <5>3. Cardinality(OnAt(p)') = 0 BY <4>1, <5>2
        <5> QED BY <5>1, <5>3 DEF PinIsCounted
      <4> QED BY <4>5, <4>6
    <3> QED BY <3>7, <3>8
  <2> QED BY <2>3, <2>4
<1>5. (\A p \in Pins \ astray : PinIsCounted(p))' BY <1>4
<1> QED BY <1>1, <1>3, <1>5, PinsAreCountedNext

LEMMA SwitchStutters ==
    ASSUME RegTypes, SharedPinIsHigh, astray \subseteq astray',
           UNCHANGED <<on, enable_count, high>>
    PROVE  SwitchTypes' /\ SharedPinIsHigh'
<1>1. \A p \in Pins : PinIsCounted(p)' <=> PinIsCounted(p)
  BY DEF PinIsCounted, OnAt
<1>2. (\A p \in Pins \ astray : PinIsCounted(p))' BY <1>1, PinsAreCounted
<1> QED BY <1>2, PinsAreCountedNext DEF RegTypes, SwitchTypes

(* What enables and disables leave of a count, and that what is used stays *)
(* on.                                                                     *)
InUseIsOn == \A r \in Rdevs : use_count[r] > 0 => on[r]
HardwareIsSound == SwitchTypes /\ SharedPinIsHigh /\ InUseIsOn

LEMMA EnableOkStep ==
    ASSUME RegTypes, SharedPinIsHigh, InUseIsOn, UNCHANGED astray,
           NEW r \in Rdevs, EnableOk(r)
    PROVE  /\ HardwareIsSound'
           /\ use_count' \in [Rdevs -> Nat] /\ use_count'[r] = use_count[r] + 1
           /\ \A q \in Rdevs : q # r => use_count'[q] = use_count[q]
<1>1. /\ use_count' \in [Rdevs -> Nat] /\ use_count'[r] = use_count[r] + 1
      /\ \A q \in Rdevs : q # r => use_count'[q] = use_count[q]
  BY DEF EnableOk, Count, RegTypes
<1>2. CASE use_count[r] = 0 /\ ~on[r]
  <2>1. SwitchTo(r, TRUE) BY <1>2 DEF EnableOk
  <2>2. on[r] # TRUE BY <1>2
  <2>3. SwitchTypes' /\ SharedPinIsHigh' /\ on' = [on EXCEPT ![r] = TRUE]
    BY <2>1, <2>2, SwitchStep
  <2>4. InUseIsOn' BY <1>1, <2>3 DEF InUseIsOn, RegTypes
  <2> QED BY <1>1, <2>3, <2>4 DEF HardwareIsSound
<1>3. CASE ~(use_count[r] = 0 /\ ~on[r])
  <2>1. UNCHANGED <<on, enable_count, high>> BY <1>3 DEF EnableOk, hardware
  <2>2. SwitchTypes' /\ SharedPinIsHigh' BY <2>1, SwitchStutters
  <2>3. on[r] BY <1>3 DEF InUseIsOn, RegTypes
  <2>4. InUseIsOn' BY <1>1, <2>1, <2>3 DEF InUseIsOn
  <2> QED BY <1>1, <2>2, <2>4 DEF HardwareIsSound
<1> QED BY <1>2, <1>3

LEMMA EnableFailsStep ==
    ASSUME RegTypes, SharedPinIsHigh, InUseIsOn, UNCHANGED astray,
           NEW r \in Rdevs, EnableFails(r)
    PROVE  HardwareIsSound' /\ use_count' = use_count
<1>1. use_count' = use_count /\ UNCHANGED <<on, enable_count, high>>
  BY DEF EnableFails, Fail, hardware
<1>2. SwitchTypes' /\ SharedPinIsHigh' BY <1>1, SwitchStutters
<1> QED BY <1>1, <1>2 DEF HardwareIsSound, InUseIsOn

LEMMA DisableOkStep ==
    ASSUME RegTypes, SharedPinIsHigh, InUseIsOn, UNCHANGED astray,
           NEW r \in Rdevs, NEW n \in Nat \ {0}, DisableOk(r, n)
    PROVE  /\ HardwareIsSound'
           /\ use_count' \in [Rdevs -> Nat] /\ use_count'[r] >= use_count[r] - n
           /\ (r \notin AlwaysOn => use_count'[r] = use_count[r] - n)
           /\ \A q \in Rdevs : q # r => use_count'[q] = use_count[q]
<1> DEFINE last == n > 0 /\ use_count[r] = n
<1>1. use_count[r] \in Nat /\ use_count[r] >= n BY DEF DisableOk, RegTypes
<1>2. use_count' = [use_count EXCEPT ![r] =
                        @ + IF last /\ r \in AlwaysOn THEN 1 - n ELSE -n]
  BY DEF DisableOk, Count
<1>3. /\ use_count' \in [Rdevs -> Nat] /\ use_count'[r] >= use_count[r] - n
      /\ (r \notin AlwaysOn => use_count'[r] = use_count[r] - n)
      /\ \A q \in Rdevs : q # r => use_count'[q] = use_count[q]
      /\ (last /\ r \notin AlwaysOn => use_count'[r] = 0)
  BY <1>1, <1>2 DEF RegTypes
<1>4. on[r] = TRUE BY <1>1 DEF InUseIsOn, RegTypes
<1>5. CASE last /\ r \in Switchable \ AlwaysOn
  <2>1. SwitchTo(r, FALSE) BY <1>5 DEF DisableOk
  <2>2. SwitchTypes' /\ SharedPinIsHigh' /\ on' = [on EXCEPT ![r] = FALSE]
    BY <1>4, <2>1, SwitchStep
  <2>3. InUseIsOn' BY <1>3, <1>5, <2>2 DEF InUseIsOn, RegTypes
  <2> QED BY <1>3, <2>2, <2>3 DEF HardwareIsSound
<1>6. CASE ~(last /\ r \in Switchable \ AlwaysOn)
  <2>1. UNCHANGED <<on, enable_count, high>> BY <1>6 DEF DisableOk, hardware
  <2>2. SwitchTypes' /\ SharedPinIsHigh' BY <2>1, SwitchStutters
  <2>3. InUseIsOn' BY <1>3, <1>4, <2>1 DEF InUseIsOn
  <2> QED BY <1>3, <2>2, <2>3 DEF HardwareIsSound
<1> QED BY <1>5, <1>6

LEMMA DisableFailsStep ==
    ASSUME RegTypes, SharedPinIsHigh, InUseIsOn, UNCHANGED astray,
           NEW r \in Rdevs, NEW n \in Nat \ {0}, DisableFails(r, n)
    PROVE  /\ HardwareIsSound'
           /\ use_count' \in [Rdevs -> Nat] /\ (n = 1 => use_count' = use_count)
<1>1. UNCHANGED <<on, enable_count, high>> BY DEF DisableFails, Fail, hardware
<1>2. /\ use_count' \in [Rdevs -> Nat] /\ (n = 1 => use_count' = use_count)
      /\ \A q \in Rdevs : use_count'[q] > 0 => use_count[q] > 0
  BY DEF DisableFails, Count, RegTypes
<1>3. SwitchTypes' /\ SharedPinIsHigh' BY <1>1, SwitchStutters
<1>4. InUseIsOn' BY <1>1, <1>2 DEF InUseIsOn
<1> QED BY <1>2, <1>3, <1>4 DEF HardwareIsSound

(* A step of a consumer's call, of a regulator's work, and of neither.     *)
CountsSuffice == ~slipped => \A r \in Rdevs : use_count[r] >= Uses(r)

LEMMA RegInvParts == RegInv <=> /\ RegTypes /\ CallsAreSupplied /\ InUseIsOn
                                /\ CountsSuffice /\ SharedPinIsHigh
BY DEF RegInv, UsesAreServed, UsesAreCounted, InUseIsOn, CountsSuffice

LEMMA RegInvPartsNext ==
    RegTypes' /\ CallsAreSupplied' /\ InUseIsOn' /\ CountsSuffice' /\ SharedPinIsHigh'
        => RegInv'
BY RegInvParts, PTL

CallMoves(c, own, calls) ==
    /\ owed'[c] = owed[c] + own
    /\ \A d \in Consumers \ {c} : owed'[d] = owed[d] /\ regpc'[d] = regpc[d]
    /\ calls = (IF regpc'[c] \in Calling THEN 1 ELSE 0)
               - (IF regpc[c] \in Calling THEN 1 ELSE 0)
    /\ UNCHANGED <<deferred_disables, supplies_off, slipped>>
    /\ \A r \in Rdevs : r # Of[c] /\ r # Supply[Of[c]] => use_count'[r] = use_count[r]
    /\ use_count'[Of[c]] >= use_count[Of[c]] + own
    /\ Supplied(c) =>
           use_count'[Supply[Of[c]]] >= use_count[Supply[Of[c]]] + calls
               + IF Of[c] \in AlwaysOn THEN own
                                       ELSE use_count'[Of[c]] - use_count[Of[c]]

LEMMA CallStep ==
    ASSUME RegTypes, RegTypes', CountsSuffice,
           NEW c \in Consumers, NEW own \in Int, NEW calls \in Int,
           CallMoves(c, own, calls)
    PROVE  CountsSuffice'
<1> USE DEF CallMoves
<1> DEFINE q == Of[c]
<1>1. q \in Rdevs BY RegulatorAssumption
<1>2. Numbers /\ Numbers' BY UsesAreNumbers, UsesAreNumbersNext
<1>3. owed'[c] - owed[c] = own BY DEF RegTypes
<1>4. \A r \in Rdevs : OwnUses(r)' = OwnUses(r) + IF r = q THEN own ELSE 0
  BY <1>3, OwnStep
<1>5. /\ \A r \in Rdevs : r # q => InCalls(r)' = InCalls(r)
      /\ InCalls(q)' = InCalls(q) + calls
  <2>1. /\ \A r \in Rdevs : r # Of[c] => InCalls(r)' = InCalls(r)
        /\ (regpc[c] \in Calling <=> regpc'[c] \in Calling)
             => InCalls(Of[c])' = InCalls(Of[c])
        /\ regpc[c] \notin Calling /\ regpc'[c] \in Calling
             => InCalls(Of[c])' = InCalls(Of[c]) + 1
        /\ regpc[c] \in Calling /\ regpc'[c] \notin Calling
             => InCalls(Of[c])' = InCalls(Of[c]) - 1
    BY CallsStep
  <2>2. InCalls(q) \in Nat BY <1>1, <1>2 DEF Numbers
  <2> QED BY <2>1, <2>2
<1>6. \A r \in Rdevs : InCalls(r)' = InCalls(r) + IF r = q THEN calls ELSE 0
  BY <1>2, <1>5 DEF Numbers
<1>7. ASSUME ~slipped PROVE \A r \in Rdevs : use_count'[r] >= Uses(r)'
  <2>1. \A r \in Rdevs : use_count[r] >= Uses(r) BY <1>7 DEF CountsSuffice
  <2> QED BY <1>1, <1>4, <1>6, <2>1, CountsStep DEF Supplied
<1> QED BY <1>7 DEF CountsSuffice

WorkMoves(q, own, calls) ==
    /\ UNCHANGED <<slipped, owed, regpc>>
    /\ deferred_disables'[q] = deferred_disables[q] + own
    /\ \A r \in Rdevs : r # q => deferred_disables'[r] = deferred_disables[r]
    /\ supplies_off'[q] = supplies_off[q] + calls
    /\ \A r \in Rdevs : r # q => supplies_off'[r] = supplies_off[r]
    /\ \A r \in Rdevs : r # q /\ r # Supply[q] => use_count'[r] = use_count[r]
    /\ use_count'[q] >= use_count[q] + own
    /\ Supply[q] # None =>
           use_count'[Supply[q]] >= use_count[Supply[q]] + calls
               + IF q \in AlwaysOn THEN own ELSE use_count'[q] - use_count[q]

LEMMA WorkStep ==
    ASSUME RegTypes, RegTypes', CountsSuffice,
           NEW q \in Rdevs, NEW own \in Int, NEW calls \in Int, WorkMoves(q, own, calls)
    PROVE  CountsSuffice'
<1> USE DEF WorkMoves
<1>1. Numbers BY UsesAreNumbers
<1>2. \A r \in Rdevs : OwnUses(r)' = OwnUses(r) + IF r = q THEN own ELSE 0
  <2> TAKE r \in Rdevs
  <2>1. OwnUses(r)' = OwnUses(r) + deferred_disables'[r] - deferred_disables[r]
    BY OwnOfRegulator
  <2>2. OwnUses(r) \in Nat BY <1>1 DEF Numbers
  <2> QED BY <2>1, <2>2 DEF RegTypes
<1>3. \A r \in Rdevs : InCalls(r)' = InCalls(r) + IF r = q THEN calls ELSE 0
  <2> TAKE r \in Rdevs
  <2>1. InCalls(r)' = InCalls(r) + supplies_off'[r] - supplies_off[r]
    BY CallsOfRegulator
  <2>2. InCalls(r) \in Nat BY <1>1 DEF Numbers
  <2> QED BY <2>1, <2>2 DEF RegTypes
<1>4. ASSUME ~slipped PROVE \A r \in Rdevs : use_count'[r] >= Uses(r)'
  <2>1. \A r \in Rdevs : use_count[r] >= Uses(r) BY <1>4 DEF CountsSuffice
  <2> QED BY <1>2, <1>3, <2>1, CountsStep
<1> QED BY <1>4 DEF CountsSuffice

LEMMA NoCallStep ==
    ASSUME RegTypes, RegTypes', CountsSuffice,
           UNCHANGED <<slipped, owed, regpc, deferred_disables, supplies_off, use_count>>
    PROVE  CountsSuffice'
<1>1. ASSUME NEW r \in Rdevs, ~slipped PROVE use_count'[r] >= Uses(r)'
  <2>1. \A x \in Rdevs : use_count[x] >= Uses(x) BY <1>1 DEF CountsSuffice
  <2>2. Numbers BY UsesAreNumbers
  <2>0. PICK none \in Int : none = 0 OBVIOUS
  <2>3. \A x \in Rdevs : OwnUses(x)' = OwnUses(x) + IF x = r THEN none ELSE 0
    <3> TAKE x \in Rdevs
    <3>1. OwnUses(x)' = OwnUses(x) + deferred_disables'[x] - deferred_disables[x]
      BY OwnOfRegulator
    <3> QED BY <2>0, <2>2, <3>1 DEF Numbers, RegTypes
  <2>4. \A x \in Rdevs : InCalls(x)' = InCalls(x) + IF x = r THEN none ELSE 0
    <3> TAKE x \in Rdevs
    <3>1. InCalls(x)' = InCalls(x) + supplies_off'[x] - supplies_off[x]
      BY CallsOfRegulator
    <3> QED BY <2>0, <2>2, <3>1 DEF Numbers, RegTypes
  <2>5. \A x \in Rdevs : use_count'[x] = use_count[x] /\ use_count[x] \in Nat
    BY DEF RegTypes
  <2>6. /\ \A x \in Rdevs : x # r /\ x # Supply[r] => use_count'[x] = use_count[x]
        /\ use_count'[r] >= use_count[r] + none
        /\ Supply[r] # None =>
               use_count'[Supply[r]] >= use_count[Supply[r]] + none
                   + IF r \in AlwaysOn THEN none ELSE use_count'[r] - use_count[r]
    <3>1. Supply[r] # None => Supply[r] \in Rdevs BY RegulatorAssumption
    <3> QED BY <2>0, <2>5, <3>1
  <2>7. \A x \in Rdevs : use_count'[x] >= Uses(x)'
    BY <2>1, <2>3, <2>4, <2>6, CountsStep
  <2> QED BY <1>1, <2>7
<1> QED BY <1>1 DEF CountsSuffice

----------------------------------------------------------------------------
(* The invariant holds of every step.                                      *)
LEMMA RegInvInit == RegInit => RegInv
<1> SUFFICES ASSUME RegInit PROVE RegInv OBVIOUS
<1> USE RegulatorAssumption
<1>1. RegTypes
  <2>1. \A p \in Pins : IsFiniteSet(Sharing(p) \cap BootOn) BY FS_Subset DEF Sharing
  <2>2. \A p \in Pins : Cardinality(Sharing(p) \cap BootOn) \in Nat
    BY <2>1, FS_CardinalityType
  <2>3. enable_count \in [Pins -> Nat] BY <2>2 DEF RegInit
  <2>4. high \subseteq Pins BY DEF RegInit
  <2>5. on \in [Rdevs -> BOOLEAN] BY DEF RegInit
  <2> QED BY <2>3, <2>4, <2>5 DEF RegInit, RegTypes, Calling, RegPlaces
<1>2. CallsAreSupplied BY DEF RegInit, CallsAreSupplied, Calling
<1>3. InUseIsOn BY DEF RegInit, InUseIsOn
<1>4. \A p \in Pins : PinIsCounted(p)
  <2> TAKE p \in Pins
  <2>1. OnAt(p) = Sharing(p) \cap BootOn BY DEF RegInit, OnAt, Sharing
  <2>2. IsFiniteSet(OnAt(p)) BY FS_Subset DEF OnAt, Sharing
  <2>3. Cardinality(OnAt(p)) \in Nat /\ (Cardinality(OnAt(p)) = 0 <=> OnAt(p) = {})
    BY <2>2, FS_CardinalityType, FS_EmptySet
  <2>4. enable_count[p] = Cardinality(OnAt(p)) BY <2>1 DEF RegInit
  <2>5. p \in high <=> OnAt(p) # {} BY <2>1 DEF RegInit
  <2> QED BY <2>3, <2>4, <2>5 DEF PinIsCounted
<1>5. SharedPinIsHigh BY <1>4, PinsAreCounted
<1>6. ASSUME NEW r \in Rdevs PROVE OwnUses(r) = 0 /\ InCalls(r) = 0 /\ HeldBy(r) = 0
  <2>1. OwedTo(r) \in [{c \in Consumers : Of[c] = r} -> {0}] BY DEF OwedTo, RegInit
  <2>2. Sum(OwedTo(r)) = 0 BY <2>1, SumOfZeros
  <2>3. OwnUses(r) = 0 BY <2>2 DEF OwnUses, OwedTo, RegInit
  <2>4. Callers(r) = {} BY DEF Callers, Calling, RegInit
  <2>5. Cardinality(Callers(r)) = 0 BY <2>4, FS_EmptySet
  <2>6. InCalls(r) = 0 BY <2>5 DEF InCalls, Callers, Calling, RegInit
  <2> QED BY <2>3, <2>6 DEF HeldBy, RegInit
<1>7. ASSUME NEW r \in Rdevs PROVE use_count[r] >= Uses(r)
  <2>1. [f \in Fed(r) |-> HeldBy(f)] \in [Fed(r) -> {0}] BY <1>6 DEF Fed
  <2>2. Sum([f \in Fed(r) |-> HeldBy(f)]) = 0 BY <2>1, SumOfZeros
  <2>3. Uses(r) = 0 BY <1>6, <2>2 DEF Uses, Fed
  <2> QED BY <2>3 DEF RegInit
<1>8. CountsSuffice BY <1>7 DEF CountsSuffice
<1> QED BY <1>1, <1>2, <1>3, <1>5, <1>8, RegInvParts

CallTo(c, to, own, calls) ==
    /\ to \in RegPlaces /\ own \in Int /\ calls \in Int
    /\ regpc' = [regpc EXCEPT ![c] = to] /\ (to \in Calling => Supplied(c))
    /\ use_count' \in [Rdevs -> Nat] /\ owed' \in [Consumers -> Nat]
    /\ CallMoves(c, own, calls)

LEMMA CallKeeps ==
    ASSUME RegInv, NEW c \in Consumers, NEW to, NEW own, NEW calls,
           CallTo(c, to, own, calls), HardwareIsSound'
    PROVE  RegInv'
<1> USE DEF CallTo
<1>1. RegTypes /\ CallsAreSupplied /\ CountsSuffice BY RegInvParts
<1>2. RegTypes' BY <1>1 DEF RegTypes, HardwareIsSound, SwitchTypes, CallMoves
<1>3. CallsAreSupplied'
  BY <1>1 DEF CallsAreSupplied, Supplied, CallMoves, RegTypes
<1>4. CountsSuffice' BY <1>1, <1>2, CallStep
<1> QED BY <1>2, <1>3, <1>4, RegInvPartsNext DEF HardwareIsSound

LEMMA CallNames ==
    /\ "enable" \in Calling /\ "undo" \in Calling /\ "disable" \in Calling
    /\ "idle" \notin Calling /\ "schedule" \notin Calling
    /\ "enable" \in RegPlaces /\ "undo" \in RegPlaces /\ "disable" \in RegPlaces
    /\ "idle" \in RegPlaces /\ "schedule" \in RegPlaces
BY DEF Calling, RegPlaces

LEMMA UncountedKeeps ==
    ASSUME RegInv, HardwareIsSound',
           UNCHANGED <<slipped, owed, regpc, deferred_disables, supplies_off, use_count>>
    PROVE  RegInv'
<1>1. RegTypes /\ CallsAreSupplied /\ CountsSuffice BY RegInvParts
<1>2. RegTypes' BY <1>1 DEF RegTypes, HardwareIsSound, SwitchTypes
<1>3. CallsAreSupplied' BY <1>1 DEF CallsAreSupplied
<1>4. CountsSuffice' BY <1>1, <1>2, NoCallStep
<1> QED BY <1>2, <1>3, <1>4, RegInvPartsNext DEF HardwareIsSound

LEMMA EnableSupplyKeeps ==
    ASSUME RegInv, NEW c \in Consumers, EnableSupply(c) PROVE RegInv'
<1> DEFINE s == Supply[Of[c]]
<1>1. RegTypes /\ InUseIsOn /\ SharedPinIsHigh BY RegInvParts
<1>2. s \in Rdevs /\ Of[c] \in Rdevs /\ s # Of[c] /\ Supplied(c)
  BY RegulatorAssumption DEF EnableSupply, Supplied
<1>3. UNCHANGED <<deferred_disables, supplies_off, slipped, owed, astray>>
  BY DEF EnableSupply, deferral, boot
<1>4. CASE EnableOk(s) /\ RegStep(c, "idle", "enable")
  <2>1. /\ HardwareIsSound' /\ use_count' \in [Rdevs -> Nat]
        /\ use_count'[s] = use_count[s] + 1
        /\ \A q \in Rdevs : q # s => use_count'[q] = use_count[q]
    BY <1>1, <1>2, <1>3, <1>4, EnableOkStep
  <2>2. regpc' = [regpc EXCEPT ![c] = "enable"] /\ regpc[c] = "idle"
    BY <1>4 DEF RegStep
  <2>3. CallMoves(c, 0, 1)
    BY <1>1, <1>2, <1>3, <2>1, <2>2 DEF CallMoves, RegTypes, Calling
  <2>4. owed' \in [Consumers -> Nat] BY <1>1, <1>3 DEF RegTypes
  <2>5. CallTo(c, "enable", 0, 1)
    BY <1>2, <2>1, <2>2, <2>3, <2>4, CallNames DEF CallTo
  <2> QED BY <2>1, <2>5, CallKeeps
<1>5. CASE EnableFails(s) /\ RegStep(c, "idle", "idle")
  <2>1. HardwareIsSound' /\ use_count' = use_count
    BY <1>1, <1>2, <1>3, <1>5, EnableFailsStep
  <2>2. regpc' = regpc BY <1>1, <1>5 DEF RegStep, RegTypes
  <2> QED BY <1>3, <2>1, <2>2, UncountedKeeps
<1> QED BY <1>4, <1>5 DEF EnableSupply

LEMMA EnableKeeps ==
    ASSUME RegInv, NEW c \in Consumers, Enable(c) PROVE RegInv'
<1> DEFINE q == Of[c]
<1>1. RegTypes /\ InUseIsOn /\ SharedPinIsHigh BY RegInvParts
<1>2. q \in Rdevs /\ (Supplied(c) => Supply[q] \in Rdevs /\ Supply[q] # q)
  BY RegulatorAssumption DEF Supplied
<1>3. UNCHANGED <<deferred_disables, supplies_off, slipped, astray>>
  BY DEF Enable, deferral, boot
<1>4. CASE /\ EnableOk(q) /\ owed' = [owed EXCEPT ![c] = @ + 1]
           /\ RegStep(c, IF Supplied(c) THEN "enable" ELSE "idle", "idle")
  <2>1. /\ HardwareIsSound' /\ use_count' \in [Rdevs -> Nat]
        /\ use_count'[q] = use_count[q] + 1
        /\ \A x \in Rdevs : x # q => use_count'[x] = use_count[x]
    BY <1>1, <1>2, <1>3, <1>4, EnableOkStep
  <2>2. /\ regpc' = [regpc EXCEPT ![c] = "idle"]
        /\ regpc[c] = IF Supplied(c) THEN "enable" ELSE "idle"
    BY <1>4 DEF RegStep
  <2>3. owed' \in [Consumers -> Nat] BY <1>1, <1>4 DEF RegTypes
  <2>4. CASE Supplied(c)
    <3>1. CallMoves(c, 1, -1)
      BY <1>1, <1>2, <1>3, <1>4, <2>1, <2>2, <2>4 DEF CallMoves, RegTypes, Calling
    <3>2. CallTo(c, "idle", 1, -1) BY <2>1, <2>2, <2>3, <3>1, CallNames DEF CallTo
    <3> QED BY <2>1, <3>2, CallKeeps
  <2>5. CASE ~Supplied(c)
    <3>1. CallMoves(c, 1, 0)
      BY <1>1, <1>2, <1>3, <1>4, <2>1, <2>2, <2>5 DEF CallMoves, RegTypes, Calling
    <3>2. CallTo(c, "idle", 1, 0) BY <2>1, <2>2, <2>3, <3>1, CallNames DEF CallTo
    <3> QED BY <2>1, <3>2, CallKeeps
  <2> QED BY <2>4, <2>5
<1>5. CASE /\ EnableFails(q) /\ UNCHANGED owed
           /\ IF Supplied(c) THEN RegStep(c, "enable", "undo") ELSE RegStep(c, "idle", "idle")
  <2>1. HardwareIsSound' /\ use_count' = use_count
    BY <1>1, <1>2, <1>3, <1>5, EnableFailsStep
  <2>2. CASE Supplied(c)
    <3>1. regpc[c] = "enable" /\ regpc' = [regpc EXCEPT ![c] = "undo"]
      BY <1>5, <2>2 DEF RegStep
    <3>2. CallMoves(c, 0, 0)
      BY <1>1, <1>2, <1>3, <1>5, <2>1, <3>1 DEF CallMoves, RegTypes, Calling
    <3>3. use_count' \in [Rdevs -> Nat] /\ owed' \in [Consumers -> Nat]
      BY <1>1, <1>5, <2>1 DEF RegTypes
    <3>4. CallTo(c, "undo", 0, 0) BY <2>2, <3>1, <3>2, <3>3, CallNames DEF CallTo
    <3> QED BY <2>1, <3>4, CallKeeps
  <2>3. CASE ~Supplied(c)
    <3>1. regpc' = regpc BY <1>1, <1>5, <2>3 DEF RegStep, RegTypes
    <3> QED BY <1>3, <1>5, <2>1, <3>1, UncountedKeeps
  <2> QED BY <2>2, <2>3
<1> QED BY <1>4, <1>5 DEF Enable

LEMMA DisableKeeps ==
    ASSUME RegInv, NEW c \in Consumers, Disable(c) PROVE RegInv'
<1> DEFINE q == Of[c]
<1>1. RegTypes /\ InUseIsOn /\ SharedPinIsHigh BY RegInvParts
<1>2. q \in Rdevs /\ (Supplied(c) => Supply[q] \in Rdevs /\ Supply[q] # q)
  BY RegulatorAssumption DEF Supplied
<1>3. UNCHANGED <<deferred_disables, supplies_off, slipped, astray>>
  BY DEF Disable, deferral, boot
<1>4. CASE /\ DisableOk(q, 1) /\ owed' = [owed EXCEPT ![c] = @ - 1]
           /\ RegStep(c, "idle", IF Supplied(c) THEN "disable" ELSE "idle")
  <2>1. /\ HardwareIsSound' /\ use_count' \in [Rdevs -> Nat]
        /\ use_count'[q] >= use_count[q] - 1
        /\ (q \notin AlwaysOn => use_count'[q] = use_count[q] - 1)
        /\ \A x \in Rdevs : x # q => use_count'[x] = use_count[x]
    BY <1>1, <1>2, <1>3, <1>4, DisableOkStep
  <2>2. owed' \in [Consumers -> Nat] BY <1>1, <1>4 DEF Disable, RegTypes
  <2>3. CASE Supplied(c)
    <3>1. regpc[c] = "idle" /\ regpc' = [regpc EXCEPT ![c] = "disable"]
      BY <1>4, <2>3 DEF RegStep
    <3>2. CallMoves(c, -1, 1)
      BY <1>1, <1>2, <1>3, <1>4, <2>1, <2>3, <3>1 DEF CallMoves, RegTypes, Calling
    <3>3. CallTo(c, "disable", -1, 1) BY <2>1, <2>2, <2>3, <3>1, <3>2, CallNames DEF CallTo
    <3> QED BY <2>1, <3>3, CallKeeps
  <2>4. CASE ~Supplied(c)
    <3>1. regpc[c] = "idle" /\ regpc' = [regpc EXCEPT ![c] = "idle"]
      BY <1>4, <2>4 DEF RegStep
    <3>2. CallMoves(c, -1, 0)
      BY <1>1, <1>2, <1>3, <1>4, <2>1, <2>4, <3>1 DEF CallMoves, RegTypes, Calling
    <3>3. CallTo(c, "idle", -1, 0) BY <2>1, <2>2, <3>1, <3>2, CallNames DEF CallTo
    <3> QED BY <2>1, <3>3, CallKeeps
  <2> QED BY <2>3, <2>4
<1>5. CASE DisableFails(q, 1) /\ UNCHANGED owed /\ RegStep(c, "idle", "idle")
  <2>1. HardwareIsSound' /\ use_count' = use_count
    BY <1>1, <1>2, <1>3, <1>5, DisableFailsStep
  <2>2. regpc' = regpc BY <1>1, <1>5 DEF RegStep, RegTypes
  <2> QED BY <1>3, <1>5, <2>1, <2>2, UncountedKeeps
<1> QED BY <1>4, <1>5 DEF Disable

LEMMA DisableSupplyKeeps ==
    ASSUME RegInv, NEW c \in Consumers, DisableSupply(c) PROVE RegInv'
<1> DEFINE s == Supply[Of[c]]
<1>1. RegTypes /\ CallsAreSupplied /\ InUseIsOn /\ SharedPinIsHigh BY RegInvParts
<1>2. regpc[c] \in Calling /\ regpc' = [regpc EXCEPT ![c] = "idle"]
  BY DEF DisableSupply, RegStep, Calling
<1>3. s \in Rdevs /\ Of[c] \in Rdevs /\ s # Of[c] /\ Supplied(c)
  BY <1>1, <1>2, RegulatorAssumption DEF CallsAreSupplied, Supplied
<1>4. UNCHANGED <<deferred_disables, supplies_off, slipped, owed, astray>>
  BY DEF DisableSupply, deferral, boot
<1>5. /\ HardwareIsSound' /\ use_count' \in [Rdevs -> Nat]
      /\ use_count'[s] >= use_count[s] - 1
      /\ \A x \in Rdevs : x # s => use_count'[x] = use_count[x]
  <2>1. CASE DisableOk(s, 1) BY <1>1, <1>3, <1>4, <2>1, DisableOkStep
  <2>2. CASE DisableFails(s, 1)
    <3>1. HardwareIsSound' /\ use_count' = use_count
      BY <1>1, <1>3, <1>4, <2>2, DisableFailsStep
    <3> QED BY <1>1, <1>3, <3>1 DEF RegTypes
  <2> QED BY <2>1, <2>2 DEF DisableSupply
<1>6. CallMoves(c, 0, -1)
  BY <1>1, <1>2, <1>3, <1>4, <1>5, CallNames DEF CallMoves, RegTypes
<1>7. CallTo(c, "idle", 0, -1)
  BY <1>1, <1>2, <1>4, <1>5, <1>6, CallNames DEF CallTo, RegTypes
<1>8. HardwareIsSound' BY <1>5
<1> QED BY <1>7, <1>8, CallKeeps

LEMMA ScheduleKeeps ==
    ASSUME RegInv, NEW c \in Consumers, Schedule(c) PROVE RegInv'
<1>1. RegTypes /\ InUseIsOn /\ SharedPinIsHigh BY RegInvParts
<1>2. /\ UNCHANGED <<use_count, on, enable_count, high, deferred_disables, supplies_off,
                     owed, slipped, astray>>
      /\ regpc[c] = "schedule" /\ regpc' = [regpc EXCEPT ![c] = "idle"]
  BY DEF Schedule, RegStep, hardware, boot
<1>3. SwitchTypes' /\ SharedPinIsHigh' BY <1>1, <1>2, SwitchStutters
<1>4. HardwareIsSound' BY <1>1, <1>2, <1>3 DEF HardwareIsSound, InUseIsOn
<1>5. CallMoves(c, 0, 0)
  <2>1. use_count[Of[c]] \in Nat /\ (Supplied(c) => use_count[Supply[Of[c]]] \in Nat)
    BY <1>1, RegulatorAssumption DEF RegTypes, Supplied
  <2>2. owed'[c] = owed[c] + 0 BY <1>1, <1>2 DEF RegTypes
  <2>3. \A d \in Consumers \ {c} : owed'[d] = owed[d] /\ regpc'[d] = regpc[d]
    BY <1>1, <1>2 DEF RegTypes
  <2>4. regpc[c] \notin Calling /\ regpc'[c] \notin Calling
    BY <1>1, <1>2, CallNames DEF RegTypes
  <2> QED BY <1>2, <2>1, <2>2, <2>3, <2>4 DEF CallMoves
<1>6. CallTo(c, "idle", 0, 0) BY <1>1, <1>2, <1>5, CallNames DEF CallTo, RegTypes
<1> QED BY <1>4, <1>6, CallKeeps

(* A deferred disable is a use of the regulator and not of the consumer's. *)
LEMMA DeferKeeps ==
    ASSUME RegInv, NEW c \in Consumers, Defer(c) PROVE RegInv'
<1> USE RegulatorAssumption
<1> DEFINE q == Of[c]
           mid == [deferred_disables EXCEPT ![q] = @ + 1]
<1>1. RegTypes /\ CallsAreSupplied /\ InUseIsOn /\ SharedPinIsHigh /\ CountsSuffice
  BY RegInvParts
<1>2. /\ UNCHANGED <<use_count, on, enable_count, high, supplies_off, slipped, astray>>
      /\ regpc[c] = "idle" /\ regpc' = [regpc EXCEPT ![c] = "schedule"]
      /\ owed[c] > 0 /\ owed' = [owed EXCEPT ![c] = @ - 1]
      /\ deferred_disables' = mid
  BY DEF Defer, RegStep, hardware, boot
<1>3. SwitchTypes' /\ SharedPinIsHigh' BY <1>1, <1>2, SwitchStutters
<1>4. InUseIsOn' BY <1>1, <1>2 DEF InUseIsOn
<1>5. owed[c] \in Nat /\ owed'[c] = owed[c] - 1 /\ owed' \in [Consumers -> Nat]
  BY <1>1, <1>2 DEF RegTypes
<1>6. RegTypes' BY <1>1, <1>2, <1>3, <1>5, CallNames DEF RegTypes, SwitchTypes
<1>7. CallsAreSupplied' BY <1>1, <1>2, CallNames DEF CallsAreSupplied, RegTypes
<1>8. \A r \in Rdevs : OwnUses(r)' = OwnUses(r)
  <2> TAKE r \in Rdevs
  <2> DEFINE S == {d \in Consumers : Of[d] = r}
             f == [d \in S |-> owed[d]]
             g == [d \in S |-> owed'[d]]
  <2>1. IsFiniteSet(S) BY FS_Subset
  <2>2. f \in [S -> Nat] /\ g \in [S -> Nat] BY <1>1, <1>5 DEF RegTypes
  <2>3. OwnUses(r) = deferred_disables[r] + Sum(f) BY DEF OwnUses
  <2>4. OwnUses(r)' = deferred_disables'[r] + Sum(g) BY DEF OwnUses, Sum
  <2>5. Sum(f) \in Nat /\ deferred_disables[r] \in Nat
    BY <1>1, <2>1, <2>2, SumIsNat DEF RegTypes
  <2>6. CASE r = q
    <3>1. c \in S /\ \A d \in S : d # c => g[d] = f[d] BY <1>1, <1>2, <2>6 DEF RegTypes
    <3>2. f[c] = owed[c] /\ g[c] = owed[c] - 1 BY <1>5, <3>1
    <3>3. deferred_disables'[r] = deferred_disables[r] + 1
      BY <1>1, <1>2, <2>6 DEF RegTypes
    <3> HIDE DEF f, g, S
    <3>4. Sum(g) = Sum(f) - f[c] + g[c] BY ONLY <2>1, <2>2, <3>1, SumChanges
    <3> QED BY <1>5, <2>3, <2>4, <2>5, <3>2, <3>3, <3>4
  <2>7. CASE r # q
    <3>1. g = f BY <1>1, <1>2, <2>7 DEF RegTypes
    <3>2. deferred_disables'[r] = deferred_disables[r] BY <1>1, <1>2, <2>7 DEF RegTypes
    <3> QED BY <2>3, <2>4, <3>1, <3>2
  <2> QED BY <2>6, <2>7
<1>9. \A r \in Rdevs : InCalls(r)' = InCalls(r)
  <2> TAKE r \in Rdevs
  <2>1. Callers(r)' = Callers(r) BY <1>1, <1>2, CallNames DEF Callers, RegTypes
  <2> QED BY <1>2, <2>1 DEF InCalls, Callers, Calling
<1>10. ASSUME ~slipped PROVE \A r \in Rdevs : use_count'[r] >= Uses(r)'
  <2>1. \A r \in Rdevs : use_count[r] >= Uses(r) BY <1>1, <1>10 DEF CountsSuffice
  <2>2. Numbers BY <1>1, UsesAreNumbers
  <2>3. q \in Rdevs OBVIOUS
  <2>4. \A r \in Rdevs : OwnUses(r)' = OwnUses(r) + IF r = q THEN 0 ELSE 0
    BY <1>8, <2>2 DEF Numbers
  <2>5. \A r \in Rdevs : InCalls(r)' = InCalls(r) + IF r = q THEN 0 ELSE 0
    BY <1>9, <2>2 DEF Numbers
  <2>6. \A r \in Rdevs : use_count'[r] = use_count[r] /\ use_count[r] \in Nat
    BY <1>1, <1>2 DEF RegTypes
  <2>7. Supply[q] # None => Supply[q] \in Rdevs OBVIOUS
  <2> HIDE DEF q
  <2> QED BY <1>1, <1>6, <2>1, <2>3, <2>4, <2>5, <2>6, <2>7, CountsStep
<1>11. CountsSuffice' BY <1>2, <1>10 DEF CountsSuffice
<1> QED BY <1>3, <1>4, <1>6, <1>7, <1>11, RegInvPartsNext

LEMMA DisableWorkKeeps ==
    ASSUME RegInv, NEW r \in Rdevs, regulator_disable_work(r) PROVE RegInv'
<1> USE RegulatorAssumption
<1> DEFINE n == deferred_disables[r]
           calls == IF Supply[r] = None THEN 0 ELSE n
<1>1. RegTypes /\ CallsAreSupplied /\ InUseIsOn /\ SharedPinIsHigh /\ CountsSuffice
  BY RegInvParts
<1>2. /\ n \in Nat \ {0} /\ supplies_off[r] = 0 /\ UNCHANGED <<regpc, owed, astray>>
      /\ deferred_disables' = [deferred_disables EXCEPT ![r] = 0]
      /\ supplies_off' = [supplies_off EXCEPT ![r] = calls]
  BY <1>1 DEF regulator_disable_work, boot, RegTypes
<1>3. CallsAreSupplied' BY <1>1, <1>2 DEF CallsAreSupplied, RegTypes
<1>4. CASE DisableOk(r, n) /\ UNCHANGED slipped
  <2>1. /\ HardwareIsSound' /\ use_count' \in [Rdevs -> Nat]
        /\ use_count'[r] >= use_count[r] - n
        /\ (r \notin AlwaysOn => use_count'[r] = use_count[r] - n)
        /\ \A x \in Rdevs : x # r => use_count'[x] = use_count[x]
    BY <1>1, <1>2, <1>4, DisableOkStep
  <2>2. RegTypes' BY <1>1, <1>2, <1>4, <2>1 DEF RegTypes, HardwareIsSound, SwitchTypes
  <2>3. WorkMoves(r, -n, calls)
    <3>1. /\ deferred_disables'[r] = deferred_disables[r] + (-n)
          /\ supplies_off'[r] = supplies_off[r] + calls
      BY <1>1, <1>2 DEF RegTypes
    <3>2. \A x \in Rdevs : x # r => /\ deferred_disables'[x] = deferred_disables[x]
                                    /\ supplies_off'[x] = supplies_off[x]
      BY <1>1, <1>2 DEF RegTypes
    <3>3. use_count[r] \in Nat /\ use_count'[r] >= use_count[r] + (-n)
      BY <1>1, <1>2, <2>1 DEF RegTypes
    <3>4. ASSUME Supply[r] # None
          PROVE  use_count'[Supply[r]] >= use_count[Supply[r]] + calls
                     + IF r \in AlwaysOn THEN -n ELSE use_count'[r] - use_count[r]
      <4>1. Supply[r] \in Rdevs /\ Supply[r] # r BY <3>4
      <4>2. /\ use_count'[Supply[r]] = use_count[Supply[r]]
            /\ use_count[Supply[r]] \in Nat
        BY <1>1, <2>1, <4>1 DEF RegTypes
      <4> QED BY <1>2, <2>1, <3>3, <3>4, <4>2
    <3> HIDE DEF n, calls
    <3> QED BY <1>2, <1>4, <2>1, <3>1, <3>2, <3>3, <3>4 DEF WorkMoves
  <2>4. -n \in Int /\ calls \in Int BY <1>2
  <2> HIDE DEF n, calls
  <2>5. CountsSuffice' BY <1>1, <2>2, <2>3, <2>4, WorkStep
  <2> QED BY <1>3, <2>1, <2>2, <2>5, RegInvPartsNext DEF HardwareIsSound
<1>5. CASE DisableFails(r, n) /\ slipped' = TRUE
  <2>1. HardwareIsSound' /\ use_count' \in [Rdevs -> Nat]
    BY <1>1, <1>2, <1>5, DisableFailsStep
  <2>2. RegTypes' BY <1>1, <1>2, <1>5, <2>1 DEF RegTypes, HardwareIsSound, SwitchTypes
  <2>3. CountsSuffice' BY <1>5 DEF CountsSuffice
  <2> QED BY <1>3, <2>1, <2>2, <2>3, RegInvPartsNext DEF HardwareIsSound
<1> QED BY <1>4, <1>5 DEF regulator_disable_work

LEMMA WorkDisablesSupplyKeeps ==
    ASSUME RegInv, NEW r \in Rdevs, WorkDisablesSupply(r) PROVE RegInv'
<1> USE RegulatorAssumption
<1> DEFINE s == Supply[r]
<1>1. RegTypes /\ CallsAreSupplied /\ InUseIsOn /\ SharedPinIsHigh /\ CountsSuffice
  BY RegInvParts
<1>2. /\ supplies_off[r] > 0
      /\ UNCHANGED <<deferred_disables, regpc, owed, slipped, astray>>
      /\ supplies_off' = [supplies_off EXCEPT ![r] = @ - 1]
  BY DEF WorkDisablesSupply, boot
<1>3. s \in Rdevs /\ s # r BY <1>1, <1>2 DEF CallsAreSupplied
<1>4. CallsAreSupplied' BY <1>1, <1>2 DEF CallsAreSupplied, RegTypes
<1>5. /\ HardwareIsSound' /\ use_count' \in [Rdevs -> Nat]
      /\ use_count'[s] >= use_count[s] - 1
      /\ \A x \in Rdevs : x # s => use_count'[x] = use_count[x]
  <2>1. CASE DisableOk(s, 1) BY <1>1, <1>2, <1>3, <2>1, DisableOkStep
  <2>2. CASE DisableFails(s, 1)
    <3>1. HardwareIsSound' /\ use_count' = use_count
      BY <1>1, <1>2, <1>3, <2>2, DisableFailsStep
    <3> QED BY <1>1, <1>3, <3>1 DEF RegTypes
  <2> QED BY <2>1, <2>2 DEF WorkDisablesSupply
<1>6. RegTypes'
  <2>1. supplies_off' \in [Rdevs -> Nat] BY <1>1, <1>2 DEF RegTypes
  <2> QED BY <1>1, <1>2, <1>5, <2>1 DEF RegTypes, HardwareIsSound, SwitchTypes
<1>7. WorkMoves(r, 0, -1)
  <2>1. deferred_disables[r] \in Nat /\ supplies_off[r] \in Nat /\ use_count[r] \in Nat
        /\ use_count[s] \in Nat /\ use_count'[r] = use_count[r]
    BY <1>1, <1>3, <1>5 DEF RegTypes
  <2>2. supplies_off'[r] = supplies_off[r] - 1 BY <1>1, <1>2 DEF RegTypes
  <2>3. \A x \in Rdevs : x # r => supplies_off'[x] = supplies_off[x]
    BY <1>1, <1>2 DEF RegTypes
  <2> QED BY <1>2, <1>5, <2>1, <2>2, <2>3 DEF WorkMoves
<1>8. CountsSuffice' BY <1>1, <1>6, <1>7, WorkStep
<1> QED BY <1>4, <1>5, <1>6, <1>8, RegInvPartsNext DEF HardwareIsSound

LEMMA InitCompleteKeeps ==
    ASSUME RegInv, NEW r \in Rdevs, regulator_init_complete(r) PROVE RegInv'
<1>1. RegTypes /\ CallsAreSupplied /\ InUseIsOn /\ SharedPinIsHigh BY RegInvParts
<1>2. UNCHANGED <<slipped, owed, regpc, deferred_disables, supplies_off, use_count>>
  BY DEF regulator_init_complete, deferral
<1>3. astray \subseteq astray' BY DEF regulator_init_complete
<1>4. CASE use_count[r] = 0 /\ SwitchTo(r, FALSE) /\ r \notin AlwaysOn
  <2>1. on[r] = FALSE => Pin[r] = None \/ Pin[r] \in astray'
    BY <1>4 DEF regulator_init_complete
  <2>2. SwitchTypes' /\ SharedPinIsHigh' /\ on' = [on EXCEPT ![r] = FALSE]
    BY <1>1, <1>3, <1>4, <2>1, SwitchStep
  <2>3. InUseIsOn' BY <1>1, <1>2, <1>4, <2>2 DEF InUseIsOn, RegTypes
  <2> QED BY <1>2, <2>2, <2>3, UncountedKeeps DEF HardwareIsSound
<1>5. CASE UNCHANGED <<on, enable_count, high>>
  <2>1. SwitchTypes' /\ SharedPinIsHigh' BY <1>1, <1>3, <1>5, SwitchStutters
  <2>2. InUseIsOn' BY <1>1, <1>2, <1>5 DEF InUseIsOn
  <2> QED BY <1>2, <2>1, <2>2, UncountedKeeps DEF HardwareIsSound
<1>6. \/ use_count[r] = 0 /\ SwitchTo(r, FALSE) /\ r \notin AlwaysOn
      \/ UNCHANGED <<on, enable_count, high>>
  BY DEF regulator_init_complete, Fail, hardware
<1> QED BY <1>4, <1>5, <1>6

LEMMA ElsewhereKeeps ==
    ASSUME RegInv, UNCHANGED <<use_count, hardware, deferral, regpc, owed, boot>>
    PROVE  RegInv'
<1>1. RegTypes /\ InUseIsOn /\ SharedPinIsHigh BY RegInvParts
<1>2. UNCHANGED <<on, enable_count, high, astray, use_count>> BY DEF hardware, boot
<1>3. SwitchTypes' /\ SharedPinIsHigh' BY <1>1, <1>2, SwitchStutters
<1>4. HardwareIsSound' BY <1>1, <1>2, <1>3 DEF HardwareIsSound, InUseIsOn
<1> QED BY <1>4, UncountedKeeps DEF deferral

(* Core.c's counts: no interleaving of consumers' calls, their failures,   *)
(* deferred disables and the late disabling of unused regulators takes     *)
(* away a use of a regulator or of a pin it shares.                        *)
THEOREM UsesAreKept == RegSpec => []UsesAreServed
<1>1. RegInit => RegInv BY RegInvInit
<1>2. RegInv /\ [RegNext]_regvars => RegInv'
  <2> SUFFICES ASSUME RegInv, [RegNext]_regvars PROVE RegInv' OBVIOUS
  <2>1. ASSUME NEW c \in Consumers, regulator_get(c) \/ regulator_put(c) PROVE RegInv'
    BY <2>1, ElsewhereKeeps DEF regulator_get, regulator_put
  <2>2. ASSUME NEW c \in Consumers, EnableSupply(c) PROVE RegInv'
    BY <2>2, EnableSupplyKeeps
  <2>3. ASSUME NEW c \in Consumers, Enable(c) PROVE RegInv' BY <2>3, EnableKeeps
  <2>4. ASSUME NEW c \in Consumers, Disable(c) PROVE RegInv' BY <2>4, DisableKeeps
  <2>5. ASSUME NEW c \in Consumers, DisableSupply(c) PROVE RegInv'
    BY <2>5, DisableSupplyKeeps
  <2>6. ASSUME NEW c \in Consumers, Defer(c) PROVE RegInv' BY <2>6, DeferKeeps
  <2>7. ASSUME NEW c \in Consumers, Schedule(c) PROVE RegInv' BY <2>7, ScheduleKeeps
  <2>8. ASSUME NEW r \in Rdevs, regulator_disable_work(r) PROVE RegInv'
    BY <2>8, DisableWorkKeeps
  <2>9. ASSUME NEW r \in Rdevs, WorkDisablesSupply(r) PROVE RegInv'
    BY <2>9, WorkDisablesSupplyKeeps
  <2>10. ASSUME NEW r \in Rdevs, regulator_init_complete(r) PROVE RegInv'
    BY <2>10, InitCompleteKeeps
  <2>11. CASE UNCHANGED regvars
    BY <2>11, ElsewhereKeeps DEF regvars, hardware, deferral, boot
  <2> QED BY <2>1, <2>2, <2>3, <2>4, <2>5, <2>6, <2>7, <2>8, <2>9, <2>10, <2>11 DEF RegNext
<1>3. RegInv => UsesAreServed BY DEF RegInv
<1> QED BY <1>1, <1>2, <1>3, PTL DEF RegSpec

----------------------------------------------------------------------------
(* The positions from c on are those that follow one another: a recursive  *)
(* function is the only one that satisfies its equation.                   *)
Follows(f, c) ==
    f = [s \in c.seq .. next.seq |-> IF s = c.seq THEN c ELSE Advance(f[s - 1])]

LEMMA FromFollows ==
    ASSUME NEW c, NEW g, Follows(g, c) PROVE Follows(From(c), c)
<1>1. From(c) = CHOOSE f : Follows(f, c) BY DEF From, Follows
<1> QED BY <1>1

LEMMA FromIs ==
    ASSUME NEW c, c.seq \in Nat, next.seq \in Nat, NEW g, Follows(g, c)
    PROVE  From(c) = g
<1> DEFINE f == From(c)
           S == c.seq .. next.seq
           D == {s \in S : f[s] # g[s]}
<1>1. Follows(f, c) BY FromFollows
<1>2. f = [s \in S |-> f[s]] /\ g = [s \in S |-> g[s]] BY <1>1 DEF Follows
<1>3. \A s \in S : f[s] = IF s = c.seq THEN c ELSE Advance(f[s - 1]) BY <1>1 DEF Follows
<1>4. \A s \in S : g[s] = IF s = c.seq THEN c ELSE Advance(g[s - 1]) BY DEF Follows
<1> HIDE DEF f
<1>5. ASSUME D # {} PROVE FALSE
  <2>0. D \subseteq Nat OBVIOUS
  <2>1. PICK s \in D : \A t \in D : s <= t BY <1>5, <2>0, LeastOf
  <2>2. s \in S /\ f[s] # g[s] BY <2>1
  <2>3. s # c.seq BY <1>3, <1>4, <2>2
  <2>4. s - 1 \in S /\ s - 1 < s BY <2>2, <2>3
  <2>5. f[s - 1] = g[s - 1] BY <2>1, <2>4
  <2> QED BY <1>3, <1>4, <2>2, <2>3, <2>5
<1>6. \A s \in S : f[s] = g[s] BY <1>5
<1>7. [s \in S |-> f[s]] = [s \in S |-> g[s]] BY <1>6
<1> HIDE DEF S, D
<1> QED BY <1>2, <1>7 DEF f

(* Where each record in the ring is, by its sequence number: place is the  *)
(* index that leads there, and w the record that is reached through the    *)
(* end of buffer marker, or next where there is none.                      *)
Rising(place, a, b) == \A s, t \in a .. b : s < t => place[s] < place[t]
RingAt(place, w) ==
    /\ w \in first.seq .. next.seq
    /\ place[first.seq] = first.idx /\ place[next.seq] = next.idx
    /\ \A s \in first.seq .. next.seq : place[s] \in 0 .. log_buf_len - 1
    /\ \A s \in first.seq .. next.seq - 1 :
          /\ log_from_idx(place[s]).seq = s /\ log_from_idx(place[s]).len > Header
          /\ place[s + 1] = log_next(place[s])
          /\ (log_buf[place[s]].len = 0 <=> s = w)
    /\ Rising(place, first.seq, w) /\ Rising(place, w + 1, next.seq)
    /\ (w < next.seq => next.idx < first.idx)

Cursor == [seq : Nat, idx : Nat]
LogBufTypes ==
    /\ log_buf \in [0 .. NewLen - 1 -> [len : Nat, seq : Nat]]
    /\ log_buf_len \in {EarlyLen, NewLen}
    /\ first \in Cursor /\ next \in Cursor /\ syslog \in Cursor /\ clear \in Cursor
    /\ reader \in [kind : {"none", "all", "kmsg", "dump"}, at : Cursor,
                   last : Nat, clears : BOOLEAN]
    /\ syslog_partial \in Nat

Placed(c, place) == c.seq <= next.seq /\ (c.seq >= first.seq => c.idx = place[c.seq])

LEMMA FromPlaced ==
    ASSUME LogBufTypes, NEW place, NEW w, RingAt(place, w), NEW c \in Cursor,
           Placed(c, place), c.seq >= first.seq
    PROVE  From(c) = [s \in c.seq .. next.seq |-> [seq |-> s, idx |-> place[s]]]
<1> DEFINE g == [s \in c.seq .. next.seq |-> [seq |-> s, idx |-> place[s]]]
<1>1. c.seq \in Nat /\ next.seq \in Nat /\ first.seq \in Nat /\ c.seq <= next.seq
  BY DEF LogBufTypes, Cursor, Placed
<1>2. ASSUME NEW s \in c.seq .. next.seq
      PROVE  g[s] = IF s = c.seq THEN c ELSE Advance(g[s - 1])
  <2>1. CASE s = c.seq
    <3>1. c = [seq |-> c.seq, idx |-> c.idx] BY DEF Cursor
    <3>2. c.idx = place[c.seq] BY DEF Placed
    <3> QED BY <1>1, <2>1, <3>1, <3>2
  <2>2. CASE s # c.seq
    <3>1. s - 1 \in c.seq .. next.seq /\ s - 1 \in first.seq .. next.seq - 1
      BY <1>1, <2>2
    <3>2. g[s - 1] = [seq |-> s - 1, idx |-> place[s - 1]] BY <3>1
    <3>3. place[s - 1 + 1] = log_next(place[s - 1]) BY <3>1 DEF RingAt
    <3>4. s - 1 + 1 = s BY <1>1
    <3>5. Advance(g[s - 1]) = [seq |-> s, idx |-> place[s]]
      BY <3>2, <3>3, <3>4 DEF Advance
    <3> QED BY <2>2, <3>5
  <2> QED BY <2>1, <2>2
<1>3. Follows(g, c) BY <1>2 DEF Follows
<1> HIDE DEF g
<1>4. From(c) = g BY <1>1, <1>3, FromIs
<1> QED BY <1>4 DEF g

(* The ring after a store: k is the oldest record kept, w2 the one that is *)
(* then reached through the marker, and q the end of the new one.          *)
Kept(place, k) ==
    /\ k \in first.seq .. next.seq /\ first' = [seq |-> k, idx |-> place[k]]
    /\ log_buf_len' = log_buf_len /\ next'.seq = next.seq + 1
    /\ \A s \in k .. next.seq - 1 : log_buf'[place[s]] = log_buf[place[s]]
StoredAt(i) ==
    /\ i = next.idx
    /\ log_from_idx(i)'.seq = next.seq /\ log_from_idx(i)'.len > Header
    /\ log_next(i)' = next'.idx /\ next'.idx \in 0 .. log_buf_len - 1
With(place, k) == [s \in k .. next.seq + 1 |-> IF s = next.seq + 1 THEN next'.idx ELSE place[s]]

LEMMA RingGrows ==
    ASSUME LogBufTypes, NEW place, NEW w, RingAt(place, w), NEW k, Kept(place, k),
           NEW i, StoredAt(i), NEW p, p = With(place, k), NEW w2 \in k .. next.seq + 1,
           w \in k .. next.seq - 1 => log_buf'[0] = log_buf[0],
           \A s \in k .. next.seq - 1 : s = w <=> s = w2,
           log_buf'[i].len = 0 <=> w2 = next.seq,
           Rising(p, k, w2), Rising(p, w2 + 1, next.seq + 1),
           w2 <= next.seq => next'.idx < place[k]
    PROVE  RingAt(p, w2)'
<1> DEFINE m == next.seq
<1>1. /\ m \in Nat /\ first.seq \in Nat /\ k \in Nat /\ first'.seq = k
      /\ k \in first.seq .. m /\ first'.idx = place[k] /\ next'.seq = m + 1
  BY DEF LogBufTypes, Cursor, Kept
<1>2. \A s \in k .. m : p[s] = place[s] BY <1>1 DEF With
<1>3. p[m + 1] = next'.idx BY <1>1 DEF With
<1>4. p[k] = first'.idx /\ k \in k .. m + 1 BY <1>1, <1>2
<1>5. \A s \in k .. m + 1 : p[s] \in 0 .. log_buf_len - 1
  <2> TAKE s \in k .. m + 1
  <2>1. CASE s = m + 1 BY <1>3, <2>1 DEF StoredAt
  <2>2. CASE s # m + 1
    <3>1. s \in k .. m /\ s \in first.seq .. m BY <1>1, <2>2
    <3> QED BY <1>2, <3>1 DEF RingAt
  <2> QED BY <2>1, <2>2
<1>6. ASSUME NEW s \in k .. m
      PROVE  /\ log_from_idx(p[s])'.seq = s /\ log_from_idx(p[s])'.len > Header
             /\ p[s + 1] = log_next(p[s])'
             /\ (log_buf'[p[s]].len = 0 <=> s = w2)
  <2>1. CASE s = m
    <3>1. p[s] = i /\ p[s + 1] = next'.idx
      BY <1>1, <1>2, <1>3, <2>1 DEF RingAt, StoredAt
    <3> QED BY <2>1, <3>1 DEF StoredAt
  <2>2. CASE s # m
    <3>1. s \in k .. m - 1 /\ s \in first.seq .. m - 1 /\ s + 1 \in k .. m
      BY <1>1, <2>2
    <3>2. p[s] = place[s] /\ p[s + 1] = place[s + 1] BY <1>1, <1>2, <3>1
    <3>3. log_buf'[place[s]] = log_buf[place[s]] BY <3>1 DEF Kept
    <3>4. /\ log_from_idx(place[s]).seq = s /\ log_from_idx(place[s]).len > Header
          /\ place[s + 1] = log_next(place[s])
          /\ (log_buf[place[s]].len = 0 <=> s = w)
      BY <3>1 DEF RingAt
    <3>5. log_buf[place[s]].len = 0 => log_buf'[0] = log_buf[0] BY <3>1, <3>4
    <3>6. /\ log_from_idx(place[s])' = log_from_idx(place[s])
          /\ log_next(place[s])' = log_next(place[s])
      BY <3>3, <3>5 DEF log_from_idx, log_next
    <3>7. s = w <=> s = w2 BY <3>1
    <3> QED BY <3>2, <3>3, <3>4, <3>6, <3>7
  <2> QED BY <2>1, <2>2
<1> QED BY <1>1, <1>3, <1>4, <1>5, <1>6 DEF RingAt, Rising, Kept

(* What log_store does, with the oldest record kept.                       *)
Wraps(size) == next.idx + size + Header >= log_buf_len
Stores(place, k, size, pos) ==
    /\ k \in first.seq .. next.seq
    /\ first' = [seq |-> k, idx |-> place[k]]
    /\ k < next.seq => Room([seq |-> k, idx |-> place[k]]) > size + Header
    /\ log_buf' = [j \in DOMAIN log_buf |->
                      IF j = pos THEN [len |-> size, seq |-> next.seq]
                      ELSE IF j \in pos + 1 .. pos + size - 1 THEN Bytes
                      ELSE IF Wraps(size) /\ j = next.idx THEN Zero
                      ELSE log_buf[j]]
    /\ next' = [seq |-> next.seq + 1, idx |-> pos + size]
    /\ UNCHANGED <<log_buf_len, syslog, syslog_partial, clear, reader>>

LEMMA StoreKeepsFrom ==
    ASSUME LogBufTypes, NEW place, NEW w, RingAt(place, w), NEW size \in Nat,
           log_store(size)
    PROVE  \E k : Stores(place, k, size, IF Wraps(size) THEN 0 ELSE next.idx)
<1> DEFINE olds == From(first)
           kept == {s \in first.seq .. next.seq : s = next.seq \/ HasRoom(olds[s], size)}
           k == CHOOSE s \in kept : \A o \in kept : s <= o
<1>1. first.seq \in Nat /\ next.seq \in Nat /\ first.seq <= next.seq
  BY DEF LogBufTypes, Cursor, RingAt
<1>2. Placed(first, place) /\ first.seq >= first.seq /\ first \in Cursor
  BY <1>1 DEF Placed, RingAt, LogBufTypes
<1>3. olds = [s \in first.seq .. next.seq |-> [seq |-> s, idx |-> place[s]]]
  BY <1>2, FromPlaced
<1>4. kept \subseteq Nat /\ next.seq \in kept BY <1>1
<1>5. \E s \in kept : \A o \in kept : s <= o BY <1>4, LeastOf
<1>6. k \in kept BY <1>5
<1>7. first' = olds[k] BY DEF log_store
<1> HIDE DEF k, olds
<1>8. k \in first.seq .. next.seq /\ (k < next.seq => HasRoom(olds[k], size))
  BY <1>1, <1>6
<1> HIDE DEF kept
<1>9. olds[k] = [seq |-> k, idx |-> place[k]] BY <1>3, <1>8
<1>10. Stores(place, k, size, IF Wraps(size) THEN 0 ELSE next.idx)
  BY <1>7, <1>8, <1>9 DEF log_store, Stores, HasRoom, Wraps
<1> QED BY <1>10

Grown(place) == /\ first'.seq \in first.seq .. next.seq /\ next'.seq = next.seq + 1
                /\ LogBufTypes'
                /\ \E p, w2 : /\ RingAt(p, w2)'
                              /\ \A s \in first'.seq .. next.seq : p[s] = place[s]
                /\ \A s \in first'.seq .. next.seq - 1 :
                      log_from_idx(place[s])' = log_from_idx(place[s])

(* Nothing else of what is kept is written over.                           *)
LEMMA StoreLeaves ==
    ASSUME LogBufTypes, NEW place, NEW w, RingAt(place, w), NEW size \in Nat, size > Header,
           NEW pos \in Nat, NEW k, Stores(place, k, size, pos),
           pos + size + Header < log_buf_len,
           NEW s \in k .. next.seq - 1,
           place[s] \notin pos .. pos + size - 1,
           Wraps(size) => place[s] # next.idx
    PROVE  log_buf'[place[s]] = log_buf[place[s]]
<1>1. place[s] \in DOMAIN log_buf
  <2>1. k \in first.seq .. next.seq BY DEF Stores
  <2>2. first.seq \in Nat /\ next.seq \in Nat BY DEF LogBufTypes, Cursor
  <2>3. s \in first.seq .. next.seq BY <2>1, <2>2
  <2>4. place[s] \in 0 .. log_buf_len - 1 BY <2>3 DEF RingAt
  <2> QED BY <2>4, LogBufAssumption DEF LogBufTypes
<1>2. place[s] # pos /\ place[s] \notin pos + 1 .. pos + size - 1
  <2>1. place[s] \in Nat BY <1>1, LogBufAssumption DEF LogBufTypes
  <2> QED BY <2>1 DEF Header
<1> QED BY <1>1, <1>2 DEF Stores

LEMMA StoreWrites ==
    ASSUME LogBufTypes, NEW place, NEW w, RingAt(place, w), NEW size \in Nat, size > Header,
           NEW pos \in Nat, NEW k, Stores(place, k, size, pos),
           pos + size + Header < log_buf_len, pos = IF Wraps(size) THEN 0 ELSE next.idx,
           Wraps(size) => next.idx > size
    PROVE  /\ LogBufTypes'
           /\ log_buf'[pos] = [len |-> size, seq |-> next.seq]
           /\ (Wraps(size) => log_buf'[next.idx] = Zero)
<1> USE LogBufAssumption
<1>1. /\ next.seq \in Nat /\ next.idx \in Nat /\ first.seq \in Nat /\ first.seq <= next.seq
      /\ log_buf_len \in Nat /\ log_buf_len <= NewLen /\ NewLen \in Nat
      /\ DOMAIN log_buf = 0 .. NewLen - 1
  <2>1. first \in Cursor /\ next \in Cursor BY DEF LogBufTypes
  <2>2. first.seq \in Nat /\ next.seq \in Nat /\ next.idx \in Nat BY <2>1 DEF Cursor
  <2>3. w \in first.seq .. next.seq BY DEF RingAt
  <2>4. first.seq <= next.seq BY <2>2, <2>3
  <2>5. log_buf_len \in {EarlyLen, NewLen} /\ DOMAIN log_buf = 0 .. NewLen - 1
    BY DEF LogBufTypes
  <2> QED BY <2>2, <2>4, <2>5
<1>2. next.idx \in 0 .. log_buf_len - 1
  <2>1. next.seq \in first.seq .. next.seq BY <1>1
  <2> QED BY <2>1 DEF RingAt
<1>3. /\ log_buf' \in [0 .. NewLen - 1 -> [len : Nat, seq : Nat]]
      /\ log_buf'[pos] = [len |-> size, seq |-> next.seq]
      /\ (Wraps(size) => log_buf'[next.idx] = Zero)
  <2>1. Zero \in [len : Nat, seq : Nat] /\ Bytes \in [len : Nat, seq : Nat]
    BY <1>1 DEF Zero, Bytes
  <2>2. [len |-> size, seq |-> next.seq] \in [len : Nat, seq : Nat] BY <1>1
  <2>3. log_buf' \in [0 .. NewLen - 1 -> [len : Nat, seq : Nat]]
    BY <1>1, <2>1, <2>2 DEF Stores, LogBufTypes
  <2>4. pos \in DOMAIN log_buf /\ next.idx \in DOMAIN log_buf BY <1>1, <1>2 DEF Header
  <2>5. log_buf'[pos] = [len |-> size, seq |-> next.seq] BY <2>4 DEF Stores
  <2>6. ASSUME Wraps(size) PROVE log_buf'[next.idx] = Zero
    <3>1. pos = 0 /\ next.idx > size BY <2>6
    <3>2. next.idx # pos /\ next.idx \notin pos + 1 .. pos + size - 1 BY <1>1, <3>1
    <3> QED BY <2>4, <2>6, <3>2 DEF Stores
  <2> QED BY <2>3, <2>5, <2>6
<1>4. first' \in Cursor
  <2>1. k \in first.seq .. next.seq BY DEF Stores
  <2>2. k \in Nat /\ place[k] \in 0 .. log_buf_len - 1 BY <1>1, <2>1 DEF RingAt
  <2> QED BY <2>2, <1>1 DEF Stores, Cursor
<1>5. next' \in Cursor BY <1>1 DEF Stores, Cursor
<1> QED BY <1>3, <1>4, <1>5 DEF LogBufTypes, Stores

(* The three ways a store goes: behind the last record with all that is    *)
(* kept before it, at the start of the buffer, or behind the last record   *)
(* with the oldest after it.                                               *)
LEMMA StoreFacts ==
    ASSUME LogBufTypes, NEW place, NEW w, RingAt(place, w), NEW size \in Nat, NEW pos \in Nat,
           NEW k, Stores(place, k, size, pos)
    PROVE  /\ first.seq \in Nat /\ next.seq \in Nat /\ next.idx \in Nat /\ log_buf_len \in Nat
           /\ k \in Nat /\ first.seq <= k /\ k <= next.seq /\ w \in Nat
           /\ first.seq <= w /\ w <= next.seq
           /\ place[k] \in Nat /\ place[next.seq] = next.idx /\ next.idx < log_buf_len
           /\ \A s \in k .. next.seq :
                 s \in first.seq .. next.seq /\ place[s] \in Nat /\ place[s] < log_buf_len
<1>1. /\ first.seq \in Nat /\ next.seq \in Nat /\ next.idx \in Nat /\ log_buf_len \in Nat
      /\ k \in first.seq .. next.seq /\ w \in first.seq .. next.seq
  BY LogBufAssumption DEF LogBufTypes, Cursor, Stores, RingAt
<1>2. \A s \in first.seq .. next.seq : place[s] \in 0 .. log_buf_len - 1 BY DEF RingAt
<1>3. place[next.seq] = next.idx BY DEF RingAt
<1>4. next.seq \in first.seq .. next.seq BY <1>1
<1> QED BY <1>1, <1>2, <1>3, <1>4

(* Behind the last record, where nothing that is kept is behind the marker.*)
LEMMA StoreGoesOn ==
    ASSUME LogBufTypes, NEW place, NEW w, RingAt(place, w), NEW size \in Nat, size > Header,
           NEW k, Stores(place, k, size, next.idx), ~Wraps(size),
           k \notin first.seq .. w \/ w = next.seq
    PROVE  Grown(place)
<1> DEFINE N == next.idx
           m == next.seq
           p == With(place, k)
<1>1. /\ first.seq \in Nat /\ m \in Nat /\ N \in Nat /\ log_buf_len \in Nat
      /\ k \in Nat /\ first.seq <= k /\ k <= m /\ w \in Nat
      /\ first.seq <= w /\ w <= m
      /\ place[k] \in Nat /\ place[m] = N /\ N < log_buf_len
      /\ \A s \in k .. m :
            s \in first.seq .. m /\ place[s] \in Nat /\ place[s] < log_buf_len
  <2>1. N \in Nat BY DEF LogBufTypes, Cursor
  <2> QED BY <2>1, StoreFacts
<1>2. N + size + Header < log_buf_len BY <1>1 DEF Wraps, Header
<1>3. \A s, t \in k .. m : s < t => place[s] < place[t]
  <2>1. CASE w = m
    <3>1. \A s, t \in first.seq .. m : s < t => place[s] < place[t]
      BY <2>1 DEF RingAt, Rising
    <3> QED BY <1>1, <3>1
  <2>2. CASE w < k
    <3>1. \A s, t \in w + 1 .. m : s < t => place[s] < place[t] BY DEF RingAt, Rising
    <3>2. \A s \in k .. m : s \in w + 1 .. m BY <1>1, <2>2
    <3> QED BY <3>1, <3>2
  <2> QED BY <1>1, <2>1, <2>2
<1>4. w \notin k .. m - 1 BY <1>1
<1>5. ASSUME NEW s \in k .. m - 1 PROVE log_buf'[place[s]] = log_buf[place[s]]
  <2>1. s \in k .. m /\ m \in k .. m /\ s < m BY <1>1
  <2>2. place[s] < N /\ place[s] \in Nat BY <1>1, <1>3, <2>1
  <2>3. place[s] \notin N .. N + size - 1 BY <1>1, <2>2
  <2> QED BY <1>1, <1>2, <2>3, StoreLeaves
<1>6. /\ LogBufTypes' /\ log_buf'[N] = [len |-> size, seq |-> m]
  BY <1>1, <1>2, StoreWrites
<1>7. first'.seq = k /\ next'.seq = m + 1 /\ next'.idx = N + size /\ UNCHANGED log_buf_len
  BY DEF Stores
<1>8. \A s \in k .. m - 1 : log_from_idx(place[s])' = log_from_idx(place[s])
  <2> TAKE s \in k .. m - 1
  <2>1. s \in first.seq .. m - 1 BY <1>1
  <2>2. log_buf[place[s]].len # 0 BY <1>1, <1>4, <2>1 DEF RingAt
  <2> QED BY <1>5, <2>2 DEF log_from_idx
<1>9. PICK i : i = N OBVIOUS
<1>10. PICK q : q = p OBVIOUS
<1>11. Kept(place, k) BY <1>1, <1>5 DEF Kept, Stores
<1>12. StoredAt(i)
  <2>1. log_buf'[i].len = size /\ log_buf'[i].seq = m /\ size # 0
    BY <1>6, <1>9 DEF Header
  <2>2. log_from_idx(i)'.seq = m /\ log_from_idx(i)'.len = size /\ log_next(i)' = i + size
    BY <2>1 DEF log_from_idx, log_next
  <2>3. N + size \in 0 .. log_buf_len - 1 BY <1>1, <1>2 DEF Header
  <2> QED BY <1>7, <1>9, <2>2, <2>3 DEF StoredAt
<1>13. Rising(q, k, m + 1) /\ Rising(q, m + 2, m + 1)
  <2>1. /\ \A s \in k .. m : q[s] = place[s] /\ place[s] \in Nat
        /\ q[m + 1] = N + size
    BY <1>1, <1>7, <1>10 DEF With
  <2>2. \A s \in k .. m : place[s] <= N
    <3>1. \A s \in k .. m : s = m \/ s < m BY <1>1
    <3>2. m \in k .. m BY <1>1
    <3> QED BY <1>1, <1>3, <3>1, <3>2
  <2>3. ASSUME NEW s \in k .. m + 1, NEW t \in k .. m + 1, s < t PROVE q[s] < q[t]
    <3>1. s \in k .. m BY <1>1, <2>3
    <3>2. CASE t = m + 1 BY <1>1, <2>1, <2>2, <3>1, <3>2 DEF Header
    <3>3. CASE t # m + 1
      <4>1. t \in k .. m BY <1>1, <3>3
      <4> QED BY <1>3, <2>1, <2>3, <3>1, <4>1
    <3> QED BY <3>2, <3>3
  <2>4. m + 2 .. m + 1 = {} BY <1>1
  <2> QED BY <2>3, <2>4 DEF Rising
<1>14. PICK w2 : w2 = m + 1 OBVIOUS
<1>15. RingAt(q, w2)'
  <2>1. w2 \in k .. m + 1 /\ ~(w2 <= m) /\ w2 # m BY <1>1, <1>14
  <2>2. \A s \in k .. m - 1 : s = w <=> s = w2 BY <1>1, <1>4, <1>14
  <2>3. log_buf'[i].len = 0 <=> w2 = m BY <1>6, <1>9, <2>1 DEF Header
  <2>4. w2 + 1 = m + 2 BY <1>1, <1>14
  <2>5. Rising(q, k, w2) /\ Rising(q, w2 + 1, m + 1) BY <1>13, <1>14, <2>4
  <2> QED
    BY <1>4, <1>10, <1>11, <1>12, <2>1, <2>2, <2>3, <2>5, RingGrows
<1>16. \A s \in k .. m : q[s] = place[s] BY <1>1, <1>10 DEF With
<1> QED BY <1>1, <1>6, <1>7, <1>8, <1>15, <1>16 DEF Grown

(* At the start of the buffer, with the marker behind the last record.     *)
LEMMA StoreStartsAgain ==
    ASSUME LogBufTypes, NEW place, NEW w, RingAt(place, w), NEW size \in Nat, size > Header,
           2 * (size + Header) <= log_buf_len,
           NEW k, Stores(place, k, size, 0), Wraps(size),
           k \notin first.seq .. w \/ w = next.seq
    PROVE  Grown(place)
<1> DEFINE N == next.idx
           m == next.seq
           p == With(place, k)
<1>1. /\ first.seq \in Nat /\ m \in Nat /\ N \in Nat /\ log_buf_len \in Nat
      /\ k \in Nat /\ first.seq <= k /\ k <= m /\ w \in Nat
      /\ first.seq <= w /\ w <= m
      /\ place[k] \in Nat /\ place[m] = N /\ N < log_buf_len
      /\ \A s \in k .. m :
            s \in first.seq .. m /\ place[s] \in Nat /\ place[s] < log_buf_len
  BY StoreFacts
<1>2. size + Header < log_buf_len /\ size \in Nat /\ size > 1
  BY <1>1 DEF Header
<1>3. \A s, t \in k .. m : s < t => place[s] < place[t]
  <2>1. CASE w = m
    <3>1. \A s, t \in first.seq .. m : s < t => place[s] < place[t]
      BY <2>1 DEF RingAt, Rising
    <3> QED BY <1>1, <3>1
  <2>2. CASE w < k
    <3>1. \A s, t \in w + 1 .. m : s < t => place[s] < place[t] BY DEF RingAt, Rising
    <3>2. \A s \in k .. m : s \in w + 1 .. m BY <1>1, <2>2
    <3> QED BY <3>1, <3>2
  <2> QED BY <1>1, <2>1, <2>2
<1>4. w \notin k .. m - 1 BY <1>1
<1>5. place[k] > size /\ place[k] <= N
  <2>1. CASE k = m
    <3>1. N + size + 1 >= log_buf_len BY <2>1 DEF Wraps, Header
    <3> QED BY <1>1, <1>2, <2>1, <3>1 DEF Header
  <2>2. CASE k < m
    <3>1. place[k] < N BY <1>1, <1>3, <2>2
    <3>2. Room([seq |-> k, idx |-> place[k]]) > size + 1 BY <2>2 DEF Stores, Header
    <3>3. Room([seq |-> k, idx |-> place[k]])
              = IF log_buf_len - N > place[k] THEN log_buf_len - N ELSE place[k]
      BY <1>1, <3>1 DEF Room
    <3>4. N + size + 1 >= log_buf_len BY DEF Wraps, Header
    <3> QED BY <1>1, <1>2, <3>1, <3>2, <3>3, <3>4
  <2> QED BY <1>1, <2>1, <2>2
<1>6. ASSUME NEW s \in k .. m - 1 PROVE log_buf'[place[s]] = log_buf[place[s]]
  <2>1. s \in k .. m /\ m \in k .. m /\ k \in k .. m /\ s < m /\ k <= s BY <1>1
  <2>2. place[s] < N /\ place[k] <= place[s] /\ place[s] \in Nat
    BY <1>1, <1>3, <2>1
  <2>3. place[s] \notin 0 .. 0 + size - 1 /\ place[s] # N BY <1>1, <1>2, <1>5, <2>2
  <2> QED BY <1>1, <1>2, <2>3, StoreLeaves
<1>7. /\ LogBufTypes' /\ log_buf'[0] = [len |-> size, seq |-> m]
      /\ log_buf'[N] = Zero
  BY <1>1, <1>2, <1>5, StoreWrites
<1>8. first'.seq = k /\ next'.seq = m + 1 /\ next'.idx = size /\ UNCHANGED log_buf_len
  BY <1>2 DEF Stores
<1>9. \A s \in k .. m - 1 : log_from_idx(place[s])' = log_from_idx(place[s])
  <2> TAKE s \in k .. m - 1
  <2>1. s \in first.seq .. m - 1 BY <1>1
  <2>2. log_buf[place[s]].len # 0 BY <1>1, <1>4, <2>1 DEF RingAt
  <2> QED BY <1>6, <2>2 DEF log_from_idx
<1>10. PICK i : i = N OBVIOUS
<1>11. PICK q : q = p OBVIOUS
<1>12. PICK w2 : w2 = m OBVIOUS
<1>13. Kept(place, k) BY <1>1, <1>6 DEF Kept, Stores
<1>14. StoredAt(i)
  <2>1. log_buf'[i].len = 0 /\ log_buf'[0].len = size /\ log_buf'[0].seq = m
    BY <1>7, <1>10 DEF Zero
  <2>2. log_from_idx(i)'.seq = m /\ log_from_idx(i)'.len = size /\ log_next(i)' = size
    BY <2>1 DEF log_from_idx, log_next
  <2>3. size \in 0 .. log_buf_len - 1 BY <1>1, <1>2 DEF Header
  <2> QED BY <1>8, <1>10, <2>2, <2>3 DEF StoredAt
<1>15. \A s \in k .. m : q[s] = place[s] BY <1>1, <1>11 DEF With
<1>16. Rising(q, k, w2) /\ Rising(q, w2 + 1, m + 1)
  <2>1. Rising(q, k, m) BY <1>3, <1>15 DEF Rising
  <2>2. \A s, t \in m + 1 .. m + 1 : ~(s < t) BY <1>1
  <2> QED BY <1>12, <2>1, <2>2 DEF Rising
<1>17. RingAt(q, w2)'
  <2>1. w2 \in k .. m + 1 /\ w2 = m BY <1>1, <1>12
  <2>2. \A s \in k .. m - 1 : s = w <=> s = w2 BY <1>1, <1>4, <1>12
  <2>3. log_buf'[i].len = 0 <=> w2 = m BY <1>7, <1>10, <2>1 DEF Zero
  <2>4. next'.idx < place[k] BY <1>5, <1>8
  <2> QED
    BY <1>4, <1>11, <1>13, <1>14, <1>16, <2>1, <2>2, <2>3, <2>4, RingGrows
<1> QED BY <1>1, <1>7, <1>8, <1>9, <1>15, <1>17 DEF Grown

(* Behind the last record, which is before the oldest.                     *)
LEMMA StoreGoesBetween ==
    ASSUME LogBufTypes, NEW place, NEW w, RingAt(place, w), NEW size \in Nat, size > Header,
           NEW k, Stores(place, k, size, IF Wraps(size) THEN 0 ELSE next.idx),
           k \in first.seq .. w, w # next.seq
    PROVE  Grown(place)
<1> DEFINE N == next.idx
           m == next.seq
           p == With(place, k)
<1>1. /\ first.seq \in Nat /\ m \in Nat /\ N \in Nat /\ log_buf_len \in Nat
      /\ k \in Nat /\ first.seq <= k /\ k <= m /\ w \in Nat
      /\ first.seq <= w /\ w <= m
      /\ place[k] \in Nat /\ place[m] = N /\ N < log_buf_len
      /\ \A s \in k .. m :
            s \in first.seq .. m /\ place[s] \in Nat /\ place[s] < log_buf_len
  <2>1. next.idx \in Nat BY DEF LogBufTypes, Cursor
  <2>2. (IF Wraps(size) THEN 0 ELSE next.idx) \in Nat BY <2>1
  <2> QED BY <2>2, StoreFacts
<1>2. k <= w /\ w < m BY <1>1
<1>3. N < first.idx BY <1>2 DEF RingAt
<1>4. /\ \A s, t \in first.seq .. w : s < t => place[s] < place[t]
      /\ \A s, t \in w + 1 .. m : s < t => place[s] < place[t]
      /\ place[first.seq] = first.idx
  BY DEF RingAt, Rising
<1>5. N < place[k]
  <2>1. first.seq \in first.seq .. w /\ k \in first.seq .. w BY <1>1
  <2>2. CASE k = first.seq BY <1>3, <1>4, <2>2
  <2>3. CASE k # first.seq
    <3>1. first.idx < place[k] BY <1>1, <1>4, <2>1, <2>3
    <3>2. first.idx \in Nat BY DEF LogBufTypes, Cursor
    <3> QED BY <1>1, <1>3, <3>1, <3>2
  <2> QED BY <2>2, <2>3
<1>6. N + size + 1 < place[k]
  <2>1. Room([seq |-> k, idx |-> place[k]]) > size + 1 BY <1>1, <1>2 DEF Stores, Header
  <2>2. Room([seq |-> k, idx |-> place[k]]) = place[k] - N BY <1>1, <1>5 DEF Room
  <2> QED BY <1>1, <2>1, <2>2
<1>7. place[k] < log_buf_len BY <1>1
<1>8. ~Wraps(size) /\ N + size + Header < log_buf_len
  BY <1>1, <1>6, <1>7 DEF Wraps, Header
<1>9. Stores(place, k, size, N) BY <1>8
<1>10. \A s \in k .. w : place[k] <= place[s]
  <2> TAKE s \in k .. w
  <2>1. k \in first.seq .. w /\ s \in first.seq .. w /\ (k = s \/ k < s) BY <1>1
  <2> QED BY <1>1, <1>2, <1>4, <2>1
<1>11. \A s \in w + 1 .. m - 1 : place[s] < N
  <2> TAKE s \in w + 1 .. m - 1
  <2>1. s \in w + 1 .. m /\ m \in w + 1 .. m /\ s < m BY <1>1
  <2> QED BY <1>1, <1>4, <2>1
<1>12. ASSUME NEW s \in k .. m - 1 PROVE log_buf'[place[s]] = log_buf[place[s]]
  <2>1. s \in k .. m /\ (s \in k .. w \/ s \in w + 1 .. m - 1) BY <1>1
  <2>2. place[s] \in Nat /\ (place[s] < N \/ place[k] <= place[s])
    BY <1>1, <1>10, <1>11, <2>1
  <2>3. place[s] \notin N .. N + size - 1 BY <1>1, <1>6, <2>2
  <2> QED BY <1>1, <1>8, <1>9, <2>3, StoreLeaves
<1>13. LogBufTypes' /\ log_buf'[N] = [len |-> size, seq |-> m]
  BY <1>1, <1>8, <1>9, StoreWrites
<1>14. N > 0
  <2>1. w \in first.seq .. m - 1 BY <1>1, <1>2
  <2>2. /\ place[w + 1] = log_next(place[w]) /\ log_buf[place[w]].len = 0
        /\ log_from_idx(place[w]).len > 1
    BY <2>1 DEF RingAt, Header
  <2>3. place[w + 1] > 1 BY <2>2 DEF log_from_idx, log_next
  <2>4. w + 1 \in k .. m /\ w + 1 \in w + 1 .. m /\ m \in w + 1 .. m BY <1>1, <1>2
  <2>5. w + 1 = m \/ place[w + 1] < N BY <1>1, <1>4, <2>4
  <2> QED BY <1>1, <2>3, <2>4, <2>5
<1>15. log_buf'[0] = log_buf[0]
  <2>1. 0 \in DOMAIN log_buf BY <1>1, LogBufAssumption DEF LogBufTypes
  <2>2. 0 # N /\ 0 \notin N + 1 .. N + size - 1 BY <1>1, <1>14
  <2> QED BY <1>8, <2>1, <2>2, <1>9 DEF Stores
<1>16. first'.seq = k /\ next'.seq = m + 1 /\ next'.idx = N + size /\ UNCHANGED log_buf_len
  BY <1>9 DEF Stores
<1>17. \A s \in k .. m - 1 : log_from_idx(place[s])' = log_from_idx(place[s])
  BY <1>12, <1>15 DEF log_from_idx
<1>18. PICK i : i = N OBVIOUS
<1>19. PICK q : q = p OBVIOUS
<1>20. Kept(place, k) BY <1>1, <1>9, <1>12 DEF Kept, Stores
<1>21. StoredAt(i)
  <2>1. log_buf'[i].len = size /\ log_buf'[i].seq = m /\ size # 0
    BY <1>13, <1>18 DEF Header
  <2>2. log_from_idx(i)'.seq = m /\ log_from_idx(i)'.len = size /\ log_next(i)' = i + size
    BY <2>1 DEF log_from_idx, log_next
  <2>3. N + size \in 0 .. log_buf_len - 1 BY <1>1, <1>8 DEF Header
  <2> QED BY <1>16, <1>18, <2>2, <2>3 DEF StoredAt
<1>22. /\ \A s \in k .. m : q[s] = place[s] /\ place[s] \in Nat
       /\ q[m + 1] = N + size
  BY <1>1, <1>16, <1>19 DEF With
<1>23. Rising(q, k, w)
  <2>1. \A s \in k .. w : s \in first.seq .. w /\ s \in k .. m BY <1>1, <1>2
  <2> QED BY <1>4, <1>22, <2>1 DEF Rising
<1>24. Rising(q, w + 1, m + 1)
  <2>1. \A s \in w + 1 .. m : s \in k .. m /\ place[s] <= N
    <3> TAKE s \in w + 1 .. m
    <3>1. s \in k .. m /\ (s = m \/ s \in w + 1 .. m - 1) BY <1>1, <1>2
    <3> QED BY <1>1, <1>11, <1>22, <3>1
  <2>2. ASSUME NEW s \in w + 1 .. m + 1, NEW t \in w + 1 .. m + 1, s < t
        PROVE  q[s] < q[t]
    <3>1. s \in w + 1 .. m BY <1>1, <2>2
    <3>2. CASE t = m + 1 BY <1>1, <1>22, <2>1, <3>1, <3>2 DEF Header
    <3>3. CASE t # m + 1
      <4>1. t \in w + 1 .. m BY <1>1, <3>3
      <4> QED BY <1>4, <1>22, <2>1, <2>2, <3>1, <4>1
    <3> QED BY <3>2, <3>3
  <2> QED BY <2>2 DEF Rising
<1>25. RingAt(q, w)'
  <2>1. w \in k .. m + 1 /\ w # m BY <1>1, <1>2
  <2>2. log_buf'[i].len = 0 <=> w = m BY <1>13, <1>18, <2>1 DEF Header
  <2>3. next'.idx < place[k] BY <1>1, <1>6, <1>16
  <2> QED
    BY <1>15, <1>19, <1>20, <1>21, <1>23, <1>24, <2>1, <2>2, <2>3, RingGrows
<1> QED BY <1>1, <1>13, <1>16, <1>17, <1>22, <1>25 DEF Grown

LEMMA StoreGrows ==
    ASSUME LogBufTypes, NEW place, NEW w, RingAt(place, w), NEW n \in TextLens,
           log_store(Header + n)
    PROVE  Grown(place)
<1> DEFINE size == Header + n
<1>1. size \in Nat /\ size > Header /\ 2 * (size + Header) <= log_buf_len
  BY LogBufAssumption DEF Header, LogBufTypes
<1> HIDE DEF size
<1>2. log_store(size) BY DEF size
<1>3. PICK k : Stores(place, k, size, IF Wraps(size) THEN 0 ELSE next.idx)
  BY <1>1, <1>2, StoreKeepsFrom
<1>4. CASE k \in first.seq .. w /\ w # next.seq BY <1>1, <1>3, <1>4, StoreGoesBetween
<1>5. CASE k \notin first.seq .. w \/ w = next.seq
  <2>1. CASE Wraps(size)
    <3>1. Stores(place, k, size, 0) BY <1>3, <2>1
    <3> QED BY <1>1, <1>5, <2>1, <3>1, StoreStartsAgain
  <2>2. CASE ~Wraps(size)
    <3>1. Stores(place, k, size, next.idx) BY <1>3, <2>2
    <3> QED BY <1>1, <1>5, <2>2, <3>1, StoreGoesOn
  <2> QED BY <2>1, <2>2
<1> QED BY <1>4, <1>5

----------------------------------------------------------------------------
(* Whoever reads stands in the chain of records, at next, or behind first. *)
Good(c, place) == c \in Cursor /\ Placed(c, place)
PartialLeft == syslog_partial > 0 /\ syslog.seq >= first.seq =>
                  /\ syslog.seq < next.seq
                  /\ syslog_partial < log_from_idx(syslog.idx).len - Header
ReadersInv(place) == /\ Good(syslog, place) /\ Good(clear, place) /\ Good(reader.at, place)
                     /\ reader.last <= next.seq /\ PartialLeft
RingInv == /\ LogBufTypes
           /\ first.seq < next.seq \/ next.seq = 0
           /\ first.seq = 0 => first.idx = 0
           /\ \E place, w : RingAt(place, w) /\ ReadersInv(place)

LEMMA GoodCursors ==
    ASSUME LogBufTypes, NEW place, NEW w, RingAt(place, w), first.seq = 0 => first.idx = 0
    PROVE  /\ Good(first, place) /\ Good(next, place) /\ Good(Start, place)
           /\ first.seq \in Nat /\ next.seq \in Nat /\ first.seq <= next.seq
           /\ \A c : Good(c, place) =>
                 /\ c.seq \in Nat /\ c.seq <= next.seq
                 /\ Good(Caught(c), place)
                 /\ Caught(c).seq >= first.seq
                 /\ (c.seq >= first.seq => Caught(c) = c)
                 /\ (c.seq >= first.seq /\ c.seq < next.seq => Good(Advance(c), place))
<1>1. first.seq \in Nat /\ next.seq \in Nat /\ first.seq <= next.seq
  BY DEF LogBufTypes, Cursor, RingAt
<1>2. Good(first, place) /\ Good(next, place)
  BY <1>1 DEF Good, Placed, RingAt, LogBufTypes
<1>3. Good(Start, place)
  BY <1>1 DEF Good, Placed, RingAt, Start, Cursor
<1>4. ASSUME NEW c, Good(c, place)
      PROVE  /\ c.seq \in Nat /\ c.seq <= next.seq
             /\ Good(Caught(c), place) /\ Caught(c).seq >= first.seq
             /\ (c.seq >= first.seq => Caught(c) = c)
             /\ (c.seq >= first.seq /\ c.seq < next.seq => Good(Advance(c), place))
  <2>1. c.seq \in Nat /\ c.seq <= next.seq BY <1>4 DEF Good, Placed, Cursor
  <2>2. /\ Good(Caught(c), place) /\ Caught(c).seq >= first.seq
        /\ (c.seq >= first.seq => Caught(c) = c)
    BY <1>1, <1>2, <1>4, <2>1 DEF Caught
  <2>3. ASSUME c.seq >= first.seq, c.seq < next.seq PROVE Good(Advance(c), place)
    <3>1. c.seq \in first.seq .. next.seq - 1 /\ c.seq + 1 \in first.seq .. next.seq
      BY <1>1, <2>1, <2>3
    <3>2. c.idx = place[c.seq] BY <1>4, <2>3 DEF Good, Placed
    <3>3. place[c.seq + 1] = log_next(c.idx) BY <3>1, <3>2 DEF RingAt
    <3>4. place[c.seq + 1] \in 0 .. log_buf_len - 1 BY <3>1 DEF RingAt
    <3>5. place[c.seq + 1] \in Nat BY <3>4, LogBufAssumption DEF LogBufTypes
    <3>6. Advance(c) = [seq |-> c.seq + 1, idx |-> place[c.seq + 1]]
      BY <3>3 DEF Advance
    <3> QED BY <1>1, <2>1, <2>3, <3>1, <3>5, <3>6 DEF Good, Placed, Cursor
  <2> QED BY <2>1, <2>2, <2>3
<1> QED BY <1>1, <1>2, <1>3, <1>4

LEMMA ReadKeeps ==
    ASSUME RingInv, UNCHANGED <<log_buf, first, next>>, log_buf_len' \in {log_buf_len, NewLen},
           \A place, w : RingAt(place, w) /\ ReadersInv(place) =>
               /\ LogBufTypes' /\ Good(syslog', place) /\ Good(clear', place)
               /\ Good(reader'.at, place)
               /\ reader'.last <= next.seq /\ PartialLeft'
    PROVE  RingInv'
<1>1. PICK place, w : RingAt(place, w) /\ ReadersInv(place) BY DEF RingInv
<1>2. LogBufTypes' BY <1>1
<1>3. RingAt(place, w)'
  <2>1. log_buf_len <= log_buf_len' /\ log_buf_len \in Nat /\ log_buf_len' \in Nat
    BY <1>2, LogBufAssumption DEF RingInv, LogBufTypes
  <2>2. \A s \in first.seq .. next.seq : place[s] \in 0 .. log_buf_len' - 1
    BY <1>1, <2>1 DEF RingAt
  <2>3. \A i : log_from_idx(i)' = log_from_idx(i) /\ log_next(i)' = log_next(i)
    BY DEF log_from_idx, log_next
  <2> QED BY <1>1, <2>2, <2>3 DEF RingAt, Rising
<1>4. ReadersInv(place)'
  <2>1. \A c : Good(c, place) <=> c \in Cursor /\ c.seq <= next.seq
                                  /\ (c.seq >= first.seq => c.idx = place[c.seq])
    BY DEF Good, Placed
  <2> QED BY <1>1, <2>1 DEF ReadersInv, Good, Placed
<1> QED BY <1>2, <1>3, <1>4 DEF RingInv

LEMMA SyslogKeeps ==
    ASSUME RingInv, syslog_print \/ size_unread \/ SYSLOG_ACTION_CLEAR \/ setup_log_buf
    PROVE  RingInv'
<1> USE DEF RingInv
<1>1. ASSUME NEW place, NEW w, RingAt(place, w), ReadersInv(place)
      PROVE  /\ LogBufTypes' /\ Good(syslog', place) /\ Good(clear', place)
             /\ Good(reader'.at, place) /\ reader'.last <= next.seq /\ PartialLeft'
  <2> DEFINE c == Caught(syslog)
             skip == IF c.seq = syslog.seq THEN syslog_partial ELSE 0
  <2>1. /\ Good(next, place) /\ first.seq \in Nat /\ next.seq \in Nat
        /\ syslog.seq \in Nat /\ c.seq \in Nat /\ c.seq <= next.seq
        /\ Good(c, place) /\ c.seq >= first.seq
        /\ (syslog.seq >= first.seq => c = syslog)
        /\ (syslog.seq < first.seq => c = first)
        /\ (c.seq < next.seq => Good(Advance(c), place))
    BY <1>1, GoodCursors DEF ReadersInv, Caught
  <2>2. /\ Good(syslog, place) /\ Good(clear, place) /\ Good(reader.at, place)
        /\ reader.last <= next.seq /\ PartialLeft
    BY <1>1 DEF ReadersInv
  <2>3. LogBufTypes /\ syslog_partial \in Nat BY DEF LogBufTypes
  <2>4. CASE syslog_print
    <3>1. /\ UNCHANGED <<log_buf, log_buf_len, first, next, clear, reader>>
          /\ syslog.seq # next.seq
      BY <2>4 DEF syslog_print
    <3>2. c.seq < next.seq
      <4>1. CASE syslog.seq >= first.seq BY <2>1, <3>1, <4>1
      <4>2. CASE syslog.seq < first.seq BY <2>1, <3>1, <4>2
      <4> QED BY <2>1, <4>1, <4>2
    <3>3. CASE syslog' = Advance(c) /\ syslog_partial' = 0
      <4>1. Good(syslog', place) BY <2>1, <3>2, <3>3
      <4>2. LogBufTypes' BY <2>3, <3>1, <3>3, <4>1 DEF LogBufTypes, Good
      <4> QED BY <2>2, <3>1, <3>3, <4>1, <4>2 DEF PartialLeft
    <3>4. ASSUME NEW n \in 1 .. log_from_idx(c.idx).len - Header - skip - 1,
                 syslog_partial' = skip + n, syslog' = c
          PROVE  /\ LogBufTypes' /\ Good(syslog', place) /\ PartialLeft'
      <4>1. skip \in Nat /\ n \in Nat BY <2>3, <3>4
      <4>2. LogBufTypes' BY <2>1, <2>3, <3>1, <3>4, <4>1 DEF LogBufTypes, Good
      <4>3. log_from_idx(c.idx).len \in Nat
        <5>1. c.seq \in first.seq .. next.seq BY <2>1
        <5>2. c.idx = place[c.seq] /\ place[c.seq] \in 0 .. log_buf_len - 1
          BY <1>1, <2>1, <5>1 DEF Good, Placed, RingAt
        <5> QED BY <2>3, <5>2, LogBufAssumption DEF log_from_idx, LogBufTypes
      <4>4. skip + n < log_from_idx(c.idx).len - Header BY <4>1, <4>3 DEF Header
      <4>5. log_from_idx(syslog.idx)' = log_from_idx(c.idx)
        BY <3>1, <3>4 DEF log_from_idx
      <4>6. PartialLeft' BY <3>1, <3>2, <3>4, <4>4, <4>5 DEF PartialLeft
      <4> QED BY <2>1, <3>4, <4>2, <4>6
    <3> QED BY <2>2, <2>4, <3>1, <3>3, <3>4 DEF syslog_print
  <2>5. CASE size_unread
    <3>1. /\ UNCHANGED <<log_buf, log_buf_len, first, next, clear, reader>>
          /\ syslog' = c
          /\ syslog_partial' = IF c.seq = syslog.seq THEN syslog_partial ELSE 0
      BY <2>5 DEF size_unread
    <3>2. LogBufTypes' BY <2>1, <2>3, <3>1 DEF LogBufTypes, Good
    <3>3. PartialLeft'
      <4>1. CASE syslog.seq >= first.seq
        <5>1. UNCHANGED <<syslog, syslog_partial, first, next, log_buf>>
          BY <2>1, <3>1, <4>1
        <5> QED BY <2>2, <5>1 DEF PartialLeft, log_from_idx
      <4>2. CASE syslog.seq < first.seq
        <5>1. syslog_partial' = 0 BY <2>1, <3>1, <4>2
        <5> QED BY <5>1 DEF PartialLeft
      <4> QED BY <2>1, <4>1, <4>2
    <3> QED BY <2>1, <2>2, <3>1, <3>2, <3>3
  <2>6. CASE SYSLOG_ACTION_CLEAR
    <3>1. /\ UNCHANGED <<log_buf, log_buf_len, first, next, syslog, syslog_partial, reader>>
          /\ clear' = next
      BY <2>6 DEF SYSLOG_ACTION_CLEAR
    <3>2. LogBufTypes' /\ PartialLeft'
      BY <2>2, <2>3, <3>1 DEF LogBufTypes, PartialLeft, log_from_idx
    <3> QED BY <2>1, <2>2, <3>1, <3>2
  <2>7. CASE setup_log_buf
    <3>1. /\ UNCHANGED <<log_buf, first, next, syslog, syslog_partial, clear, reader>>
          /\ log_buf_len' = NewLen
      BY <2>7 DEF setup_log_buf
    <3>2. LogBufTypes' /\ PartialLeft'
      BY <2>2, <2>3, <3>1 DEF LogBufTypes, PartialLeft, log_from_idx
    <3> QED BY <2>2, <3>1, <3>2
  <2> QED BY <2>4, <2>5, <2>6, <2>7
<1>2. UNCHANGED <<log_buf, first, next>> /\ log_buf_len' \in {log_buf_len, NewLen}
  BY DEF syslog_print, size_unread, SYSLOG_ACTION_CLEAR, setup_log_buf
<1> QED BY <1>1, <1>2, ReadKeeps

Readers == [kind : {"none", "all", "kmsg", "dump"}, at : Cursor, last : Nat, clears : BOOLEAN]
GoodReader(r, place) == r \in Readers /\ Good(r.at, place) /\ r.last <= next.seq

LEMMA ReaderKeeps ==
    ASSUME RingInv, UNCHANGED <<log_buf, log_buf_len, first, next, syslog, syslog_partial>>,
           \A place, w : RingAt(place, w) /\ ReadersInv(place) =>
               Good(clear', place) /\ GoodReader(reader', place)
    PROVE  RingInv'
<1>1. ASSUME NEW place, NEW w, RingAt(place, w), ReadersInv(place)
      PROVE  /\ LogBufTypes' /\ Good(syslog', place) /\ Good(clear', place)
             /\ Good(reader'.at, place) /\ reader'.last <= next.seq /\ PartialLeft'
  <2>1. Good(clear', place) /\ GoodReader(reader', place) BY <1>1
  <2>2. LogBufTypes' BY <2>1 DEF RingInv, LogBufTypes, GoodReader, Readers, Good
  <2>3. PartialLeft' BY <1>1 DEF ReadersInv, PartialLeft, log_from_idx
  <2> QED BY <1>1, <2>1, <2>2, <2>3 DEF ReadersInv, GoodReader
<1> QED BY <1>1, ReadKeeps

LEMMA GoodNow ==
    ASSUME RingInv, NEW place, NEW w, RingAt(place, w), ReadersInv(place)
    PROVE  /\ GoodReader(reader, place) /\ GoodReader(NoReader, place)
           /\ Good(first, place) /\ Good(next, place) /\ Good(clear, place)
           /\ first.seq \in Nat /\ next.seq \in Nat /\ first.seq <= next.seq
           /\ \A c : Good(c, place) =>
                 /\ c.seq \in Nat /\ c.seq <= next.seq
                 /\ Good(Caught(c), place) /\ Caught(c).seq >= first.seq
                 /\ Caught(c).seq \in Nat /\ Caught(c).seq <= next.seq
                 /\ (c.seq >= first.seq => Caught(c) = c)
                 /\ (c.seq >= first.seq /\ c.seq < next.seq => Good(Advance(c), place))
                 /\ (Caught(c).seq < next.seq => Good(Advance(Caught(c)), place))
<1>1. LogBufTypes /\ (first.seq = 0 => first.idx = 0) BY DEF RingInv
<1>2. /\ Good(first, place) /\ Good(next, place) /\ Good(Start, place)
      /\ first.seq \in Nat /\ next.seq \in Nat /\ first.seq <= next.seq
      /\ \A c : Good(c, place) =>
            /\ c.seq \in Nat /\ c.seq <= next.seq
            /\ Good(Caught(c), place)
            /\ Caught(c).seq >= first.seq
            /\ (c.seq >= first.seq => Caught(c) = c)
            /\ (c.seq >= first.seq /\ c.seq < next.seq => Good(Advance(c), place))
  BY <1>1, GoodCursors
<1>3. GoodReader(reader, place) /\ Good(clear, place)
  BY <1>1 DEF ReadersInv, GoodReader, LogBufTypes, Readers
<1>4. GoodReader(NoReader, place)
  <2>1. NoReader \in Readers BY DEF NoReader, Readers, Start, Cursor
  <2> QED BY <1>2, <2>1 DEF GoodReader, NoReader
<1> QED BY <1>2, <1>3, <1>4

LEMMA PrintAllKeeps ==
    ASSUME RingInv, syslog_print_all PROVE RingInv'
<1>1. UNCHANGED <<log_buf, log_buf_len, first, next, syslog, syslog_partial>>
  BY DEF syslog_print_all
<1>2. ASSUME NEW place, NEW w, RingAt(place, w), ReadersInv(place)
      PROVE  Good(clear', place) /\ GoodReader(reader', place)
  <2>1. /\ GoodReader(reader, place) /\ GoodReader(NoReader, place)
        /\ Good(first, place) /\ Good(next, place) /\ Good(clear, place)
        /\ first.seq \in Nat /\ next.seq \in Nat /\ first.seq <= next.seq
    BY <1>2, GoodNow
  <2>2. \A c : Good(c, place) =>
            /\ Good(Caught(c), place) /\ Caught(c).seq >= first.seq
            /\ Caught(c).seq \in Nat /\ Caught(c).seq <= next.seq
            /\ (c.seq >= first.seq => Caught(c) = c)
            /\ (Caught(c).seq < next.seq => Good(Advance(Caught(c)), place))
    BY <1>2, GoodNow
  <2>3. ASSUME NEW c, NEW last, NEW clears \in BOOLEAN, Good(c, place), c.seq >= first.seq,
               last \in Nat, last <= next.seq, Section(c, last, clears)
        PROVE  Good(clear', place) /\ GoodReader(reader', place)
    <3>1. CASE reader' = NoReader /\ clear' = IF clears THEN next ELSE clear
      BY <2>1, <3>1
    <3>2. CASE /\ c.seq < last /\ UNCHANGED clear
               /\ reader' = [kind |-> "all", at |-> Advance(c), last |-> last,
                             clears |-> clears]
      <4>1. Caught(c) = c /\ c.seq \in Nat BY <2>2, <2>3
      <4>2. Good(Advance(c), place) BY <2>1, <2>2, <2>3, <3>2, <4>1
      <4>3. reader' \in Readers BY <2>3, <3>2, <4>2 DEF Readers, Good
      <4> QED BY <2>1, <2>3, <3>2, <4>2, <4>3 DEF GoodReader
    <3> QED BY <2>3, <3>1, <3>2 DEF Section
  <2>4. CASE reader.kind = "all" /\ Section(Caught(reader.at), reader.last, reader.clears)
    <3>1. /\ Good(reader.at, place) /\ reader.last \in Nat /\ reader.last <= next.seq
          /\ reader.clears \in BOOLEAN
      BY <2>1 DEF GoodReader, Readers
    <3> QED BY <2>2, <2>3, <2>4, <3>1
  <2>5. ASSUME NEW s \in Caught(clear).seq .. next.seq, NEW clears \in BOOLEAN,
               Section(From(Caught(clear))[s], next.seq, clears)
        PROVE  Good(clear', place) /\ GoodReader(reader', place)
    <3> DEFINE c == Caught(clear)
    <3>1. Good(c, place) /\ c.seq >= first.seq /\ c.seq \in Nat BY <2>1, <2>2
    <3>2. From(c) = [x \in c.seq .. next.seq |-> [seq |-> x, idx |-> place[x]]]
      BY <1>2, <3>1, FromPlaced DEF Good, RingInv
    <3>3. From(c)[s] = [seq |-> s, idx |-> place[s]] BY <3>2
    <3>4. s \in first.seq .. next.seq /\ s \in Nat BY <2>1, <3>1
    <3>5. place[s] \in Nat
      <4>1. place[s] \in 0 .. log_buf_len - 1 BY <1>2, <3>4 DEF RingAt
      <4> QED BY <4>1, LogBufAssumption DEF RingInv, LogBufTypes
    <3>6. Good(From(c)[s], place) /\ From(c)[s].seq >= first.seq
      BY <2>1, <3>3, <3>4, <3>5 DEF Good, Placed, Cursor
    <3> QED BY <2>1, <2>3, <2>5, <3>6
  <2> QED BY <2>4, <2>5 DEF syslog_print_all
<1> QED BY <1>1, <1>2, ReaderKeeps

LEMMA KmsgKeeps ==
    ASSUME RingInv, devkmsg_open \/ devkmsg_read \/ devkmsg_llseek \/ ReaderDone
    PROVE  RingInv'
<1>1. UNCHANGED <<log_buf, log_buf_len, first, next, syslog, syslog_partial, clear>>
  BY DEF devkmsg_open, devkmsg_read, devkmsg_llseek, ReaderDone
<1>2. ASSUME NEW place, NEW w, RingAt(place, w), ReadersInv(place)
      PROVE  Good(clear', place) /\ GoodReader(reader', place)
  <2>1. /\ GoodReader(reader, place) /\ GoodReader(NoReader, place)
        /\ Good(first, place) /\ Good(next, place) /\ Good(clear, place)
        /\ first.seq \in Nat /\ next.seq \in Nat /\ first.seq <= next.seq
    BY <1>2, GoodNow
  <2>2. \A c : Good(c, place) =>
            /\ c.seq \in Nat /\ c.seq <= next.seq
            /\ (c.seq >= first.seq /\ c.seq < next.seq => Good(Advance(c), place))
    BY <1>2, GoodNow
  <2>3. \A r, c : GoodReader(r, place) /\ Good(c, place)
            => GoodReader([r EXCEPT !.at = c], place)
    BY DEF GoodReader, Readers, Good
  <2>4. CASE devkmsg_open
    <3>1. reader' = [[NoReader EXCEPT !.kind = "kmsg"] EXCEPT !.at = first]
      BY <2>4 DEF devkmsg_open, NoReader
    <3>2. GoodReader([NoReader EXCEPT !.kind = "kmsg"], place)
      BY <2>1 DEF GoodReader, Readers, NoReader
    <3> QED BY <1>1, <2>1, <2>3, <3>1, <3>2
  <2>5. CASE devkmsg_read
    <3> DEFINE c == reader.at
    <3>1. Good(c, place) /\ c.seq # next.seq BY <2>1, <2>5 DEF devkmsg_read, GoodReader
    <3>2. reader' = [reader EXCEPT !.at = IF c.seq < first.seq THEN first ELSE Advance(c)]
      BY <2>5 DEF devkmsg_read
    <3>3. Good(IF c.seq < first.seq THEN first ELSE Advance(c), place)
      <4>1. c.seq \in Nat /\ c.seq <= next.seq BY <2>2, <3>1
      <4>2. CASE c.seq < first.seq BY <2>1, <4>2
      <4>3. CASE ~(c.seq < first.seq) BY <2>1, <2>2, <3>1, <4>1, <4>3
      <4> QED BY <4>2, <4>3
    <3> QED BY <1>1, <2>1, <2>3, <3>2, <3>3
  <2>6. CASE devkmsg_llseek
    <3>1. PICK c \in {first, clear, next} : reader' = [reader EXCEPT !.at = c]
      BY <2>6 DEF devkmsg_llseek
    <3> QED BY <1>1, <2>1, <2>3, <3>1
  <2>7. CASE ReaderDone BY <1>1, <2>1, <2>7 DEF ReaderDone
  <2> QED BY <2>4, <2>5, <2>6, <2>7
<1> QED BY <1>1, <1>2, ReaderKeeps

LEMMA DumpKeeps ==
    ASSUME RingInv, kmsg_dump_rewind \/ kmsg_dump_get_line \/ kmsg_dump_get_buffer
    PROVE  RingInv'
<1>1. UNCHANGED <<log_buf, log_buf_len, first, next, syslog, syslog_partial, clear>>
  BY DEF kmsg_dump_rewind, kmsg_dump_get_line, kmsg_dump_get_buffer
<1>2. ASSUME NEW place, NEW w, RingAt(place, w), ReadersInv(place)
      PROVE  Good(clear', place) /\ GoodReader(reader', place)
  <2> DEFINE c == Caught(reader.at)
  <2>1. /\ GoodReader(reader, place) /\ Good(clear, place)
        /\ first.seq \in Nat /\ next.seq \in Nat
    BY <1>2, GoodNow
  <2>2. Good(reader.at, place) /\ reader.last \in Nat /\ reader.last <= next.seq
    BY <2>1 DEF GoodReader, Readers
  <2>3. /\ Good(c, place) /\ c.seq \in Nat /\ c.seq <= next.seq
        /\ (c.seq < next.seq => Good(Advance(c), place))
    BY <1>2, <2>2, GoodNow
  <2> HIDE DEF c
  <2>4. \A r, x : GoodReader(r, place) /\ Good(x, place)
            => GoodReader([r EXCEPT !.at = x], place)
    BY DEF GoodReader, Readers, Good
  <2>5. CASE kmsg_dump_rewind
    <3>1. reader' = [kind |-> "dump", at |-> clear, last |-> next.seq, clears |-> FALSE]
      BY <2>5 DEF kmsg_dump_rewind, Rewound
    <3>2. GoodReader(reader', place) BY <2>1, <3>1 DEF GoodReader, Readers, Good
    <3> QED BY <1>1, <2>1, <3>2
  <2>6. CASE kmsg_dump_get_line
    <3>1. reader' = [reader EXCEPT !.at = IF c.seq >= next.seq THEN c ELSE Advance(c)]
      BY <2>6 DEF kmsg_dump_get_line, c
    <3>2. Good(IF c.seq >= next.seq THEN c ELSE Advance(c), place) BY <2>1, <2>3
    <3> QED BY <1>1, <2>1, <2>4, <3>1, <3>2
  <2>7. CASE kmsg_dump_get_buffer
    <3>1. CASE reader' = [reader EXCEPT !.at = c] BY <1>1, <2>1, <2>3, <2>4, <3>1
    <3>2. ASSUME NEW s \in c.seq .. reader.last,
                 reader' = [reader EXCEPT !.at = c, !.last = s]
          PROVE  GoodReader(reader', place)
      <4>1. s \in Nat /\ s <= next.seq BY <2>1, <2>2, <2>3
      <4>2. GoodReader([reader EXCEPT !.at = c], place) BY <2>1, <2>3, <2>4
      <4>3. \A r : GoodReader(r, place) => GoodReader([r EXCEPT !.last = s], place)
        BY <4>1 DEF GoodReader, Readers
      <4>4. reader' = [[reader EXCEPT !.at = c] EXCEPT !.last = s] BY <3>2
      <4> QED BY <4>2, <4>3, <4>4
    <3> QED BY <1>1, <2>1, <2>7, <3>1, <3>2 DEF kmsg_dump_get_buffer, c
  <2> QED BY <2>5, <2>6, <2>7
<1> QED BY <1>1, <1>2, ReaderKeeps

LEMMA StoreKeeps ==
    ASSUME RingInv, NEW n \in TextLens, log_store(Header + n) PROVE RingInv'
<1>1. PICK place, w : RingAt(place, w) /\ ReadersInv(place) BY DEF RingInv
<1>2. LogBufTypes /\ (first.seq = 0 => first.idx = 0) BY DEF RingInv
<1>3. Grown(place) BY <1>1, <1>2, StoreGrows
<1>4. /\ first'.seq \in first.seq .. next.seq /\ next'.seq = next.seq + 1 /\ LogBufTypes'
      /\ \A s \in first'.seq .. next.seq - 1 :
            log_from_idx(place[s])' = log_from_idx(place[s])
  BY <1>3 DEF Grown
<1>5. PICK p, w2 : /\ RingAt(p, w2)'
                   /\ \A s \in first'.seq .. next.seq : p[s] = place[s]
  BY <1>3 DEF Grown
<1>6. first.seq \in Nat /\ next.seq \in Nat /\ first'.seq \in Nat
  BY <1>2, <1>4 DEF LogBufTypes, Cursor
<1>7. UNCHANGED <<syslog, syslog_partial, clear, reader>> BY DEF log_store
<1>8. \A c : Good(c, place) => /\ c \in Cursor /\ c.seq <= next'.seq
                               /\ (c.seq >= first'.seq => c.idx = p[c.seq])
  <2> TAKE c
  <2> HAVE Good(c, place)
  <2>1. c \in Cursor /\ c.seq \in Nat /\ c.seq <= next.seq BY DEF Good, Placed, Cursor
  <2>2. ASSUME c.seq >= first'.seq PROVE c.idx = p[c.seq]
    <3>1. c.seq \in first'.seq .. next.seq /\ c.seq >= first.seq
      BY <1>4, <1>6, <2>1, <2>2
    <3> QED BY <1>5, <3>1 DEF Good, Placed
  <2> QED BY <1>4, <1>6, <2>1, <2>2
<1>9. /\ Good(syslog, p)' /\ Good(clear, p)' /\ Good(reader.at, p)'
  BY <1>1, <1>7, <1>8 DEF ReadersInv, Good, Placed
<1>10. (reader.last <= next.seq)'
  <2>1. reader.last \in Nat BY <1>2 DEF LogBufTypes
  <2> QED BY <1>1, <1>4, <1>6, <1>7, <2>1 DEF ReadersInv
<1>11. PartialLeft'
  <2> SUFFICES ASSUME syslog_partial > 0, syslog.seq >= first'.seq
               PROVE  /\ syslog.seq < next'.seq
                      /\ syslog_partial < log_from_idx(syslog.idx)'.len - Header
    BY <1>7 DEF PartialLeft
  <2>1. syslog.seq \in Nat BY <1>2 DEF LogBufTypes, Cursor
  <2>2. syslog.seq >= first.seq BY <1>4, <1>6, <2>1
  <2>3. /\ syslog.seq < next.seq
        /\ syslog_partial < log_from_idx(syslog.idx).len - Header
    BY <1>1, <2>2 DEF ReadersInv, PartialLeft
  <2>4. syslog.idx = place[syslog.seq] BY <1>1, <2>2 DEF ReadersInv, Good, Placed
  <2>5. syslog.seq \in first'.seq .. next.seq - 1 BY <1>6, <2>1, <2>3
  <2>6. PICK i : i = syslog.idx OBVIOUS
  <2>7. log_from_idx(i)' = log_from_idx(i) BY <1>4, <2>4, <2>5, <2>6
  <2>8. log_from_idx(syslog.idx)' = log_from_idx(i)'
    BY <1>7, <2>6 DEF log_from_idx
  <2> QED BY <1>4, <1>6, <2>1, <2>3, <2>6, <2>7, <2>8
<1>12. (first.seq = 0 => first.idx = 0)'
  <2> SUFFICES ASSUME first'.seq = 0 PROVE first'.idx = 0 OBVIOUS
  <2>1. first.seq = 0 /\ 0 \in first'.seq .. next.seq BY <1>4, <1>6
  <2>2. p[0] = place[0] /\ place[0] = first.idx /\ p[0] = first'.idx
    BY <1>1, <1>5, <2>1 DEF RingAt
  <2> QED BY <1>2, <2>1, <2>2
<1>13. (first.seq < next.seq \/ next.seq = 0)' BY <1>4, <1>6
<1> QED BY <1>4, <1>5, <1>9, <1>10, <1>11, <1>12, <1>13 DEF RingInv, ReadersInv

(* The indices of the log ring: nobody who reads it, from the place where  *)
(* it last was, takes text for a header or misses that there is a record,  *)
(* after any number of overruns, clears, and the move to a larger buffer.  *)
THEOREM ReadersStayInPlace == LogBufSpec => []ReadersKeepTheirPlace
<1>1. LogBufInit => RingInv
  <2> SUFFICES ASSUME LogBufInit PROVE RingInv OBVIOUS
  <2> USE LogBufAssumption
  <2>1. PICK m \in TextLens : m \in Nat \ {0} /\ 2 * (m + 2 * Header) <= EarlyLen OBVIOUS
  <2>2. EarlyLen > 0 /\ NewLen > 0 BY <2>1 DEF Header
  <2>3. LogBufTypes
    BY DEF LogBufInit, LogBufTypes, Zero, Bytes, Start, Cursor, NoReader
  <2> DEFINE place == [s \in {0} |-> 0]
  <2>4. RingAt(place, 0)
    BY <2>2 DEF LogBufInit, RingAt, Start, Rising
  <2>5. ReadersInv(place)
    BY DEF LogBufInit, ReadersInv, Good, Placed, Start, Cursor, NoReader, PartialLeft
  <2> QED BY <2>3, <2>4, <2>5 DEF RingInv, LogBufInit, Start
<1>2. RingInv /\ [LogBufNext]_lbvars => RingInv'
  <2> SUFFICES ASSUME RingInv, [LogBufNext]_lbvars PROVE RingInv' OBVIOUS
  <2>1. ASSUME NEW n \in TextLens, log_store(Header + n) PROVE RingInv'
    BY <2>1, StoreKeeps
  <2>2. CASE setup_log_buf \/ syslog_print \/ size_unread \/ SYSLOG_ACTION_CLEAR
    BY <2>2, SyslogKeeps
  <2>3. CASE syslog_print_all BY <2>3, PrintAllKeeps
  <2>4. CASE devkmsg_open \/ devkmsg_read \/ devkmsg_llseek \/ ReaderDone
    BY <2>4, KmsgKeeps
  <2>5. CASE kmsg_dump_rewind \/ kmsg_dump_get_line \/ kmsg_dump_get_buffer
    BY <2>5, DumpKeeps
  <2>6. CASE UNCHANGED lbvars
    <3>1. UNCHANGED <<log_buf, log_buf_len, first, next, syslog, syslog_partial,
                      clear, reader>>
      BY <2>6 DEF lbvars
    <3>2. ASSUME NEW place, NEW w, RingAt(place, w), ReadersInv(place)
          PROVE  Good(clear', place) /\ GoodReader(reader', place)
      BY <3>1, <3>2, GoodNow
    <3> QED BY <3>1, <3>2, ReaderKeeps
  <2> QED BY <2>1, <2>2, <2>3, <2>4, <2>5, <2>6 DEF LogBufNext
<1>3. RingInv => ReadersKeepTheirPlace
  <2> SUFFICES ASSUME RingInv PROVE ReadersKeepTheirPlace OBVIOUS
  <2>1. PICK place, w : RingAt(place, w) /\ ReadersInv(place) BY DEF RingInv
  <2>2. /\ GoodReader(reader, place)
        /\ Good(first, place) /\ Good(clear, place)
        /\ first.seq \in Nat /\ next.seq \in Nat /\ first.seq <= next.seq
        /\ \A c : Good(c, place) =>
              /\ c.seq \in Nat /\ c.seq <= next.seq
              /\ Good(Caught(c), place) /\ Caught(c).seq >= first.seq
              /\ Caught(c).seq \in Nat /\ Caught(c).seq <= next.seq
    BY <2>1, GoodNow
  <2>3. Good(syslog, place) BY <2>1 DEF ReadersInv
  <2>4. \A s \in first.seq .. next.seq : Leads([seq |-> s, idx |-> place[s]])
    <3> TAKE s \in first.seq .. next.seq
    <3>1. CASE s = next.seq BY <2>1, <2>2, <3>1 DEF Leads, RingAt
    <3>2. CASE s # next.seq
      <4>1. s \in first.seq .. next.seq - 1 BY <2>2, <3>2
      <4> QED BY <2>1, <2>2, <3>2, <4>1 DEF Leads, RingAt
    <3> QED BY <3>1, <3>2
  <2>5. CursorsAreSound
    <3>1. ASSUME NEW c, Good(c, place), c.seq >= first.seq,
                 NEW s \in c.seq .. next.seq
          PROVE  Leads(From(c)[s])
      <4>1. From(c) = [x \in c.seq .. next.seq |-> [seq |-> x, idx |-> place[x]]]
        BY <2>1, <3>1, FromPlaced DEF Good, RingInv
      <4>2. From(c)[s] = [seq |-> s, idx |-> place[s]] BY <4>1
      <4>3. s \in first.seq .. next.seq BY <2>2, <3>1
      <4> QED BY <2>4, <4>2, <4>3
    <3> QED BY <2>2, <2>3, <3>1 DEF CursorsAreSound, GoodReader
  <2>6. UnreadIsSeen
    <3> DEFINE c == Caught(syslog)
    <3>1. Good(c, place) /\ c.seq \in first.seq .. next.seq BY <2>2, <2>3
    <3>2. c.idx = place[c.seq] /\ place[next.seq] = next.idx
      BY <2>1, <2>2, <3>1 DEF Good, Placed, RingAt
    <3>3. \A s \in first.seq .. next.seq - 1 : place[s] # place[next.seq]
      <4> TAKE s \in first.seq .. next.seq - 1
      <4>1. /\ w \in first.seq .. next.seq /\ place[first.seq] = first.idx
            /\ place[next.seq] = next.idx /\ (w < next.seq => next.idx < first.idx)
            /\ Rising(place, first.seq, w) /\ Rising(place, w + 1, next.seq)
            /\ \A x \in first.seq .. next.seq : place[x] \in 0 .. log_buf_len - 1
        BY <2>1 DEF RingAt
      <4>2. \A x \in first.seq .. next.seq : place[x] \in Nat
        BY <4>1, LogBufAssumption DEF RingInv, LogBufTypes
      <4>3. s \in first.seq .. next.seq /\ next.seq \in first.seq .. next.seq
            /\ first.seq \in first.seq .. next.seq
        BY <2>2
      <4>4. CASE w = next.seq
        <5>1. place[s] < place[next.seq] BY <2>2, <4>1, <4>3, <4>4 DEF Rising
        <5> QED BY <4>2, <4>3, <5>1
      <4>5. CASE w # next.seq /\ s <= w
        <5>1. next.idx < first.idx BY <2>2, <4>1, <4>5
        <5>2. s = first.seq \/ place[first.seq] < place[s]
          BY <2>2, <4>1, <4>5 DEF Rising
        <5> QED BY <4>1, <4>2, <4>3, <5>1, <5>2
      <4>6. CASE w # next.seq /\ s > w
        <5>1. s \in w + 1 .. next.seq /\ next.seq \in w + 1 .. next.seq
          BY <2>2, <4>1, <4>6
        <5>2. place[s] < place[next.seq] BY <2>2, <4>1, <5>1 DEF Rising
        <5> QED BY <4>2, <4>3, <5>2
      <4> QED BY <2>2, <4>1, <4>4, <4>5, <4>6
    <3>4. c.idx # next.idx <=> c.seq # next.seq
      <4>1. CASE c.seq = next.seq BY <3>2, <4>1
      <4>2. CASE c.seq # next.seq
        <5>1. c.seq \in first.seq .. next.seq - 1 BY <2>2, <3>1, <4>2
        <5> QED BY <3>2, <3>3, <4>2, <5>1
      <4> QED BY <4>1, <4>2
    <3>5. PartialLeft BY <2>1 DEF ReadersInv
    <3> QED BY <3>4, <3>5 DEF UnreadIsSeen, PartialLeft
  <2> QED BY <2>5, <2>6 DEF ReadersKeepTheirPlace
<1> QED BY <1>1, <1>2, <1>3, PTL DEF LogBufSpec
=============================================================================
