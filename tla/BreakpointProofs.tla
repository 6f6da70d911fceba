-------------------------- MODULE BreakpointProofs --------------------------
(***************************************************************************)
(* The table of breakpoint slots is exact, and the breakpoint device keeps *)
(* slots, lists and registers together, for any cpus, registers, events    *)
(* and files.                                                              *)
(***************************************************************************)
EXTENDS BreakpointDev, SequenceTheorems, FunctionTheorems, FiniteSetTheorems,
        WellFoundedInduction, TLAPS

(* What the CHOOSEs of least and greatest elements find.                   *)
LEMMA LeastOf ==
    ASSUME NEW S, S \subseteq Nat, S # {}
    PROVE  \E k \in S : \A j \in S : k <= j
<1> DEFINE less == {ss \in Nat \X Nat : ss[1] < ss[2]}
<1>1. IsWellFoundedOn(less, Nat) BY NatLessThanWellFounded DEF OpToRel
<1> HIDE DEF less
<1>2. \E k \in S : \A j \in S : <<j, k>> \notin less BY <1>1, WFMin
<1>3. ASSUME NEW k \in Nat, NEW j \in Nat, <<j, k>> \notin less PROVE k <= j
  BY <1>3 DEF less
<1> QED BY <1>2, <1>3

LEMMA GreatestOf ==
    ASSUME NEW n \in Nat, NEW S, S \subseteq 0 .. n, S # {}
    PROVE  \E k \in S : \A j \in S : j <= k
<1> DEFINE D == {n - j : j \in S}
<1>1. D \subseteq Nat /\ D # {}
  <2>1. PICK j \in S : TRUE OBVIOUS
  <2>2. n - j \in D OBVIOUS
  <2>3. \A i \in S : n - i \in Nat OBVIOUS
  <2> QED BY <2>2, <2>3
<1>2. PICK d \in D : \A e \in D : d <= e BY <1>1, LeastOf
<1>3. PICK k \in S : d = n - k BY <1>2
<1>4. ASSUME NEW j \in S PROVE j <= k
  <2>1. n - k <= n - j BY <1>2, <1>3
  <2> QED BY <2>1
<1> QED BY <1>4

----------------------------------------------------------------------------
(* The slots that t has, as NeedOf counts them.                            *)
HeldBy(t, type, cpu) == {e \in reserved : e.target = t /\ e.type = type /\ cpu \in On(e.cpu)}

(* The list of task events is what is reserved of them, and the table has  *)
(* the shape the toggles rely on.                                          *)
SlotsShape ==
    /\ reserved \subseteq Events
    /\ bp_task_head = {e \in reserved : e.target # NoTask}
    /\ nr_cpu_bp_pinned \in [Types -> [Cpus -> Int]]
    /\ nr_task_bp_pinned = [y \in Types |-> nr_task_bp_pinned[y]]
    /\ \A y \in Types : nr_task_bp_pinned[y] \in [Cpus -> [0 .. nr_slots[y] - 1 -> Int]]

SlotsInv == SlotsShape /\ TableIsExact /\ NeverOvercommitted

LEMMA NeedIsNat ==
    ASSUME reserved \subseteq Events
    PROVE  \A t, y, c : IsFiniteSet(HeldBy(t, y, c)) /\ NeedOf(t, y, c) \in Nat
                        /\ NeedOf(t, y, c) = Cardinality(HeldBy(t, y, c))
<1> SUFFICES ASSUME NEW t, NEW y, NEW c
             PROVE  IsFiniteSet(HeldBy(t, y, c)) /\ NeedOf(t, y, c) \in Nat
                    /\ NeedOf(t, y, c) = Cardinality(HeldBy(t, y, c))
  OBVIOUS
<1>1. HeldBy(t, y, c) \subseteq Events /\ IsFiniteSet(Events)
  BY SlotsAssumption DEF HeldBy
<1>2. IsFiniteSet(HeldBy(t, y, c)) BY <1>1, FS_Subset
<1> QED BY <1>2, FS_CardinalityType DEF NeedOf, HeldBy

(* What an event needs is one slot on each of its cpus.                    *)
Needs1(bp, t, y, c) == t = bp.target /\ y = bp.type /\ c \in On(bp.cpu)

LEMMA NeedGrows ==
    ASSUME reserved \subseteq Events, NEW bp \in Events, bp \notin reserved,
           reserved' = reserved \cup {bp}, NEW t, NEW y, NEW c
    PROVE  NeedOf(t, y, c)' = NeedOf(t, y, c) + IF Needs1(bp, t, y, c) THEN 1 ELSE 0
<1>1. reserved' \subseteq Events OBVIOUS
<1>2. NeedOf(t, y, c)' = Cardinality(HeldBy(t, y, c)') BY DEF NeedOf, HeldBy
<1>3. IsFiniteSet(HeldBy(t, y, c)) /\ NeedOf(t, y, c) \in Nat
      /\ NeedOf(t, y, c) = Cardinality(HeldBy(t, y, c))
  BY NeedIsNat
<1>4. CASE Needs1(bp, t, y, c)
  <2>1. HeldBy(t, y, c)' = HeldBy(t, y, c) \cup {bp} /\ bp \notin HeldBy(t, y, c)
    BY <1>4 DEF HeldBy, Needs1, On
  <2> QED BY <1>2, <1>3, <1>4, <2>1, FS_AddElement
<1>5. CASE ~Needs1(bp, t, y, c)
  <2>1. HeldBy(t, y, c)' = HeldBy(t, y, c) BY <1>5 DEF HeldBy, Needs1, On
  <2> QED BY <1>2, <1>3, <1>5, <2>1
<1> QED BY <1>4, <1>5

LEMMA NeedShrinks ==
    ASSUME reserved \subseteq Events, NEW bp \in reserved,
           reserved' = reserved \ {bp}, NEW t, NEW y, NEW c
    PROVE  NeedOf(t, y, c)' = NeedOf(t, y, c) - IF Needs1(bp, t, y, c) THEN 1 ELSE 0
<1>2. NeedOf(t, y, c)' = Cardinality(HeldBy(t, y, c)') BY DEF NeedOf, HeldBy
<1>3. IsFiniteSet(HeldBy(t, y, c)) /\ NeedOf(t, y, c) \in Nat
      /\ NeedOf(t, y, c) = Cardinality(HeldBy(t, y, c))
  BY NeedIsNat
<1>4. CASE Needs1(bp, t, y, c)
  <2>1. HeldBy(t, y, c)' = HeldBy(t, y, c) \ {bp} /\ bp \in HeldBy(t, y, c)
    BY <1>4 DEF HeldBy, Needs1, On
  <2> QED BY <1>2, <1>3, <1>4, <2>1, FS_RemoveElement
<1>5. CASE ~Needs1(bp, t, y, c)
  <2>1. HeldBy(t, y, c)' = HeldBy(t, y, c) BY <1>5 DEF HeldBy, Needs1, On
  <2> QED BY <1>2, <1>3, <1>5, <2>1
<1> QED BY <1>4, <1>5

(* task_bp_pinned leaves the event itself out.                             *)
LEMMA OthersOfTask ==
    ASSUME SlotsShape, NEW bp \in Events, bp.target # NoTask, NEW c \in On(bp.cpu)
    PROVE  task_bp_pinned(c, bp, bp.type)
             = NeedOf(bp.target, bp.type, c) - IF bp \in reserved THEN 1 ELSE 0
<1> DEFINE others == {e \in bp_task_head \ {bp} : /\ e.target = bp.target /\ e.type = bp.type
                                                  /\ c \in On(e.cpu)}
           H == HeldBy(bp.target, bp.type, c)
<1>1. IsFiniteSet(H) /\ NeedOf(bp.target, bp.type, c) = Cardinality(H)
      /\ Cardinality(H) \in Nat
  BY NeedIsNat DEF SlotsShape
<1>2. others = H \ {bp} /\ (bp \in H <=> bp \in reserved) BY DEF SlotsShape, HeldBy
<1>3. Cardinality(H \ {bp}) = Cardinality(H) - IF bp \in H THEN 1 ELSE 0
  <2>1. CASE bp \in H BY <1>1, <2>1, FS_RemoveElement
  <2>2. CASE bp \notin H
    <3>1. H \ {bp} = H BY <2>2
    <3> QED BY <1>1, <2>2, <3>1
  <2> QED BY <2>1, <2>2
<1> QED BY <1>1, <1>2, <1>3 DEF task_bp_pinned

(* How the tasks are distributed when one of them has one breakpoint more. *)
LEMMA OneMoves ==
    ASSUME NEW T, IsFiniteSet(T), NEW a \in T, NEW f \in [T -> Nat], NEW g \in [T -> Nat],
           g = [f EXCEPT ![a] = f[a] + 1], NEW n \in Nat
    PROVE  Cardinality({t \in T : g[t] = n + 1})
             = Cardinality({t \in T : f[t] = n + 1})
               + IF n = f[a] THEN 1 ELSE IF n = f[a] - 1 THEN -1 ELSE 0
<1> DEFINE F == {t \in T : f[t] = n + 1}
           G == {t \in T : g[t] = n + 1}
<1>1. IsFiniteSet(F) /\ Cardinality(F) \in Nat
  <2>1. F \subseteq T OBVIOUS
  <2> QED BY <2>1, FS_Subset, FS_CardinalityType
<1>2. CASE n = f[a]
  <2>1. G = F \cup {a} /\ a \notin F BY <1>2
  <2> QED BY <1>1, <1>2, <2>1, FS_AddElement
<1>3. CASE n = f[a] - 1
  <2>1. G = F \ {a} /\ a \in F BY <1>3
  <2> QED BY <1>1, <1>3, <2>1, FS_RemoveElement
<1>4. CASE n # f[a] /\ n # f[a] - 1
  <2>1. G = F BY <1>4
  <2> QED BY <1>1, <1>4, <2>1
<1> QED BY <1>2, <1>3, <1>4

TasksWith(y, c, n) == Cardinality({t \in Tasks : NeedOf(t, y, c) = n + 1})

LEMMA TasksAreFinite == IsFiniteSet(Tasks)
<1> DEFINE T == {bp.target : bp \in Events}
           f == [bp \in Events |-> bp.target]
<1>1. IsFiniteSet(T)
  <2>1. f \in Surjection(Events, T) BY DEF Surjection
  <2> QED BY <2>1, SlotsAssumption, FS_Surjection
<1> QED BY <1>1, FS_Subset DEF Tasks

LEMMA TasksMove ==
    ASSUME reserved \subseteq Events, reserved' \subseteq Events,
           NEW a \in Tasks, NEW y \in Types, NEW c \in Cpus,
           NEW by \in {1, -1}, NeedOf(a, y, c)' = NeedOf(a, y, c) + by,
           \A t \in Tasks \ {a} : NeedOf(t, y, c)' = NeedOf(t, y, c), NEW n \in Nat
    PROVE  LET old == IF by = 1 THEN NeedOf(a, y, c) ELSE NeedOf(a, y, c) - 1
           IN  TasksWith(y, c, n)' = TasksWith(y, c, n)
                 + IF n = old THEN by ELSE IF n = old - 1 THEN -by ELSE 0
<1> DEFINE f == [t \in Tasks |-> NeedOf(t, y, c)]
           g == [t \in Tasks |-> NeedOf(t, y, c)']
<1>1. f \in [Tasks -> Nat] BY NeedIsNat
<1>2. \A t : NeedOf(t, y, c)' \in Nat
  <2> SUFFICES ASSUME NEW t PROVE NeedOf(t, y, c)' \in Nat OBVIOUS
  <2>1. HeldBy(t, y, c)' \subseteq Events /\ IsFiniteSet(Events) BY SlotsAssumption DEF HeldBy
  <2>2. NeedOf(t, y, c)' = Cardinality(HeldBy(t, y, c)') BY DEF NeedOf, HeldBy
  <2> QED BY <2>1, <2>2, FS_Subset, FS_CardinalityType
<1>3. g \in [Tasks -> Nat] BY <1>2
<1>4. TasksWith(y, c, n) = Cardinality({t \in Tasks : f[t] = n + 1}) BY DEF TasksWith
<1>5. TasksWith(y, c, n)' = Cardinality({t \in Tasks : g[t] = n + 1}) BY DEF TasksWith, Tasks
<1>6. Cardinality({t \in Tasks : f[t] = n + 1}) \in Nat
      /\ Cardinality({t \in Tasks : g[t] = n + 1}) \in Nat
  <2>1. {t \in Tasks : f[t] = n + 1} \subseteq Tasks /\ {t \in Tasks : g[t] = n + 1} \subseteq Tasks
    OBVIOUS
  <2> QED BY <2>1, TasksAreFinite, FS_Subset, FS_CardinalityType
<1>7. f[a] = NeedOf(a, y, c) /\ g[a] = f[a] + by /\ \A t \in Tasks \ {a} : g[t] = f[t]
  OBVIOUS
<1> HIDE DEF f, g
<1>8. CASE by = 1
  <2>1. g = [f EXCEPT ![a] = f[a] + 1] BY <1>1, <1>3, <1>7, <1>8
  <2> QED BY <1>1, <1>3, <1>4, <1>5, <1>7, <1>8, <2>1, TasksAreFinite, OneMoves
<1>9. CASE by = -1
  <2>1. f = [g EXCEPT ![a] = g[a] + 1] BY <1>1, <1>3, <1>7, <1>9
  <2>2. Cardinality({t \in Tasks : f[t] = n + 1}) = Cardinality({t \in Tasks : g[t] = n + 1})
           + IF n = g[a] THEN 1 ELSE IF n = g[a] - 1 THEN -1 ELSE 0
    BY <1>1, <1>3, <2>1, TasksAreFinite, OneMoves
  <2>3. g[a] = NeedOf(a, y, c) - 1 /\ g[a] \in Nat BY <1>1, <1>3, <1>7, <1>9
  <2> QED BY <1>4, <1>5, <1>6, <1>9, <2>2, <2>3
<1> QED BY <1>8, <1>9

(* An event on or off the table, whose need changes by one on its cpus.    *)
Toggled(bp, by) ==
    /\ bp \in Events /\ by \in {1, -1}
    /\ toggle_bp_slot(bp, by)
    /\ by = 1 => bp \notin reserved /\ reserved' = reserved \cup {bp}
    /\ by = -1 => bp \in reserved /\ reserved' = reserved \ {bp}

LEMMA NeedToggles ==
    ASSUME SlotsShape, NEW bp, NEW by, Toggled(bp, by)
    PROVE  /\ reserved' \subseteq Events
           /\ \A t, y, c : NeedOf(t, y, c)'
                = NeedOf(t, y, c) + IF Needs1(bp, t, y, c) THEN by ELSE 0
<1>1. reserved \subseteq Events /\ reserved' \subseteq Events BY DEF SlotsShape, Toggled
<1>2. ASSUME NEW t, NEW y, NEW c
      PROVE  NeedOf(t, y, c)' = NeedOf(t, y, c) + IF Needs1(bp, t, y, c) THEN by ELSE 0
  <2>1. CASE by = 1 BY <1>1, <2>1, NeedGrows DEF Toggled
  <2>2. CASE by = -1
    <3>1. NeedOf(t, y, c)' = NeedOf(t, y, c) - IF Needs1(bp, t, y, c) THEN 1 ELSE 0
      BY <1>1, <2>2, NeedShrinks DEF Toggled
    <3>2. NeedOf(t, y, c) \in Nat BY <1>1, NeedIsNat
    <3> QED BY <2>2, <3>1, <3>2
  <2> QED BY <2>1, <2>2 DEF Toggled
<1> QED BY <1>1, <1>2

(* An event bound to a cpu moves the number of that cpu's own.             *)
LEMMA CpuToggles ==
    ASSUME SlotsShape, TableIsExact, NEW bp, NEW by, Toggled(bp, by), bp.target = NoTask
    PROVE  SlotsShape' /\ TableIsExact'
<1>1. bp \in Events /\ bp.type \in Types /\ bp.cpu \in Cpus /\ On(bp.cpu) = {bp.cpu}
  BY SlotsAssumption DEF Toggled, On
<1>2. /\ nr_cpu_bp_pinned' = [nr_cpu_bp_pinned EXCEPT ![bp.type][bp.cpu] = @ + by]
      /\ UNCHANGED <<nr_task_bp_pinned, bp_task_head>> /\ by \in {1, -1}
  BY DEF Toggled, toggle_bp_slot
<1>3. /\ reserved' \subseteq Events
      /\ \A t, y, c : NeedOf(t, y, c)'
           = NeedOf(t, y, c) + IF Needs1(bp, t, y, c) THEN by ELSE 0
  BY NeedToggles
<1>4. \A t, y, c : NeedOf(t, y, c) \in Nat BY NeedIsNat DEF SlotsShape
<1>5. SlotsShape'
  <2>1. nr_cpu_bp_pinned' \in [Types -> [Cpus -> Int]] BY <1>1, <1>2 DEF SlotsShape
  <2>2. bp_task_head' = {e \in reserved' : e.target # NoTask}
    BY <1>2 DEF SlotsShape, Toggled
  <2> QED BY <1>2, <1>3, <2>1, <2>2 DEF SlotsShape
<1>6. ASSUME NEW y \in Types, NEW c \in Cpus
      PROVE  nr_cpu_bp_pinned'[y][c] = NeedOf(NoTask, y, c)'
  <2>1. nr_cpu_bp_pinned[y][c] = NeedOf(NoTask, y, c) BY DEF TableIsExact
  <2>2. nr_cpu_bp_pinned'[y][c] = nr_cpu_bp_pinned[y][c]
           + IF y = bp.type /\ c = bp.cpu THEN by ELSE 0
    BY <1>1, <1>2 DEF SlotsShape
  <2> QED BY <1>1, <1>3, <1>4, <2>1, <2>2 DEF Needs1
<1>7. ASSUME NEW y \in Types, NEW c \in Cpus, NEW n \in 0 .. nr_slots[y] - 1
      PROVE  nr_task_bp_pinned'[y][c][n] = TasksWith(y, c, n)'
  <2>1. \A t \in Tasks : NeedOf(t, y, c)' = NeedOf(t, y, c)
    BY <1>3, <1>4 DEF Needs1, Tasks
  <2>2. TasksWith(y, c, n)' = TasksWith(y, c, n) BY <2>1 DEF TasksWith, Tasks
  <2>3. nr_task_bp_pinned[y][c][n] = TasksWith(y, c, n) BY DEF TableIsExact, TasksWith
  <2> QED BY <1>2, <2>2, <2>3
<1>8. TableIsExact' BY <1>6, <1>7 DEF TableIsExact, TasksWith
<1> QED BY <1>5, <1>8

(* One bound to a task moves the task between its numbers of breakpoints.  *)
LEMMA TaskToggles ==
    ASSUME SlotsShape, TableIsExact, NEW bp, NEW by, Toggled(bp, by), bp.target # NoTask
    PROVE  SlotsShape' /\ TableIsExact'
<1> DEFINE y0 == bp.type
           a == bp.target
           old(c) == task_bp_pinned(c, bp, y0)
<1>1. /\ bp \in Events /\ y0 \in Types /\ On(bp.cpu) \subseteq Cpus /\ a \in Tasks
      /\ nr_slots \in [Types -> Nat]
  BY SlotsAssumption DEF Toggled, On, Tasks
<1>2. /\ nr_task_bp_pinned' =
           [nr_task_bp_pinned EXCEPT ![y0] =
              [c \in Cpus |-> [n \in DOMAIN @[c] |->
                 IF c \notin On(bp.cpu) THEN @[c][n]
                 ELSE IF n = old(c) THEN @[c][n] + by
                 ELSE IF n = old(c) - 1 THEN @[c][n] - by
                 ELSE @[c][n]]]]
      /\ UNCHANGED nr_cpu_bp_pinned /\ by \in {1, -1}
      /\ bp_task_head' = IF by = 1 THEN bp_task_head \cup {bp} ELSE bp_task_head \ {bp}
  BY DEF Toggled, toggle_bp_slot, toggle_bp_task_slot
<1>3. /\ reserved' \subseteq Events
      /\ \A t, y, c : NeedOf(t, y, c)'
           = NeedOf(t, y, c) + IF Needs1(bp, t, y, c) THEN by ELSE 0
  BY NeedToggles
<1>4. reserved \subseteq Events /\ \A t, y, c : NeedOf(t, y, c) \in Nat
  BY NeedIsNat DEF SlotsShape
<1>5. ASSUME NEW c \in On(bp.cpu)
      PROVE  old(c) = IF by = 1 THEN NeedOf(a, y0, c) ELSE NeedOf(a, y0, c) - 1
  <2>1. task_bp_pinned(c, bp, bp.type)
          = NeedOf(bp.target, bp.type, c) - IF bp \in reserved THEN 1 ELSE 0
    BY <1>1, OthersOfTask
  <2> QED BY <1>2, <1>4, <2>1 DEF Toggled
<1> HIDE DEF old
<1>6. ASSUME NEW y \in Types, NEW c \in Cpus, NEW n \in 0 .. nr_slots[y] - 1
      PROVE  nr_task_bp_pinned'[y][c][n] =
                IF y # y0 \/ c \notin On(bp.cpu) THEN nr_task_bp_pinned[y][c][n]
                ELSE IF n = old(c) THEN nr_task_bp_pinned[y][c][n] + by
                ELSE IF n = old(c) - 1 THEN nr_task_bp_pinned[y][c][n] - by
                ELSE nr_task_bp_pinned[y][c][n]
  BY <1>1, <1>2 DEF SlotsShape
<1>7. SlotsShape'
  <2>1. nr_task_bp_pinned' = [y \in Types |-> nr_task_bp_pinned'[y]]
    BY <1>1, <1>2 DEF SlotsShape
  <2>2. ASSUME NEW y \in Types
        PROVE  nr_task_bp_pinned'[y] \in [Cpus -> [0 .. nr_slots[y] - 1 -> Int]]
    <3>1. CASE y # y0 BY <1>1, <1>2, <3>1 DEF SlotsShape
    <3>2. CASE y = y0
      <4> DEFINE row == nr_task_bp_pinned[y0]
                 N == 0 .. nr_slots[y0] - 1
                 new == [c \in Cpus |-> [n \in DOMAIN row[c] |->
                           IF c \notin On(bp.cpu) THEN row[c][n]
                           ELSE IF n = old(c) THEN row[c][n] + by
                           ELSE IF n = old(c) - 1 THEN row[c][n] - by
                           ELSE row[c][n]]]
      <4>1. nr_task_bp_pinned'[y0] = new BY <1>1, <1>2 DEF SlotsShape
      <4>2. row \in [Cpus -> [N -> Int]] BY <1>1 DEF SlotsShape
      <4> HIDE DEF row, N
      <4>3. new \in [Cpus -> [N -> Int]] BY <1>2, <4>2
      <4> QED BY <3>2, <4>1, <4>3 DEF N
    <3> QED BY <3>1, <3>2
  <2>3. bp_task_head' = {e \in reserved' : e.target # NoTask}
    BY <1>2 DEF SlotsShape, Toggled
  <2> QED BY <1>2, <1>3, <2>1, <2>2, <2>3 DEF SlotsShape
<1>8. ASSUME NEW y \in Types, NEW c \in Cpus
      PROVE  nr_cpu_bp_pinned'[y][c] = NeedOf(NoTask, y, c)'
  <2>1. NeedOf(NoTask, y, c)' = NeedOf(NoTask, y, c) BY <1>3, <1>4 DEF Needs1
  <2> QED BY <1>2, <2>1 DEF TableIsExact
<1>9. ASSUME NEW y \in Types, NEW c \in Cpus, NEW n \in 0 .. nr_slots[y] - 1
      PROVE  nr_task_bp_pinned'[y][c][n] = TasksWith(y, c, n)'
  <2>1. n \in Nat /\ by \in {1, -1}
    <3>1. nr_slots[y] \in Nat BY <1>1
    <3> QED BY <1>2, <3>1
  <2>2. nr_task_bp_pinned[y][c][n] = TasksWith(y, c, n) BY DEF TableIsExact, TasksWith
  <2>3. nr_task_bp_pinned[y][c][n] \in Int
    <3>1. nr_task_bp_pinned[y] \in [Cpus -> [0 .. nr_slots[y] - 1 -> Int]] BY DEF SlotsShape
    <3> QED BY <3>1
  <2>4. CASE y = y0 /\ c \in On(bp.cpu)
    <3>1. NeedOf(a, y, c)' = NeedOf(a, y, c) + by
          /\ \A t \in Tasks \ {a} : NeedOf(t, y, c)' = NeedOf(t, y, c)
      BY <1>3, <1>4, <2>4 DEF Needs1
    <3>2. TasksWith(y, c, n)' = TasksWith(y, c, n)
            + IF n = old(c) THEN by ELSE IF n = old(c) - 1 THEN -by ELSE 0
      <4>1. TasksWith(y, c, n)' = TasksWith(y, c, n)
              + IF n = (IF by = 1 THEN NeedOf(a, y, c) ELSE NeedOf(a, y, c) - 1) THEN by
                ELSE IF n = (IF by = 1 THEN NeedOf(a, y, c) ELSE NeedOf(a, y, c) - 1) - 1
                     THEN -by ELSE 0
        BY <1>1, <1>3, <1>4, <2>1, <3>1, TasksMove
      <4>2. old(c) = IF by = 1 THEN NeedOf(a, y, c) ELSE NeedOf(a, y, c) - 1
        BY <1>5, <2>4
      <4> QED BY <4>1, <4>2
    <3>3. nr_task_bp_pinned'[y][c][n] =
             IF n = old(c) THEN nr_task_bp_pinned[y][c][n] + by
             ELSE IF n = old(c) - 1 THEN nr_task_bp_pinned[y][c][n] - by
             ELSE nr_task_bp_pinned[y][c][n]
      BY <1>6, <2>4
    <3> QED BY <2>1, <2>2, <2>3, <3>2, <3>3
  <2>5. CASE ~(y = y0 /\ c \in On(bp.cpu))
    <3>1. \A t \in Tasks : NeedOf(t, y, c)' = NeedOf(t, y, c) BY <1>3, <1>4, <2>5 DEF Needs1
    <3>2. TasksWith(y, c, n)' = TasksWith(y, c, n) BY <3>1 DEF TasksWith, Tasks
    <3> QED BY <1>6, <2>2, <2>5, <3>2
  <2> QED BY <2>4, <2>5
<1>10. TableIsExact' BY <1>8, <1>9 DEF TableIsExact, TasksWith
<1> QED BY <1>7, <1>10

(* max_task_bp_pinned is no less than what any task has.                   *)
LEMMA MaxIsEnough ==
    ASSUME SlotsInv, NEW y \in Types, NEW c \in Cpus, NEW t \in Tasks
    PROVE  NeedOf(t, y, c) <= max_task_bp_pinned(c, y) /\ max_task_bp_pinned(c, y) \in Nat
<1> DEFINE held == {n \in 0 .. nr_slots[y] - 1 : nr_task_bp_pinned[y][c][n] > 0}
           k == NeedOf(t, y, c)
<1>1. k \in Nat /\ k <= nr_slots[y] /\ nr_slots[y] \in Nat
  <2>1. NeedOf(NoTask, y, c) \in Nat /\ k \in Nat BY NeedIsNat DEF SlotsInv, SlotsShape
  <2>2. nr_slots[y] \in Nat /\ NeedOf(NoTask, y, c) + k <= nr_slots[y]
    BY SlotsAssumption DEF SlotsInv, NeverOvercommitted
  <2> HIDE DEF k
  <2> QED BY <2>1, <2>2
<1>2. CASE held = {}
  <2>1. k = 0
    <3> SUFFICES ASSUME k > 0 PROVE FALSE BY <1>1
    <3> DEFINE S == {u \in Tasks : NeedOf(u, y, c) = (k - 1) + 1}
    <3>1. t \in S BY <1>1
    <3>2. IsFiniteSet(S) /\ Cardinality(S) \in Nat
      <4>1. S \subseteq Tasks OBVIOUS
      <4> QED BY <4>1, TasksAreFinite, FS_Subset, FS_CardinalityType
    <3>3. Cardinality(S) # 0 BY <3>1, <3>2, FS_EmptySet
    <3>4. k - 1 \in 0 .. nr_slots[y] - 1 BY <1>1
    <3>5. nr_task_bp_pinned[y][c][k - 1] = Cardinality(S)
      BY <3>4 DEF SlotsInv, TableIsExact
    <3> QED BY <1>2, <3>2, <3>3, <3>4, <3>5
  <2> QED BY <1>2, <2>1 DEF max_task_bp_pinned
<1>3. CASE held # {}
  <2> DEFINE m == CHOOSE n \in held : \A j \in held : j <= n
  <2>1. m \in held /\ \A j \in held : j <= m
    <3>1. nr_slots[y] - 1 \in Nat /\ held \subseteq 0 .. nr_slots[y] - 1 BY <1>1, <1>3
    <3> HIDE DEF held
    <3>2. \E n \in held : \A j \in held : j <= n BY <1>3, <3>1, GreatestOf
    <3> QED BY <3>2
  <2>2. max_task_bp_pinned(c, y) = 1 + m BY <1>3 DEF max_task_bp_pinned
  <2> HIDE DEF m
  <2>3. m \in Nat BY <1>1, <2>1
  <2>4. CASE k = 0 BY <2>2, <2>3, <2>4
  <2>5. CASE k # 0
    <3> DEFINE S == {u \in Tasks : NeedOf(u, y, c) = (k - 1) + 1}
    <3>1. t \in S BY <1>1
    <3>2. IsFiniteSet(S) /\ Cardinality(S) \in Nat
      <4>1. S \subseteq Tasks OBVIOUS
      <4> QED BY <4>1, TasksAreFinite, FS_Subset, FS_CardinalityType
    <3>3. Cardinality(S) # 0 BY <3>1, <3>2, FS_EmptySet
    <3>4. k - 1 \in 0 .. nr_slots[y] - 1 BY <1>1, <2>5
    <3>5. nr_task_bp_pinned[y][c][k - 1] = Cardinality(S)
      BY <3>4 DEF SlotsInv, TableIsExact
    <3>6. k - 1 \in held BY <3>2, <3>3, <3>4, <3>5
    <3>7. k - 1 <= m BY <2>1, <3>6
    <3>8. k <= max_task_bp_pinned(c, y) /\ max_task_bp_pinned(c, y) \in Nat
      <4> HIDE DEF k
      <4> QED BY <1>1, <2>2, <2>3, <3>7
    <3> QED BY <3>8
  <2> QED BY <2>4, <2>5
<1> QED BY <1>2, <1>3

(* __reserve_bp_slot admits what fits, and a release only takes away.      *)
LEMMA SlotsToggle ==
    ASSUME SlotsInv, NEW bp, NEW by, Toggled(bp, by), by = 1 => Fits(bp)
    PROVE  SlotsInv'
<1>1. SlotsShape' /\ TableIsExact' BY CpuToggles, TaskToggles DEF SlotsInv
<1>2. /\ bp \in Events /\ bp.type \in Types /\ On(bp.cpu) \subseteq Cpus /\ by \in {1, -1}
      /\ nr_slots \in [Types -> Nat]
  BY SlotsAssumption DEF Toggled, On
<1>3. \A t, y, c : NeedOf(t, y, c)'
         = NeedOf(t, y, c) + IF Needs1(bp, t, y, c) THEN by ELSE 0
  BY NeedToggles DEF SlotsInv
<1>4. \A t, y, c : NeedOf(t, y, c) \in Nat BY NeedIsNat DEF SlotsInv, SlotsShape
<1>5. NoTask \notin Tasks BY DEF Tasks
<1>6. ASSUME NEW y \in Types, NEW c \in Cpus
      PROVE  /\ NeedOf(NoTask, y, c)' <= nr_slots[y]
             /\ \A t \in Tasks : NeedOf(NoTask, y, c)' + NeedOf(t, y, c)' <= nr_slots[y]
  <2>0. /\ NeedOf(NoTask, y, c) <= nr_slots[y] /\ nr_slots[y] \in Nat
        /\ \A t \in Tasks : NeedOf(NoTask, y, c) + NeedOf(t, y, c) <= nr_slots[y]
    BY <1>2 DEF SlotsInv, NeverOvercommitted
  <2>1. CASE by = -1
    <3>1. \A t : NeedOf(t, y, c)' <= NeedOf(t, y, c) /\ NeedOf(t, y, c)' \in Int
      BY <1>3, <1>4, <2>1
    <3> QED BY <1>4, <2>0, <3>1
  <2>2. CASE ~(y = bp.type /\ c \in On(bp.cpu))
    <3>1. \A t : NeedOf(t, y, c)' = NeedOf(t, y, c) BY <1>3, <1>4, <2>2 DEF Needs1
    <3> QED BY <2>0, <3>1
  <2>3. CASE by = 1 /\ y = bp.type /\ c \in On(bp.cpu)
    <3>1. Busy(bp, c) + 1 <= nr_slots[y] BY <2>3 DEF Fits
    <3>2. nr_cpu_bp_pinned[y][c] = NeedOf(NoTask, y, c) BY DEF SlotsInv, TableIsExact
    <3>3. CASE bp.target = NoTask
      <4>1. NeedOf(NoTask, y, c)' = NeedOf(NoTask, y, c) + 1
            /\ \A t \in Tasks : NeedOf(t, y, c)' = NeedOf(t, y, c)
        BY <1>3, <1>4, <1>5, <2>3, <3>3 DEF Needs1
      <4>2. NeedOf(NoTask, y, c) + max_task_bp_pinned(c, y) + 1 <= nr_slots[y]
        BY <2>3, <3>1, <3>2, <3>3 DEF Busy
      <4>3. ASSUME NEW t \in Tasks
            PROVE NeedOf(NoTask, y, c)' + NeedOf(t, y, c)' <= nr_slots[y]
        <5>1. NeedOf(t, y, c) <= max_task_bp_pinned(c, y) /\ max_task_bp_pinned(c, y) \in Nat
          BY MaxIsEnough
        <5> QED BY <1>4, <2>0, <4>1, <4>2, <5>1
      <4>4. max_task_bp_pinned(c, y) \in Nat
        <5> DEFINE held == {n \in 0 .. nr_slots[y] - 1 : nr_task_bp_pinned[y][c][n] > 0}
        <5>1. CASE held = {} BY <5>1 DEF max_task_bp_pinned
        <5>2. CASE held # {}
          <6>1. nr_slots[y] - 1 \in Nat /\ held \subseteq 0 .. nr_slots[y] - 1 BY <2>0, <5>2
          <6>2. max_task_bp_pinned(c, y) = 1 + CHOOSE n \in held : \A j \in held : j <= n
            BY <5>2 DEF max_task_bp_pinned
          <6> DEFINE m == CHOOSE n \in held : \A j \in held : j <= n
          <6>3. m \in held
            <7> HIDE DEF held
            <7>1. \E n \in held : \A j \in held : j <= n BY <5>2, <6>1, GreatestOf
            <7> QED BY <7>1
          <6>4. max_task_bp_pinned(c, y) = 1 + m BY <6>2
          <6> HIDE DEF m, held
          <6>5. m \in Nat BY <2>0, <6>1, <6>3
          <6> QED BY <6>4, <6>5
        <5> QED BY <5>1, <5>2
      <4> QED BY <1>4, <2>0, <4>1, <4>2, <4>3, <4>4
    <3>4. CASE bp.target # NoTask
      <4>1. NeedOf(NoTask, y, c)' = NeedOf(NoTask, y, c)
            /\ \A t \in Tasks : NeedOf(t, y, c)' =
                  NeedOf(t, y, c) + IF t = bp.target THEN 1 ELSE 0
        BY <1>3, <1>4, <2>3, <3>4 DEF Needs1
      <4>2. task_bp_pinned(c, bp, bp.type) = NeedOf(bp.target, y, c)
        BY <1>2, <1>4, <2>3, <3>4, OthersOfTask DEF Toggled, SlotsInv
      <4>3. NeedOf(NoTask, y, c) + NeedOf(bp.target, y, c) + 1 <= nr_slots[y]
        BY <2>3, <3>1, <3>2, <3>4, <4>2 DEF Busy
      <4> QED BY <1>4, <2>0, <4>1, <4>3
    <3> QED BY <3>3, <3>4
  <2> QED BY <1>2, <2>1, <2>2, <2>3
<1>7. NeverOvercommitted' BY <1>6 DEF NeverOvercommitted, Tasks
<1> QED BY <1>1, <1>7 DEF SlotsInv

LEMMA SlotsStart == SlotsInit => SlotsInv
<1> SUFFICES ASSUME SlotsInit PROVE SlotsInv OBVIOUS
<1>1. \A t, y, c : NeedOf(t, y, c) = 0
  <2>1. \A t, y, c : HeldBy(t, y, c) = {} BY DEF SlotsInit, HeldBy
  <2>2. reserved \subseteq Events BY DEF SlotsInit
  <2> QED BY <2>1, <2>2, NeedIsNat, FS_EmptySet
<1>2. nr_slots \in [Types -> Nat] BY SlotsAssumption
<1>3. SlotsShape
  <2>1. nr_cpu_bp_pinned \in [Types -> [Cpus -> Int]] BY DEF SlotsInit
  <2>2. /\ nr_task_bp_pinned = [y \in Types |-> nr_task_bp_pinned[y]]
        /\ \A y \in Types : nr_task_bp_pinned[y] \in [Cpus -> [0 .. nr_slots[y] - 1 -> Int]]
    BY DEF SlotsInit
  <2> QED BY <2>1, <2>2 DEF SlotsShape, SlotsInit
<1>4. TableIsExact
  <2>1. ASSUME NEW y \in Types, NEW c \in Cpus, NEW n \in 0 .. nr_slots[y] - 1
        PROVE  nr_task_bp_pinned[y][c][n] = Cardinality({t \in Tasks : NeedOf(t, y, c) = n + 1})
    <3>1. {t \in Tasks : NeedOf(t, y, c) = n + 1} = {} BY <1>1
    <3>2. nr_task_bp_pinned[y][c][n] = 0 BY DEF SlotsInit
    <3> QED BY <3>1, <3>2, FS_EmptySet
  <2>2. \A y \in Types, c \in Cpus : nr_cpu_bp_pinned[y][c] = 0 BY DEF SlotsInit
  <2> QED BY <1>1, <2>1, <2>2 DEF TableIsExact
<1>5. NeverOvercommitted BY <1>1, <1>2 DEF NeverOvercommitted
<1> QED BY <1>3, <1>4, <1>5 DEF SlotsInv

LEMMA SlotsStay == ASSUME SlotsInv, UNCHANGED slots PROVE SlotsInv'
<1>1. /\ UNCHANGED <<nr_cpu_bp_pinned, nr_task_bp_pinned, bp_task_head, reserved>>
      /\ \A t, y, c : NeedOf(t, y, c)' = NeedOf(t, y, c)
  BY DEF slots, NeedOf
<1>2. SlotsShape' BY <1>1 DEF SlotsInv, SlotsShape
<1>3. TableIsExact' BY <1>1 DEF SlotsInv, TableIsExact, Tasks
<1>4. NeverOvercommitted' BY <1>1 DEF SlotsInv, NeverOvercommitted, Tasks
<1> QED BY <1>2, <1>3, <1>4 DEF SlotsInv

(* hw_breakpoint.c: "tsk_pinned[n] is the number of tasks having n         *)
(* breakpoints" after any reserves and releases of events of cpus, of      *)
(* tasks and of both; and __reserve_bp_slot, which adds to a cpu's own     *)
(* events those of the task that has the most, never admits one too many.  *)
THEOREM SlotsAreSound == SlotsSpec => []SlotsAreAccounted
<1>1. ASSUME SlotsInv, [SlotsNext]_slots PROVE SlotsInv'
  <2>1. ASSUME NEW bp \in Events, reserve_bp_slot(bp) PROVE SlotsInv'
    <3>1. Toggled(bp, 1) /\ Fits(bp) BY <2>1 DEF reserve_bp_slot, Toggled
    <3> QED BY <1>1, <3>1, SlotsToggle
  <2>2. ASSUME NEW bp \in Events, release_bp_slot(bp) PROVE SlotsInv'
    <3>1. Toggled(bp, -1) BY <2>2 DEF release_bp_slot, Toggled
    <3> QED BY <1>1, <3>1, SlotsToggle
  <2>3. CASE UNCHANGED slots BY <1>1, <2>3, SlotsStay
  <2> QED BY <1>1, <2>1, <2>2, <2>3 DEF SlotsNext
<1>2. SlotsInv => SlotsAreAccounted BY DEF SlotsInv, SlotsAreAccounted
<1> QED BY <1>1, <1>2, SlotsStart, PTL DEF SlotsSpec

----------------------------------------------------------------------------
(* There is room in B for all of A.                                        *)
LEMMA RoomMeansInjection ==
    ASSUME NEW A, NEW B, IsFiniteSet(A), IsFiniteSet(B), Cardinality(A) <= Cardinality(B)
    PROVE  \E f \in [A -> B] : \A x, y \in A : f[x] = f[y] => x = y
<1> DEFINE a == Cardinality(A)
           b == Cardinality(B)
<1>1. /\ a \in Nat /\ ExistsBijection(1 .. a, A)
      /\ b \in Nat /\ ExistsBijection(1 .. b, B)
  BY FS_CardinalityType
<1>2. a <= b OBVIOUS
<1> HIDE DEF a, b
<1>3. ExistsInjection(1 .. a, 1 .. b) BY <1>1, <1>2, Fun_NatInjLeq
<1>4. ExistsInjection(A, 1 .. a)
  <2>1. ExistsBijection(A, 1 .. a) BY <1>1, Fun_ExistsBijSymmetric
  <2> QED BY <2>1, Fun_ExistsBijEquiv
<1>5. ExistsInjection(1 .. b, B) BY <1>1, Fun_ExistsBijEquiv
<1>6. ExistsInjection(A, B) BY <1>3, <1>4, <1>5, Fun_ExistsInjTransitive
<1>7. PICK f : f \in Injection(A, B) BY <1>6 DEF ExistsInjection
<1> QED BY <1>7, Fun_InjectionProperties

Registers == 1 .. nr_slots[WideType]
Unused(held) == {i \in Registers : held[i] = Free}

(* The registers held have the events of S, each of them in one.           *)
Holds(held, S) ==
    /\ held \in [Registers -> Events \cup {Free}]
    /\ \A i, j \in Registers : held[i] = held[j] /\ held[i] # Free => i = j
    /\ {held[i] : i \in Registers} \ {Free} = S

LEMMA RegistersAreCounted ==
    /\ nr_slots[WideType] \in Nat
    /\ IsFiniteSet(Registers) /\ Cardinality(Registers) = nr_slots[WideType]
<1>1. nr_slots[WideType] \in Nat BY SlotsAssumption, DeviceAssumption
<1> QED BY <1>1, FS_Interval DEF Registers

(* A register is in use for each event, and the others are free.           *)
LEMMA FreeAreTheRest ==
    ASSUME NEW held, NEW S, Holds(held, S)
    PROVE  /\ IsFiniteSet(S) /\ Cardinality(S) \in Nat
           /\ IsFiniteSet(Unused(held)) /\ Cardinality(Unused(held)) \in Nat
           /\ Cardinality(S) + Cardinality(Unused(held)) = nr_slots[WideType]
<1> DEFINE taken == Registers \ Unused(held)
           f == [i \in taken |-> held[i]]
<1>1. f \in Bijection(taken, S)
  <2>1. f \in [taken -> S] BY DEF Holds, Unused
  <2>2. \A i, j \in taken : f[i] = f[j] => i = j BY DEF Holds, Unused
  <2>3. \A e \in S : \E i \in taken : f[i] = e BY DEF Holds, Unused
  <2> HIDE DEF f, taken
  <2> QED BY <2>1, <2>2, <2>3, Fun_IsBij
<1>2. IsFiniteSet(taken) /\ IsFiniteSet(Unused(held))
  BY RegistersAreCounted, FS_Subset DEF Unused
<1>3. IsFiniteSet(S) /\ Cardinality(S) = Cardinality(taken)
  <2>1. ExistsBijection(taken, S) BY <1>1 DEF ExistsBijection
  <2> QED BY <1>2, <2>1, FS_Bijection
<1>4. Cardinality(taken) = nr_slots[WideType] - Cardinality(Unused(held))
  <2>1. Registers \cap Unused(held) = Unused(held) BY DEF Unused
  <2> QED BY <2>1, RegistersAreCounted, FS_Difference
<1> HIDE DEF taken
<1> QED BY <1>2, <1>3, <1>4, RegistersAreCounted, FS_CardinalityType

(* arch_install_hw_breakpoint finds a register where the table admits one  *)
(* more event.                                                             *)
LEMMA InstallFits ==
    ASSUME NEW held, NEW S, Holds(held, S), NEW bp \in Events \ S,
           Cardinality(S) + 1 <= nr_slots[WideType]
    PROVE  Holds(install(held, bp), S \cup {bp})
<1>1. DOMAIN held = Registers BY DEF Holds
<1>2. Unused(held) # {}
  <2> SUFFICES ASSUME Unused(held) = {} PROVE FALSE OBVIOUS
  <2>1. Cardinality(Unused(held)) = 0 BY FS_EmptySet
  <2> QED BY <2>1, FreeAreTheRest, RegistersAreCounted
<1>3. First(Unused(held)) \in Unused(held)
  <2>1. Unused(held) \subseteq Nat BY DEF Unused, Registers
  <2> QED BY <1>2, <2>1, LeastOf DEF First
<1>4. PICK k \in Registers : held[k] = Free /\ install(held, bp) = [held EXCEPT ![k] = bp]
  BY <1>1, <1>2, <1>3 DEF install, Unused
<1>5. bp # Free /\ \A i \in Registers : held[i] # bp
  BY DeviceAssumption DEF Holds
<1> DEFINE after == install(held, bp)
<1>6. /\ after \in [Registers -> Events \cup {Free}]
      /\ after[k] = bp /\ \A i \in Registers \ {k} : after[i] = held[i]
  BY <1>4 DEF Holds
<1> HIDE DEF after
<1>7. \A i, j \in Registers : after[i] = after[j] /\ after[i] # Free => i = j
  BY <1>5, <1>6 DEF Holds
<1>8. {after[i] : i \in Registers} \ {Free} = S \cup {bp}
  BY <1>4, <1>5, <1>6 DEF Holds
<1>9. Holds(after, S \cup {bp}) BY <1>6, <1>7, <1>8 DEF Holds
<1> QED BY <1>9 DEF after

LEMMA UninstallTakes ==
    ASSUME NEW held, NEW S, Holds(held, S), NEW gone
    PROVE  Holds(uninstall(held, gone), S \ gone)
<1> DEFINE after == uninstall(held, gone)
<1>1. /\ after \in [Registers -> Events \cup {Free}]
      /\ \A i \in Registers : after[i] = IF held[i] \in gone THEN Free ELSE held[i]
  BY DEF uninstall, Holds
<1> HIDE DEF after
<1>2. \A i, j \in Registers : after[i] = after[j] /\ after[i] # Free => i = j
  BY <1>1 DEF Holds
<1>3. {after[i] : i \in Registers} \ {Free} = S \ gone BY <1>1 DEF Holds
<1>4. Holds(after, S \ gone) BY <1>1, <1>2, <1>3 DEF Holds
<1> QED BY <1>4 DEF after

(* A way to give the new events registers.                                 *)
LEMMA InstalledExists ==
    ASSUME NEW held, NEW S, Holds(held, S), NEW new \in SUBSET Events, IsFiniteSet(new),
           Cardinality(S) + Cardinality(new) <= nr_slots[WideType]
    PROVE  \E after \in [Registers -> Events \cup {Free}] : Installed(held, new, after)
<1>1. Cardinality(new) <= Cardinality(Unused(held)) /\ IsFiniteSet(Unused(held))
  BY FreeAreTheRest, RegistersAreCounted, FS_CardinalityType
<1>2. PICK f \in [new -> Unused(held)] : \A x, y \in new : f[x] = f[y] => x = y
  BY <1>1, RoomMeansInjection
<1> DEFINE after == [i \in Registers |->
                        IF \E e \in new : f[e] = i THEN CHOOSE e \in new : f[e] = i ELSE held[i]]
           given == {i \in DOMAIN held : held[i] = Free /\ after[i] # Free}
<1>3. DOMAIN held = Registers /\ held \in [Registers -> Events \cup {Free}] BY DEF Holds
<1>4. \A e \in new : f[e] \in Registers /\ held[f[e]] = Free BY <1>2 DEF Unused
<1>5. /\ \A e \in new : after[f[e]] = e
      /\ \A i \in Registers : (\E e \in new : f[e] = i) \/ after[i] = held[i]
  BY <1>2, <1>4
<1>6. after \in [Registers -> Events \cup {Free}] BY <1>3
<1> HIDE DEF after
<1>7. \A i \in Registers : i \in given <=> \E e \in new : f[e] = i
  BY <1>3, <1>4, <1>5, DeviceAssumption
<1>8. given \subseteq Registers BY <1>3
<1> HIDE DEF given
<1>9. \A i \in DOMAIN held : after[i] = held[i] \/ (i \in given /\ after[i] \in new)
  BY <1>3, <1>5, <1>7
<1>10. \A i, j \in given : i # j => after[i] # after[j]
  BY <1>5, <1>7, <1>8
<1>11. new \subseteq {after[i] : i \in given} BY <1>4, <1>5, <1>7
<1> QED BY <1>6, <1>9, <1>10, <1>11 DEF Installed, given

(* Whichever way it is, all of them get one.                               *)
LEMMA InstallAllFits ==
    ASSUME NEW held, NEW S, Holds(held, S), NEW new \in SUBSET Events, IsFiniteSet(new),
           S \cap new = {}, Cardinality(S) + Cardinality(new) <= nr_slots[WideType]
    PROVE  Holds(installAll(held, new), S \cup new)
<1> DEFINE after == installAll(held, new)
           given == {i \in DOMAIN held : held[i] = Free /\ after[i] # Free}
           X == {after[i] : i \in given}
<1>1. DOMAIN held = Registers /\ held \in [Registers -> Events \cup {Free}] BY DEF Holds
<1>2. after \in [Registers -> Events \cup {Free}] /\ Installed(held, new, after)
  BY <1>1, InstalledExists DEF installAll
<1> HIDE DEF after
<1>3. /\ \A i \in Registers : after[i] = held[i] \/ (i \in given /\ after[i] \in new)
      /\ \A i, j \in given : i # j => after[i] # after[j]
      /\ (\E i \in Registers : after[i] = Free) => new \subseteq X
  BY <1>1, <1>2 DEF Installed
<1>4. \A i \in Registers : i \in given <=> held[i] = Free /\ after[i] # Free BY <1>1
<1>5. given \subseteq Registers BY <1>1
<1> HIDE DEF given
<1>6. X \subseteq new
  <2> SUFFICES ASSUME NEW i \in given PROVE after[i] \in new OBVIOUS
  <2> QED BY <1>3, <1>4, <1>5
<1>7. Holds(after, S \cup X)
  <2>1. ASSUME NEW i \in Registers, NEW j \in Registers, after[i] = after[j], after[i] # Free
        PROVE  i = j
    <3>1. CASE i \in given /\ j \in given BY <1>3, <2>1, <3>1
    <3>2. CASE i \notin given /\ j \notin given
      BY <1>3, <2>1, <3>2 DEF Holds
    <3>3. ASSUME NEW k \in given, NEW m \in Registers \ given, after[k] = after[m],
                 after[k] # Free
          PROVE  FALSE
      <4>1. after[k] \in new BY <1>6
      <4>2. after[m] = held[m] /\ held[m] # Free BY <1>3, <3>3
      <4>3. after[m] \in S BY <4>2 DEF Holds
      <4> QED BY <3>3, <4>1, <4>3
    <3> QED BY <2>1, <3>1, <3>2, <3>3
  <2>2. {after[i] : i \in Registers} \ {Free} \subseteq S \cup X
    <3> SUFFICES ASSUME NEW i \in Registers, after[i] # Free PROVE after[i] \in S \cup X
      OBVIOUS
    <3> QED BY <1>3 DEF Holds
  <2>3. S \cup X \subseteq {after[i] : i \in Registers} \ {Free}
    <3>1. ASSUME NEW e \in S PROVE e \in {after[i] : i \in Registers} \ {Free}
      <4>1. PICK i \in Registers : held[i] = e /\ e # Free BY <3>1 DEF Holds
      <4>2. after[i] = e BY <1>3, <1>4, <4>1
      <4> QED BY <4>1, <4>2
    <3>2. X \subseteq {after[i] : i \in Registers} \ {Free} BY <1>4, <1>5
    <3> QED BY <3>1, <3>2
  <2> HIDE DEF X
  <2> QED BY <1>2, <2>1, <2>2, <2>3 DEF Holds
<1>8. X = new
  <2>1. CASE \E i \in Registers : after[i] = Free BY <1>3, <1>6, <2>1
  <2>2. CASE ~\E i \in Registers : after[i] = Free
    <3>1. Unused(after) = {} BY <2>2 DEF Unused
    <3>2. Cardinality(S \cup X) = nr_slots[WideType]
      BY <1>7, <3>1, FreeAreTheRest, FS_EmptySet, RegistersAreCounted
    <3>3. IsFiniteSet(X) /\ Cardinality(X) <= Cardinality(new)
          /\ (Cardinality(X) = Cardinality(new) => new = X)
      BY <1>6, FS_Subset
    <3>4. S \cap X = {} BY <1>6
    <3> HIDE DEF X
    <3>5. Cardinality(S \cup X) = Cardinality(S) + Cardinality(X)
      <4>1. IsFiniteSet(S) BY FreeAreTheRest
      <4>2. Cardinality(S \cup X) = Cardinality(S) + Cardinality(X) - 0
        BY <3>3, <3>4, <4>1, FS_Union, FS_EmptySet
      <4>3. Cardinality(S) \in Nat /\ Cardinality(X) \in Nat BY <3>3, <4>1, FS_CardinalityType
      <4> QED BY <4>2, <4>3
    <3>6. Cardinality(S) \in Nat /\ Cardinality(X) \in Nat /\ Cardinality(new) \in Nat
      BY <3>3, FreeAreTheRest, FS_CardinalityType
    <3> QED BY <3>2, <3>3, <3>5, <3>6, RegistersAreCounted
  <2> QED BY <2>1, <2>2
<1> QED BY <1>7, <1>8 DEF after

----------------------------------------------------------------------------
(* The table, what perf has enabled of what is reserved, and the registers *)
(* of each cpu.                                                            *)
(* What the registers of a cpu are for.                                    *)
Due(c) == IF c \in online THEN Wanted(c, running[c]) ELSE {}

RegsInv ==
    /\ online \subseteq Cpus /\ online # {}
    /\ running \in [Cpus -> Tasks \cup {NoTask}]
    /\ \A c \in Cpus \ online : running[c] = NoTask
    /\ active \subseteq reserved
    /\ regs \in [Cpus -> [Registers -> Events \cup {Free}]]
    /\ \A c \in Cpus : Holds(regs[c], Due(c))

CoreInv == SlotsInv /\ RegsInv

(* What may have to be in a cpu's registers at once, which is no more than *)
(* the table has admitted.                                                 *)
BoundTo(c, t) == {bp \in reserved : c \in On(bp.cpu) /\ bp.target \in {NoTask, t}}

LEMMA RoomForAll ==
    ASSUME SlotsInv, NEW c \in Cpus, NEW t \in Tasks \cup {NoTask},
           NEW S \in SUBSET BoundTo(c, t)
    PROVE  IsFiniteSet(S) /\ Cardinality(S) <= nr_slots[WideType] /\ Cardinality(S) \in Nat
<1> DEFINE own == HeldBy(NoTask, WideType, c)
           its == HeldBy(t, WideType, c)
<1>1. reserved \subseteq Events /\ WideType \in Types
  BY DeviceAssumption DEF SlotsInv, SlotsShape
<1>2. /\ IsFiniteSet(own) /\ NeedOf(NoTask, WideType, c) = Cardinality(own)
      /\ IsFiniteSet(its) /\ NeedOf(t, WideType, c) = Cardinality(its)
      /\ Cardinality(own) \in Nat /\ Cardinality(its) \in Nat
  BY <1>1, NeedIsNat
<1>3. BoundTo(c, t) = own \cup its
  BY <1>1, DeviceAssumption DEF BoundTo, HeldBy
<1>4. IsFiniteSet(own \cup its) /\ Cardinality(own \cup its) <= nr_slots[WideType]
  <2>1. CASE t = NoTask
    <3>1. own \cup its = own BY <2>1
    <3>2. NeedOf(NoTask, WideType, c) <= nr_slots[WideType]
      BY <1>1 DEF SlotsInv, NeverOvercommitted
    <3> QED BY <1>2, <3>1, <3>2
  <2>2. CASE t # NoTask
    <3>1. NeedOf(NoTask, WideType, c) + NeedOf(t, WideType, c) <= nr_slots[WideType]
      BY <1>1, <2>2 DEF SlotsInv, NeverOvercommitted
    <3>2. own \cap its = {} BY <2>2 DEF HeldBy
    <3> HIDE DEF own, its
    <3>3. IsFiniteSet(own \cup its)
          /\ Cardinality(own \cup its)
               = Cardinality(own) + Cardinality(its) - Cardinality(own \cap its)
      BY <1>2, FS_Union
    <3>4. Cardinality(own \cap its) = 0 BY <3>2, FS_EmptySet
    <3> QED BY <1>2, <3>1, <3>3, <3>4
  <2> QED BY <2>1, <2>2
<1>5. IsFiniteSet(S) /\ Cardinality(S) <= Cardinality(own \cup its)
  BY <1>3, <1>4, FS_Subset
<1> QED BY <1>4, <1>5, RegistersAreCounted, FS_CardinalityType

LEMMA WantedIsBound ==
    ASSUME RegsInv, NEW c, NEW t
    PROVE  Wanted(c, t) \subseteq BoundTo(c, t) /\ Wanted(c, t) \subseteq active
BY DEF RegsInv, Wanted, BoundTo

(* Enabling what has a slot: a register is free on each of its cpus, for   *)
(* the task that runs there.                                               *)
LEMMA ActivateKeeps ==
    ASSUME CoreInv, NEW bp \in reserved \ active, Activate(bp), UNCHANGED slots
    PROVE  CoreInv'
<1>1. SlotsInv' BY SlotsStay DEF CoreInv
<1>2. RegsInv /\ SlotsInv /\ reserved \subseteq Events BY DEF CoreInv, SlotsInv, SlotsShape
<1>3. /\ UNCHANGED <<online, running, reserved>> /\ active' = active \cup {bp}
      /\ regs' = [c \in Cpus |->
            IF c \in online \cap On(bp.cpu) /\ bp.target \in {NoTask, running[c]}
            THEN install(regs[c], bp) ELSE regs[c]]
  BY DEF Activate, slots
<1>4. ASSUME NEW c \in Cpus PROVE Holds(regs'[c], Due(c)')
  <2>1. Holds(regs[c], Due(c)) BY <1>2 DEF RegsInv
  <2>2. CASE c \in online \cap On(bp.cpu) /\ bp.target \in {NoTask, running[c]}
    <3> DEFINE S == Due(c)
               t == running[c]
    <3>1. Due(c)' = S \cup {bp} BY <1>3, <2>2 DEF Due, Wanted
    <3>2. S \subseteq active /\ bp \notin S /\ bp \in Events \ S
      BY <1>2, <2>2, WantedIsBound DEF Due
    <3>3. S \cup {bp} \subseteq BoundTo(c, t)
      BY <1>2, <2>2, WantedIsBound DEF Due, BoundTo
    <3>4. t \in Tasks \cup {NoTask} BY <1>2 DEF RegsInv
    <3>5. regs'[c] = install(regs[c], bp) BY <1>3, <2>2
    <3> HIDE DEF S, t
    <3>6. IsFiniteSet(S \cup {bp}) /\ Cardinality(S \cup {bp}) <= nr_slots[WideType]
      BY <1>2, <3>3, <3>4, RoomForAll
    <3>7. Cardinality(S \cup {bp}) = Cardinality(S) + 1
      <4>1. IsFiniteSet(S) BY <3>6, FS_Subset
      <4> QED BY <3>2, <4>1, FS_AddElement
    <3>8. Holds(regs[c], S) BY <2>1 DEF S
    <3>9. Holds(install(regs[c], bp), S \cup {bp}) BY <3>2, <3>6, <3>7, <3>8, InstallFits
    <3> QED BY <3>1, <3>5, <3>9
  <2>3. CASE ~(c \in online \cap On(bp.cpu) /\ bp.target \in {NoTask, running[c]})
    <3>1. Due(c)' = Due(c) BY <1>3, <2>3 DEF Due, Wanted
    <3> QED BY <1>3, <2>1, <2>3, <3>1
  <2> QED BY <2>2, <2>3
<1>5. regs' \in [Cpus -> [Registers -> Events \cup {Free}]]
  <2>1. \A c \in Cpus : regs'[c] \in [Registers -> Events \cup {Free}]
    BY <1>4 DEF Holds
  <2> QED BY <1>3, <2>1
<1>6. RegsInv' BY <1>2, <1>3, <1>4, <1>5 DEF RegsInv, Tasks
<1> QED BY <1>1, <1>6 DEF CoreInv

LEMMA DeactivateKeeps ==
    ASSUME CoreInv, NEW bp, Deactivate(bp), UNCHANGED slots
    PROVE  CoreInv'
<1>1. SlotsInv' BY SlotsStay DEF CoreInv
<1>2. RegsInv BY DEF CoreInv
<1>3. /\ UNCHANGED <<online, running, reserved>> /\ active' = active \ {bp}
      /\ regs' = [c \in Cpus |-> uninstall(regs[c], {bp})]
  BY DEF Deactivate, slots
<1>4. ASSUME NEW c \in Cpus PROVE Holds(regs'[c], Due(c)')
  <2>1. Due(c)' = Due(c) \ {bp} BY <1>3 DEF Due, Wanted
  <2>2. Holds(regs[c], Due(c)) BY <1>2 DEF RegsInv
  <2>3. Holds(uninstall(regs[c], {bp}), Due(c) \ {bp}) BY <2>2, UninstallTakes
  <2> QED BY <1>3, <2>1, <2>3
<1>5. regs' \in [Cpus -> [Registers -> Events \cup {Free}]]
  <2>1. \A c \in Cpus : regs'[c] \in [Registers -> Events \cup {Free}]
    BY <1>4 DEF Holds
  <2> QED BY <1>3, <2>1
<1>6. RegsInv' BY <1>2, <1>3, <1>4, <1>5 DEF RegsInv, Tasks
<1> QED BY <1>1, <1>6 DEF CoreInv

(* A change of the table alone.                                            *)
LEMMA RegsStay ==
    ASSUME RegsInv, UNCHANGED cpuState, active \subseteq reserved'
    PROVE  RegsInv'
<1>1. UNCHANGED <<online, running, regs, active>> BY DEF cpuState
<1>2. \A c : Due(c)' = Due(c) BY <1>1 DEF Due, Wanted
<1> QED BY <1>1, <1>2 DEF RegsInv, Tasks

LEMMA ReserveKeeps ==
    ASSUME CoreInv, NEW bp \in Events, reserve_bp_slot(bp), UNCHANGED cpuState
    PROVE  CoreInv'
<1>1. Toggled(bp, 1) /\ Fits(bp) BY DEF reserve_bp_slot, Toggled
<1>2. SlotsInv' BY <1>1, SlotsToggle DEF CoreInv
<1>3. active \subseteq reserved' BY DEF CoreInv, RegsInv, reserve_bp_slot
<1> QED BY <1>2, <1>3, RegsStay DEF CoreInv

LEMMA ReleaseKeeps ==
    ASSUME CoreInv, NEW bp, bp \notin active, release_bp_slot(bp), UNCHANGED cpuState
    PROVE  CoreInv'
<1>1. Toggled(bp, -1) BY DEF release_bp_slot, Toggled, CoreInv, SlotsInv, SlotsShape
<1>2. SlotsInv' BY <1>1, SlotsToggle DEF CoreInv
<1>3. active \subseteq reserved' BY DEF CoreInv, RegsInv, release_bp_slot
<1> QED BY <1>2, <1>3, RegsStay DEF CoreInv

LEMMA CoreStays ==
    ASSUME CoreInv, UNCHANGED slots, UNCHANGED cpuState PROVE CoreInv'
<1>1. SlotsInv' /\ reserved' = reserved BY SlotsStay DEF CoreInv, slots
<1> QED BY <1>1, RegsStay DEF CoreInv, RegsInv

(* What a cpu is given when its registers have S: the rest of what the     *)
(* task t wants.                                                           *)
LEMMA WantedFits ==
    ASSUME CoreInv, NEW c \in Cpus, NEW t \in Tasks \cup {NoTask}, NEW held, NEW S,
           Holds(held, S), S \subseteq Wanted(c, t)
    PROVE  Holds(installAll(held, Wanted(c, t) \ S), Wanted(c, t))
<1> DEFINE W == Wanted(c, t)
           new == W \ S
<1>1. W \subseteq Events
  BY WantedIsBound DEF CoreInv, RegsInv, SlotsInv, SlotsShape
<1>2. IsFiniteSet(W) /\ Cardinality(W) <= nr_slots[WideType] /\ Cardinality(W) \in Nat
  BY RoomForAll, WantedIsBound DEF CoreInv
<1> HIDE DEF W
<1>3. /\ new \in SUBSET Events /\ S \cap new = {} /\ W \cap S = S /\ S \cup new = W
      /\ S \subseteq W
  BY <1>1 DEF W
<1>4. IsFiniteSet(new) /\ Cardinality(new) = Cardinality(W) - Cardinality(S)
  BY <1>2, <1>3, FS_Difference
<1>5. Cardinality(S) \in Nat BY FreeAreTheRest
<1> HIDE DEF new
<1>6. Cardinality(S) + Cardinality(new) <= nr_slots[WideType]
  BY <1>2, <1>4, <1>5, RegistersAreCounted
<1>7. Holds(installAll(held, new), S \cup new) BY <1>3, <1>4, <1>6, InstallAllFits
<1> QED BY <1>3, <1>7 DEF W, new

LEMMA CpuKeeps ==
    ASSUME CoreInv, NEW c \in Cpus, ContextSwitch(c) \/ Offline(c) \/ Online(c)
    PROVE  CoreInv'
<1>1. SlotsInv' /\ UNCHANGED <<reserved, active>>
  BY SlotsStay DEF CoreInv, ContextSwitch, Offline, Online, slots
<1>2. RegsInv BY DEF CoreInv
<1>3. NoRegs \in [Registers -> Events \cup {Free}] /\ Holds(NoRegs, {})
  <2>1. NoRegs \in [Registers -> Events \cup {Free}] /\ \A i \in Registers : NoRegs[i] = Free
    BY DEF NoRegs, Registers
  <2> QED BY <2>1 DEF Holds
(* The other cpus stay as they are.                                        *)
<1>4. ASSUME NEW held, regs' = [regs EXCEPT ![c] = held], Holds(held, Due(c)'),
             \A d \in Cpus \ {c} : (d \in online' <=> d \in online)
                /\ running'[d] = running[d],
             running' \in [Cpus -> Tasks \cup {NoTask}], online' \subseteq Cpus, online' # {},
             c \notin online' => running'[c] = NoTask
      PROVE  RegsInv'
  <2>1. regs'[c] = held /\ \A d \in Cpus \ {c} : regs'[d] = regs[d]
    BY <1>2, <1>4 DEF RegsInv
  <2>2. \A d \in Cpus \ {c} : Due(d)' = Due(d) BY <1>1, <1>4 DEF Due, Wanted
  <2>3. \A d \in Cpus : Holds(regs'[d], Due(d)')
    BY <1>2, <1>4, <2>1, <2>2 DEF RegsInv
  <2>4. regs' \in [Cpus -> [Registers -> Events \cup {Free}]]
    BY <1>2, <1>4 DEF RegsInv, Holds
  <2>5. \A d \in Cpus \ online' : running'[d] = NoTask BY <1>2, <1>4 DEF RegsInv
  <2> QED BY <1>1, <1>2, <1>4, <2>3, <2>4, <2>5 DEF RegsInv, Tasks
<1>5. ASSUME ContextSwitch(c) PROVE RegsInv'
  <2>1. c \in online /\ online' = online BY <1>5 DEF ContextSwitch
  <2>2. PICK t \in Tasks \cup {NoTask} :
          /\ running' = [running EXCEPT ![c] = t]
          /\ regs' = [regs EXCEPT ![c] =
                installAll(uninstall(regs[c], {bp \in active : bp.target # NoTask}),
                           {bp \in Wanted(c, t) : bp.target # NoTask})]
    BY <1>5 DEF ContextSwitch
  <2> DEFINE G == {bp \in active : bp.target # NoTask}
             S == {bp \in Wanted(c, t) : bp.target = NoTask}
             held == uninstall(regs[c], G)
             after == installAll(held, Wanted(c, t) \ S)
  <2>3. Holds(held, S)
    <3>1. Holds(regs[c], Wanted(c, running[c])) BY <1>2, <2>1 DEF RegsInv, Due
    <3>2. Wanted(c, running[c]) \ G = S BY DEF Wanted
    <3> QED BY <3>1, <3>2, UninstallTakes
  <2>4. Holds(after, Wanted(c, t)) BY <2>3, WantedFits
  <2>5. regs' = [regs EXCEPT ![c] = after]
    <3>1. {bp \in Wanted(c, t) : bp.target # NoTask} = Wanted(c, t) \ S OBVIOUS
    <3> QED BY <2>2, <3>1
  <2> HIDE DEF after
  <2>6. /\ running'[c] = t /\ running' \in [Cpus -> Tasks \cup {NoTask}]
        /\ \A d \in Cpus \ {c} : running'[d] = running[d]
    BY <1>2, <2>2 DEF RegsInv
  <2>7. Due(c)' = Wanted(c, t) BY <1>1, <2>1, <2>6 DEF Due, Wanted
  <2> QED BY <1>2, <1>4, <2>1, <2>4, <2>5, <2>6, <2>7 DEF RegsInv
<1>6. ASSUME Offline(c) PROVE RegsInv'
  <2>1. /\ regs' = [regs EXCEPT ![c] = NoRegs] /\ running' = running
        /\ online' = online \ {c} /\ online # {c} /\ running[c] = NoTask
    BY <1>6 DEF Offline
  <2>2. Due(c)' = {} BY <2>1 DEF Due
  <2>3. running' \in [Cpus -> Tasks \cup {NoTask}] /\ online' \subseteq Cpus /\ online' # {}
    BY <1>2, <2>1 DEF RegsInv
  <2> QED BY <1>3, <1>4, <2>1, <2>2, <2>3
<1>7. ASSUME Online(c) PROVE RegsInv'
  <2>1. /\ regs' = [regs EXCEPT ![c] = installAll(NoRegs, Wanted(c, NoTask))]
        /\ running' = running /\ online' = online \cup {c} /\ c \notin online
    BY <1>7 DEF Online
  <2>2. running[c] = NoTask BY <1>2, <2>1 DEF RegsInv
  <2>3. Due(c)' = Wanted(c, NoTask) BY <1>1, <2>1, <2>2 DEF Due, Wanted
  <2> DEFINE after == installAll(NoRegs, Wanted(c, NoTask))
  <2>4. Holds(after, Wanted(c, NoTask))
    <3>1. Wanted(c, NoTask) \ {} = Wanted(c, NoTask) /\ {} \subseteq Wanted(c, NoTask) OBVIOUS
    <3>2. Holds(installAll(NoRegs, Wanted(c, NoTask) \ {}), Wanted(c, NoTask))
      BY <1>3, <3>1, WantedFits
    <3> QED BY <3>1, <3>2
  <2>5. regs' = [regs EXCEPT ![c] = after] BY <2>1
  <2> HIDE DEF after
  <2>6. running' \in [Cpus -> Tasks \cup {NoTask}] /\ online' \subseteq Cpus /\ online' # {}
    BY <1>2, <2>1 DEF RegsInv
  <2> QED BY <1>4, <2>1, <2>3, <2>4, <2>5, <2>6
<1> QED BY <1>1, <1>5, <1>6, <1>7 DEF CoreInv

----------------------------------------------------------------------------
(* The cpus on which the breakpoint id has an event in S.                  *)
CpusWith(id, S) == {c \in Cpus : WideEvent([id |-> id], c) \in S}

(* The ids that a file is answerable for.                                  *)
Own(place, l, bp) ==
    {l[i].id : i \in DOMAIN l} \cup IF place \in {"idle", "closed"} THEN {} ELSE {bp.id}

Making == {"reserve", "validate", "fail", "alloc", "undo"}

(* How far the file's loop is with the record bp, when the events in R     *)
(* hold slots and those in A are enabled.                                  *)
LoopOK(place, bp, todo, on, R, A) ==
    LET held == CpusWith(bp.id, R)
        watched == CpusWith(bp.id, A)
    IN  /\ place \in {"reserve", "validate"} =>
              todo # {} /\ todo \subseteq on /\ watched = on \ todo
        /\ place = "reserve" => held = on \ todo
        /\ place = "validate" => held = (on \ todo) \cup {First(todo)}
        /\ place \in {"fail", "undo", "delete", "close"} => held \subseteq todo
        /\ place = "alloc" => watched # {}

(* The records of a file differ, the one it is making is not on the list   *)
(* yet, the one it takes down still is, and the others watch a cpu.        *)
ListOK(place, l, bp, A) ==
    /\ \A i, j \in DOMAIN l : l[i].id = l[j].id => i = j
    /\ place \in Making => \A i \in DOMAIN l : l[i].id # bp.id
    /\ place = "delete" => \E i \in DOMAIN l : l[i] = bp
    /\ place = "close" => l # <<>> /\ l[1] = bp
    /\ \A i \in DOMAIN l : CpusWith(l[i].id, A) # {} \/ (place \in {"delete", "close"} /\ l[i] = bp)

FileOK(f) == /\ pc[f] \in Making \cup {"idle", "delete", "close", "closed"}
             /\ list[f] \in Seq(Records) /\ cur[f] \in Records /\ cpus[f] \subseteq Cpus
             /\ LoopOK(pc[f], cur[f], cpus[f], online, reserved, active)
             /\ ListOK(pc[f], list[f], cur[f], active)

FilesInv ==
    /\ pc = [f \in Files |-> pc[f]] /\ list = [f \in Files |-> list[f]]
    /\ cur = [f \in Files |-> cur[f]] /\ cpus = [f \in Files |-> cpus[f]]
    /\ \A f \in Files : FileOK(f)
    /\ \A f, g \in Files : f # g =>
          Own(pc[f], list[f], cur[f]) \cap Own(pc[g], list[g], cur[g]) = {}
    /\ \A id \in BpIds : CpusWith(id, reserved) # {} =>
          \E f \in Files : id \in Own(pc[f], list[f], cur[f])

DevInv == CoreInv /\ FilesInv

(* Enabling or reserving an event of one breakpoint does nothing to what   *)
(* others have.                                                            *)
LEMMA OneEvent ==
    ASSUME NEW bp, NEW c \in Cpus, NEW S, NEW S2
    PROVE  /\ S2 = S \cup {WideEvent(bp, c)} =>
                \A id : CpusWith(id, S2)
                          = CpusWith(id, S) \cup (IF id = bp.id THEN {c} ELSE {})
           /\ S2 = S \ {WideEvent(bp, c)} =>
                \A id : CpusWith(id, S2)
                          = CpusWith(id, S) \ (IF id = bp.id THEN {c} ELSE {})
BY DEF CpusWith, WideEvent

LEMMA OthersEvent ==
    ASSUME NEW bp \in TaskEvents, NEW S, NEW id \in BpIds
    PROVE  /\ CpusWith(id, S \cup {bp}) = CpusWith(id, S)
           /\ CpusWith(id, S \ {bp}) = CpusWith(id, S)
<1>1. ASSUME NEW c \in Cpus PROVE WideEvent([id |-> id], c) # bp
  <2>1. [id |-> id] \in [id : BpIds] OBVIOUS
  <2> QED BY <2>1 DEF TaskEvents, WideEvents
<1> QED BY <1>1 DEF CpusWith

LEMMA FirstIn == ASSUME NEW S \in SUBSET Cpus, S # {} PROVE First(S) \in S
<1>1. S \subseteq Nat BY DeviceAssumption
<1> QED BY <1>1, LeastOf DEF First

LEMMA OwnIds ==
    ASSUME FilesInv, NEW f \in Files
    PROVE  /\ Own(pc[f], list[f], cur[f]) \subseteq BpIds /\ cur[f].id \in BpIds
           /\ pc[f] \notin {"idle", "closed"} => cur[f].id \in Own(pc[f], list[f], cur[f])
           /\ \A i \in DOMAIN list[f] : list[f][i].id \in Own(pc[f], list[f], cur[f])
<1>1. list[f] \in Seq(Records) /\ cur[f] \in Records BY DEF FilesInv, FileOK
<1>2. \A i \in DOMAIN list[f] : list[f][i] \in Records BY <1>1
<1> QED BY <1>1, <1>2 DEF Own, Records

(* The ids of the files are those in use.                                  *)
LEMMA InUseIds ==
    ASSUME NEW id
    PROVE  id \in InUse <=> \E f \in Files : id \in Own(pc[f], list[f], cur[f])
<1>1. ASSUME NEW f \in Files
      PROVE  id \in Own(pc[f], list[f], cur[f]) <=>
               \/ id \in {list[f][i].id : i \in DOMAIN list[f]}
               \/ pc[f] \notin {"idle", "closed"} /\ id = cur[f].id
  BY DEF Own
<1>2. id \in InUse <=> \E f \in Files :
         \/ id \in {list[f][i].id : i \in DOMAIN list[f]}
         \/ pc[f] \notin {"idle", "closed"} /\ id = cur[f].id
  BY DEF InUse
<1> QED BY <1>1, <1>2

(* What happens to events of other ids does not concern a file.            *)
LEMMA FileStays ==
    ASSUME FilesInv, NEW g \in Files,
           pc'[g] = pc[g], list'[g] = list[g], cur'[g] = cur[g], cpus'[g] = cpus[g],
           \A id \in Own(pc[g], list[g], cur[g]) :
              CpusWith(id, reserved') = CpusWith(id, reserved)
              /\ CpusWith(id, active') = CpusWith(id, active),
           online' = online \/ pc[g] \notin {"reserve", "validate", "fail"}
    PROVE  FileOK(g)'
<1>1. FileOK(g) BY DEF FilesInv
<1>2. \A i \in DOMAIN list[g] : CpusWith(list[g][i].id, active') = CpusWith(list[g][i].id, active)
  BY OwnIds
<1>3. ListOK(pc[g], list[g], cur[g], active')
  BY <1>1, <1>2 DEF FileOK, ListOK
<1>4. pc[g] \notin {"idle", "closed"} =>
         CpusWith(cur[g].id, reserved') = CpusWith(cur[g].id, reserved)
         /\ CpusWith(cur[g].id, active') = CpusWith(cur[g].id, active)
  BY OwnIds
<1>5. LoopOK(pc[g], cur[g], cpus[g], online', reserved', active')
  BY <1>1, <1>4 DEF FileOK, LoopOK
<1> QED BY <1>1, <1>3, <1>5 DEF FileOK

(* A step of the cpus or of a debugger.                                    *)
LEMMA FilesStay ==
    ASSUME FilesInv, UNCHANGED device, online' = online \/ HotplugAllowed,
           \A id \in BpIds : CpusWith(id, reserved') = CpusWith(id, reserved)
                             /\ CpusWith(id, active') = CpusWith(id, active)
    PROVE  FilesInv'
<1>1. UNCHANGED <<pc, list, cur, cpus>> BY DEF device
<1>2. ASSUME NEW g \in Files PROVE FileOK(g)'
  <2>1. online' = online \/ pc[g] \notin {"reserve", "validate", "fail"} BY DEF HotplugAllowed
  <2>2. Own(pc[g], list[g], cur[g]) \subseteq BpIds BY OwnIds
  <2> QED BY <1>1, <2>1, <2>2, FileStays
<1>3. \A g \in Files : Own(pc[g], list[g], cur[g])' = Own(pc[g], list[g], cur[g])
  BY <1>1 DEF Own
<1> QED BY <1>1, <1>2, <1>3 DEF FilesInv

(* Only the file f is touched.                                             *)
Only(f) == /\ pc' = [pc EXCEPT ![f] = pc'[f]] /\ list' = [list EXCEPT ![f] = list'[f]]
           /\ cur' = [cur EXCEPT ![f] = cur'[f]] /\ cpus' = [cpus EXCEPT ![f] = cpus'[f]]

(* A step of a file's thread: the ids that it takes were free, and those   *)
(* that it gives up or has never had have what they had, or nothing.       *)
LEMMA OneFileMoves ==
    ASSUME FilesInv, NEW f \in Files, Only(f), online' = online, FileOK(f)',
           \A id \in Own(pc'[f], list'[f], cur'[f]) :
              id \in Own(pc[f], list[f], cur[f])
              \/ \A g \in Files : id \notin Own(pc[g], list[g], cur[g]),
           \A id \in BpIds \ Own(pc'[f], list'[f], cur'[f]) :
              /\ CpusWith(id, reserved') = CpusWith(id, reserved)
              /\ CpusWith(id, active') = CpusWith(id, active)
              /\ id \in Own(pc[f], list[f], cur[f]) => CpusWith(id, reserved') = {}
    PROVE  FilesInv'
<1> DEFINE O(g) == Own(pc[g], list[g], cur[g])
           O1(g) == Own(pc'[g], list'[g], cur'[g])
<1>1. /\ pc' = [g \in Files |-> pc'[g]] /\ list' = [g \in Files |-> list'[g]]
      /\ cur' = [g \in Files |-> cur'[g]] /\ cpus' = [g \in Files |-> cpus'[g]]
  <2>1. /\ pc = [g \in Files |-> pc[g]] /\ list = [g \in Files |-> list[g]]
        /\ cur = [g \in Files |-> cur[g]] /\ cpus = [g \in Files |-> cpus[g]]
    BY DEF FilesInv
  <2>2. pc' = [g \in Files |-> pc'[g]] BY <2>1 DEF Only
  <2>3. list' = [g \in Files |-> list'[g]] BY <2>1 DEF Only
  <2>4. cur' = [g \in Files |-> cur'[g]] BY <2>1 DEF Only
  <2>5. cpus' = [g \in Files |-> cpus'[g]] BY <2>1 DEF Only
  <2> QED BY <2>2, <2>3, <2>4, <2>5
<1>2. \A g \in Files \ {f} : pc'[g] = pc[g] /\ list'[g] = list[g]
                             /\ cur'[g] = cur[g] /\ cpus'[g] = cpus[g]
  BY DEF Only, FilesInv
<1>3. \A g \in Files \ {f} : O1(g) = O(g) BY <1>2
<1>4. \A g \in Files : O(g) \subseteq BpIds BY OwnIds
<1>5. \A g \in Files \ {f} : O(g) \cap O(f) = {} BY DEF FilesInv
<1>6. \A g \in Files : O(g)' = O1(g) OBVIOUS
<1>7. \A id \in O1(f) : id \in O(f) \/ \A g \in Files : id \notin O(g) OBVIOUS
<1>8. \A id \in BpIds \ O1(f) :
         /\ CpusWith(id, reserved') = CpusWith(id, reserved)
         /\ CpusWith(id, active') = CpusWith(id, active)
         /\ id \in O(f) => CpusWith(id, reserved') = {}
  OBVIOUS
<1>9. \A g \in Files \ {f} : O(g) \cap O1(f) = {} BY <1>5, <1>7
<1>10. ASSUME NEW g \in Files PROVE FileOK(g)'
  <2>1. CASE g = f BY <2>1
  <2>2. CASE g # f
    <3>1. \A id \in O(g) : CpusWith(id, reserved') = CpusWith(id, reserved)
                           /\ CpusWith(id, active') = CpusWith(id, active)
      BY <1>4, <1>8, <1>9, <2>2
    <3> QED BY <1>2, <2>2, <3>1, FileStays
  <2> QED BY <2>1, <2>2
<1>11. \A id \in BpIds : CpusWith(id, reserved) # {} => \E g \in Files : id \in O(g)
  BY DEF FilesInv
<1>12. \A g, h \in Files : g # h => O(g) \cap O(h) = {} BY DEF FilesInv
<1> HIDE DEF O, O1
<1>13. \A g, h \in Files : g # h => O1(g) \cap O1(h) = {} BY <1>3, <1>9, <1>12
<1>14. \A id \in BpIds : CpusWith(id, reserved') # {} => \E g \in Files : id \in O1(g)
  <2> SUFFICES ASSUME NEW id \in BpIds, CpusWith(id, reserved') # {}, id \notin O1(f)
               PROVE  \E g \in Files : id \in O1(g)
    OBVIOUS
  <2>1. PICK g \in Files : id \in O(g) BY <1>8, <1>11
  <2>2. g # f BY <1>8, <2>1
  <2> QED BY <1>3, <2>1, <2>2
<1>15. \A g \in Files : O1(g) = Own(pc'[g], list'[g], cur'[g]) BY DEF O1
<1>16. /\ \A g, h \in Files : g # h =>
            Own(pc'[g], list'[g], cur'[g]) \cap Own(pc'[h], list'[h], cur'[h]) = {}
       /\ \A id \in BpIds : CpusWith(id, reserved') # {} =>
            \E g \in Files : id \in Own(pc'[g], list'[g], cur'[g])
  BY <1>13, <1>14, <1>15
<1> QED BY <1>1, <1>10, <1>16 DEF FilesInv

Working == Making \cup {"delete", "close"}

LEMMA FileFacts ==
    ASSUME DevInv, NEW f \in Files
    PROVE  /\ list[f] \in Seq(Records) /\ cur[f] \in Records /\ cpus[f] \in SUBSET Cpus
           /\ pc[f] \in Working \cup {"idle", "closed"}
           /\ LoopOK(pc[f], cur[f], cpus[f], online, reserved, active)
           /\ ListOK(pc[f], list[f], cur[f], active)
           /\ active \subseteq reserved /\ reserved \subseteq Events
           /\ online \subseteq Cpus /\ online # {}
           /\ cpus[f] # {} => First(cpus[f]) \in cpus[f] /\ First(cpus[f]) \in Cpus
<1>1. cpus[f] \in SUBSET Cpus BY DEF DevInv, FilesInv, FileOK
<1>2. cpus[f] # {} => First(cpus[f]) \in cpus[f] /\ First(cpus[f]) \in Cpus BY <1>1, FirstIn
<1> QED BY <1>1, <1>2
        DEF DevInv, FilesInv, FileOK, CoreInv, RegsInv, SlotsInv, SlotsShape, Working

(* The list is as good as it was when other ids keep their events.         *)
LEMMA ListKeeps ==
    ASSUME NEW place, NEW next, NEW l \in Seq(Records), NEW bp, NEW A, NEW A2,
           ListOK(place, l, bp, A),
           \A id : id # bp.id => CpusWith(id, A2) = CpusWith(id, A),
           \/ next = place /\ place \in {"delete", "close"}
           \/ place \in Making /\ next \in Making
    PROVE  ListOK(next, l, bp, A2)
<1>1. CASE place \in Making /\ next \in Making BY <1>1 DEF ListOK, Making
<1>2. CASE next = place /\ place \in {"delete", "close"}
  <2>1. PICK k \in DOMAIN l : l[k] = bp
    <3>1. CASE place = "delete" BY <3>1 DEF ListOK
    <3>2. CASE place = "close"
      <4>1. l # <<>> /\ l[1] = bp BY <3>2 DEF ListOK
      <4>2. 1 \in DOMAIN l BY <4>1
      <4> QED BY <4>1, <4>2
    <3> QED BY <1>2, <3>1, <3>2
  <2>2. \A i \in DOMAIN l : l[i] # bp => l[i].id # bp.id BY <2>1 DEF ListOK
  <2> QED BY <1>2, <2>2 DEF ListOK, Making
<1> QED BY <1>1, <1>2

(* A round of a loop, which concerns the record at hand alone.             *)
LEMMA RoundKeeps ==
    ASSUME DevInv, NEW f \in Files, Only(f), list' = list, cur' = cur, online' = online,
           pc[f] \in Working, FileOK(f)',
           \A id : id # cur[f].id => /\ CpusWith(id, reserved') = CpusWith(id, reserved)
                                     /\ CpusWith(id, active') = CpusWith(id, active),
           pc'[f] \in {"idle", "closed"} =>
              UNCHANGED <<reserved, active>> /\ CpusWith(cur[f].id, reserved) = {}
    PROVE  FilesInv'
<1>1. FilesInv /\ pc[f] \notin {"idle", "closed"} BY DEF DevInv, Working, Making
<1> DEFINE O == Own(pc[f], list[f], cur[f])
           O1 == Own(pc'[f], list'[f], cur'[f])
<1>2. O = {list[f][i].id : i \in DOMAIN list[f]} \cup {cur[f].id} BY <1>1 DEF Own
<1>3. O1 \subseteq O /\ (pc'[f] \notin {"idle", "closed"} => O1 = O)
      /\ O \subseteq O1 \cup {cur[f].id}
  BY <1>2 DEF Own
<1>4. cur[f].id \in O BY <1>2
<1> HIDE DEF O, O1
<1>5. \A id \in O1 : id \in O \/ \A g \in Files : id \notin Own(pc[g], list[g], cur[g])
  BY <1>3
<1>6. \A id \in BpIds \ O1 :
         /\ CpusWith(id, reserved') = CpusWith(id, reserved)
         /\ CpusWith(id, active') = CpusWith(id, active)
         /\ id \in O => CpusWith(id, reserved') = {}
  <2> SUFFICES ASSUME NEW id \in BpIds \ O1
               PROVE  /\ CpusWith(id, reserved') = CpusWith(id, reserved)
                      /\ CpusWith(id, active') = CpusWith(id, active)
                      /\ id \in O => CpusWith(id, reserved') = {}
    OBVIOUS
  <2>1. CASE id = cur[f].id BY <1>3, <1>4, <2>1
  <2>2. CASE id # cur[f].id BY <1>3, <2>2
  <2> QED BY <2>1, <2>2
<1> QED BY <1>1, <1>5, <1>6, OneFileMoves DEF O, O1

LEMMA ReserveStep == ASSUME DevInv, NEW f \in Files, Reserve(f) PROVE DevInv'
<1> DEFINE bp == cur[f]
           todo == cpus[f]
           c == First(todo)
<1>1. /\ pc[f] = "reserve" /\ UNCHANGED cpuState /\ list' = list /\ cur' = cur
      /\ online' = online /\ active' = active
  BY DEF Reserve, cpuState
<1>2. /\ list[f] \in Seq(Records) /\ bp \in Records /\ todo \subseteq Cpus /\ todo # {}
      /\ todo \subseteq online /\ online \subseteq Cpus /\ c \in todo /\ c \in Cpus
      /\ CpusWith(bp.id, active) = online \ todo /\ CpusWith(bp.id, reserved) = online \ todo
      /\ ListOK("reserve", list[f], bp, active)
  BY <1>1, FileFacts DEF LoopOK
<1>3. DevInv /\ CoreInv /\ FilesInv BY DEF DevInv
<1>4. CASE Fits(Event(f))
  <2>1. /\ reserve_bp_slot(Event(f)) /\ pc' = [pc EXCEPT ![f] = "validate"] /\ cpus' = cpus
    BY <1>4 DEF Reserve, Goto
  <2>2. Event(f) = WideEvent(bp, c) /\ reserved' = reserved \cup {WideEvent(bp, c)}
    BY <2>1 DEF Event, reserve_bp_slot
  <2>3. WideEvent(bp, c) \in Events
    <3>1. [id |-> bp.id] \in [id : BpIds] /\ WideEvent([id |-> bp.id], c) = WideEvent(bp, c)
      BY <1>2 DEF Records, WideEvent
    <3>2. WideEvent(bp, c) \in WideEvents BY <1>2, <3>1 DEF WideEvents
    <3> QED BY <3>2, DeviceAssumption
  <2>4. CoreInv' BY <1>1, <1>3, <2>1, <2>2, <2>3, ReserveKeeps
  <2>5. \A id : CpusWith(id, reserved')
                  = CpusWith(id, reserved) \cup (IF id = bp.id THEN {c} ELSE {})
    BY <1>2, <2>2, OneEvent
  <2>6. pc'[f] = "validate" /\ Only(f) BY <1>1, <1>3, <2>1 DEF Only, FilesInv
  <2>7. ListOK("validate", list[f], bp, active) BY <1>2, ListKeeps DEF Making
  <2>8. LoopOK("validate", bp, todo, online, reserved', active)
    BY <1>2, <2>5 DEF LoopOK
  <2>9. FileOK(f)' BY <1>1, <1>2, <2>1, <2>6, <2>7, <2>8 DEF FileOK, Making
  <2>10. FilesInv' BY <1>1, <2>5, <2>6, <2>9, RoundKeeps DEF Working, Making
  <2> QED BY <2>4, <2>10 DEF DevInv
<1>5. CASE ~Fits(Event(f))
  <2>1. /\ pc' = [pc EXCEPT ![f] = "fail"] /\ cpus' = [cpus EXCEPT ![f] = online \ todo]
        /\ UNCHANGED slots /\ reserved' = reserved
    BY <1>5 DEF Reserve, Goto, slots
  <2>2. CoreInv' BY <1>1, <1>3, <2>1, CoreStays
  <2>3. pc'[f] = "fail" /\ cpus'[f] = online \ todo /\ Only(f)
    BY <1>1, <1>3, <2>1 DEF Only, FilesInv
  <2>4. ListOK("fail", list[f], bp, active) BY <1>2, ListKeeps DEF Making
  <2>5. LoopOK("fail", bp, online \ todo, online, reserved, active)
    BY <1>2 DEF LoopOK
  <2>6. FileOK(f)' BY <1>1, <1>2, <2>1, <2>3, <2>4, <2>5 DEF FileOK, Making
  <2>7. FilesInv' BY <1>1, <2>1, <2>3, <2>6, RoundKeeps DEF Working, Making
  <2> QED BY <2>2, <2>7 DEF DevInv
<1> QED BY <1>4, <1>5

LEMMA ValidateStep == ASSUME DevInv, NEW f \in Files, Validate(f) PROVE DevInv'
<1> DEFINE bp == cur[f]
           todo == cpus[f]
           c == First(todo)
           e == WideEvent(bp, c)
<1>1. pc[f] = "validate" /\ list' = list /\ cur' = cur /\ Event(f) = e
  BY DEF Validate, Event
<1>2. /\ list[f] \in Seq(Records) /\ bp \in Records /\ todo \subseteq Cpus /\ todo # {}
      /\ todo \subseteq online /\ online \subseteq Cpus /\ c \in todo /\ c \in Cpus
      /\ CpusWith(bp.id, active) = online \ todo
      /\ CpusWith(bp.id, reserved) = (online \ todo) \cup {c}
      /\ ListOK("validate", list[f], bp, active)
  BY <1>1, FileFacts DEF LoopOK
<1>3. DevInv /\ CoreInv /\ FilesInv BY DEF DevInv
<1>4. e \in reserved \ active
  <2>1. WideEvent([id |-> bp.id], c) = e BY DEF WideEvent
  <2>2. c \in CpusWith(bp.id, reserved) /\ c \notin CpusWith(bp.id, active) BY <1>2
  <2> HIDE DEF c, e
  <2> QED BY <2>1, <2>2, <1>2 DEF CpusWith
<1>5. CASE Activate(e) /\ Advance(f) /\ UNCHANGED slots
           /\ Goto(f, IF todo = {c} THEN "alloc" ELSE "reserve")
  <2> DEFINE next == IF todo = {c} THEN "alloc" ELSE "reserve"
  <2>1. /\ pc' = [pc EXCEPT ![f] = next] /\ cpus' = [cpus EXCEPT ![f] = todo \ {c}]
        /\ reserved' = reserved /\ active' = active \cup {e} /\ online' = online
    BY <1>5 DEF Goto, Advance, slots, Activate
  <2>2. CoreInv' BY <1>3, <1>4, <1>5, ActivateKeeps
  <2>3. \A id : CpusWith(id, active')
                  = CpusWith(id, active) \cup (IF id = bp.id THEN {c} ELSE {})
    BY <1>2, <2>1, OneEvent
  <2>4. pc'[f] = next /\ cpus'[f] = todo \ {c} /\ Only(f)
    BY <1>1, <1>3, <2>1 DEF Only, FilesInv
  <2>5. ListOK(next, list[f], bp, active') BY <1>2, <2>3, ListKeeps DEF Making
  <2>6. LoopOK(next, bp, todo \ {c}, online, reserved, active')
    <3>1. CpusWith(bp.id, active') = (online \ todo) \cup {c} BY <1>2, <2>3
    <3> HIDE DEF c
    <3> QED BY <1>2, <3>1 DEF LoopOK
  <2>7. FileOK(f)' BY <1>1, <1>2, <2>1, <2>4, <2>5, <2>6 DEF FileOK, Making
  <2>8. \A id : id # bp.id => /\ CpusWith(id, reserved') = CpusWith(id, reserved)
                              /\ CpusWith(id, active') = CpusWith(id, active)
    BY <2>1, <2>3
  <2>9. pc[f] \in Working /\ pc'[f] \notin {"idle", "closed"}
    BY <1>1, <2>4 DEF Working, Making
  <2>10. FilesInv' BY <1>1, <2>1, <2>4, <2>7, <2>8, <2>9, RoundKeeps
  <2> QED BY <2>2, <2>10 DEF DevInv
<1>6. CASE release_bp_slot(e) /\ Goto(f, "fail") /\ UNCHANGED cpuState
           /\ cpus' = [cpus EXCEPT ![f] = online \ todo]
  <2>1. /\ pc' = [pc EXCEPT ![f] = "fail"] /\ cpus' = [cpus EXCEPT ![f] = online \ todo]
        /\ reserved' = reserved \ {e} /\ active' = active /\ online' = online
    BY <1>6 DEF Goto, cpuState, release_bp_slot
  <2>2. CoreInv' BY <1>3, <1>4, <1>6, ReleaseKeeps
  <2>3. \A id : CpusWith(id, reserved')
                  = CpusWith(id, reserved) \ (IF id = bp.id THEN {c} ELSE {})
    BY <1>2, <2>1, OneEvent
  <2>4. pc'[f] = "fail" /\ cpus'[f] = online \ todo /\ Only(f)
    BY <1>1, <1>3, <2>1 DEF Only, FilesInv
  <2>5. ListOK("fail", list[f], bp, active) BY <1>2, ListKeeps DEF Making
  <2>6. LoopOK("fail", bp, online \ todo, online, reserved', active)
    <3>1. CpusWith(bp.id, reserved') \subseteq online \ todo BY <1>2, <2>3
    <3> QED BY <3>1 DEF LoopOK
  <2>7. FileOK(f)' BY <1>1, <1>2, <2>1, <2>4, <2>5, <2>6 DEF FileOK, Making
  <2>8. \A id : id # bp.id => /\ CpusWith(id, reserved') = CpusWith(id, reserved)
                              /\ CpusWith(id, active') = CpusWith(id, active)
    BY <2>1, <2>3
  <2>9. pc[f] \in Working /\ pc'[f] \notin {"idle", "closed"}
    BY <1>1, <2>4 DEF Working, Making
  <2>10. FilesInv' BY <1>1, <2>1, <2>4, <2>7, <2>8, <2>9, RoundKeeps
  <2> QED BY <2>2, <2>10 DEF DevInv
<1> QED BY <1>1, <1>5, <1>6 DEF Validate

(* A round of unregister_wide_hw_breakpoint: the event goes off the        *)
(* registers, then out of the table, then the loop goes on.                *)
LEMMA UnregisterRound ==
    ASSUME DevInv, NEW f \in Files, pc[f] \in {"fail", "undo", "delete", "close"},
           Unregister(f), UNCHANGED <<pc, list, cur>>
    PROVE  DevInv'
<1> DEFINE bp == cur[f]
           todo == cpus[f]
           c == First(todo)
           e == WideEvent(bp, c)
<1>1. Event(f) = e /\ todo # {} BY DEF Unregister, Event
<1>2. /\ list[f] \in Seq(Records) /\ bp \in Records /\ todo \subseteq Cpus
      /\ online \subseteq Cpus /\ c \in todo /\ c \in Cpus
      /\ CpusWith(bp.id, reserved) \subseteq todo
      /\ ListOK(pc[f], list[f], bp, active)
  BY <1>1, FileFacts DEF LoopOK
<1>3. DevInv /\ CoreInv /\ FilesInv BY DEF DevInv
<1>4. pc[f] \in Working /\ pc[f] \in Making \cup {"delete", "close"}
      /\ pc'[f] \notin {"idle", "closed"} /\ pc'[f] = pc[f]
  BY DEF Working, Making
(* It remains to see that the events left are on cpus to be visited.       *)
<1>5. ASSUME NEW left, cpus' = [cpus EXCEPT ![f] = left], left \subseteq Cpus,
             online' = online, CpusWith(bp.id, reserved') \subseteq left,
             \A id : id # bp.id => /\ CpusWith(id, reserved') = CpusWith(id, reserved)
                                   /\ CpusWith(id, active') = CpusWith(id, active)
      PROVE  FilesInv'
  <2>1. Only(f) /\ cpus'[f] = left BY <1>3, <1>5 DEF Only, FilesInv
  <2>2. ListOK(pc[f], list[f], bp, active') BY <1>2, <1>4, <1>5, ListKeeps
  <2>3. LoopOK(pc[f], bp, left, online', reserved', active') BY <1>5 DEF LoopOK
  <2>4. FileOK(f)' BY <1>2, <1>4, <1>5, <2>1, <2>2, <2>3 DEF FileOK, Making
  <2> QED BY <1>3, <1>4, <1>5, <2>1, <2>4, RoundKeeps
<1>6. CASE e \in active /\ Deactivate(e) /\ UNCHANGED <<slots, cpus>>
  <2>1. /\ reserved' = reserved /\ active' = active \ {e} /\ online' = online
        /\ cpus' = cpus
    BY <1>6 DEF Deactivate, slots
  <2>2. CoreInv' BY <1>3, <1>6, DeactivateKeeps
  <2>3. \A id : CpusWith(id, active')
                  = CpusWith(id, active) \ (IF id = bp.id THEN {c} ELSE {})
    BY <1>2, <2>1, OneEvent
  <2>4. \A id : id # bp.id => /\ CpusWith(id, reserved') = CpusWith(id, reserved)
                              /\ CpusWith(id, active') = CpusWith(id, active)
    BY <2>1, <2>3
  <2>5. cpus' = [cpus EXCEPT ![f] = todo] BY <1>3, <2>1 DEF FilesInv
  <2>6. FilesInv' BY <1>2, <1>5, <2>1, <2>4, <2>5
  <2> QED BY <2>2, <2>6 DEF DevInv
<1>7. CASE e \in reserved \ active /\ release_bp_slot(e) /\ Advance(f) /\ UNCHANGED cpuState
  <2>1. /\ reserved' = reserved \ {e} /\ active' = active /\ online' = online
        /\ cpus' = [cpus EXCEPT ![f] = todo \ {c}]
    BY <1>7 DEF release_bp_slot, Advance, cpuState
  <2>2. CoreInv' BY <1>3, <1>7, ReleaseKeeps
  <2>3. \A id : CpusWith(id, reserved')
                  = CpusWith(id, reserved) \ (IF id = bp.id THEN {c} ELSE {})
    BY <1>2, <2>1, OneEvent
  <2>4. \A id : id # bp.id => /\ CpusWith(id, reserved') = CpusWith(id, reserved)
                              /\ CpusWith(id, active') = CpusWith(id, active)
    BY <2>1, <2>3
  <2>5. CpusWith(bp.id, reserved') \subseteq todo \ {c} BY <1>2, <2>3
  <2>6. todo \ {c} \subseteq Cpus BY <1>2
  <2>7. FilesInv' BY <1>5, <2>1, <2>4, <2>5, <2>6
  <2> QED BY <2>2, <2>7 DEF DevInv
<1>8. CASE e \notin reserved /\ Advance(f) /\ UNCHANGED <<slots, cpuState>>
  <2>1. /\ reserved' = reserved /\ active' = active /\ online' = online
        /\ cpus' = [cpus EXCEPT ![f] = todo \ {c}]
    BY <1>8 DEF slots, Advance, cpuState
  <2>2. CoreInv' BY <1>3, <1>8, CoreStays
  <2>3. c \notin CpusWith(bp.id, reserved)
    <3>1. WideEvent([id |-> bp.id], c) = e BY DEF WideEvent
    <3> QED BY <1>8, <3>1 DEF CpusWith
  <2>4. CpusWith(bp.id, reserved') \subseteq todo \ {c} BY <1>2, <2>1, <2>3
  <2>5. todo \ {c} \subseteq Cpus BY <1>2
  <2>6. FilesInv' BY <1>5, <2>1, <2>4, <2>5
  <2> QED BY <2>2, <2>6 DEF DevInv
<1> QED BY <1>1, <1>6, <1>7, <1>8 DEF Unregister

(* The fail label leaves nothing of the record.                            *)
LEMMA FailStep == ASSUME DevInv, NEW f \in Files, Fail(f) PROVE DevInv'
<1>1. pc[f] = "fail" /\ list' = list /\ cur' = cur BY DEF Fail
<1>2. CASE Unregister(f) /\ UNCHANGED pc BY <1>1, <1>2, UnregisterRound
<1>3. CASE cpus[f] = {} /\ Goto(f, "idle") /\ UNCHANGED <<slots, cpuState, cpus>>
  <2>1. /\ list[f] \in Seq(Records) /\ cur[f] \in Records
        /\ CpusWith(cur[f].id, reserved) = {} /\ ListOK("fail", list[f], cur[f], active)
    BY <1>1, <1>3, FileFacts DEF LoopOK
  <2>2. /\ pc' = [pc EXCEPT ![f] = "idle"] /\ cpus' = cpus /\ online' = online
        /\ reserved' = reserved /\ active' = active
    BY <1>3 DEF Goto, slots, cpuState
  <2>3. DevInv /\ CoreInv' /\ FilesInv BY <1>3, CoreStays DEF DevInv
  <2>4. Only(f) /\ pc'[f] = "idle" BY <1>1, <2>2, <2>3 DEF Only, FilesInv
  <2>5. ListOK("idle", list[f], cur[f], active) BY <2>1 DEF ListOK, Making
  <2>6. LoopOK("idle", cur[f], cpus[f], online, reserved, active) BY DEF LoopOK
  <2>7. FileOK(f)' BY <1>1, <1>3, <2>1, <2>2, <2>4, <2>5, <2>6 DEF FileOK
  <2>8. FilesInv' BY <1>1, <2>1, <2>2, <2>3, <2>4, <2>7, RoundKeeps DEF Working, Making
  <2> QED BY <2>3, <2>8 DEF DevInv
<1> QED BY <1>2, <1>3 DEF Fail

(* list_add.                                                               *)
LEMMA Prepended ==
    ASSUME NEW T, NEW s \in Seq(T), NEW x \in T, NEW w, w = <<x>> \o s
    PROVE  /\ w \in Seq(T) /\ DOMAIN w = 1 .. Len(s) + 1 /\ w[1] = x
           /\ \A i \in DOMAIN w \ {1} : i - 1 \in DOMAIN s /\ w[i] = s[i - 1]
<1> DEFINE h == <<x>>
<1>1. h \in Seq(T) /\ Len(h) = 1 /\ h[1] = x OBVIOUS
<1>2. w = h \o s BY DEF h
<1> HIDE DEF h
<1>3. /\ w \in Seq(T) /\ Len(w) = 1 + Len(s) /\ Len(s) \in Nat
      /\ \A k \in 1 .. 1 + Len(s) : w[k] = IF k <= 1 THEN h[k] ELSE s[k - 1]
  BY <1>1, <1>2, ConcatProperties
<1>4. DOMAIN w = 1 .. Len(s) + 1 /\ DOMAIN s = 1 .. Len(s) BY <1>3
<1> QED BY <1>1, <1>3, <1>4

LEMMA AllocStep == ASSUME DevInv, NEW f \in Files, Alloc(f) PROVE DevInv'
<1>1. /\ pc[f] = "alloc" /\ cur' = cur /\ reserved' = reserved /\ active' = active
      /\ online' = online
  BY DEF Alloc, slots, cpuState
<1>2. DevInv /\ CoreInv' /\ FilesInv BY CoreStays DEF Alloc, DevInv
<1> DEFINE bp == cur[f]
           s == list[f]
<1>3. /\ s \in Seq(Records) /\ bp \in Records /\ cpus[f] \subseteq Cpus
      /\ CpusWith(bp.id, active) # {} /\ ListOK("alloc", s, bp, active)
  BY <1>1, FileFacts DEF LoopOK
<1>4. CASE /\ list' = [list EXCEPT ![f] = <<bp>> \o s] /\ Goto(f, "idle") /\ cpus' = cpus
  <2>1. pc' = [pc EXCEPT ![f] = "idle"] BY <1>4 DEF Goto
  <2>2. pc'[f] = "idle" /\ list'[f] = <<bp>> \o s /\ Only(f)
    BY <1>1, <1>2, <1>4, <2>1 DEF Only, FilesInv
  <2> DEFINE w == list'[f]
  <2>3. w = <<bp>> \o s BY <2>2
  <2> HIDE DEF w
  <2>4. /\ w \in Seq(Records) /\ DOMAIN w = 1 .. Len(s) + 1 /\ w[1] = bp
        /\ \A i \in DOMAIN w \ {1} : i - 1 \in DOMAIN s /\ w[i] = s[i - 1]
    BY <1>3, <2>3, Prepended
  <2>5. \A i, j \in DOMAIN w : w[i].id = w[j].id => i = j
    <3>1. /\ \A i, j \in DOMAIN s : s[i].id = s[j].id => i = j
          /\ \A i \in DOMAIN s : s[i].id # bp.id
      BY <1>3 DEF ListOK, Making
    <3> HIDE DEF bp, s
    <3>2. ASSUME NEW i \in DOMAIN w \ {1}, NEW j \in DOMAIN w \ {1}, w[i].id = w[j].id
          PROVE  i = j
      <4>1. i - 1 = j - 1 BY <2>4, <3>1, <3>2
      <4>2. i \in Nat /\ j \in Nat BY <1>3, <2>4 DEF s
      <4> QED BY <4>1, <4>2
    <3>3. \A i \in DOMAIN w \ {1} : w[i].id # w[1].id BY <2>4, <3>1
    <3> QED BY <3>2, <3>3
  <2>6. \A i \in DOMAIN w : CpusWith(w[i].id, active) # {}
    <3>1. \A i \in DOMAIN s : CpusWith(s[i].id, active) # {} BY <1>3 DEF ListOK
    <3> QED BY <1>3, <2>4, <3>1
  <2>7. ListOK("idle", w, bp, active) BY <2>5, <2>6 DEF ListOK, Making
  <2>8. LoopOK("idle", bp, cpus[f], online, reserved, active) BY DEF LoopOK
  <2>9. FileOK(f)' BY <1>1, <1>3, <1>4, <2>2, <2>4, <2>7, <2>8 DEF FileOK, w
  <2>10. Own(pc'[f], list'[f], cur'[f]) = Own(pc[f], list[f], cur[f])
    <3>1. Own(pc[f], list[f], cur[f]) = {s[i].id : i \in DOMAIN s} \cup {bp.id}
      BY <1>1 DEF Own
    <3>2. Own(pc'[f], list'[f], cur'[f]) = {w[i].id : i \in DOMAIN w} BY <2>2 DEF Own, w
    <3>3. \A i \in DOMAIN s : i + 1 \in DOMAIN w \ {1} /\ w[i + 1] = s[i]
      <4> HIDE DEF s
      <4> SUFFICES ASSUME NEW i \in DOMAIN s PROVE i + 1 \in DOMAIN w \ {1} /\ w[i + 1] = s[i]
        OBVIOUS
      <4>1. i \in 1 .. Len(s) /\ Len(s) \in Nat BY <1>3 DEF s
      <4>2. i + 1 \in DOMAIN w \ {1} /\ (i + 1) - 1 = i BY <2>4, <4>1
      <4> QED BY <2>4, <4>2
    <3>4. 1 \in DOMAIN w BY <1>3, <2>4
    <3> HIDE DEF s, bp
    <3> QED BY <2>4, <3>1, <3>2, <3>3, <3>4
  <2>11. \A id \in BpIds \ Own(pc'[f], list'[f], cur'[f]) :
            id \in Own(pc[f], list[f], cur[f]) => CpusWith(id, reserved') = {}
    BY <2>10
  <2>12. FilesInv' BY <1>1, <1>2, <2>2, <2>9, <2>10, <2>11, OneFileMoves
  <2> QED BY <1>2, <2>12 DEF DevInv
<1>5. CASE /\ cpus' = [cpus EXCEPT ![f] = Cpus] /\ Goto(f, "undo") /\ list' = list
  <2>1. pc' = [pc EXCEPT ![f] = "undo"] BY <1>5 DEF Goto
  <2>2. pc'[f] = "undo" /\ cpus'[f] = Cpus /\ Only(f)
    BY <1>1, <1>2, <1>5, <2>1 DEF Only, FilesInv
  <2>3. ListOK("undo", s, bp, active) BY <1>3, ListKeeps DEF Making
  <2>4. LoopOK("undo", bp, Cpus, online, reserved, active) BY DEF LoopOK, CpusWith
  <2>5. FileOK(f)' BY <1>1, <1>3, <1>5, <2>2, <2>3, <2>4 DEF FileOK, Making
  <2>6. FilesInv' BY <1>1, <1>2, <1>5, <2>2, <2>5, RoundKeeps DEF Working, Making
  <2> QED BY <1>2, <2>6 DEF DevInv
<1> QED BY <1>4, <1>5 DEF Alloc

(* BP_CREATE takes an id that nobody has, and so no slot.                  *)
LEMMA CreateStep == ASSUME DevInv, NEW f \in Files, create_bp(f) PROVE DevInv'
<1>1. /\ pc[f] = "idle" /\ list' = list /\ reserved' = reserved /\ active' = active
      /\ online' = online /\ pc' = [pc EXCEPT ![f] = "reserve"]
      /\ cpus' = [cpus EXCEPT ![f] = online]
  BY DEF create_bp, slots, cpuState, Goto
<1>2. DevInv /\ CoreInv' /\ FilesInv BY CoreStays DEF create_bp, DevInv
<1>3. PICK id \in BpIds \ InUse, addr \in Addrs :
         cur' = [cur EXCEPT ![f] = [id |-> id, addr |-> addr]]
  BY DEF create_bp
<1> DEFINE bp == [id |-> id, addr |-> addr]
           s == list[f]
<1>4. /\ s \in Seq(Records) /\ active \subseteq reserved /\ online # {}
      /\ online \subseteq Cpus /\ ListOK("idle", s, cur[f], active)
  BY <1>1, FileFacts
<1>5. \A g \in Files : id \notin Own(pc[g], list[g], cur[g]) BY <1>3, InUseIds
<1>6. CpusWith(id, reserved) = {} /\ CpusWith(id, active) = {}
  <2>1. CpusWith(id, reserved) = {} BY <1>2, <1>3, <1>5 DEF FilesInv
  <2> QED BY <1>4, <2>1 DEF CpusWith
<1>7. pc'[f] = "reserve" /\ cpus'[f] = online /\ cur'[f] = bp /\ Only(f)
  BY <1>1, <1>2, <1>3 DEF Only, FilesInv
<1>8. bp \in Records /\ bp.id = id BY DEF Records
<1> HIDE DEF bp
<1>9. ListOK("reserve", s, bp, active)
  <2>1. \A i \in DOMAIN s : s[i].id # id
    BY <1>2, <1>5, OwnIds
  <2> QED BY <1>4, <1>8, <2>1 DEF ListOK, Making
<1>10. LoopOK("reserve", bp, online, online, reserved, active)
  BY <1>4, <1>6, <1>8 DEF LoopOK
<1>11. FileOK(f)' BY <1>1, <1>4, <1>7, <1>8, <1>9, <1>10 DEF FileOK, Making
<1> DEFINE O == Own(pc[f], list[f], cur[f])
           O1 == Own(pc'[f], list'[f], cur'[f])
<1>12. O1 = O \cup {id} BY <1>1, <1>7, <1>8 DEF Own
<1> HIDE DEF O, O1
<1>13. \A x \in O1 : x \in O \/ \A g \in Files : x \notin Own(pc[g], list[g], cur[g])
  BY <1>5, <1>12
<1>14. \A x \in BpIds \ O1 : x \notin O BY <1>12
<1>15. FilesInv' BY <1>1, <1>2, <1>7, <1>11, <1>13, <1>14, OneFileMoves DEF O, O1
<1> QED BY <1>2, <1>15 DEF DevInv

(* A file that starts to take down a record it lists.                      *)
LEMMA StartKeeps ==
    ASSUME DevInv, NEW f \in Files, NEW k \in DOMAIN list[f], NEW place \in {"delete", "close"},
           pc[f] = "idle", place = "close" => k = 1, Start(f, list[f][k], place),
           UNCHANGED <<slots, cpuState, list>>
    PROVE  DevInv'
<1> DEFINE s == list[f]
           bp == s[k]
<1>1. /\ list' = list /\ reserved' = reserved /\ active' = active /\ online' = online
      /\ pc' = [pc EXCEPT ![f] = place] /\ cpus' = [cpus EXCEPT ![f] = Cpus]
      /\ cur' = [cur EXCEPT ![f] = bp]
  BY DEF Start, Goto, slots, cpuState
<1>2. DevInv /\ CoreInv' /\ FilesInv BY CoreStays DEF DevInv
<1>3. s \in Seq(Records) /\ bp \in Records /\ ListOK("idle", s, cur[f], active)
  BY FileFacts
<1>4. pc'[f] = place /\ cpus'[f] = Cpus /\ cur'[f] = bp /\ Only(f)
  BY <1>1, <1>2 DEF Only, FilesInv
<1>5. ListOK(place, s, bp, active)
  <2>1. s # <<>> BY <1>3
  <2> QED BY <1>3, <2>1 DEF ListOK, Making
<1>6. LoopOK(place, bp, Cpus, online, reserved, active) BY DEF LoopOK, CpusWith
<1>7. FileOK(f)' BY <1>1, <1>3, <1>4, <1>5, <1>6 DEF FileOK, Making
<1> DEFINE O == Own(pc[f], list[f], cur[f])
           O1 == Own(pc'[f], list'[f], cur'[f])
<1>8. O1 = O
  <2>1. O = {s[i].id : i \in DOMAIN s} BY DEF Own
  <2>2. O1 = {s[i].id : i \in DOMAIN s} \cup {bp.id} BY <1>1, <1>4 DEF Own
  <2>3. bp.id \in {s[i].id : i \in DOMAIN s} OBVIOUS
  <2> QED BY <2>1, <2>2, <2>3
<1> HIDE DEF O, O1
<1>9. (\A x \in O1 : x \in O) /\ (\A x \in BpIds \ O1 : x \notin O) BY <1>8
<1>10. FilesInv' BY <1>1, <1>2, <1>4, <1>7, <1>9, OneFileMoves DEF O, O1
<1> QED BY <1>2, <1>10 DEF DevInv

(* Steps that only move a file that is at no record.                       *)
LEMMA QuietKeeps ==
    ASSUME DevInv, NEW f \in Files, NEW place \in {"idle", "closed"},
           pc[f] \in {"idle", "closed"}, Goto(f, place),
           UNCHANGED <<slots, cpuState, list, cur, cpus>>
    PROVE  DevInv'
<1>1. /\ list' = list /\ reserved' = reserved /\ active' = active /\ online' = online
      /\ pc' = [pc EXCEPT ![f] = place] /\ cpus' = cpus /\ cur' = cur
  BY DEF Goto, slots, cpuState
<1>2. DevInv /\ CoreInv' /\ FilesInv BY CoreStays DEF DevInv
<1>3. /\ list[f] \in Seq(Records) /\ cur[f] \in Records /\ cpus[f] \in SUBSET Cpus
      /\ ListOK(pc[f], list[f], cur[f], active)
  BY FileFacts
<1>4. pc'[f] = place /\ Only(f) BY <1>1, <1>2 DEF Only, FilesInv
<1>5. ListOK(place, list[f], cur[f], active) BY <1>3 DEF ListOK, Making
<1>6. LoopOK(place, cur[f], cpus[f], online, reserved, active) BY DEF LoopOK
<1>7. FileOK(f)' BY <1>1, <1>3, <1>4, <1>5, <1>6 DEF FileOK
<1> DEFINE O == Own(pc[f], list[f], cur[f])
           O1 == Own(pc'[f], list'[f], cur'[f])
<1>8. O1 = O BY <1>1, <1>4 DEF Own
<1> HIDE DEF O, O1
<1>9. (\A x \in O1 : x \in O) /\ (\A x \in BpIds \ O1 : x \notin O) BY <1>8
<1>10. FilesInv' BY <1>1, <1>2, <1>4, <1>7, <1>9, OneFileMoves DEF O, O1
<1> QED BY <1>2, <1>10 DEF DevInv

LEMMA OpenStep == ASSUME DevInv, NEW f \in Files, bp_dev_open(f) PROVE DevInv'
BY QuietKeeps DEF bp_dev_open

LEMMA DeleteStep == ASSUME DevInv, NEW f \in Files, del_bp(f) PROVE DevInv'
<1>1. PICK i \in DOMAIN list[f] : Start(f, list[f][i], "delete") BY DEF del_bp
<1> QED BY <1>1, StartKeeps DEF del_bp

LEMMA ReleaseStep == ASSUME DevInv, NEW f \in Files, bp_dev_release(f) PROVE DevInv'
<1>1. CASE list[f] = <<>> BY <1>1, QuietKeeps DEF bp_dev_release
<1>2. CASE list[f] # <<>>
  <2>1. 1 \in DOMAIN list[f] BY <1>2, FileFacts
  <2>2. pc[f] = "idle" /\ Start(f, list[f][1], "close") /\ UNCHANGED <<slots, cpuState, list>>
    BY <1>2 DEF bp_dev_release
  <2> QED BY <2>1, <2>2, StartKeeps
<1> QED BY <1>1, <1>2

(* list_del of the record at k, where no other record is like it.          *)
LEMMA Removed ==
    ASSUME NEW s \in Seq(Records), NEW k \in 1 .. Len(s)
    PROVE  /\ RemoveAt(s, k) \in Seq(Records) /\ Len(RemoveAt(s, k)) = Len(s) - 1
           /\ \A i \in 1 .. Len(s) - 1 : RemoveAt(s, k)[i] = IF i < k THEN s[i] ELSE s[i + 1]
<1> DEFINE a == SubSeq(s, 1, k - 1)
           b == SubSeq(s, k + 1, Len(s))
<1>1. k \in Nat /\ Len(s) \in Nat /\ k >= 1 /\ k <= Len(s) OBVIOUS
<1>2. a \in Seq(Records) /\ Len(a) = k - 1 /\ \A i \in 1 .. k - 1 : a[i] = s[i]
  BY <1>1
<1>3. b \in Seq(Records) /\ Len(b) = Len(s) - k /\ \A i \in 1 .. Len(s) - k : b[i] = s[k + i]
  BY <1>1
<1>4. RemoveAt(s, k) = a \o b BY DEF RemoveAt
<1> HIDE DEF a, b
<1>5. /\ a \o b \in Seq(Records) /\ Len(a \o b) = Len(a) + Len(b)
      /\ \A i \in 1 .. Len(a) + Len(b) : (a \o b)[i] = IF i <= Len(a) THEN a[i] ELSE b[i - Len(a)]
  BY <1>2, <1>3, ConcatProperties
<1>6. Len(a \o b) = Len(s) - 1 BY <1>1, <1>2, <1>3, <1>5
<1>7. ASSUME NEW i \in 1 .. Len(s) - 1
      PROVE  (a \o b)[i] = IF i < k THEN s[i] ELSE s[i + 1]
  <2>1. CASE i < k BY <2>1, <1>1, <1>2, <1>3, <1>5
  <2>2. CASE ~(i < k)
    <3>1. (a \o b)[i] = b[i - (k - 1)] BY <2>2, <1>1, <1>2, <1>3, <1>5
    <3>2. i - (k - 1) \in 1 .. Len(s) - k /\ k + (i - (k - 1)) = i + 1 BY <2>2, <1>1
    <3> QED BY <2>2, <3>1, <3>2, <1>3
  <2> QED BY <2>1, <2>2
<1> QED BY <1>4, <1>5, <1>6, <1>7

LEMMA Deleted ==
    ASSUME NEW s \in Seq(Records), NEW bp,
           \A i, j \in DOMAIN s : s[i].id = s[j].id => i = j
    PROVE  /\ (\A i \in DOMAIN s : s[i].id # bp.id) => list_del(s, bp) = s
           /\ \A k \in DOMAIN s : s[k] = bp => list_del(s, bp) = RemoveAt(s, k)
<1> DEFINE at == {i \in DOMAIN s : s[i] = bp}
<1>1. ASSUME \A i \in DOMAIN s : s[i].id # bp.id PROVE list_del(s, bp) = s
  <2>1. at = {} BY <1>1
  <2> QED BY <2>1 DEF list_del
<1>2. ASSUME NEW k \in DOMAIN s, s[k] = bp PROVE list_del(s, bp) = RemoveAt(s, k)
  <2>1. at = {k} BY <1>2
  <2>2. First({k}) = k
    <3>1. k \in Nat BY <1>2
    <3> QED BY <3>1 DEF First
  <2> QED BY <2>1, <2>2 DEF list_del
<1> QED BY <1>1, <1>2

Distinct(s) == \A i, j \in DOMAIN s : s[i].id = s[j].id => i = j

(* w is s without its entry k.                                             *)
Cut(w, s, k) ==
    /\ w \in Seq(Records) /\ Distinct(w)
    /\ \A i \in DOMAIN w : \E j \in DOMAIN s \ {k} : w[i] = s[j]
    /\ \A j \in DOMAIN s \ {k} : \E i \in DOMAIN w : w[i] = s[j]
    /\ k = 1 /\ Len(s) > 1 => w # <<>> /\ w[1] = s[2]

LEMMA Shortened ==
    ASSUME NEW s \in Seq(Records), Distinct(s), NEW k \in DOMAIN s
    PROVE  Cut(RemoveAt(s, k), s, k)
<1> DEFINE n == Len(s)
           w == RemoveAt(s, k)
           old(i) == IF i < k THEN i ELSE i + 1
<1>1. n \in Nat /\ k \in 1 .. n /\ DOMAIN s = 1 .. n OBVIOUS
<1>2. w \in Seq(Records) /\ Len(w) = n - 1 /\ \A i \in 1 .. n - 1 : w[i] = s[old(i)]
  <2>1. /\ w \in Seq(Records) /\ Len(w) = n - 1
        /\ \A i \in 1 .. n - 1 : w[i] = IF i < k THEN s[i] ELSE s[i + 1]
    BY <1>1, Removed
  <2> QED BY <2>1
<1> HIDE DEF w
<1>3. DOMAIN w = 1 .. n - 1 BY <1>1, <1>2
<1> HIDE DEF n
<1>4. \A i \in 1 .. n - 1 : old(i) \in 1 .. n /\ old(i) # k BY <1>1
<1>5. /\ \A i, j \in 1 .. n - 1 : old(i) = old(j) => i = j
      /\ \A i, j \in DOMAIN s : s[i].id = s[j].id => i = j
  BY <1>1 DEF Distinct
<1>6. \A j \in (1 .. n) \ {k} : \E i \in 1 .. n - 1 : old(i) = j
  <2> SUFFICES ASSUME NEW j \in (1 .. n) \ {k} PROVE \E i \in 1 .. n - 1 : old(i) = j
    OBVIOUS
  <2>1. CASE j < k
    <3>1. j \in 1 .. n - 1 /\ old(j) = j BY <1>1, <2>1
    <3> QED BY <3>1
  <2>2. CASE ~(j < k)
    <3>1. j - 1 \in 1 .. n - 1 /\ old(j - 1) = j BY <1>1, <2>2
    <3> QED BY <3>1
  <2> QED BY <2>1, <2>2
<1>7. k = 1 /\ n > 1 => 1 \in 1 .. n - 1 /\ old(1) = 2 BY <1>1
<1> HIDE DEF old
<1>8. \A i, j \in DOMAIN w : w[i].id = w[j].id => i = j BY <1>1, <1>2, <1>3, <1>4, <1>5
<1>9. \A i \in DOMAIN w : \E j \in DOMAIN s \ {k} : w[i] = s[j] BY <1>1, <1>2, <1>3, <1>4
<1>10. \A j \in DOMAIN s \ {k} : \E i \in DOMAIN w : w[i] = s[j] BY <1>1, <1>2, <1>3, <1>6
<1>11. k = 1 /\ n > 1 => w # <<>> /\ w[1] = s[2]
  <2> SUFFICES ASSUME k = 1, n > 1 PROVE w # <<>> /\ w[1] = s[2] OBVIOUS
  <2>1. Len(w) # 0 BY <1>1, <1>2
  <2> QED BY <1>2, <1>7, <2>1
<1> QED BY <1>2, <1>8, <1>9, <1>10, <1>11 DEF n, w, Cut, Distinct

(* The end of a deletion, or of one record of a release.                   *)
LEMMA RecordGone ==
    ASSUME DevInv, NEW f \in Files, pc[f] \in {"delete", "close"}, cpus[f] = {},
           list' = [list EXCEPT ![f] = list_del(@, cur[f])], Next3(f),
           UNCHANGED <<slots, cpuState>>
    PROVE  DevInv'
<1> DEFINE s == list[f]
           bp == cur[f]
           w == list'[f]
<1>1. reserved' = reserved /\ active' = active /\ online' = online BY DEF slots, cpuState
<1>2. DevInv /\ CoreInv' /\ FilesInv BY CoreStays DEF DevInv
<1>3. /\ s \in Seq(Records) /\ bp \in Records /\ CpusWith(bp.id, reserved) = {}
      /\ ListOK(pc[f], s, bp, active)
  BY FileFacts DEF LoopOK
<1>4. \A i, j \in DOMAIN s : s[i].id = s[j].id => i = j BY <1>3 DEF ListOK
<1>5. PICK k \in DOMAIN s : s[k] = bp /\ (pc[f] = "close" => k = 1)
  <2>1. CASE pc[f] = "delete" BY <1>3, <2>1 DEF ListOK
  <2>2. CASE pc[f] = "close"
    <3>1. s # <<>> /\ s[1] = bp BY <1>3, <2>2 DEF ListOK
    <3>2. 1 \in DOMAIN s BY <1>3, <3>1
    <3> QED BY <3>1, <3>2
  <2> QED BY <2>1, <2>2
<1>6. w = RemoveAt(s, k)
  <2>1. w = list_del(s, bp) BY <1>2 DEF FilesInv
  <2> QED BY <1>3, <1>4, <1>5, <2>1, Deleted
<1>7. list' = [list EXCEPT ![f] = list'[f]] BY <1>2 DEF FilesInv
<1> HIDE DEF w
<1>8. /\ w \in Seq(Records)
      /\ \A i, j \in DOMAIN w : w[i].id = w[j].id => i = j
      /\ \A i \in DOMAIN w : \E j \in DOMAIN s \ {k} : w[i] = s[j]
      /\ \A j \in DOMAIN s \ {k} : \E i \in DOMAIN w : w[i] = s[j]
      /\ k = 1 /\ Len(s) > 1 => w # <<>> /\ w[1] = s[2]
  <2>1. Distinct(s) BY <1>4 DEF Distinct
  <2>2. Cut(w, s, k) BY <1>3, <1>5, <1>6, <2>1, Shortened
  <2> HIDE DEF s
  <2> QED BY <2>2 DEF Cut, Distinct
<1>9. \A j \in DOMAIN s \ {k} : s[j].id # bp.id /\ CpusWith(s[j].id, active) # {}
  BY <1>3, <1>4, <1>5 DEF ListOK
<1>10. \A i \in DOMAIN w : w[i].id # bp.id /\ CpusWith(w[i].id, active) # {}
  <2> SUFFICES ASSUME NEW i \in DOMAIN w
               PROVE  w[i].id # bp.id /\ CpusWith(w[i].id, active) # {}
    OBVIOUS
  <2>1. PICK j \in DOMAIN s \ {k} : w[i] = s[j] BY <1>8
  <2> QED BY <1>9, <2>1
<1> DEFINE O == Own(pc[f], list[f], cur[f])
           O1 == Own(pc'[f], list'[f], cur'[f])
           ids == {w[i].id : i \in DOMAIN w}
<1>11. O = {s[i].id : i \in DOMAIN s} BY <1>5 DEF Own
<1>12. O = ids \cup {bp.id} /\ bp.id \notin ids
  <2>1. O \subseteq ids \cup {bp.id}
    <3> SUFFICES ASSUME NEW j \in DOMAIN s PROVE s[j].id \in ids \cup {bp.id} BY <1>11
    <3>1. CASE j = k BY <1>5, <3>1
    <3>2. CASE j # k
      <4>1. PICK i \in DOMAIN w : w[i] = s[j] BY <1>8, <3>2
      <4> QED BY <4>1
    <3> QED BY <3>1, <3>2
  <2>2. ids \subseteq O
    <3> SUFFICES ASSUME NEW i \in DOMAIN w PROVE w[i].id \in O OBVIOUS
    <3>1. PICK j \in DOMAIN s \ {k} : w[i] = s[j] BY <1>8
    <3> QED BY <1>11, <3>1
  <2>3. bp.id \in O BY <1>5, <1>11
  <2>4. bp.id \notin ids BY <1>10
  <2> QED BY <2>1, <2>2, <2>3, <2>4
(* Whatever the file does next, it answers for what is left on its list.   *)
<1>13. ASSUME Only(f), FileOK(f)', O1 = ids PROVE FilesInv'
  <2>1. \A id \in O1 : id \in O BY <1>12, <1>13
  <2>2. \A id \in BpIds \ O1 : id \in O => CpusWith(id, reserved') = {}
    BY <1>1, <1>3, <1>12, <1>13
  <2> HIDE DEF O, O1
  <2> QED BY <1>1, <1>2, <1>13, <2>1, <2>2, OneFileMoves DEF O, O1
<1>14. CASE pc[f] = "close" /\ Len(s) > 1
  <2>1. /\ cur' = [cur EXCEPT ![f] = s[2]] /\ cpus' = [cpus EXCEPT ![f] = Cpus]
        /\ pc' = [pc EXCEPT ![f] = "close"]
    BY <1>14 DEF Next3, Start, Goto
  <2>2. cur'[f] = s[2] /\ cpus'[f] = Cpus /\ pc'[f] = "close" /\ Only(f)
    BY <1>2, <1>7, <2>1 DEF Only, FilesInv
  <2>3. s[2] \in Records BY <1>3, <1>14
  <2>4. w # <<>> /\ w[1] = s[2] BY <1>5, <1>8, <1>14
  <2>5. ListOK("close", w, s[2], active) BY <1>8, <1>10, <2>4 DEF ListOK, Making
  <2>6. LoopOK("close", s[2], Cpus, online, reserved, active) BY DEF LoopOK, CpusWith
  <2>7. FileOK(f)' BY <1>1, <1>8, <2>2, <2>3, <2>5, <2>6 DEF FileOK, w
  <2>8. O1 = ids
    <3>1. O1 = ids \cup {s[2].id} BY <2>2 DEF Own, w
    <3>2. 1 \in DOMAIN w BY <1>8, <2>4
    <3>3. s[2].id \in ids BY <2>4, <3>2
    <3> QED BY <3>1, <3>3
  <2> QED BY <1>2, <1>13, <2>2, <2>7, <2>8 DEF DevInv
<1>15. CASE ~(pc[f] = "close" /\ Len(s) > 1)
  <2> DEFINE place == IF pc[f] = "close" THEN "closed" ELSE "idle"
  <2>1. /\ pc' = [pc EXCEPT ![f] = place] /\ cur' = cur /\ cpus' = cpus
    BY <1>15 DEF Next3, Goto
  <2>2. pc'[f] = place /\ place \in {"idle", "closed"} /\ Only(f)
    BY <1>2, <1>7, <2>1 DEF Only, FilesInv
  <2> HIDE DEF place
  <2>3. ListOK(place, w, bp, active) BY <1>8, <1>10, <2>2 DEF ListOK, Making
  <2>4. LoopOK(place, bp, cpus[f], online, reserved, active) BY <2>2 DEF LoopOK
  <2>5. FileOK(f)' BY <1>1, <1>3, <1>8, <2>1, <2>2, <2>3, <2>4 DEF FileOK, w
  <2>6. O1 = ids BY <2>2 DEF Own, w
  <2> QED BY <1>2, <1>13, <2>2, <2>5, <2>6 DEF DevInv
<1> QED BY <1>14, <1>15

LEMMA TearDownStep == ASSUME DevInv, NEW f \in Files, TearDown(f) PROVE DevInv'
<1>1. pc[f] \in {"undo", "delete", "close"} BY DEF TearDown
<1>2. CASE Unregister(f) /\ UNCHANGED <<pc, list, cur>> BY <1>1, <1>2, UnregisterRound
<1>3. CASE /\ cpus[f] = {} /\ list' = [list EXCEPT ![f] = list_del(@, cur[f])]
           /\ Next3(f) /\ UNCHANGED <<slots, cpuState>>
  <2>1. CASE pc[f] \in {"delete", "close"} BY <1>3, <2>1, RecordGone
  <2>2. CASE pc[f] = "undo"
    <3>1. /\ list[f] \in Seq(Records) /\ cur[f] \in Records
          /\ CpusWith(cur[f].id, reserved) = {} /\ ListOK("undo", list[f], cur[f], active)
      BY <1>3, <2>2, FileFacts DEF LoopOK
    <3>2. list_del(list[f], cur[f]) = list[f]
      <4>1. /\ \A i, j \in DOMAIN list[f] : list[f][i].id = list[f][j].id => i = j
            /\ \A i \in DOMAIN list[f] : list[f][i].id # cur[f].id
        BY <3>1 DEF ListOK, Making
      <4> QED BY <3>1, <4>1, Deleted
    <3>3. /\ pc' = [pc EXCEPT ![f] = "idle"] /\ cpus' = cpus /\ cur' = cur
          /\ online' = online /\ reserved' = reserved /\ active' = active
      BY <1>3, <2>2 DEF Next3, Goto, slots, cpuState
    <3>4. DevInv /\ CoreInv' /\ FilesInv BY <1>3, CoreStays DEF DevInv
    <3>5. list' = list BY <1>3, <3>2, <3>4 DEF FilesInv
    <3>6. Only(f) /\ pc'[f] = "idle" BY <3>3, <3>4, <3>5 DEF Only, FilesInv
    <3>7. ListOK("idle", list[f], cur[f], active) BY <3>1 DEF ListOK, Making
    <3>8. LoopOK("idle", cur[f], cpus[f], online, reserved, active) BY DEF LoopOK
    <3>9. FileOK(f)' BY <1>3, <3>1, <3>3, <3>5, <3>6, <3>7, <3>8 DEF FileOK
    <3>10. FilesInv' BY <2>2, <3>1, <3>3, <3>4, <3>5, <3>6, <3>9, RoundKeeps DEF Working, Making
    <3> QED BY <3>4, <3>10 DEF DevInv
  <2> QED BY <1>1, <2>1, <2>2
<1> QED BY <1>2, <1>3 DEF TearDown

(* Debuggers use other events, and cpus come and go between the loops that *)
(* visit the online ones.                                                  *)
LEMMA UserStep ==
    ASSUME DevInv, NEW bp \in TaskEvents, RegisterUser(bp) \/ ValidateUser(bp) \/ DisableUser(bp)
    PROVE  DevInv'
<1>1. CoreInv /\ FilesInv /\ bp \in Events BY DEF DevInv, TaskEvents
<1>2. CASE RegisterUser(bp)
  <2>1. /\ reserve_bp_slot(bp) /\ UNCHANGED <<cpuState, device>> /\ online' = online
        /\ reserved' = reserved \cup {bp} /\ active' = active
    BY <1>2 DEF RegisterUser, reserve_bp_slot, cpuState
  <2>2. CoreInv' BY <1>1, <2>1, ReserveKeeps
  <2>3. FilesInv' BY <1>1, <2>1, OthersEvent, FilesStay
  <2> QED BY <2>2, <2>3 DEF DevInv
<1>3. CASE bp \in reserved \ active /\ Activate(bp) /\ UNCHANGED <<slots, device>>
  <2>1. online' = online /\ reserved' = reserved /\ active' = active \cup {bp}
    BY <1>3 DEF Activate, slots
  <2>2. CoreInv' BY <1>1, <1>3, ActivateKeeps
  <2>3. FilesInv' BY <1>1, <1>3, <2>1, OthersEvent, FilesStay
  <2> QED BY <2>2, <2>3 DEF DevInv
<1>4. CASE bp \in reserved \ active /\ release_bp_slot(bp) /\ UNCHANGED <<cpuState, device>>
  <2>1. online' = online /\ reserved' = reserved \ {bp} /\ active' = active
    BY <1>4 DEF release_bp_slot, cpuState
  <2>2. CoreInv' BY <1>1, <1>4, ReleaseKeeps
  <2>3. FilesInv' BY <1>1, <1>4, <2>1, OthersEvent, FilesStay
  <2> QED BY <2>2, <2>3 DEF DevInv
<1>5. CASE DisableUser(bp)
  <2>1. /\ Deactivate(bp) /\ UNCHANGED <<slots, device>>
        /\ online' = online /\ reserved' = reserved /\ active' = active \ {bp}
    BY <1>5 DEF DisableUser, Deactivate, slots
  <2>2. CoreInv' BY <1>1, <2>1, DeactivateKeeps
  <2>3. FilesInv' BY <1>1, <2>1, OthersEvent, FilesStay
  <2> QED BY <2>2, <2>3 DEF DevInv
<1> QED BY <1>2, <1>3, <1>4, <1>5 DEF ValidateUser

LEMMA CpuStep ==
    ASSUME DevInv, NEW c \in Cpus, ContextSwitch(c) \/ Offline(c) \/ Online(c)
    PROVE  DevInv'
<1>1. CoreInv' /\ FilesInv BY CpuKeeps DEF DevInv
<1>2. /\ UNCHANGED device /\ reserved' = reserved /\ active' = active
      /\ online' = online \/ HotplugAllowed
  BY DEF ContextSwitch, Offline, Online, slots
<1>3. FilesInv' BY <1>1, <1>2, FilesStay
<1> QED BY <1>1, <1>3 DEF DevInv

LEMMA DevStart == Init => DevInv
<1> SUFFICES ASSUME Init PROVE DevInv OBVIOUS
<1>1. SlotsInv /\ reserved = {} BY SlotsStart DEF Init, SlotsInit
<1>2. active = {} /\ online = Cpus /\ running = [c \in Cpus |-> NoTask]
      /\ regs = [c \in Cpus |-> NoRegs]
  BY DEF Init
<1>3. RegsInv
  <2>1. /\ NoRegs \in [Registers -> Events \cup {Free}]
        /\ \A i \in Registers : NoRegs[i] = Free
    BY DEF NoRegs, Registers
  <2>2. Holds(NoRegs, {}) BY <2>1 DEF Holds
  <2>3. \A c \in Cpus : Due(c) = {} BY <1>2 DEF Due, Wanted
  <2> QED BY <1>1, <1>2, <2>1, <2>2, <2>3, DeviceAssumption DEF RegsInv
<1>4. \A id : CpusWith(id, reserved) = {} BY <1>1 DEF CpusWith
<1>5. /\ pc = [f \in Files |-> "closed"] /\ list = [f \in Files |-> <<>>]
      /\ cur = [f \in Files |-> cur[f]] /\ cpus = [f \in Files |-> {}]
      /\ \A f \in Files : cur[f] \in Records
  <2>1. (CHOOSE bp \in Records : TRUE) \in Records BY DeviceAssumption
  <2>2. cur \in [Files -> {CHOOSE bp \in Records : TRUE}] BY DEF Init
  <2> QED BY <2>1, <2>2 DEF Init
<1>6. ASSUME NEW f \in Files PROVE FileOK(f)
  <2>1. LoopOK("closed", cur[f], {}, online, reserved, active) BY DEF LoopOK
  <2>2. ListOK("closed", <<>>, cur[f], active) BY DEF ListOK, Making
  <2> QED BY <1>5, <2>1, <2>2 DEF FileOK
<1>7. \A f \in Files : Own(pc[f], list[f], cur[f]) = {} BY <1>5 DEF Own
<1>8. FilesInv BY <1>4, <1>5, <1>6, <1>7 DEF FilesInv
<1> QED BY <1>1, <1>3, <1>8 DEF DevInv, CoreInv

LEMMA DevSteps == DevInv /\ [Next]_vars => DevInv'
<1> SUFFICES ASSUME DevInv, [Next]_vars PROVE DevInv' OBVIOUS
<1>1. ASSUME NEW c \in Cpus, ContextSwitch(c) \/ Offline(c) \/ Online(c) PROVE DevInv'
  BY <1>1, CpuStep
<1>2. ASSUME NEW bp \in TaskEvents, RegisterUser(bp) \/ ValidateUser(bp) \/ DisableUser(bp)
      PROVE  DevInv'
  BY <1>2, UserStep
<1>3. ASSUME NEW f \in Files,
             \/ bp_dev_open(f) \/ create_bp(f) \/ Reserve(f) \/ Validate(f) \/ Fail(f)
             \/ Alloc(f) \/ del_bp(f) \/ bp_dev_release(f) \/ TearDown(f)
      PROVE  DevInv'
  BY <1>3, OpenStep, CreateStep, ReserveStep, ValidateStep, FailStep, AllocStep, DeleteStep,
     ReleaseStep, TearDownStep
<1>4. CASE UNCHANGED vars
  <2>1. UNCHANGED <<slots, cpuState, device>> /\ online' = online
        /\ reserved' = reserved /\ active' = active
    BY <1>4 DEF vars, slots, cpuState, device
  <2>2. CoreInv' BY <2>1, CoreStays DEF DevInv
  <2>3. FilesInv' BY <2>1, FilesStay DEF DevInv
  <2> QED BY <2>2, <2>3 DEF DevInv
<1> QED BY <1>1, <1>2, <1>3, <1>4 DEF Next

(* The invariant is enough.                                                *)
LEMMA DevIsSound == DevInv => DeviceIsSound
<1> SUFFICES ASSUME DevInv PROVE DeviceIsSound OBVIOUS
<1>1. CoreInv /\ FilesInv BY DEF DevInv
<1>2. NoSlotLeaks
  <2> SUFFICES ASSUME NEW e \in reserved \cap WideEvents PROVE e.id \in InUse
    BY DEF NoSlotLeaks
  <2>1. PICK bp \in [id : BpIds], c \in Cpus : e = WideEvent(bp, c) BY DEF WideEvents
  <2>2. e.id = bp.id /\ bp.id \in BpIds /\ e = WideEvent([id |-> bp.id], c)
    BY <2>1 DEF WideEvent
  <2>3. c \in CpusWith(e.id, reserved) BY <2>2 DEF CpusWith
  <2> QED BY <1>1, <2>2, <2>3, InUseIds DEF FilesInv
<1>3. ListedIsWatching
  <2> SUFFICES ASSUME NEW f \in Files, NEW i \in DOMAIN list[f], pc[f] \notin {"delete", "close"}
               PROVE  \E c \in Cpus : WideEvent(list[f][i], c) \in active
    BY DEF ListedIsWatching
  <2>1. CpusWith(list[f][i].id, active) # {} BY FileFacts DEF ListOK
  <2> QED BY <2>1 DEF CpusWith, WideEvent
<1>4. RegistersSuffice
  <2> SUFFICES ASSUME NEW c \in online
               PROVE  {regs[c][i] : i \in DOMAIN regs[c]} \ {Free} = Wanted(c, running[c])
    BY DEF RegistersSuffice
  <2>1. Holds(regs[c], Wanted(c, running[c])) BY <1>1 DEF CoreInv, RegsInv, Due
  <2>2. DOMAIN regs[c] = Registers BY <2>1 DEF Holds
  <2> QED BY <2>1, <2>2 DEF Holds
<1> QED BY <1>2, <1>3, <1>4 DEF DeviceIsSound

(* breakpoint.c over register_wide_hw_breakpoint: for any cpus, registers, *)
(* files, addresses and tasks, a breakpoint has its slots as long as a     *)
(* file lists it and no longer, whichever step of its making fails; what   *)
(* is listed watches a cpu; and arch_install_hw_breakpoint never meets     *)
(* full registers, whichever tasks run and whichever cpus come and go.     *)
THEOREM DeviceStaysSound == Spec => []DeviceIsSound
<1> QED BY DevStart, DevSteps, DevIsSound, PTL DEF Spec
=============================================================================
