-------------------------- MODULE MutexDebugProofs --------------------------
(***************************************************************************)
(* The tracker loses no record and lists none twice, for any numbers of    *)
(* threads, mutexes, records and table entries, with unlocks by threads    *)
(* that do not hold the mutex and with uninit_mutex_debug at any time.     *)
(* While every thread unlocks only what it has locked, and the hooks are   *)
(* in place, its records are also true.                                    *)
(***************************************************************************)
EXTENDS MutexDebug, FiniteSetTheorems, SequenceTheorems, WellFoundedInduction, TLAPS

Once(s) == \A i, j \in 1 .. Len(s) : s[i] = s[j] => i = j

(* The lists u and f divide the records between them.                      *)
Divided(u, f) ==
    /\ Once(u) /\ Once(f)
    /\ \A i \in 1 .. Len(u), j \in 1 .. Len(f) : u[i] # f[j]
    /\ \A r \in Records : \/ \E i \in 1 .. Len(u) : u[i] = r
                          \/ \E j \in 1 .. Len(f) : f[j] = r
    /\ Len(u) + Len(f) = Cardinality(Records)

(* Before init_mutex_debug there are no lists.                             *)
PoolInv == /\ used \in Seq(Records) /\ freed \in Seq(Records)
           /\ hooks = "off" => used = <<>> /\ freed = <<>>
           /\ hooks # "off" => Divided(used, freed)

----------------------------------------------------------------------------
(* v is u without its entry i.                                             *)
Without(v, u, i) == /\ Len(v) = Len(u) - 1
                    /\ \A k \in 1 .. Len(v) : v[k] = IF k < i THEN u[k] ELSE u[k + 1]

(* g is f with r in front.                                                 *)
Fronted(g, f, r) == /\ Len(g) = Len(f) + 1 /\ g[1] = r
                    /\ \A k \in 1 .. Len(f) : g[k + 1] = f[k]

LEMMA WithoutHead ==
    ASSUME NEW s \in Seq(Records), s # <<>>
    PROVE  /\ Tail(s) \in Seq(Records) /\ Without(Tail(s), s, 1)
           /\ Head(s) = s[1] /\ 1 \in 1 .. Len(s) /\ Head(s) \in Records
BY DEF Without

LEMMA WithoutEntry ==
    ASSUME NEW s \in Seq(Records), NEW i \in 1 .. Len(s)
    PROVE  RemoveAt(s, i) \in Seq(Records) /\ Without(RemoveAt(s, i), s, i)
<1> DEFINE a == SubSeq(s, 1, i - 1)
           b == SubSeq(s, i + 1, Len(s))
<1>1. i \in Nat /\ Len(s) \in Nat /\ i >= 1 /\ i <= Len(s) OBVIOUS
<1>2. a \in Seq(Records) /\ Len(a) = i - 1 /\ \A k \in 1 .. i - 1 : a[k] = s[k]
  BY <1>1
<1>3. b \in Seq(Records) /\ Len(b) = Len(s) - i /\ \A k \in 1 .. Len(s) - i : b[k] = s[i + k]
  BY <1>1
<1>4. RemoveAt(s, i) = a \o b BY DEF RemoveAt
<1> HIDE DEF a, b
<1>5. /\ a \o b \in Seq(Records) /\ Len(a \o b) = Len(a) + Len(b)
      /\ \A k \in 1 .. Len(a) + Len(b) : (a \o b)[k] = IF k <= Len(a) THEN a[k] ELSE b[k - Len(a)]
  BY <1>2, <1>3, ConcatProperties
<1>6. Len(a \o b) = Len(s) - 1 BY <1>1, <1>2, <1>3, <1>5
<1>7. ASSUME NEW k \in 1 .. Len(s) - 1
      PROVE  (a \o b)[k] = IF k < i THEN s[k] ELSE s[k + 1]
  <2>1. CASE k < i BY <2>1, <1>1, <1>2, <1>3, <1>5
  <2>2. CASE ~(k < i)
    <3>1. (a \o b)[k] = b[k - (i - 1)] BY <2>2, <1>1, <1>2, <1>3, <1>5
    <3>2. k - (i - 1) \in 1 .. Len(s) - i /\ i + (k - (i - 1)) = k + 1 BY <2>2, <1>1
    <3> QED BY <2>2, <3>1, <3>2, <1>3
  <2> QED BY <2>1, <2>2
<1> QED BY <1>4, <1>5, <1>6, <1>7 DEF Without

LEMMA FrontedBy ==
    ASSUME NEW s \in Seq(Records), NEW r \in Records
    PROVE  <<r>> \o s \in Seq(Records) /\ Fronted(<<r>> \o s, s, r)
BY DEF Fronted

LEMMA DividedTurns ==
    ASSUME NEW u, NEW f, Len(u) \in Nat, Len(f) \in Nat, Divided(u, f)
    PROVE  Divided(f, u)
BY DEF Divided

(* Moving an entry of one list to the front of the other keeps the records *)
(* divided, as getone and putone do under bt_list.lock.                    *)
LEMMA MoveOne ==
    ASSUME NEW u \in Seq(Records), NEW f \in Seq(Records), NEW i \in 1 .. Len(u),
           NEW v \in Seq(Records), NEW g \in Seq(Records),
           Divided(u, f), Without(v, u, i), Fronted(g, f, u[i])
    PROVE  Divided(v, g)
<1>1. /\ Len(u) \in Nat /\ Len(f) \in Nat /\ Len(v) = Len(u) - 1 /\ Len(g) = Len(f) + 1
      /\ i \in Nat /\ i >= 1 /\ i <= Len(u)
  BY DEF Without, Fronted
<1>2. ASSUME NEW k \in 1 .. Len(v)
      PROVE  \E o \in 1 .. Len(u) : o # i /\ v[k] = u[o] /\ o = IF k < i THEN k ELSE k + 1
  <2>0. k \in Nat /\ k >= 1 /\ k <= Len(u) - 1 BY <1>1
  <2>1. CASE k < i
    <3>1. k \in 1 .. Len(u) /\ k # i BY <1>1, <2>0, <2>1
    <3>2. v[k] = u[k] BY <2>1 DEF Without
    <3> QED BY <2>1, <3>1, <3>2
  <2>2. CASE ~(k < i)
    <3>1. k + 1 \in 1 .. Len(u) /\ k + 1 # i BY <1>1, <2>0, <2>2
    <3>2. v[k] = u[k + 1] BY <2>2 DEF Without
    <3> QED BY <2>2, <3>1, <3>2
  <2> QED BY <2>1, <2>2
<1>4. ASSUME NEW k \in 1 .. Len(g)
      PROVE  (k = 1 /\ g[k] = u[i]) \/ \E j \in 1 .. Len(f) : k = j + 1 /\ g[k] = f[j]
  <2>1. CASE k = 1 BY <2>1 DEF Fronted
  <2>2. CASE k # 1
    <3>1. k - 1 \in 1 .. Len(f) /\ k = (k - 1) + 1 BY <1>1, <2>2
    <3>2. g[(k - 1) + 1] = f[k - 1] BY <3>1 DEF Fronted
    <3> QED BY <3>1, <3>2
  <2> QED BY <2>1, <2>2
<1>5. Once(v)
  <2> SUFFICES ASSUME NEW k \in 1 .. Len(v), NEW l \in 1 .. Len(v), v[k] = v[l]
               PROVE  k = l
    BY DEF Once
  <2>1. PICK o \in 1 .. Len(u) : v[k] = u[o] /\ o = IF k < i THEN k ELSE k + 1 BY <1>2
  <2>2. PICK p \in 1 .. Len(u) : v[l] = u[p] /\ p = IF l < i THEN l ELSE l + 1 BY <1>2
  <2>3. o = p BY <2>1, <2>2 DEF Divided, Once
  <2>4. k \in Nat /\ l \in Nat BY <1>1
  <2> QED BY <1>1, <2>1, <2>2, <2>3, <2>4
<1>6. Once(g)
  <2> SUFFICES ASSUME NEW k \in 1 .. Len(g), NEW l \in 1 .. Len(g), g[k] = g[l]
               PROVE  k = l
    BY DEF Once
  <2>1. ASSUME NEW m \in 1 .. Len(f) PROVE f[m] # u[i] BY DEF Divided
  <2>2. ASSUME NEW m \in 1 .. Len(f), NEW n \in 1 .. Len(f), f[m] = f[n] PROVE m = n
    BY <2>2 DEF Divided, Once
  <2>3. CASE k = 1 /\ g[k] = u[i] BY <1>4, <2>1, <2>3
  <2>4. CASE \E j \in 1 .. Len(f) : k = j + 1 /\ g[k] = f[j]
    <3>1. PICK m \in 1 .. Len(f) : k = m + 1 /\ g[k] = f[m] BY <2>4
    <3>2. PICK n \in 1 .. Len(f) : l = n + 1 /\ g[l] = f[n] BY <1>4, <2>1, <3>1
    <3> QED BY <2>2, <3>1, <3>2
  <2> QED BY <1>4, <2>3, <2>4
<1>7. ASSUME NEW k \in 1 .. Len(v), NEW j \in 1 .. Len(g) PROVE v[k] # g[j]
  <2>1. PICK o \in 1 .. Len(u) : o # i /\ v[k] = u[o] BY <1>2
  <2> QED BY <1>4, <2>1 DEF Divided, Once
<1>8. ASSUME NEW r \in Records
      PROVE  (\E k \in 1 .. Len(v) : v[k] = r) \/ (\E j \in 1 .. Len(g) : g[j] = r)
  <2>1. CASE \E k \in 1 .. Len(u) : u[k] = r
    <3>1. PICK k \in 1 .. Len(u) : u[k] = r BY <2>1
    <3>2. CASE k = i
      <4>1. 1 \in 1 .. Len(g) /\ g[1] = r BY <1>1, <3>1, <3>2 DEF Fronted
      <4> QED BY <4>1
    <3>3. CASE k < i
      <4>1. k \in 1 .. Len(v) BY <1>1, <3>3
      <4> QED BY <4>1, <3>1, <3>3 DEF Without
    <3>4. CASE k > i
      <4>1. k - 1 \in 1 .. Len(v) /\ ~(k - 1 < i) /\ (k - 1) + 1 = k BY <1>1, <3>4
      <4>2. v[k - 1] = u[k] BY <4>1 DEF Without
      <4> QED BY <4>1, <4>2, <3>1
    <3> QED BY <1>1, <3>2, <3>3, <3>4
  <2>2. CASE \E j \in 1 .. Len(f) : f[j] = r
    <3>1. PICK j \in 1 .. Len(f) : f[j] = r BY <2>2
    <3>2. j + 1 \in 1 .. Len(g) /\ g[j + 1] = r BY <1>1, <3>1 DEF Fronted
    <3> QED BY <3>2
  <2> QED BY <2>1, <2>2 DEF Divided
<1>9. Len(v) + Len(g) = Cardinality(Records) BY <1>1 DEF Divided
<1> QED BY <1>5, <1>6, <1>7, <1>8, <1>9 DEF Divided

(* init_mutex_debug puts every record on the freed list, once.             *)
LEMMA AllFreed ==
    /\ SetToSeq(Records) \in Seq(Records)
    /\ Divided(<<>>, SetToSeq(Records))
<1> DEFINE n == Cardinality(Records)
           s == SetToSeq(Records)
<1>1. n \in Nat /\ ExistsBijection(1 .. n, Records)
  BY RecordsAssumption, FS_CardinalityType
<1>2. PICK h : h \in Bijection(1 .. n, Records) BY <1>1 DEF ExistsBijection
<1>3. h \in [1 .. n -> Records] /\ IsInjective(h) BY <1>2 DEF Bijection, Injection
<1>4. s \in [1 .. n -> Records] /\ IsInjective(s) BY <1>3 DEF SetToSeq
<1> HIDE DEF s
<1>5. s \in Seq(Records) /\ Len(s) = n BY <1>1, <1>4
<1>6. s \in Surjection(1 .. n, Records)
  <2>1. IsFiniteSet(1 .. n) /\ Cardinality(1 .. n) = n BY <1>1, FS_Interval
  <2>2. s \in Injection(1 .. n, Records) BY <1>4 DEF Injection
  <2> QED BY <2>1, <2>2, RecordsAssumption, FS_Injection
<1>7. \A r \in Records : \E j \in 1 .. Len(s) : s[j] = r BY <1>5, <1>6 DEF Surjection
<1>8. Once(s) BY <1>4, <1>5 DEF Once, IsInjective
<1>9. Len(<<>>) = 0 OBVIOUS
<1> QED BY <1>1, <1>5, <1>7, <1>8, <1>9 DEF Divided, Once, s

----------------------------------------------------------------------------
(* putone's search ends at a first match if there is one.                  *)
LEMMA FirstIsThere ==
    ASSUME NEW m, Matches(m) # {}, Matches(m) \subseteq 1 .. Len(used), used \in Seq(Records)
    PROVE  FirstMatch(m) \in Matches(m)
<1>1. Len(used) \in Nat OBVIOUS
<1> DEFINE less == {ss \in Nat \X Nat : ss[1] < ss[2]}
<1>2. PICK k \in Matches(m) : \A j \in Matches(m) : k <= j
  <2>1. IsWellFoundedOn(less, Nat) BY NatLessThanWellFounded DEF OpToRel
  <2> HIDE DEF less
  <2>2. Matches(m) \subseteq Nat BY <1>1
  <2>3. \E k \in Matches(m) : \A j \in Matches(m) : <<j, k>> \notin less
    BY <2>1, <2>2, WFMin
  <2>4. ASSUME NEW k \in Nat, NEW j \in Nat, <<j, k>> \notin less PROVE k <= j
    BY <2>4 DEF less
  <2> QED BY <2>2, <2>3, <2>4
<1> QED BY <1>2 DEF FirstMatch

LEMMA PoolInit == Init => PoolInv
BY DEF Init, PoolInv

LEMMA PoolNext == PoolInv /\ [Next]_vars => PoolInv'
<1> SUFFICES ASSUME PoolInv, [Next]_vars PROVE PoolInv' OBVIOUS
<1>1. CASE InitDebug
  <2>1. used' = <<>> /\ freed' = SetToSeq(Records) /\ hooks' = "on"
    BY <1>1 DEF InitDebug, PoolInv
  <2> QED BY <2>1, AllFreed DEF PoolInv
<1>2. ASSUME NEW t \in Threads, GetOne(t) PROVE PoolInv'
  <2>1. CASE freed # <<>>
    <3>1. /\ used' = <<Head(freed)>> \o used /\ freed' = Tail(freed) /\ hooks' = hooks
      BY <1>2, <2>1 DEF GetOne
    <3>2. hooks # "off" BY <2>1 DEF PoolInv
    <3>3. /\ used \in Seq(Records) /\ freed \in Seq(Records) /\ Divided(freed, used)
          /\ Len(used) \in Nat /\ Len(freed) \in Nat
      BY <3>2, DividedTurns DEF PoolInv
    <3>4. /\ freed' \in Seq(Records) /\ Without(freed', freed, 1)
          /\ Head(freed) = freed[1] /\ 1 \in 1 .. Len(freed) /\ Head(freed) \in Records
      BY <2>1, <3>1, <3>3, WithoutHead
    <3>5. used' \in Seq(Records) /\ Fronted(used', used, freed[1])
      BY <3>1, <3>3, <3>4, FrontedBy
    <3>6. Divided(freed', used') BY <3>3, <3>4, <3>5, MoveOne
    <3>7. Divided(used', freed')
      <4> Len(used') \in Nat /\ Len(freed') \in Nat BY <3>4, <3>5
      <4> QED BY <3>6, DividedTurns
    <3> QED BY <3>1, <3>2, <3>4, <3>5, <3>7 DEF PoolInv
  <2>2. CASE UNCHANGED <<used, freed, hooks>> BY <2>2 DEF PoolInv
  <2> QED BY <1>2, <2>1, <2>2 DEF GetOne
<1>3. ASSUME NEW t \in Threads, PutOne(t) PROVE PoolInv'
  <2> DEFINE i == FirstMatch(Top(t).m)
  <2>1. CASE /\ Matches(Top(t).m) # {}
             /\ used' = RemoveAt(used, i) /\ freed' = <<used[i]>> \o freed
    <3>0. used \in Seq(Records) /\ freed \in Seq(Records) /\ hooks' = hooks
      BY <1>3 DEF PoolInv, PutOne
    <3>1. i \in 1 .. Len(used) /\ used[i] \in Records
      <4>1. Matches(Top(t).m) \subseteq 1 .. Len(used) BY <3>0 DEF Matches
      <4>2. i \in Matches(Top(t).m) BY <2>1, <3>0, <4>1, FirstIsThere
      <4> QED BY <3>0, <4>1, <4>2
    <3>2. hooks # "off"
      <4> SUFFICES ASSUME hooks = "off" PROVE FALSE OBVIOUS
      <4>1. Len(used) = 0 BY DEF PoolInv
      <4> QED BY <3>1, <4>1
    <3> HIDE DEF i
    <3>3. Divided(used, freed) BY <3>2 DEF PoolInv
    <3>4. used' \in Seq(Records) /\ Without(used', used, i)
      BY <2>1, <3>0, <3>1, WithoutEntry
    <3>5. freed' \in Seq(Records) /\ Fronted(freed', freed, used[i])
      BY <2>1, <3>0, <3>1, FrontedBy
    <3>6. Divided(used', freed') BY <3>0, <3>1, <3>3, <3>4, <3>5, MoveOne
    <3> QED BY <3>0, <3>2, <3>4, <3>5, <3>6 DEF PoolInv
  <2>2. CASE UNCHANGED <<used, freed>> BY <1>3, <2>2 DEF PutOne, PoolInv
  <2> QED BY <1>3, <2>1, <2>2 DEF PutOne
<1>4. ASSUME UNCHANGED <<used, freed>>, hooks' = hooks \/ (hooks # "off" /\ hooks' # "off")
      PROVE  PoolInv'
  BY <1>4 DEF PoolInv
<1>5. CASE Unhook \/ DestroyList BY <1>4, <1>5 DEF Unhook, DestroyList
<1>6. ASSUME NEW t \in Threads, Call(t) \/ DumpLock(t) PROVE PoolInv'
  BY <1>4, <1>6 DEF Call, Dump, Lock, TryLock, Unlock, DumpLock
<1>7. ASSUME NEW t \in Threads, HookStep(t) \/ InnerLock(t) PROVE PoolInv'
  BY <1>4, <1>7 DEF HookStep, Enter, Start, SetMutex, SetPid, InnerLock, InnerUnlock, Unwound,
                    End, Release
<1>8. CASE UNCHANGED vars BY <1>4, <1>8 DEF vars
<1> QED BY <1>1, <1>2, <1>3, <1>5, <1>6, <1>7, <1>8 DEF Next, UsesList

LEMMA PoolInvConserves == PoolInv => PoolConserved
<1> SUFFICES ASSUME PoolInv, hooks # "off" PROVE PoolConserved BY DEF PoolConserved
<1>1. /\ Divided(used, freed) /\ used \in Seq(Records) /\ freed \in Seq(Records)
      /\ DOMAIN used = 1 .. Len(used) /\ DOMAIN freed = 1 .. Len(freed)
  BY DEF PoolInv
<1>2. RangeOf(used) \subseteq Records /\ RangeOf(freed) \subseteq Records
  BY <1>1 DEF RangeOf
<1>3. RangeOf(used) \cap RangeOf(freed) = {} BY <1>1 DEF RangeOf, Divided
<1>4. Records \subseteq RangeOf(used) \cup RangeOf(freed)
  BY <1>1 DEF RangeOf, Divided
<1> QED BY <1>1, <1>2, <1>3, <1>4 DEF PoolConserved, Divided

(* mutexdebug.cpp: getone and putone keep every record on one of the two   *)
(* lists, once, for a pool of any size and whatever the hooks are in the   *)
(* middle of.                                                              *)
THEOREM NoRecordIsLost == Spec => []PoolConserved
<1>1. Spec => []PoolInv BY PoolInit, PoolNext, PTL DEF Spec
<1> QED BY <1>1, PoolInvConserves, PTL

----------------------------------------------------------------------------
(* What the records say, while no thread unlocks what it has not locked.   *)
NoRecord(m) == \A r \in Records : mutex[r] # m
Fills(t, r) == stack[t] # <<>> /\ stack[t][1].at \in {"mutex", "pid"} /\ stack[t][1].r = r

(* A hook call is about a mutex that its thread holds; the mutex has no    *)
(* record before getone has given it one and after putone has taken it.    *)
Fresh(f) == \/ f.kind = "lock" /\ f.at \in {"enter", "start", "list", "mutex"}
            \/ f.kind = "unlock" /\ f.at \in {"end", "release"}
FrameInv(t, f) ==
    /\ f.kind # "dump" => f.m \in AllMutexes /\ owner[f.m] = t
    /\ f.kind = "dump" => f.m = None /\ f.at # "enter"
    /\ f.at = "release" => f.kind = "unlock"
    /\ f.at = "unwind" => f.kind # "unlock"
    /\ Fresh(f) => NoRecord(f.m)
    /\ f.at \in {"mutex", "pid"} =>
          /\ f.kind = "lock" /\ f.r \in RangeOf(used)
          /\ mutex[f.r] = IF f.at = "mutex" THEN None ELSE f.m

(* The call that is not inside another; a thread that the table lists when *)
(* it locks Inner is still listed when it unlocks it.                      *)
OuterInv(t, f) ==
    /\ FrameInv(t, f) /\ f.m # Inner
    /\ f.at \in {"enter", "start", "release"} => t \notin tids
    /\ f.inner <=> owner[Inner] = t
    /\ f.inner => f.at = "unwind" /\ (t \in tids => NoRecord(Inner))

(* The call f for Inner inside the call g.                                 *)
NestedInv(t, f, g) ==
    /\ FrameInv(t, f) /\ FrameInv(t, g)
    /\ f.m = Inner /\ f.kind # "dump" /\ ~f.inner /\ g.m # Inner /\ g.at = "unwind"
    /\ g.inner <=> f.kind = "lock"
    /\ f.at = "start" => t \notin tids
    /\ f.kind = "unlock" /\ f.at = "enter" /\ t \in tids => NoRecord(Inner)

ThreadInv(t) ==
    /\ Len(stack[t]) <= 2
    /\ Len(stack[t]) = 0 => t \notin tids /\ owner[Inner] # t
    /\ Len(stack[t]) = 1 => OuterInv(t, stack[t][1])
    /\ Len(stack[t]) = 2 => NestedInv(t, stack[t][1], stack[t][2])

RecordsInv ==
    /\ \A r \in Records :
          /\ mutex[r] # None => r \in RangeOf(used) /\ owner[mutex[r]] # None
          /\ r \in RangeOf(used) => \/ \E t \in Threads : Fills(t, r)
                                    \/ mutex[r] # None /\ pid[r] = owner[mutex[r]]
    /\ \A r, s \in Records : mutex[r] = mutex[s] /\ mutex[r] # None => r = s
    /\ \A t, u \in Threads, r \in Records : Fills(t, r) /\ Fills(u, r) => t = u

TrackInv ==
    /\ hooks = "off" => \A t \in Threads : stack[t] = <<>>
    /\ hooks \in {"off", "on"} => RecordsInv /\ \A t \in Threads : ThreadInv(t)

----------------------------------------------------------------------------
(* Calls begin, go on and end at the top of a thread's stack.              *)
LEMMA FrameAt ==
    ASSUME NEW f \in Frames, NEW p \in Places \cup {"mutex"}
    PROVE  LET g == [f EXCEPT !.at = p]
           IN  g \in Frames /\ g.kind = f.kind /\ g.at = p /\ g.m = f.m /\ g.r = f.r
                 /\ g.inner = f.inner
BY DEF Frames

LEMMA FrameMarked ==
    ASSUME NEW f \in Frames, NEW b \in BOOLEAN
    PROVE  LET g == [f EXCEPT !.inner = b]
           IN  g \in Frames /\ g.kind = f.kind /\ g.at = f.at /\ g.m = f.m /\ g.r = f.r
                 /\ g.inner = b
BY DEF Frames

LEMMA FrameNew ==
    ASSUME NEW k \in Kinds, NEW m \in AllMutexes \cup {None}
    PROVE  /\ Frame(k, m) \in Frames /\ Frame(k, m).kind = k /\ Frame(k, m).m = m
           /\ ~Frame(k, m).inner
           /\ Frame(k, m).at = IF k = "dump" THEN "start" ELSE "enter"
BY DEF Frames, Frame, Kinds, Places

LEMMA Stacked ==
    ASSUME NEW s \in Seq(Frames), NEW f \in Frames
    PROVE  /\ <<f>> \o s \in Seq(Frames) /\ Len(<<f>> \o s) = Len(s) + 1 /\ (<<f>> \o s)[1] = f
           /\ \A i \in 1 .. Len(s) : (<<f>> \o s)[i + 1] = s[i]
           /\ s # <<>> => /\ Tail(s) \in Seq(Frames) /\ Len(Tail(s)) = Len(s) - 1
                          /\ \A i \in 1 .. Len(s) - 1 : Tail(s)[i] = s[i + 1]
                          /\ Head(s) = s[1] /\ s[1] \in Frames
OBVIOUS

LEMMA Became ==
    ASSUME stack \in [Threads -> Seq(Frames)], NEW t \in Threads, stack[t] # <<>>,
           NEW f \in Frames, Become(t, f)
    PROVE  /\ stack' \in [Threads -> Seq(Frames)]
           /\ \A u \in Threads : u # t => stack'[u] = stack[u]
           /\ Len(stack'[t]) = Len(stack[t]) /\ stack'[t][1] = f
           /\ Len(stack[t]) = 2 => stack'[t][2] = stack[t][2]
<1>1. /\ Tail(stack[t]) \in Seq(Frames) /\ Len(Tail(stack[t])) = Len(stack[t]) - 1
      /\ Len(stack[t]) = 2 => Tail(stack[t])[1] = stack[t][2]
  OBVIOUS
<1>2. /\ <<f>> \o Tail(stack[t]) \in Seq(Frames)
      /\ Len(<<f>> \o Tail(stack[t])) = Len(stack[t]) /\ (<<f>> \o Tail(stack[t]))[1] = f
      /\ Len(stack[t]) = 2 => (<<f>> \o Tail(stack[t]))[2] = stack[t][2]
  BY <1>1, Stacked
<1> QED BY <1>2 DEF Become

LEMMA Pushed ==
    ASSUME stack \in [Threads -> Seq(Frames)], NEW t \in Threads, stack[t] = <<>>,
           NEW f \in Frames, Push(t, f)
    PROVE  /\ stack' \in [Threads -> Seq(Frames)]
           /\ \A u \in Threads : u # t => stack'[u] = stack[u]
           /\ Len(stack'[t]) = 1 /\ stack'[t][1] = f
BY Stacked DEF Push

LEMMA Popped ==
    ASSUME stack \in [Threads -> Seq(Frames)], NEW t \in Threads, stack[t] # <<>>, Pop(t)
    PROVE  /\ stack' \in [Threads -> Seq(Frames)]
           /\ \A u \in Threads : u # t => stack'[u] = stack[u]
           /\ Len(stack'[t]) = Len(stack[t]) - 1
           /\ Len(stack[t]) = 2 => stack'[t][1] = stack[t][2]
BY Stacked DEF Pop

LEMMA TwoFrames ==
    ASSUME NEW f \in Frames, NEW g \in Frames
    PROVE  <<f>> \o <<g>> = <<f, g>>
<1>1. /\ <<f>> \o <<g>> \in Seq(Frames) /\ Len(<<f>> \o <<g>>) = 2
      /\ (<<f>> \o <<g>>)[1] = f /\ (<<f>> \o <<g>>)[2] = g
  OBVIOUS
<1>2. <<f, g>> \in Seq(Frames) /\ Len(<<f, g>>) = 2 OBVIOUS
<1>3. \A i \in 1 .. 2 : (<<f>> \o <<g>>)[i] = <<f, g>>[i] BY <1>1
<1> QED BY <1>1, <1>2, <1>3, SeqEqual

LEMMA Nested ==
    ASSUME stack \in [Threads -> Seq(Frames)], NEW t \in Threads, stack[t] # <<>>,
           NEW f \in Frames, NEW g \in Frames,
           stack' = [stack EXCEPT ![t] = <<f, g>> \o Tail(@)]
    PROVE  /\ stack' \in [Threads -> Seq(Frames)]
           /\ \A u \in Threads : u # t => stack'[u] = stack[u]
           /\ Len(stack'[t]) = Len(stack[t]) + 1 /\ stack'[t][1] = f /\ stack'[t][2] = g
BY Stacked

(* Everything but the lists, of which PoolInv speaks.                      *)
StateOK == /\ owner \in [AllMutexes -> Threads \cup {None}]
           /\ mutex \in [Records -> AllMutexes \cup {None}]
           /\ pid \in [Records -> Threads \cup {None}]
           /\ tids \subseteq Threads
           /\ stack \in [Threads -> Seq(Frames)]
SafeInv == PoolInv /\ StateOK /\ TrackInv

(* What a step of t leaves alone in the calls of u.                        *)
LEMMA Undisturbed ==
    ASSUME NEW u \in Threads, ThreadInv(u), stack'[u] = stack[u], u \in tids' <=> u \in tids,
           \A m \in AllMutexes : owner'[m] = u <=> owner[m] = u,
           \A m \in AllMutexes : owner[m] = u /\ NoRecord(m) => NoRecord(m)',
           \A r \in RangeOf(used) : Fills(u, r) => r \in RangeOf(used)' /\ mutex'[r] = mutex[r]
    PROVE  ThreadInv(u)'
<1>0. Inner \in AllMutexes BY DEF AllMutexes
<1>1. ASSUME NEW f, FrameInv(u, f), f.at \in {"mutex", "pid"} => Fills(u, f.r)
      PROVE  FrameInv(u, f)'
  BY <1>1 DEF FrameInv, Fresh
<1>2. ASSUME Len(stack[u]) \in {1, 2} PROVE stack[u] # <<>> BY <1>2
<1>3. CASE Len(stack[u]) = 1
  <2>1. FrameInv(u, stack[u][1])' BY <1>1, <1>2, <1>3 DEF ThreadInv, OuterInv, Fills
  <2> QED BY <1>0, <1>3, <2>1 DEF ThreadInv, OuterInv
<1>4. CASE Len(stack[u]) = 2
  <2>1. FrameInv(u, stack[u][1])' BY <1>1, <1>2, <1>4 DEF ThreadInv, NestedInv, Fills
  <2>2. FrameInv(u, stack[u][2])' BY <1>1, <1>4 DEF ThreadInv, NestedInv
  <2>3. owner[Inner] = u BY <1>4 DEF ThreadInv, NestedInv, FrameInv
  <2>4. NestedInv(u, stack[u][1], stack[u][2])'
    BY <1>0, <1>4, <2>1, <2>2, <2>3 DEF ThreadInv, NestedInv
  <2> QED BY <1>4, <2>4 DEF ThreadInv
<1>5. CASE Len(stack[u]) \notin {1, 2} BY <1>0, <1>5 DEF ThreadInv
<1> QED BY <1>3, <1>4, <1>5

(* Steps that neither fill nor move a record.                              *)
LEMMA RecordsKeep ==
    ASSUME RecordsInv, mutex' = mutex, pid' = pid, RangeOf(used)' = RangeOf(used),
           \A u \in Threads, r \in Records : Fills(u, r)' <=> Fills(u, r),
           owner \in [AllMutexes -> Threads \cup {None}],
           mutex \in [Records -> AllMutexes \cup {None}],
           \A m \in AllMutexes : owner'[m] = owner[m] \/ NoRecord(m)
    PROVE  RecordsInv'
<1>1. \A r \in Records : mutex[r] # None => owner'[mutex[r]] = owner[mutex[r]]
  BY DEF NoRecord
<1>2. ASSUME NEW r \in Records
      PROVE  /\ mutex'[r] # None => r \in RangeOf(used)' /\ owner'[mutex'[r]] # None
             /\ r \in RangeOf(used)' => \/ \E t \in Threads : Fills(t, r)'
                                        \/ mutex'[r] # None /\ pid'[r] = owner'[mutex'[r]]
  BY <1>1 DEF RecordsInv
<1>3. \A r, s \in Records : mutex'[r] = mutex'[s] /\ mutex'[r] # None => r = s BY DEF RecordsInv
<1>4. \A t, u \in Threads, r \in Records : Fills(t, r)' /\ Fills(u, r)' => t = u
  BY DEF RecordsInv
<1> QED BY <1>2, <1>3, <1>4 DEF RecordsInv

(* The top of a thread's calls, whole.                                     *)
LEMMA TopIs ==
    ASSUME StateOK, NEW t \in Threads, ThreadInv(t), stack[t] # <<>>
    PROVE  /\ Top(t) = stack[t][1] /\ Top(t) \in Frames /\ Len(stack[t]) \in {1, 2}
           /\ FrameInv(t, Top(t))
           /\ Len(stack[t]) = 1 => OuterInv(t, Top(t))
           /\ Len(stack[t]) = 2 => NestedInv(t, Top(t), stack[t][2]) /\ stack[t][2] \in Frames
<1>1. stack[t] \in Seq(Frames) BY DEF StateOK
<1>2. Top(t) = stack[t][1] /\ Len(stack[t]) \in Nat /\ Len(stack[t]) # 0 BY <1>1 DEF Top
<1>3. Len(stack[t]) \in {1, 2}
  <2> DEFINE n == Len(stack[t])
  <2>1. n \in Nat /\ n # 0 /\ n <= 2 BY <1>2 DEF ThreadInv
  <2> HIDE DEF n
  <2>2. n \in {1, 2} BY <2>1
  <2> QED BY <2>2 DEF n
<1>4. Top(t) \in Frames /\ (Len(stack[t]) = 2 => stack[t][2] \in Frames) BY <1>1, <1>2, <1>3
<1> QED BY <1>2, <1>3, <1>4 DEF ThreadInv, OuterInv, NestedInv

(* A call moves on; what it knows at its new place has to be shown.        *)
LEMMA MovesOn ==
    ASSUME StateOK, NEW t \in Threads, ThreadInv(t), stack[t] # <<>>,
           NEW p \in Places \cup {"mutex"}, At(t, p)
    PROVE  /\ stack' \in [Threads -> Seq(Frames)]
           /\ \A u \in Threads : u # t => stack'[u] = stack[u]
           /\ stack'[t] # <<>> /\ Len(stack'[t]) = Len(stack[t])
           /\ Len(stack[t]) = 2 => stack'[t][2] = stack[t][2]
           /\ stack'[t][1] \in Frames
           /\ stack'[t][1].kind = Top(t).kind /\ stack'[t][1].at = p /\ stack'[t][1].m = Top(t).m
           /\ stack'[t][1].r = Top(t).r /\ stack'[t][1].inner = Top(t).inner
<1> DEFINE g == [Top(t) EXCEPT !.at = p]
<1>1. Top(t) \in Frames BY TopIs
<1>2. /\ g \in Frames /\ g.kind = Top(t).kind /\ g.at = p /\ g.m = Top(t).m
      /\ g.r = Top(t).r /\ g.inner = Top(t).inner
  BY <1>1, FrameAt
<1>3. Become(t, g) BY DEF At
<1> HIDE DEF g
<1>4. /\ stack' \in [Threads -> Seq(Frames)] /\ \A u \in Threads : u # t => stack'[u] = stack[u]
      /\ Len(stack'[t]) = Len(stack[t]) /\ stack'[t][1] = g
      /\ Len(stack[t]) = 2 => stack'[t][2] = stack[t][2]
  BY <1>2, <1>3, Became DEF StateOK
<1>5. stack'[t] # <<>> BY <1>4 DEF StateOK
<1> QED BY <1>2, <1>4, <1>5

(* The steps that only move a call on, and change the table.               *)
LEMMA QuietMove ==
    ASSUME SafeInv, hooks = "on", NEW t \in Threads, stack[t] # <<>>,
           NEW p \in Places, p \notin {"pid", "mutex"}, At(t, p),
           Top(t).at \notin {"pid", "mutex"}, ~Top(t).inner,
           UNCHANGED <<owner, used, mutex, pid>>,
           \/ Top(t).at = "enter" /\ p = "start" /\ t \notin tids /\ tids' = tids
           \/ /\ Top(t).at = "enter" /\ p = "release" /\ t \in tids /\ Top(t).kind = "unlock"
              /\ tids' = tids
           \/ Top(t).at = "start" /\ p = "list" /\ tids' \in {tids, tids \cup {t}}
           \/ /\ Top(t).at = "list" /\ p = "end" /\ tids' = tids
              /\ Top(t).kind = "lock" \/ NoRecord(Top(t).m)
           \/ Top(t).at = "list" /\ p = "unwind" /\ tids' = tids /\ Top(t).kind = "dump"
           \/ Top(t).at = "unwind" /\ p = "end" /\ tids' = tids
           \/ Top(t).at = "end" /\ p = "release" /\ tids' = tids \ {t} /\ Top(t).kind = "unlock"
    PROVE  RecordsInv' /\ \A u \in Threads : ThreadInv(u)'
<1> DEFINE f == Top(t)
<1>0. RecordsInv /\ ThreadInv(t) /\ StateOK BY DEF SafeInv, TrackInv
<1>1. /\ f = stack[t][1] /\ f \in Frames /\ Len(stack[t]) \in {1, 2} /\ FrameInv(t, f)
      /\ Len(stack[t]) = 1 => OuterInv(t, f)
      /\ Len(stack[t]) = 2 => NestedInv(t, f, stack[t][2])
  BY <1>0, TopIs
<1>2. /\ \A u \in Threads : u # t => stack'[u] = stack[u]
      /\ stack'[t] # <<>> /\ Len(stack'[t]) = Len(stack[t])
      /\ Len(stack[t]) = 2 => stack'[t][2] = stack[t][2]
      /\ stack'[t][1].kind = f.kind /\ stack'[t][1].at = p /\ stack'[t][1].m = f.m
      /\ stack'[t][1].r = f.r /\ stack'[t][1].inner = f.inner
  BY <1>0, MovesOn
<1> HIDE DEF f
<1>3. ASSUME NEW u \in Threads, u # t PROVE ThreadInv(u)'
  <2>1. stack'[u] = stack[u] /\ (u \in tids' <=> u \in tids) BY <1>2, <1>3
  <2> QED BY <2>1, Undisturbed DEF SafeInv, TrackInv, NoRecord
<1>4. FrameInv(t, stack[t][1])'
  <2>1. f.kind \in Kinds /\ f.m \in AllMutexes \cup {None} BY <1>1 DEF Frames
  <2>2. \A m : NoRecord(m)' <=> NoRecord(m) BY DEF NoRecord
  <2>3. RangeOf(used)' = RangeOf(used) BY DEF RangeOf
  <2>4. Fresh(stack[t][1])' => NoRecord(f.m)
    BY <1>1, <1>2, <2>2 DEF f, FrameInv, Fresh, OuterInv, NestedInv
  <2> QED BY <1>1, <1>2, <2>1, <2>2, <2>3, <2>4 DEF f, FrameInv, Kinds
<1>5. ASSUME Len(stack[t]) = 1 PROVE ThreadInv(t)'
  <2>1. OuterInv(t, stack[t][1])' BY <1>1, <1>2, <1>4, <1>5 DEF f, OuterInv, FrameInv
  <2>2. Len(stack'[t]) = 1 BY <1>2, <1>5
  <2> QED BY <2>1, <2>2 DEF ThreadInv
<1>6. ASSUME Len(stack[t]) = 2 PROVE ThreadInv(t)'
  <2>1. FrameInv(t, stack[t][2])' BY <1>1, <1>2, <1>6 DEF NestedInv, FrameInv, Fresh, NoRecord
  <2>2. NestedInv(t, stack[t][1], stack[t][2])'
    BY <1>1, <1>2, <1>4, <1>6, <2>1 DEF f, NestedInv, FrameInv
  <2>3. Len(stack'[t]) = 2 BY <1>2, <1>6
  <2> QED BY <2>2, <2>3 DEF ThreadInv
<1>7. ThreadInv(t)' BY <1>1, <1>5, <1>6
<1>8. RecordsInv'
  <2>1. \A u \in Threads, r \in Records : Fills(u, r)' <=> Fills(u, r)
    BY <1>1, <1>2 DEF Fills, f
  <2> QED BY <1>0, <2>1, RecordsKeep DEF StateOK, RangeOf
<1> QED BY <1>3, <1>7, <1>8

(* A call that returns, by is_backtracing, backtrace_end or _normal_unlock.*)
LEMMA ReturnKeeps ==
    ASSUME SafeInv, hooks = "on", NEW t \in Threads, stack[t] # <<>>, Pop(t),
           UNCHANGED <<used, mutex, pid>>,
           \/ /\ Top(t).at = "enter" /\ t \in tids /\ tids' = tids /\ owner' = owner
              /\ Top(t).kind = "lock"
           \/ /\ Top(t).at = "end" /\ tids' = tids \ {t} /\ owner' = owner
              /\ Top(t).kind # "unlock"
           \/ /\ Top(t).at = "release" /\ tids' = tids
              /\ owner' = [owner EXCEPT ![Top(t).m] = None]
    PROVE  RecordsInv' /\ \A u \in Threads : ThreadInv(u)'
<1> DEFINE f == Top(t)
<1>0. RecordsInv /\ ThreadInv(t) /\ StateOK BY DEF SafeInv, TrackInv
<1>1. /\ f = stack[t][1] /\ f \in Frames /\ Len(stack[t]) \in {1, 2} /\ FrameInv(t, f)
      /\ Len(stack[t]) = 1 => OuterInv(t, f)
      /\ Len(stack[t]) = 2 => NestedInv(t, f, stack[t][2])
  BY <1>0, TopIs
<1>2. /\ \A u \in Threads : u # t => stack'[u] = stack[u]
      /\ Len(stack'[t]) = Len(stack[t]) - 1
      /\ Len(stack[t]) = 2 => stack'[t][1] = stack[t][2]
      /\ stack' \in [Threads -> Seq(Frames)]
  BY <1>0, Popped DEF StateOK
<1> HIDE DEF f
<1>3. /\ \A m : NoRecord(m)' <=> NoRecord(m)
      /\ RangeOf(used)' = RangeOf(used)
  BY DEF NoRecord, RangeOf
<1>4. \/ owner' = owner
      \/ /\ f.m \in AllMutexes /\ owner[f.m] = t /\ NoRecord(f.m) /\ f.at = "release"
         /\ owner' = [owner EXCEPT ![f.m] = None]
  BY <1>1 DEF f, FrameInv, Fresh
<1>5. ASSUME NEW u \in Threads, u # t PROVE ThreadInv(u)'
  <2>1. stack'[u] = stack[u] /\ (u \in tids' <=> u \in tids) BY <1>2, <1>5
  <2>2. \A m \in AllMutexes : owner'[m] = u <=> owner[m] = u
    BY <1>0, <1>4, <1>5, NoneAssumption DEF StateOK
  <2> QED BY <1>3, <2>1, <2>2, Undisturbed DEF SafeInv, TrackInv
<1>6. ASSUME Len(stack[t]) = 1 PROVE ThreadInv(t)'
  <2>1. Len(stack'[t]) = 0 BY <1>2, <1>6
  <2>2. OuterInv(t, f) /\ ~f.inner BY <1>1, <1>6 DEF f, OuterInv
  <2>3. t \notin tids' BY <2>2 DEF f, OuterInv
  <2>4. owner'[Inner] # t
    BY <1>0, <1>4, <2>2, NoneAssumption DEF OuterInv, StateOK, AllMutexes
  <2> QED BY <2>1, <2>3, <2>4 DEF ThreadInv
<1>7. ASSUME Len(stack[t]) = 2 PROVE ThreadInv(t)'
  <2> DEFINE g == stack[t][2]
  <2>1. Len(stack'[t]) = 1 /\ stack'[t][1] = g BY <1>2, <1>7
  <2>2. /\ NestedInv(t, f, g) /\ FrameInv(t, f) /\ FrameInv(t, g) /\ f.m = Inner /\ owner[Inner] = t
        /\ g.at = "unwind" /\ g.m # Inner /\ (g.inner <=> f.kind = "lock")
        /\ f.kind \in {"lock", "unlock"}
    BY <1>1, <1>7 DEF NestedInv, FrameInv, Frames, Kinds
  <2>3. g.m # None => owner'[g.m] = owner[g.m] BY <1>0, <1>4, <2>2 DEF FrameInv, StateOK
  <2>4. FrameInv(t, stack[t][1])'
    BY <1>3, <2>1, <2>2, <2>3, NoneAssumption DEF FrameInv, Fresh, AllMutexes
  <2>5. stack'[t][1].inner <=> owner'[Inner] = t
    BY <1>0, <1>4, <2>1, <2>2, NoneAssumption DEF f, FrameInv, StateOK, AllMutexes
  <2>6. stack'[t][1].inner => (t \in tids' => NoRecord(Inner)')
    BY <1>3, <2>1, <2>2 DEF f, FrameInv, Fresh
  <2>7. OuterInv(t, stack[t][1])' BY <2>1, <2>2, <2>4, <2>5, <2>6 DEF OuterInv
  <2> QED BY <2>1, <2>7 DEF ThreadInv
<1>8. ThreadInv(t)' BY <1>1, <1>6, <1>7
<1>9. RecordsInv'
  <2>1. \A r \in Records : ~Fills(t, r) /\ ~Fills(t, r)'
    BY <1>0, <1>1, <1>2 DEF Fills, f, NestedInv, StateOK
  <2>2. \A u \in Threads, r \in Records : Fills(u, r)' <=> Fills(u, r)
    BY <1>2, <2>1 DEF Fills
  <2>3. \A m \in AllMutexes : owner'[m] = owner[m] \/ NoRecord(m) BY <1>0, <1>4 DEF StateOK
  <2> QED BY <1>0, <1>3, <2>2, <2>3, RecordsKeep DEF StateOK
<1> QED BY <1>5, <1>8, <1>9

(* A mutex that nobody holds has no record.                                *)
LEMMA UnheldHasNone ==
    ASSUME RecordsInv, NEW m \in AllMutexes, owner[m] = None
    PROVE  NoRecord(m)
BY NoneAssumption DEF RecordsInv, NoRecord, AllMutexes

(* A thread that is in no hook locks or unlocks, or begins a hook call for *)
(* a mutex that it holds, or a dump.                                       *)
Begins(t, k, m) ==
    /\ Push(t, Frame(k, m))
    /\ \/ k = "dump" /\ m = None
       \/ k = "lock" /\ m \in Mutexes /\ owner'[m] = t /\ NoRecord(m)
       \/ k = "unlock" /\ m \in Mutexes /\ owner'[m] = t

LEMMA BeginKeeps ==
    ASSUME SafeInv, hooks \in {"off", "on"}, NEW t \in Threads, stack[t] = <<>>,
           UNCHANGED <<used, mutex, pid, tids>>,
           \A l \in AllMutexes : \/ owner'[l] = owner[l]
                                 \/ /\ NoRecord(l) /\ l # Inner
                                    /\ owner[l] \in {t, None} /\ owner'[l] \in {t, None},
           \/ stack' = stack
           \/ \E k \in Kinds, m \in AllMutexes \cup {None} : Begins(t, k, m)
    PROVE  RecordsInv' /\ \A u \in Threads : ThreadInv(u)'
<1>0. RecordsInv /\ ThreadInv(t) /\ StateOK BY DEF SafeInv, TrackInv
<1>1. Len(stack[t]) = 0 /\ t \notin tids /\ owner[Inner] # t
  <2>1. Len(stack[t]) = 0 OBVIOUS
  <2> QED BY <1>0, <2>1 DEF ThreadInv
<1>3. (\A m : NoRecord(m)' <=> NoRecord(m)) /\ RangeOf(used)' = RangeOf(used)
  BY DEF NoRecord, RangeOf
<1>4. CASE stack' # stack
  <2>1. PICK k \in Kinds, m \in AllMutexes \cup {None} : Begins(t, k, m) BY <1>4
  <2> DEFINE f == Frame(k, m)
  <2>2. /\ f \in Frames /\ f.kind = k /\ f.m = m /\ ~f.inner
        /\ f.at = IF k = "dump" THEN "start" ELSE "enter"
    BY FrameNew
  <2> HIDE DEF f
  <2>3. /\ \A u \in Threads : u # t => stack'[u] = stack[u]
        /\ Len(stack'[t]) = 1 /\ stack'[t][1] = f
    BY <1>0, <2>1, <2>2, Pushed DEF StateOK, Begins, f
  <2>4. ASSUME NEW u \in Threads, u # t PROVE ThreadInv(u)'
    <3>1. stack'[u] = stack[u] /\ (u \in tids' <=> u \in tids) BY <2>3, <2>4
    <3>2. \A l \in AllMutexes : owner'[l] = u <=> owner[l] = u BY <2>4, NoneAssumption
    <3> QED BY <1>3, <3>1, <3>2, Undisturbed DEF SafeInv, TrackInv
  <2>5. FrameInv(t, stack[t][1])'
    <3>1. m \in Mutexes => m \in AllMutexes /\ m # None BY NoneAssumption DEF AllMutexes
    <3> QED BY <1>3, <2>1, <2>2, <2>3, <3>1 DEF FrameInv, Fresh, Begins
  <2>6. OuterInv(t, stack[t][1])'
    <3>1. owner'[Inner] # t BY <1>1 DEF AllMutexes
    <3>2. m # Inner BY <2>1, InnerAssumption, NoneAssumption DEF Begins
    <3> QED BY <1>1, <2>2, <2>3, <2>5, <3>1, <3>2 DEF OuterInv
  <2>7. ThreadInv(t)' BY <2>3, <2>6 DEF ThreadInv
  <2>8. \A u \in Threads, r \in Records : Fills(u, r)' <=> Fills(u, r)
    BY <2>2, <2>3 DEF Fills
  <2>9. RecordsInv' BY <1>0, <1>3, <2>8, RecordsKeep DEF StateOK
  <2> QED BY <2>4, <2>7, <2>9
<1>5. CASE stack' = stack
  <2>1. ASSUME NEW u \in Threads, u # t PROVE ThreadInv(u)'
    <3>1. stack'[u] = stack[u] /\ (u \in tids' <=> u \in tids) BY <1>5
    <3>2. \A l \in AllMutexes : owner'[l] = u <=> owner[l] = u BY <2>1, NoneAssumption
    <3> QED BY <1>3, <3>1, <3>2, Undisturbed DEF SafeInv, TrackInv
  <2>2. owner'[Inner] # t BY <1>1 DEF AllMutexes
  <2>3. ThreadInv(t)' BY <1>1, <1>5, <2>2 DEF ThreadInv
  <2>4. \A u \in Threads, r \in Records : Fills(u, r)' <=> Fills(u, r) BY <1>5 DEF Fills
  <2>5. RecordsInv' BY <1>0, <1>3, <2>4, RecordsKeep DEF StateOK
  <2> QED BY <2>1, <2>3, <2>5
<1> QED BY <1>4, <1>5

(* pthread_mutex_lock, trylock, unlock and dump_all_mutex.                 *)
LEMMA CallKeeps ==
    ASSUME SafeInv, hooks \in {"off", "on"}, Foreign = {}, NEW t \in Threads, Call(t)
    PROVE  RecordsInv' /\ \A u \in Threads : ThreadInv(u)'
<1>0. RecordsInv /\ StateOK BY DEF SafeInv, TrackInv
<1>1. stack[t] = <<>> /\ UNCHANGED <<used, mutex, pid, tids>>
  BY DEF Call, Dump, Lock, TryLock, Unlock
<1>2. \A m \in Mutexes : m \in AllMutexes /\ m # Inner BY InnerAssumption DEF AllMutexes
<1>3. CASE Dump(t)
  <2>1. Begins(t, "dump", None) /\ owner' = owner BY <1>3 DEF Begins, Dump
  <2> QED BY <1>1, <2>1, BeginKeeps DEF Kinds
<1>4. ASSUME NEW m \in Mutexes, Lock(t, m) \/ TryLock(t, m)
      PROVE  RecordsInv' /\ \A u \in Threads : ThreadInv(u)'
  <2>1. NoRecord(m) /\ owner[m] = None /\ owner' = [owner EXCEPT ![m] = t]
    BY <1>0, <1>2, <1>4, UnheldHasNone DEF Lock, TryLock
  <2>2. owner'[m] = t /\ \A l \in AllMutexes : l # m => owner'[l] = owner[l]
    BY <1>0, <1>2, <2>1 DEF StateOK
  <2>3. stack' = stack \/ Begins(t, "lock", m) BY <1>4, <2>1, <2>2 DEF Lock, TryLock, Begins
  <2> QED BY <1>1, <1>2, <2>1, <2>2, <2>3, BeginKeeps DEF Kinds
<1>5. ASSUME NEW m \in Mutexes, Unlock(t, m)
      PROVE  RecordsInv' /\ \A u \in Threads : ThreadInv(u)'
  <2>1. owner[m] = t BY <1>5 DEF Unlock
  <2>2. CASE hooks = "on"
    <3>1. Begins(t, "unlock", m) /\ owner' = owner BY <1>5, <2>1, <2>2 DEF Unlock, Begins
    <3> QED BY <1>1, <1>2, <3>1, BeginKeeps DEF Kinds
  <2>3. CASE hooks = "off"
    <3>1. RangeOf(used) = {} BY <2>3 DEF SafeInv, PoolInv, RangeOf
    <3>2. NoRecord(m) BY <1>0, <1>2, <3>1, NoneAssumption DEF RecordsInv, NoRecord, AllMutexes
    <3>3. owner' = [owner EXCEPT ![m] = None] /\ stack' = stack BY <1>5, <2>3 DEF Unlock
    <3>4. owner'[m] = None /\ \A l \in AllMutexes : l # m => owner'[l] = owner[l]
      BY <1>0, <1>2, <3>3 DEF StateOK
    <3> QED BY <1>1, <1>2, <2>1, <3>2, <3>3, <3>4, BeginKeeps
  <2> QED BY <2>2, <2>3
<1> QED BY <1>3, <1>4, <1>5 DEF Call

(* The unwinder and the log lock and unlock Inner, inside a hook.          *)
LEMMA InnerKeeps ==
    ASSUME SafeInv, hooks = "on", NEW t \in Threads, InnerLock(t) \/ InnerUnlock(t)
    PROVE  RecordsInv' /\ \A u \in Threads : ThreadInv(u)'
<1> DEFINE f == Top(t)
           k == IF f.inner THEN "unlock" ELSE "lock"
           g == [f EXCEPT !.inner = ~f.inner]
           h == Frame(k, Inner)
<1>0. RecordsInv /\ ThreadInv(t) /\ StateOK /\ stack[t] # <<>>
  BY DEF SafeInv, TrackInv, InnerLock, InnerUnlock, Running
<1>1. /\ f = stack[t][1] /\ f \in Frames /\ Len(stack[t]) \in {1, 2} /\ FrameInv(t, f)
      /\ Len(stack[t]) = 1 => OuterInv(t, f)
      /\ Len(stack[t]) = 2 => NestedInv(t, f, stack[t][2])
      /\ f.at = "unwind" /\ f.kind # "unlock" /\ f.inner \in BOOLEAN
  <2>1. f.at = "unwind" BY DEF InnerLock, InnerUnlock, Running, Top
  <2> QED BY <1>0, <2>1, TopIs DEF FrameInv, Frames
<1>2. /\ g \in Frames /\ g.kind = f.kind /\ g.at = f.at /\ g.m = f.m /\ (g.inner <=> ~f.inner)
  BY <1>1, FrameMarked
<1>3. /\ h \in Frames /\ h.kind = k /\ h.m = Inner /\ ~h.inner /\ h.at = "enter" /\ k # "dump"
  BY FrameNew DEF Kinds, AllMutexes
<1>4. /\ stack' = [stack EXCEPT ![t] = <<h, g>> \o Tail(@)]
      /\ UNCHANGED <<used, mutex, pid, tids>>
      /\ \/ /\ ~f.inner /\ owner[Inner] = None /\ NoRecord(Inner)
            /\ owner' = [owner EXCEPT ![Inner] = t]
         \/ f.inner /\ owner' = owner
  <2>1. CASE InnerLock(t)
    <3>1. /\ ~f.inner /\ owner[Inner] = None /\ owner' = [owner EXCEPT ![Inner] = t]
          /\ UNCHANGED <<used, mutex, pid, tids>>
      BY <2>1 DEF InnerLock
    <3>2. g = [f EXCEPT !.inner = TRUE] /\ h = Frame("lock", Inner) BY <3>1
    <3>3. stack' = [stack EXCEPT ![t] = (<<h>> \o <<g>>) \o Tail(@)] BY <2>1, <3>2 DEF InnerLock
    <3>4. <<h>> \o <<g>> = <<h, g>> BY <1>2, <1>3, TwoFrames
    <3>5. NoRecord(Inner) BY <1>0, <3>1, UnheldHasNone DEF AllMutexes
    <3> QED BY <3>1, <3>3, <3>4, <3>5
  <2>2. CASE InnerUnlock(t)
    <3>1. f.inner /\ owner' = owner /\ UNCHANGED <<used, mutex, pid, tids>>
      BY <2>2 DEF InnerUnlock
    <3>2. g = [f EXCEPT !.inner = FALSE] /\ h = Frame("unlock", Inner) BY <3>1
    <3>3. stack' = [stack EXCEPT ![t] = <<h, g>> \o Tail(@)] BY <2>2, <3>2 DEF InnerUnlock
    <3> QED BY <3>1, <3>3
  <2> QED BY <2>1, <2>2
<1> HIDE DEF f, k, g, h
<1>5. /\ \A u \in Threads : u # t => stack'[u] = stack[u]
      /\ Len(stack'[t]) = Len(stack[t]) + 1 /\ stack'[t][1] = h /\ stack'[t][2] = g
  BY <1>0, <1>2, <1>3, <1>4, Nested DEF StateOK
<1>6. Len(stack[t]) = 1 /\ OuterInv(t, f)
  <2>1. CASE Len(stack[t]) = 2
    <3>1. /\ ~f.inner /\ f.m = Inner /\ owner[Inner] = t
      BY <1>1, <2>1 DEF NestedInv, FrameInv
    <3> QED BY <1>4, <3>1, NoneAssumption
  <2> QED BY <1>1, <2>1
<1>7. (\A m : NoRecord(m)' <=> NoRecord(m)) /\ RangeOf(used)' = RangeOf(used)
  BY <1>4 DEF NoRecord, RangeOf
<1>8. \A l \in AllMutexes :
         \/ owner'[l] = owner[l]
         \/ l = Inner /\ NoRecord(l) /\ owner[l] = None /\ owner'[l] = t
  <2>1. CASE owner' = owner BY <2>1
  <2>2. CASE owner[Inner] = None /\ NoRecord(Inner) /\ owner' = [owner EXCEPT ![Inner] = t]
    BY <1>0, <2>2 DEF StateOK
  <2> QED BY <1>4, <2>1, <2>2
<1>9. owner'[Inner] = t BY <1>0, <1>4, <1>6 DEF StateOK, OuterInv, AllMutexes
<1>10. ASSUME NEW u \in Threads, u # t PROVE ThreadInv(u)'
  <2>1. stack'[u] = stack[u] /\ (u \in tids' <=> u \in tids) BY <1>4, <1>5, <1>10
  <2>2. \A l \in AllMutexes : owner'[l] = u <=> owner[l] = u BY <1>8, <1>10, NoneAssumption
  <2> QED BY <1>4, <1>7, <2>1, <2>2, Undisturbed DEF SafeInv, TrackInv
<1>11. ThreadInv(t)'
  <2>1. FrameInv(t, stack[t][1])'
    BY <1>3, <1>4, <1>5, <1>7, <1>9 DEF FrameInv, Fresh, k, AllMutexes
  <2>2. FrameInv(t, stack[t][2])'
    BY <1>0, <1>1, <1>2, <1>4, <1>5, <1>6, <1>8, NoneAssumption DEF FrameInv, Fresh, OuterInv
  <2>3. NestedInv(t, stack[t][1], stack[t][2])'
    BY <1>1, <1>2, <1>3, <1>4, <1>5, <1>6, <1>7, <2>1, <2>2 DEF NestedInv, OuterInv, k
  <2>4. Len(stack'[t]) = 2 BY <1>5, <1>6
  <2> QED BY <2>3, <2>4 DEF ThreadInv
<1>12. RecordsInv'
  <2>1. \A r \in Records : ~Fills(t, r) /\ ~Fills(t, r)' BY <1>1, <1>3, <1>5 DEF Fills
  <2>2. \A u \in Threads, r \in Records : Fills(u, r)' <=> Fills(u, r)
    BY <1>5, <2>1 DEF Fills
  <2> QED BY <1>0, <1>4, <1>7, <1>8, <2>2, RecordsKeep DEF StateOK
<1> QED BY <1>10, <1>11, <1>12

----------------------------------------------------------------------------
(* What getone and putone do to the set of records in use.                 *)
LEMMA UsedGrows ==
    ASSUME PoolInv, freed # <<>>, used' = <<Head(freed)>> \o used
    PROVE  /\ RangeOf(used)' = RangeOf(used) \cup {Head(freed)}
           /\ Head(freed) \in Records \ RangeOf(used)
<1>1. used \in Seq(Records) /\ freed \in Seq(Records) /\ DOMAIN used = 1 .. Len(used)
  BY DEF PoolInv
<1>2. Head(freed) = freed[1] /\ 1 \in 1 .. Len(freed) /\ Head(freed) \in Records
  BY <1>1, WithoutHead
<1>3. used' \in Seq(Records) /\ Fronted(used', used, Head(freed)) BY <1>1, <1>2, FrontedBy
<1>4. DOMAIN used' = 1 .. Len(used) + 1 BY <1>3 DEF Fronted
<1>5. ASSUME NEW x PROVE x \in RangeOf(used') <=> x \in RangeOf(used) \cup {Head(freed)}
  <2>1. ASSUME NEW i \in 1 .. Len(used) + 1, x = used'[i]
        PROVE  x \in RangeOf(used) \cup {Head(freed)}
    <3>1. CASE i = 1 BY <2>1, <3>1, <1>3 DEF Fronted
    <3>2. CASE i # 1
      <4>1. i - 1 \in 1 .. Len(used) /\ (i - 1) + 1 = i BY <1>1, <3>2
      <4>2. used'[i] = used[i - 1] BY <1>3, <4>1 DEF Fronted
      <4> QED BY <1>1, <2>1, <4>1, <4>2 DEF RangeOf
    <3> QED BY <3>1, <3>2
  <2>2. ASSUME NEW i \in 1 .. Len(used), x = used[i] PROVE x \in RangeOf(used')
    <3>1. used'[i + 1] = x /\ i + 1 \in 1 .. Len(used) + 1 BY <1>1, <1>3, <2>2 DEF Fronted
    <3> QED BY <1>4, <3>1 DEF RangeOf
  <2>3. Head(freed) \in RangeOf(used')
    <3>1. used'[1] = Head(freed) /\ 1 \in 1 .. Len(used) + 1 BY <1>1, <1>3 DEF Fronted
    <3> QED BY <1>4, <3>1 DEF RangeOf
  <2> QED BY <1>1, <1>4, <2>1, <2>2, <2>3 DEF RangeOf
<1>6. Head(freed) \notin RangeOf(used)
  <2>1. hooks # "off" BY DEF PoolInv
  <2>2. \A i \in 1 .. Len(used) : used[i] # freed[1] BY <1>2, <2>1 DEF PoolInv, Divided
  <2> QED BY <1>1, <1>2, <2>2 DEF RangeOf
<1> QED BY <1>2, <1>5, <1>6 DEF RangeOf

LEMMA UsedShrinks ==
    ASSUME PoolInv, hooks # "off", NEW i \in 1 .. Len(used), used' = RemoveAt(used, i)
    PROVE  /\ RangeOf(used)' = RangeOf(used) \ {used[i]}
           /\ used[i] \in RangeOf(used) /\ used[i] \in Records
<1>1. used \in Seq(Records) /\ DOMAIN used = 1 .. Len(used) /\ Once(used)
  BY DEF PoolInv, Divided
<1>2. used' \in Seq(Records) /\ Without(used', used, i) BY <1>1, WithoutEntry
<1>3. /\ DOMAIN used' = 1 .. Len(used) - 1 /\ Len(used) \in Nat /\ i \in Nat /\ i >= 1
      /\ i <= Len(used) /\ Len(used') = Len(used) - 1
  BY <1>1, <1>2 DEF Without
<1>4. ASSUME NEW k \in 1 .. Len(used) - 1
      PROVE  /\ used'[k] = IF k < i THEN used[k] ELSE used[k + 1]
             /\ k \in 1 .. Len(used) /\ k + 1 \in 1 .. Len(used)
  BY <1>2, <1>3 DEF Without
<1>5. ASSUME NEW k \in 1 .. Len(used) - 1 PROVE used'[k] \in RangeOf(used) \ {used[i]}
  <2>1. CASE k < i
    <3>1. k # i BY <1>3, <2>1
    <3>2. used[k] # used[i] BY <1>1, <1>4, <3>1 DEF Once
    <3> QED BY <1>1, <1>4, <2>1, <3>2 DEF RangeOf
  <2>2. CASE ~(k < i)
    <3>1. k + 1 # i BY <1>3, <2>2
    <3>2. used[k + 1] # used[i] BY <1>1, <1>4, <3>1 DEF Once
    <3> QED BY <1>1, <1>4, <2>2, <3>2 DEF RangeOf
  <2> QED BY <2>1, <2>2
<1>6. ASSUME NEW k \in 1 .. Len(used), used[k] # used[i] PROVE used[k] \in RangeOf(used')
  <2>1. CASE k < i
    <3>1. k \in 1 .. Len(used) - 1 BY <1>3, <2>1
    <3> QED BY <1>3, <1>4, <2>1, <3>1 DEF RangeOf
  <2>2. CASE k > i
    <3>1. k - 1 \in 1 .. Len(used) - 1 /\ ~(k - 1 < i) /\ (k - 1) + 1 = k BY <1>3, <2>2
    <3>2. used'[k - 1] = used[k] BY <1>4, <3>1
    <3> QED BY <1>3, <3>1, <3>2 DEF RangeOf
  <2>3. k # i BY <1>6
  <2> QED BY <1>3, <2>1, <2>2, <2>3
<1>7. RangeOf(used') = RangeOf(used) \ {used[i]} BY <1>1, <1>3, <1>5, <1>6 DEF RangeOf
<1>8. used[i] \in RangeOf(used) /\ used[i] \in Records BY <1>1 DEF RangeOf
<1> QED BY <1>7, <1>8 DEF RangeOf

(* A record that is being filled has no mutex yet, or the hook's.          *)
LEMMA FilledIs ==
    ASSUME StateOK, NEW u \in Threads, ThreadInv(u), NEW r, Fills(u, r)
    PROVE  /\ r \in RangeOf(used) /\ r = Top(u).r /\ Top(u).kind = "lock"
           /\ owner[Top(u).m] = u /\ Top(u).m \in AllMutexes
           /\ mutex[r] = IF Top(u).at = "mutex" THEN None ELSE Top(u).m
<1>1. stack[u] # <<>> BY DEF Fills
<1> QED BY <1>1, TopIs DEF Fills, FrameInv

(* getone: the record is in use before it says anything.                   *)
LEMMA GetOneKeeps ==
    ASSUME SafeInv, hooks = "on", NEW t \in Threads, GetOne(t), freed # <<>>
    PROVE  RecordsInv' /\ \A u \in Threads : ThreadInv(u)'
<1> DEFINE f == Top(t)
           n == Head(freed)
           g == [f EXCEPT !.at = "mutex", !.r = n]
<1>0. /\ PoolInv /\ RecordsInv /\ StateOK /\ stack[t] # <<>>
      /\ \A u \in Threads : ThreadInv(u)
  BY DEF SafeInv, TrackInv, GetOne, Running
<1>1. /\ f = stack[t][1] /\ f \in Frames /\ Len(stack[t]) \in {1, 2} /\ FrameInv(t, f)
      /\ Len(stack[t]) = 1 => OuterInv(t, f)
      /\ Len(stack[t]) = 2 => NestedInv(t, f, stack[t][2])
      /\ f.at = "list" /\ f.kind = "lock"
  BY <1>0, TopIs DEF GetOne, Running, Top
<1>2. /\ used' = <<n>> \o used /\ Become(t, g) /\ UNCHANGED <<owner, mutex, pid, tids>>
  BY DEF GetOne
<1>3. /\ RangeOf(used)' = RangeOf(used) \cup {n}
      /\ n \in Records /\ n \notin RangeOf(used)
  BY <1>0, <1>2, UsedGrows
<1>4. /\ g \in Frames /\ g.kind = "lock" /\ g.at = "mutex" /\ g.m = f.m /\ g.r = n
      /\ g.inner = f.inner
  BY <1>1, <1>3 DEF Frames
<1> HIDE DEF f, g, n
<1>5. /\ \A u \in Threads : u # t => stack'[u] = stack[u]
      /\ Len(stack'[t]) = Len(stack[t]) /\ stack'[t][1] = g
      /\ Len(stack[t]) = 2 => stack'[t][2] = stack[t][2]
      /\ stack' \in [Threads -> Seq(Frames)]
  BY <1>0, <1>2, <1>4, Became DEF StateOK
<1>6. \A m : NoRecord(m)' <=> NoRecord(m) BY <1>2 DEF NoRecord
<1>7. mutex[n] = None BY <1>0, <1>3 DEF RecordsInv
<1>8. ASSUME NEW u \in Threads, u # t PROVE ThreadInv(u)'
  <2>1. stack'[u] = stack[u] /\ (u \in tids' <=> u \in tids) BY <1>2, <1>5, <1>8
  <2> QED BY <1>0, <1>2, <1>3, <1>6, <2>1, Undisturbed
<1>9. FrameInv(t, stack[t][1])'
  BY <1>1, <1>2, <1>3, <1>4, <1>5, <1>6, <1>7 DEF FrameInv, Fresh
<1>10. ASSUME Len(stack[t]) = 1 PROVE ThreadInv(t)'
  <2>1. OuterInv(t, stack[t][1])' BY <1>1, <1>2, <1>4, <1>5, <1>9, <1>10 DEF OuterInv
  <2>2. Len(stack'[t]) = 1 BY <1>5, <1>10
  <2> QED BY <2>1, <2>2 DEF ThreadInv
<1>11. ASSUME Len(stack[t]) = 2 PROVE ThreadInv(t)'
  <2>1. FrameInv(t, stack[t][2])' BY <1>1, <1>2, <1>5, <1>6, <1>11 DEF NestedInv, FrameInv, Fresh
  <2>2. NestedInv(t, stack[t][1], stack[t][2])'
    BY <1>1, <1>2, <1>4, <1>5, <1>9, <1>11, <2>1 DEF NestedInv
  <2>3. Len(stack'[t]) = 2 BY <1>5, <1>11
  <2> QED BY <2>2, <2>3 DEF ThreadInv
<1>12. RecordsInv'
  <2>1. \A u \in Threads, r \in Records : Fills(u, r) => r # n /\ u # t
    BY <1>0, <1>1, <1>3, FilledIs DEF Fills
  <2>2. \A u \in Threads, r \in Records : Fills(u, r)' <=> Fills(u, r) \/ (u = t /\ r = n)
    <3>1. stack'[t] # <<>> BY <1>1, <1>5
    <3> QED BY <1>4, <1>5, <2>1, <3>1 DEF Fills
  <2>3. ASSUME NEW r \in Records
        PROVE  /\ mutex'[r] # None => r \in RangeOf(used)' /\ owner'[mutex'[r]] # None
               /\ r \in RangeOf(used)' => \/ \E u \in Threads : Fills(u, r)'
                                          \/ mutex'[r] # None /\ pid'[r] = owner'[mutex'[r]]
    <3>1. r = n => Fills(t, r)' BY <2>2
    <3> QED BY <1>0, <1>2, <1>3, <2>2, <3>1 DEF RecordsInv
  <2>4. \A u, v \in Threads, r \in Records : Fills(u, r)' /\ Fills(v, r)' => u = v
    BY <1>0, <2>1, <2>2 DEF RecordsInv
  <2>5. \A r, s \in Records : mutex'[r] = mutex'[s] /\ mutex'[r] # None => r = s
    BY <1>0, <1>2 DEF RecordsInv
  <2> QED BY <2>3, <2>4, <2>5 DEF RecordsInv
<1> QED BY <1>1, <1>8, <1>10, <1>11, <1>12

(* mb->mutex and mb->pid are set: now the record tells the truth.          *)
LEMMA FillKeeps ==
    ASSUME SafeInv, hooks = "on", NEW t \in Threads, SetMutex(t) \/ SetPid(t)
    PROVE  RecordsInv' /\ \A u \in Threads : ThreadInv(u)'
<1> DEFINE f == Top(t)
           p == IF f.at = "mutex" THEN "pid" ELSE "unwind"
<1>0. /\ RecordsInv /\ StateOK /\ stack[t] # <<>>
      /\ \A u \in Threads : ThreadInv(u)
  BY DEF SafeInv, TrackInv, SetMutex, SetPid, Running
<1>1. /\ f = stack[t][1] /\ f \in Frames /\ Len(stack[t]) \in {1, 2} /\ FrameInv(t, f)
      /\ Len(stack[t]) = 1 => OuterInv(t, f)
      /\ Len(stack[t]) = 2 => NestedInv(t, f, stack[t][2])
      /\ f.at \in {"mutex", "pid"} /\ f.kind = "lock"
  BY <1>0, TopIs DEF SetMutex, SetPid, Running, Top
<1>2. /\ At(t, p) /\ UNCHANGED <<owner, used, tids>>
      /\ \/ f.at = "mutex" /\ mutex' = [mutex EXCEPT ![f.r] = f.m] /\ pid' = pid
         \/ f.at = "pid" /\ pid' = [pid EXCEPT ![f.r] = t] /\ mutex' = mutex
  BY DEF SetMutex, SetPid, Running, Top
<1>3. /\ \A u \in Threads : u # t => stack'[u] = stack[u]
      /\ stack'[t] # <<>> /\ Len(stack'[t]) = Len(stack[t])
      /\ Len(stack[t]) = 2 => stack'[t][2] = stack[t][2]
      /\ stack'[t][1].kind = f.kind /\ stack'[t][1].at = p /\ stack'[t][1].m = f.m
      /\ stack'[t][1].r = f.r /\ stack'[t][1].inner = f.inner
  BY <1>0, <1>2, MovesOn DEF Places
<1> HIDE DEF f
<1>4. /\ Fills(t, f.r) /\ f.r \in RangeOf(used) /\ f.m \in AllMutexes /\ owner[f.m] = t
      /\ mutex[f.r] = IF f.at = "mutex" THEN None ELSE f.m
      /\ f.at = "mutex" => NoRecord(f.m)
  BY <1>0, <1>1 DEF Fills, FrameInv, Fresh
<1>5. f.r \in Records /\ RangeOf(used)' = RangeOf(used) /\ f.m # None
  BY <1>2, <1>4, NoneAssumption DEF SafeInv, PoolInv, RangeOf, AllMutexes
<1>6. mutex'[f.r] = f.m /\ \A r \in Records : r # f.r => mutex'[r] = mutex[r]
  BY <1>0, <1>2, <1>4, <1>5 DEF StateOK
<1>7. \A m \in AllMutexes : m # f.m => (NoRecord(m)' <=> NoRecord(m))
  BY <1>4, <1>5, <1>6, NoneAssumption DEF NoRecord, AllMutexes
<1>8. ASSUME NEW u \in Threads, u # t PROVE ThreadInv(u)'
  <2>1. stack'[u] = stack[u] /\ (u \in tids' <=> u \in tids) BY <1>2, <1>3, <1>8
  <2>2. \A r \in RangeOf(used) : Fills(u, r) => r \in RangeOf(used)' /\ mutex'[r] = mutex[r]
    <3>1. RangeOf(used) \subseteq Records BY DEF SafeInv, PoolInv, RangeOf
    <3>2. ~Fills(u, f.r) BY <1>0, <1>4, <1>5, <1>8 DEF RecordsInv
    <3> QED BY <1>5, <1>6, <3>1, <3>2
  <2>3. \A m \in AllMutexes : owner[m] = u /\ NoRecord(m) => NoRecord(m)' BY <1>4, <1>7, <1>8
  <2> QED BY <1>0, <1>2, <2>1, <2>2, <2>3, Undisturbed
<1>9. FrameInv(t, stack[t][1])'
  BY <1>1, <1>2, <1>3, <1>4, <1>5, <1>6 DEF FrameInv, Fresh
<1>10. ASSUME Len(stack[t]) = 1 PROVE ThreadInv(t)'
  <2>1. OuterInv(t, stack[t][1])' BY <1>1, <1>2, <1>3, <1>9, <1>10 DEF OuterInv
  <2>2. Len(stack'[t]) = 1 BY <1>3, <1>10
  <2> QED BY <2>1, <2>2 DEF ThreadInv
<1>11. ASSUME Len(stack[t]) = 2 PROVE ThreadInv(t)'
  <2>1. FrameInv(t, stack[t][2])' BY <1>1, <1>2, <1>3, <1>11 DEF NestedInv, FrameInv, Fresh
  <2>2. NestedInv(t, stack[t][1], stack[t][2])'
    BY <1>1, <1>2, <1>3, <1>9, <1>11, <2>1 DEF NestedInv
  <2>3. Len(stack'[t]) = 2 BY <1>3, <1>11
  <2> QED BY <2>2, <2>3 DEF ThreadInv
<1>12. RecordsInv'
  <2>1. \A u \in Threads, r \in Records :
           Fills(u, r)' <=> IF u = t THEN r = f.r /\ f.at = "mutex" ELSE Fills(u, r)
    BY <1>1, <1>3 DEF Fills, f
  <2>2. \A r \in Records : Fills(t, r) <=> r = f.r BY <1>1, <1>4 DEF Fills
  <2>3. ASSUME NEW r \in Records, mutex'[r] # None
        PROVE  r \in RangeOf(used)' /\ owner'[mutex'[r]] # None
    BY <1>0, <1>2, <1>4, <1>5, <1>6, <2>3, NoneAssumption DEF RecordsInv
  <2>4. ASSUME NEW r \in Records, r \in RangeOf(used)'
        PROVE  \/ \E u \in Threads : Fills(u, r)'
               \/ mutex'[r] # None /\ pid'[r] = owner'[mutex'[r]]
    <3>1. CASE r = f.r
      <4>1. CASE f.at = "mutex" BY <2>1, <3>1, <4>1
      <4>2. CASE f.at = "pid" BY <1>0, <1>2, <1>4, <1>5, <1>6, <3>1, <4>2 DEF StateOK
      <4> QED BY <1>1, <4>1, <4>2
    <3>2. CASE r # f.r
      <4>1. mutex'[r] = mutex[r] /\ pid'[r] = pid[r] BY <1>0, <1>2, <1>6, <3>2 DEF StateOK
      <4> QED BY <1>0, <1>2, <1>5, <2>1, <2>2, <2>4, <3>2, <4>1 DEF RecordsInv
    <3> QED BY <3>1, <3>2
  <2>5. \A r, s \in Records : mutex'[r] = mutex'[s] /\ mutex'[r] # None => r = s
    BY <1>0, <1>1, <1>4, <1>5, <1>6 DEF RecordsInv, NoRecord
  <2>6. \A u, v \in Threads, r \in Records : Fills(u, r)' /\ Fills(v, r)' => u = v
    BY <1>0, <2>1, <2>2 DEF RecordsInv
  <2> QED BY <2>3, <2>4, <2>5, <2>6 DEF RecordsInv
<1> QED BY <1>1, <1>8, <1>10, <1>11, <1>12

(* putone: the first record of the mutex is its only one, and its thread's.*)
LEMMA PutOneKeeps ==
    ASSUME SafeInv, hooks = "on", NEW t \in Threads, PutOne(t)
    PROVE  RecordsInv' /\ \A u \in Threads : ThreadInv(u)'
<1> DEFINE f == Top(t)
           i == FirstMatch(f.m)
           r == used[i]
<1>0. /\ PoolInv /\ RecordsInv /\ StateOK /\ stack[t] # <<>>
      /\ \A u \in Threads : ThreadInv(u)
  BY DEF SafeInv, TrackInv, PutOne, Running
<1>1. /\ f = stack[t][1] /\ f \in Frames /\ Len(stack[t]) \in {1, 2} /\ FrameInv(t, f)
      /\ Len(stack[t]) = 1 => OuterInv(t, f)
      /\ Len(stack[t]) = 2 => NestedInv(t, f, stack[t][2])
      /\ f.at = "list" /\ f.kind = "unlock"
  BY <1>0, TopIs DEF PutOne, Running, Top
<1>2. At(t, "end") /\ UNCHANGED <<owner, tids>> BY DEF PutOne
<1>3. f.m \in AllMutexes /\ f.m # None /\ owner[f.m] = t
  BY <1>1, NoneAssumption DEF FrameInv, AllMutexes
<1>4. used \in Seq(Records) /\ DOMAIN used = 1 .. Len(used) BY <1>0 DEF PoolInv
<1>5. CASE Matches(f.m) = {}
  <2>1. UNCHANGED <<used, mutex, pid>> BY <1>5 DEF PutOne
  <2>2. NoRecord(f.m) BY <1>0, <1>3, <1>5 DEF RecordsInv, NoRecord, Matches, RangeOf
  <2>3. ~f.inner BY <1>1 DEF OuterInv, NestedInv
  <2> QED BY <1>0, <1>1, <1>2, <2>1, <2>2, <2>3, QuietMove DEF Places
<1>6. CASE Matches(f.m) # {}
  <2>1. i \in Matches(f.m) /\ i \in 1 .. Len(used)
    <3>1. Matches(f.m) \subseteq 1 .. Len(used) BY <1>4 DEF Matches
    <3> QED BY <1>4, <1>6, <3>1, FirstIsThere
  <2>2. mutex[r] = f.m /\ r \in RangeOf(used) /\ r \in Records
    BY <1>4, <2>1 DEF Matches, RangeOf
  <2>3. \A u \in Threads : ~Fills(u, r)
    <3> SUFFICES ASSUME NEW u \in Threads, Fills(u, r) PROVE FALSE OBVIOUS
    <3>1. Top(u).kind = "lock" /\ owner[f.m] = u
      BY <1>0, <1>3, <2>2, FilledIs
    <3> QED BY <1>1, <1>3, <3>1
  <2>4. pid[r] = t BY <1>0, <1>3, <2>2, <2>3 DEF RecordsInv
  <2>5. /\ used' = RemoveAt(used, i) /\ mutex' = [mutex EXCEPT ![r] = None]
        /\ pid' = [pid EXCEPT ![r] = None]
    BY <1>6, <2>4 DEF PutOne
  <2> HIDE DEF i
  <2>6. hooks # "off" OBVIOUS
  <2>7. RangeOf(used)' = RangeOf(used) \ {r} BY <1>0, <2>1, <2>5, <2>6, UsedShrinks
  <2>8. mutex'[r] = None /\ \A s \in Records : s # r => mutex'[s] = mutex[s] /\ pid'[s] = pid[s]
    BY <1>0, <2>2, <2>5 DEF StateOK
  <2>9. /\ \A u \in Threads : u # t => stack'[u] = stack[u]
        /\ stack'[t] # <<>> /\ Len(stack'[t]) = Len(stack[t])
        /\ Len(stack[t]) = 2 => stack'[t][2] = stack[t][2]
        /\ stack'[t][1].kind = f.kind /\ stack'[t][1].at = "end" /\ stack'[t][1].m = f.m
        /\ stack'[t][1].r = f.r /\ stack'[t][1].inner = f.inner
    BY <1>0, <1>2, MovesOn DEF Places
  <2> HIDE DEF f, r
  <2>10. \A m \in AllMutexes : NoRecord(m) => NoRecord(m)'
    BY <2>8, NoneAssumption DEF NoRecord, AllMutexes
  <2>11. \A s \in Records : mutex'[s] # f.m
    <3> SUFFICES ASSUME NEW s \in Records, mutex'[s] = f.m PROVE FALSE OBVIOUS
    <3>1. s # r BY <1>3, <2>8
    <3>2. mutex[s] = f.m BY <2>8, <3>1
    <3> QED BY <1>0, <1>3, <2>2, <3>1, <3>2 DEF RecordsInv
  <2>12. ASSUME NEW u \in Threads, u # t PROVE ThreadInv(u)'
    <3>1. stack'[u] = stack[u] /\ (u \in tids' <=> u \in tids) BY <1>2, <2>9, <2>12
    <3>2. \A s \in RangeOf(used) : Fills(u, s) => s \in RangeOf(used)' /\ mutex'[s] = mutex[s]
      <4>1. RangeOf(used) \subseteq Records BY <1>4 DEF RangeOf
      <4> QED BY <2>3, <2>7, <2>8, <4>1
    <3> QED BY <1>0, <1>2, <2>10, <3>1, <3>2, Undisturbed
  <2>13. FrameInv(t, stack[t][1])'
    <3>1. stack'[t][1].kind = "unlock" /\ stack'[t][1].at = "end" /\ stack'[t][1].m = f.m
      BY <1>1, <2>9
    <3>2. owner'[f.m] = t BY <1>2, <1>3
    <3>3. NoRecord(stack[t][1].m)' BY <2>11, <3>1 DEF NoRecord
    <3> QED BY <1>3, <3>1, <3>2, <3>3 DEF FrameInv
  <2>14. ASSUME Len(stack[t]) = 1 PROVE ThreadInv(t)'
    <3>1. OuterInv(t, stack[t][1])' BY <1>1, <1>2, <2>9, <2>13, <2>14 DEF OuterInv
    <3>2. Len(stack'[t]) = 1 BY <2>9, <2>14
    <3> QED BY <3>1, <3>2 DEF ThreadInv
  <2>15. ASSUME Len(stack[t]) = 2 PROVE ThreadInv(t)'
    <3>1. FrameInv(t, stack[t][2])'
      BY <1>1, <1>2, <2>9, <2>10, <2>15 DEF NestedInv, FrameInv, Fresh
    <3>2. NestedInv(t, stack[t][1], stack[t][2])'
      BY <1>1, <1>2, <2>9, <2>13, <2>15, <3>1 DEF NestedInv
    <3>3. Len(stack'[t]) = 2 BY <2>9, <2>15
    <3> QED BY <3>2, <3>3 DEF ThreadInv
  <2>16. RecordsInv'
    <3>1. \A u \in Threads, s \in Records : Fills(u, s)' <=> Fills(u, s)
      BY <1>1, <2>9 DEF Fills, f
    <3>2. ASSUME NEW s \in Records
          PROVE  /\ mutex'[s] # None => s \in RangeOf(used)' /\ owner'[mutex'[s]] # None
                 /\ s \in RangeOf(used)' => \/ \E u \in Threads : Fills(u, s)'
                                            \/ mutex'[s] # None /\ pid'[s] = owner'[mutex'[s]]
      <4>1. CASE s = r BY <2>7, <2>8, <4>1
      <4>2. CASE s # r BY <1>0, <1>2, <2>7, <2>8, <3>1, <4>2 DEF RecordsInv
      <4> QED BY <4>1, <4>2
    <3>3. \A q, s \in Records : mutex'[q] = mutex'[s] /\ mutex'[q] # None => q = s
      BY <1>0, <2>8 DEF RecordsInv
    <3>4. \A u, v \in Threads, s \in Records : Fills(u, s)' /\ Fills(v, s)' => u = v
      BY <1>0, <3>1 DEF RecordsInv
    <3> QED BY <3>2, <3>3, <3>4 DEF RecordsInv
  <2> QED BY <1>1, <2>12, <2>14, <2>15, <2>16
<1> QED BY <1>5, <1>6

----------------------------------------------------------------------------
(* The types, whatever the hooks are in the middle of.                     *)
LEMMA TypedMove ==
    ASSUME StateOK, NEW t \in Threads, stack[t] # <<>>
    PROVE  /\ Top(t) \in Frames
           /\ \A f \in Frames : Become(t, f) => stack' \in [Threads -> Seq(Frames)]
           /\ \A p \in Places \cup {"mutex"} : At(t, p) => stack' \in [Threads -> Seq(Frames)]
           /\ Pop(t) => stack' \in [Threads -> Seq(Frames)]
           /\ \A f \in Frames, g \in Frames :
                 stack' = [stack EXCEPT ![t] = <<f, g>> \o Tail(@)]
                    => stack' \in [Threads -> Seq(Frames)]
<1>1. stack \in [Threads -> Seq(Frames)] /\ stack[t] \in Seq(Frames) BY DEF StateOK
<1>2. Top(t) \in Frames BY <1>1, Stacked DEF Top
<1>3. \A f \in Frames : Become(t, f) => stack' \in [Threads -> Seq(Frames)] BY <1>1, Became
<1>4. ASSUME NEW p \in Places \cup {"mutex"}, At(t, p) PROVE stack' \in [Threads -> Seq(Frames)]
  BY <1>2, <1>3, <1>4, FrameAt DEF At
<1>5. Pop(t) => stack' \in [Threads -> Seq(Frames)] BY <1>1, Popped
<1>6. ASSUME NEW f \in Frames, NEW g \in Frames,
             stack' = [stack EXCEPT ![t] = <<f, g>> \o Tail(@)]
      PROVE  stack' \in [Threads -> Seq(Frames)]
  BY <1>1, <1>6, Nested
<1> QED BY <1>2, <1>3, <1>4, <1>5, <1>6

LEMMA CallTyped ==
    ASSUME StateOK, NEW t \in Threads, Call(t)
    PROVE  StateOK'
<1>0. stack \in [Threads -> Seq(Frames)] /\ owner \in [AllMutexes -> Threads \cup {None}]
  BY DEF StateOK
<1>1. stack[t] = <<>> /\ UNCHANGED <<mutex, pid, tids>>
  BY DEF Call, Dump, Lock, TryLock, Unlock
<1>2. ASSUME NEW k \in Kinds, NEW m \in AllMutexes \cup {None}, Push(t, Frame(k, m))
      PROVE  stack' \in [Threads -> Seq(Frames)]
  BY <1>0, <1>1, <1>2, FrameNew, Pushed
<1>3. owner' \in [AllMutexes -> Threads \cup {None}]
  BY <1>0 DEF Call, Dump, Lock, TryLock, Unlock, AllMutexes
<1>4. CASE Dump(t)
  <2>1. Push(t, Frame("dump", None)) BY <1>4 DEF Dump
  <2> QED BY <1>1, <1>2, <1>3, <2>1 DEF StateOK, Kinds
<1>5. ASSUME NEW m \in Mutexes, Lock(t, m) \/ TryLock(t, m) \/ Unlock(t, m) PROVE StateOK'
  <2>1. stack' = stack \/ Push(t, Frame("lock", m)) \/ Push(t, Frame("unlock", m))
    BY <1>5 DEF Lock, TryLock, Unlock
  <2>2. stack' \in [Threads -> Seq(Frames)] BY <1>0, <1>2, <2>1 DEF Kinds, AllMutexes
  <2> QED BY <1>1, <1>3, <2>2 DEF StateOK
<1> QED BY <1>4, <1>5 DEF Call

LEMMA HookTyped ==
    ASSUME PoolInv, StateOK, NEW t \in Threads, UsesList(t) \/ HookStep(t) \/ InnerLock(t)
    PROVE  StateOK'
<1> DEFINE f == Top(t)
<1>0. /\ stack[t] # <<>> /\ f \in Frames
      /\ f.m \in AllMutexes \cup {None} /\ f.r \in Records \cup {None}
  <2>1. stack[t] # <<>>
    BY DEF UsesList, GetOne, PutOne, DumpLock, HookStep, Enter, Start, SetMutex, SetPid,
           InnerUnlock, Unwound, End, Release, InnerLock, Running
  <2>2. f \in Frames BY <2>1, TypedMove
  <2> QED BY <2>1, <2>2 DEF Frames
<1>1. CASE GetOne(t)
  <2>1. ASSUME freed # <<>>, Become(t, [f EXCEPT !.at = "mutex", !.r = Head(freed)])
        PROVE  stack' \in [Threads -> Seq(Frames)]
    <3>1. Head(freed) \in Records BY <2>1 DEF PoolInv
    <3>2. [f EXCEPT !.at = "mutex", !.r = Head(freed)] \in Frames BY <1>0, <3>1 DEF Frames
    <3> QED BY <1>0, <2>1, <3>2, TypedMove
  <2>2. At(t, "end") => stack' \in [Threads -> Seq(Frames)] BY <1>0, TypedMove DEF Places
  <2> QED BY <1>1, <2>1, <2>2 DEF GetOne, StateOK
<1>2. CASE PutOne(t)
  <2>1. stack' \in [Threads -> Seq(Frames)] BY <1>0, <1>2, TypedMove DEF PutOne, Places
  <2>2. /\ mutex' \in [Records -> AllMutexes \cup {None}]
        /\ pid' \in [Records -> Threads \cup {None}]
    BY <1>2 DEF PutOne, StateOK
  <2> QED BY <1>2, <2>1, <2>2 DEF PutOne, StateOK
<1>3. CASE DumpLock(t) \/ Unwound(t)
  BY <1>0, <1>3, TypedMove DEF DumpLock, Unwound, Places, StateOK
<1>4. CASE Enter(t) \/ Start(t) \/ End(t)
  <2>1. \/ At(t, "start") \/ At(t, "list") \/ At(t, "release") \/ Pop(t)
    BY <1>4 DEF Enter, Start, End
  <2>2. stack' \in [Threads -> Seq(Frames)] BY <1>0, <2>1, TypedMove DEF Places
  <2>3. UNCHANGED <<owner, mutex, pid>> /\ tids' \subseteq Threads
    BY <1>4 DEF Enter, Start, End, StateOK
  <2> QED BY <2>2, <2>3 DEF StateOK
<1>5. CASE SetMutex(t) \/ SetPid(t)
  <2>1. stack' \in [Threads -> Seq(Frames)]
    BY <1>0, <1>5, TypedMove DEF SetMutex, SetPid, Places
  <2>2. /\ mutex' \in [Records -> AllMutexes \cup {None}]
        /\ pid' \in [Records -> Threads \cup {None}]
    BY <1>0, <1>5 DEF SetMutex, SetPid, StateOK
  <2> QED BY <1>5, <2>1, <2>2 DEF SetMutex, SetPid, StateOK
<1>6. CASE InnerLock(t) \/ InnerUnlock(t)
  <2> DEFINE g == [f EXCEPT !.inner = TRUE]
             h == [f EXCEPT !.inner = FALSE]
             k == Frame("lock", Inner)
             l == Frame("unlock", Inner)
  <2>1. g \in Frames /\ h \in Frames /\ k \in Frames /\ l \in Frames
    BY <1>0, FrameMarked, FrameNew DEF Kinds, AllMutexes
  <2>2. /\ owner' \in [AllMutexes -> Threads \cup {None}]
        /\ UNCHANGED <<mutex, pid, tids>>
    BY <1>6 DEF InnerLock, InnerUnlock, StateOK, AllMutexes
  <2>3. \/ stack' = [stack EXCEPT ![t] = (<<k>> \o <<g>>) \o Tail(@)]
        \/ stack' = [stack EXCEPT ![t] = (<<>> \o <<g>>) \o Tail(@)]
        \/ stack' = [stack EXCEPT ![t] = <<l, h>> \o Tail(@)]
        \/ Become(t, h)
    BY <1>6 DEF InnerLock, InnerUnlock
  <2> HIDE DEF f, g, h, k, l
  <2>4. <<k>> \o <<g>> = <<k, g>> BY <2>1, TwoFrames
  <2>5. <<>> \o <<g>> = <<g>>
    <3>1. <<g>> \in Seq(Frames) BY <2>1
    <3> QED BY <3>1, ConcatEmptySeq
  <2>6. \/ stack' = [stack EXCEPT ![t] = <<k, g>> \o Tail(@)]
        \/ Become(t, g)
        \/ stack' = [stack EXCEPT ![t] = <<l, h>> \o Tail(@)]
        \/ Become(t, h)
    BY <2>3, <2>4, <2>5 DEF Become
  <2>7. stack' \in [Threads -> Seq(Frames)] BY <1>0, <2>1, <2>6, TypedMove
  <2> QED BY <2>2, <2>7 DEF StateOK
<1>7. CASE Release(t)
  <2>1. stack' \in [Threads -> Seq(Frames)] BY <1>0, <1>7, TypedMove DEF Release
  <2>2. owner' \in [AllMutexes -> Threads \cup {None}] BY <1>7 DEF Release, StateOK
  <2> QED BY <1>7, <2>1, <2>2 DEF Release, StateOK
<1> QED BY <1>1, <1>2, <1>3, <1>4, <1>5, <1>6, <1>7 DEF UsesList, HookStep

LEMMA StateNext == PoolInv /\ StateOK /\ [Next]_vars => StateOK'
<1> SUFFICES ASSUME PoolInv, StateOK, [Next]_vars PROVE StateOK' OBVIOUS
<1>1. CASE InitDebug \/ Unhook \/ DestroyList \/ UNCHANGED vars
  BY <1>1 DEF InitDebug, Unhook, DestroyList, vars, StateOK
<1> QED BY <1>1, CallTyped, HookTyped DEF Next

----------------------------------------------------------------------------
(* Every step of a hook call keeps the records true.                       *)
LEMMA HookKeeps ==
    ASSUME SafeInv, hooks = "on", NEW t \in Threads, UsesList(t) \/ HookStep(t) \/ InnerLock(t)
    PROVE  RecordsInv' /\ \A u \in Threads : ThreadInv(u)'
<1> DEFINE f == Top(t)
<1>0. stack[t] # <<>>
  BY DEF UsesList, GetOne, PutOne, DumpLock, HookStep, Enter, Start, SetMutex, SetPid,
         InnerUnlock, Unwound, End, Release, InnerLock, Running
<1>1. f.at # "unwind" => ~f.inner
  <2>1. StateOK /\ ThreadInv(t) BY DEF SafeInv, TrackInv
  <2> QED BY <1>0, <2>1, TopIs DEF OuterInv, NestedInv, Frames
<1>2. CASE GetOne(t)
  <2>1. CASE freed # <<>> BY <1>2, <2>1, GetOneKeeps
  <2>2. CASE freed = <<>>
    <3>1. /\ f.at = "list" /\ f.kind = "lock" /\ At(t, "end") /\ tids' = tids
          /\ UNCHANGED <<owner, used, mutex, pid>>
      BY <1>2, <2>2 DEF GetOne, Running, Top
    <3> QED BY <1>0, <1>1, <3>1, QuietMove DEF Places
  <2> QED BY <2>1, <2>2
<1>3. CASE PutOne(t) BY <1>3, PutOneKeeps
<1>4. CASE SetMutex(t) \/ SetPid(t) BY <1>4, FillKeeps
<1>5. CASE InnerLock(t) \/ InnerUnlock(t) BY <1>5, InnerKeeps
<1>6. CASE DumpLock(t)
  <2>1. /\ f.at = "list" /\ f.kind = "dump" /\ At(t, "unwind") /\ tids' = tids
        /\ UNCHANGED <<owner, used, mutex, pid>>
    BY <1>6 DEF DumpLock, Running, Top
  <2> QED BY <1>0, <1>1, <2>1, QuietMove DEF Places
<1>7. CASE Enter(t)
  <2>1. f.at = "enter" /\ tids' = tids /\ UNCHANGED <<owner, used, mutex, pid>>
    BY <1>7 DEF Enter, Running, Top
  <2>2. CASE t \notin tids
    <3>1. At(t, "start") BY <1>7, <2>2 DEF Enter
    <3> QED BY <1>0, <1>1, <2>1, <2>2, <3>1, QuietMove DEF Places
  <2>3. CASE t \in tids /\ f.kind = "unlock"
    <3>1. At(t, "release") BY <1>7, <2>3 DEF Enter
    <3> QED BY <1>0, <1>1, <2>1, <2>3, <3>1, QuietMove DEF Places
  <2>4. CASE t \in tids /\ f.kind # "unlock"
    <3>1. Pop(t) /\ f.kind = "lock" BY <1>7, <2>4 DEF Enter, Running, Top
    <3> QED BY <1>0, <2>1, <2>4, <3>1, ReturnKeeps
  <2> QED BY <2>2, <2>3, <2>4
<1>8. CASE Start(t)
  <2>1. /\ f.at = "start" /\ At(t, "list") /\ tids' \in {tids, tids \cup {t}}
        /\ UNCHANGED <<owner, used, mutex, pid>>
    BY <1>8 DEF Start, Running, Top
  <2> QED BY <1>0, <1>1, <2>1, QuietMove DEF Places
<1>9. CASE Unwound(t)
  <2>1. /\ f.at = "unwind" /\ ~f.inner /\ At(t, "end") /\ tids' = tids
        /\ UNCHANGED <<owner, used, mutex, pid>>
    BY <1>9 DEF Unwound, Running, Top
  <2> QED BY <1>0, <1>1, <2>1, QuietMove DEF Places
<1>10. CASE End(t)
  <2>1. f.at = "end" /\ tids' = tids \ {t} /\ UNCHANGED <<owner, used, mutex, pid>>
    BY <1>10 DEF End, Running, Top
  <2>2. CASE f.kind = "unlock"
    <3>1. At(t, "release") BY <1>10, <2>2 DEF End
    <3> QED BY <1>0, <1>1, <2>1, <2>2, <3>1, QuietMove DEF Places
  <2>3. CASE f.kind # "unlock"
    <3>1. Pop(t) BY <1>10, <2>3 DEF End
    <3> QED BY <1>0, <2>1, <2>3, <3>1, ReturnKeeps
  <2> QED BY <2>2, <2>3
<1>11. CASE Release(t)
  <2>1. /\ f.at = "release" /\ tids' = tids /\ owner' = [owner EXCEPT ![f.m] = None]
        /\ Pop(t) /\ UNCHANGED <<used, mutex, pid>>
    BY <1>11 DEF Release, Running, Top
  <2> QED BY <1>0, <2>1, ReturnKeeps
<1> QED BY <1>2, <1>3, <1>4, <1>5, <1>6, <1>7, <1>8, <1>9, <1>10, <1>11 DEF UsesList, HookStep

(* Steps that only change the pointers, the free list or bt_list.lock.     *)
LEMMA StandStill ==
    ASSUME RecordsInv /\ (\A t \in Threads : ThreadInv(t)),
           UNCHANGED <<owner, used, mutex, pid, tids, stack>>
    PROVE  RecordsInv' /\ \A t \in Threads : ThreadInv(t)'
<1>1. (\A m : NoRecord(m)' <=> NoRecord(m)) /\ RangeOf(used)' = RangeOf(used)
  BY DEF NoRecord, RangeOf
<1>2. \A t \in Threads : \A r : Fills(t, r)' <=> Fills(t, r) BY DEF Fills
<1>3. RecordsInv' BY <1>1, <1>2 DEF RecordsInv
<1>4. ASSUME NEW t \in Threads PROVE ThreadInv(t)' BY <1>1, Undisturbed
<1> QED BY <1>3, <1>4

LEMMA TrackNext == Foreign = {} /\ SafeInv /\ [Next]_vars => TrackInv'
<1> SUFFICES ASSUME Foreign = {}, SafeInv, [Next]_vars PROVE TrackInv' OBVIOUS
<1>1. TrackInv BY DEF SafeInv
<1>2. CASE InitDebug
  <2>1. hooks = "off" /\ hooks' = "on" /\ UNCHANGED <<owner, used, mutex, pid, tids, stack>>
    BY <1>2 DEF InitDebug
  <2> QED BY <1>1, <2>1, StandStill DEF TrackInv
<1>3. CASE Unhook \/ DestroyList BY <1>3 DEF Unhook, DestroyList, TrackInv
<1>4. ASSUME NEW t \in Threads, Call(t) PROVE TrackInv'
  <2>1. hooks' = hooks /\ (hooks = "off" => stack' = stack)
    BY <1>4 DEF Call, Dump, Lock, TryLock, Unlock
  <2> QED BY <1>1, <1>4, <2>1, CallKeeps DEF TrackInv
<1>5. ASSUME NEW t \in Threads, UsesList(t) \/ HookStep(t) \/ InnerLock(t) PROVE TrackInv'
  <2>1. hooks' = hooks /\ stack[t] # <<>>
    BY <1>5 DEF UsesList, GetOne, PutOne, DumpLock, HookStep, Enter, Start, SetMutex, SetPid,
                InnerUnlock, Unwound, End, Release, InnerLock, Running
  <2>2. hooks # "off" BY <1>1, <2>1 DEF TrackInv
  <2> QED BY <1>5, <2>1, <2>2, HookKeeps DEF TrackInv
<1>6. CASE UNCHANGED vars BY <1>1, <1>6, StandStill DEF TrackInv, vars
<1> QED BY <1>2, <1>3, <1>4, <1>5, <1>6 DEF Next

LEMMA SafeInit == Init => SafeInv
<1> SUFFICES ASSUME Init PROVE SafeInv OBVIOUS
<1>1. PoolInv BY PoolInit
<1>2. /\ owner = [m \in AllMutexes |-> None] /\ used = <<>> /\ tids = {}
      /\ mutex = [r \in Records |-> None] /\ pid = [r \in Records |-> None]
      /\ stack = [t \in Threads |-> <<>>]
  BY DEF Init
<1>3. StateOK BY <1>2 DEF StateOK
<1>4. RecordsInv
  <2>1. RangeOf(used) = {} BY <1>2 DEF RangeOf
  <2> QED BY <1>2, <2>1 DEF RecordsInv, Fills
<1>5. ASSUME NEW t \in Threads PROVE ThreadInv(t)
  <2>1. stack[t] = <<>> /\ Len(stack[t]) = 0 /\ t \notin tids BY <1>2
  <2>2. owner[Inner] # t BY <1>2, NoneAssumption DEF AllMutexes
  <2> QED BY <2>1, <2>2 DEF ThreadInv
<1> QED BY <1>1, <1>2, <1>3, <1>4, <1>5 DEF SafeInv, TrackInv

LEMMA SafeRecordsAreTrue == SafeInv => RecordsAreTrue
<1> SUFFICES ASSUME SafeInv, hooks = "on", NEW r \in RangeOf(used)
             PROVE  Filling(r) \/ (mutex[r] \in AllMutexes /\ pid[r] = owner[mutex[r]])
  BY DEF RecordsAreTrue
<1>1. RecordsInv /\ StateOK BY DEF SafeInv, TrackInv
<1>2. r \in Records BY DEF SafeInv, PoolInv, RangeOf
<1>3. ASSUME NEW t \in Threads, Fills(t, r) PROVE Filling(r)
  <2>1. stack[t] \in Seq(Frames) /\ stack[t] # <<>> BY <1>1, <1>3 DEF StateOK, Fills
  <2>2. 1 \in DOMAIN stack[t] BY <2>1
  <2> QED BY <1>3, <2>2 DEF Fills, Filling
<1> QED BY <1>1, <1>2, <1>3 DEF RecordsInv, StateOK

(* mutexdebug.cpp: while no thread unlocks what another has locked, what   *)
(* dump_all_mutex prints is true and no record leaks.  However the hooks   *)
(* of any number of threads interleave, through locks inside hooks and     *)
(* full tables of threads, a record in use is being filled by its hook or  *)
(* names the holder of its mutex, and every record is on one list.         *)
THEOREM TrackingStaysTrue ==
    ASSUME Foreign = {}
    PROVE  Spec => []TrackingIsTrue
<1>1. Init => SafeInv BY SafeInit
<1>2. SafeInv /\ [Next]_vars => SafeInv' BY PoolNext, StateNext, TrackNext DEF SafeInv
<1>3. SafeInv => TrackingIsTrue
  BY PoolInvConserves, SafeRecordsAreTrue DEF SafeInv, TrackingIsTrue
<1> QED BY <1>1, <1>2, <1>3, PTL DEF Spec
=============================================================================
