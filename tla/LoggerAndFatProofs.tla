------------------------- MODULE LoggerAndFatProofs -------------------------
(***************************************************************************)
(* Theorems about Logger, for any size of the ring that holds two of the   *)
(* longest entries: what the offsets stand for, and that the ring is a log *)
(* in the sense of AbstractLog.  Then theorems about FatBlocks, for one    *)
(* volume of any size, any files and any memory for extents, up to the     *)
(* first use of a freed extent, where the model stops: what the extents of *)
(* the tree are, and whose.                                                *)
(***************************************************************************)
EXTENDS Logger, FatBlocks, WellFoundedInduction, FiniteSetTheorems, SequenceTheorems, TLAPS

LEMMA LeastOf ==
    ASSUME NEW S, S \subseteq Nat, S # {}
    PROVE  \E k \in S : \A j \in S : k <= j
<1> DEFINE less == {ss \in Nat \X Nat : ss[1] < ss[2]}
<1>1. IsWellFoundedOn(less, Nat) BY NatLessThanWellFounded DEF OpToRel
<1> HIDE DEF less
<1>2. \E k \in S : \A j \in S : <<j, k>> \notin less BY <1>1, WFMin
<1>3. ASSUME NEW k \in Nat, NEW j \in Nat, <<j, k>> \notin less PROVE k <= j
  BY <1>3 DEF less
<1> QED BY <1>2, <1>3

(* How far an offset is behind the write offset, around the ring, and      *)
(* where each whole entry and the one to come are.                         *)
ToEnd(off) == IF off <= w_off THEN w_off - off ELSE w_off - off + Size
Place(i) == IF i > count THEN w_off ELSE live[i].off

(* The whole entries, from the oldest one, are in a chain of offsets that  *)
(* come ever closer to the write offset.                                   *)
Entry == [off : Offsets, len : Lengths, own : BOOLEAN]
Whole(i) ==
    /\ live[i] \in Entry
    /\ buffer[live[i].off] = [len |-> live[i].len, own |-> live[i].own, id |-> i]
    /\ ToEnd(Place(i)) = ToEnd(Place(i + 1)) + live[i].len
RingFrom(lo) ==
    /\ lo \in 1 .. count + 1
    /\ DOMAIN live = lo .. count
    /\ \A i \in lo .. count : Whole(i)
    /\ \A i, j \in lo .. count + 1 : i < j => ToEnd(Place(i)) > ToEnd(Place(j))

IsPlace(lo, off) == \E i \in lo .. count + 1 : off = Place(i)
Aligned(lo) == /\ RingFrom(lo) /\ IsPlace(lo, head)
               /\ \A r \in open : IsPlace(lo, r_off[r])
Calls == \A t \in Tasks : pc[t] \in {"start", "schedule", "take"} => FileOf[t] \in open
RingInv == /\ TypeOK
           /\ Calls
           /\ \E lo : Aligned(lo)

----------------------------------------------------------------------------
(* Offsets around the ring.                                                *)
LEMMA Around ==
    ASSUME NEW n \in Int, -Size <= n, n < 2 * Size
    PROVE  logger_offset(n) = IF n < 0 THEN n + Size ELSE IF n < Size THEN n ELSE n - Size
<1>1. Size \in Nat /\ Size > 0 BY SizeAssumption
<1>2. CASE n < 0 BY <1>1, <1>2 DEF logger_offset
<1>3. CASE n >= 0 /\ n < Size BY <1>1, <1>3 DEF logger_offset
<1>4. CASE n >= Size BY <1>1, <1>4 DEF logger_offset
<1> QED BY <1>1, <1>2, <1>3, <1>4

LEMMA Distances ==
    ASSUME w_off \in Offsets
    PROVE  /\ \A o \in Offsets : ToEnd(o) \in Offsets
           /\ \A o, p \in Offsets : ToEnd(o) = ToEnd(p) => o = p
           /\ ToEnd(w_off) = 0
           /\ \A o \in Offsets, n \in Nat :
                 n <= ToEnd(o) => /\ logger_offset(o + n) \in Offsets
                                  /\ ToEnd(logger_offset(o + n)) = ToEnd(o) - n
<1>1. Size \in Nat /\ w_off \in Nat /\ w_off < Size BY SizeAssumption DEF Offsets
<1>2. \A o \in Offsets : ToEnd(o) \in Offsets BY <1>1 DEF Offsets, ToEnd
<1>3. \A o, p \in Offsets : ToEnd(o) = ToEnd(p) => o = p BY <1>1 DEF Offsets, ToEnd
<1>4. ToEnd(w_off) = 0 BY <1>1 DEF ToEnd
<1>5. ASSUME NEW o \in Offsets, NEW n \in Nat, n <= ToEnd(o)
      PROVE  /\ logger_offset(o + n) \in Offsets
             /\ ToEnd(logger_offset(o + n)) = ToEnd(o) - n
  <2>1. o \in Nat /\ o < Size BY <1>1 DEF Offsets
  <2>2. n < Size BY <1>1, <1>2, <1>5 DEF Offsets
  <2>3. logger_offset(o + n) = IF o + n < Size THEN o + n ELSE o + n - Size
    BY <1>1, <2>1, <2>2, Around
  <2> QED BY <1>1, <1>5, <2>1, <2>2, <2>3 DEF Offsets, ToEnd
<1> QED BY <1>2, <1>3, <1>4, <1>5

(* What a write of len units would run over, or catch up with.             *)
LEMMA Lapped ==
    ASSUME w_off \in Offsets, NEW len \in Lengths, NEW o \in Offsets
    PROVE  is_between(w_off, logger_offset(w_off + len), o)
               <=> ToEnd(o) # 0 /\ ToEnd(o) + len >= Size
<1>1. Size \in Nat /\ w_off \in Nat /\ w_off < Size /\ o \in Nat /\ o < Size
  BY SizeAssumption DEF Offsets
<1>2. len \in Nat /\ len > 0 /\ 2 * len <= Size BY SizeAssumption
<1>3. logger_offset(w_off + len)
        = IF w_off + len < Size THEN w_off + len ELSE w_off + len - Size
  BY <1>1, <1>2, Around
<1> QED BY <1>1, <1>2, <1>3 DEF is_between, ToEnd

(* The places are offsets, each entry leads to the next one, and no two    *)
(* are the same.                                                           *)
LEMMA Places ==
    ASSUME TypeOK, NEW lo, RingFrom(lo)
    PROVE  /\ lo \in Nat \ {0} /\ lo <= count + 1 /\ count \in Nat
           /\ DOMAIN live = lo .. count
           /\ \A i \in lo .. count + 1 : Place(i) \in Offsets /\ ToEnd(Place(i)) \in Nat
           /\ \A i \in lo .. count : /\ Place(i) = live[i].off /\ i + 1 \in lo .. count + 1
                                     /\ live[i].len \in Nat /\ live[i].len > 0
                                     /\ buffer[Place(i)].len = live[i].len
                                     /\ buffer[Place(i)].id = i
                                     /\ logger_offset(Place(i) + live[i].len) = Place(i + 1)
                                     /\ ToEnd(Place(i)) > 0 /\ ToEnd(Place(i)) < Size
           /\ Place(count + 1) = w_off /\ ToEnd(w_off) = 0
           /\ \A i, j \in lo .. count + 1 : Place(i) = Place(j) => i = j
<1>1. /\ w_off \in Offsets /\ count \in Nat /\ lo \in Nat \ {0} /\ lo <= count + 1
      /\ Size \in Nat
  BY SizeAssumption DEF TypeOK, RingFrom
<1>2. DOMAIN live = lo .. count BY DEF RingFrom
<1>3. Place(count + 1) = w_off /\ ToEnd(w_off) = 0 BY <1>1, Distances DEF Place
<1>4. \A i \in lo .. count : Place(i) = live[i].off /\ Whole(i)
  BY <1>1 DEF Place, RingFrom
<1>5. \A i \in lo .. count + 1 : Place(i) \in Offsets
  <2> TAKE i \in lo .. count + 1
  <2>1. CASE i = count + 1 BY <1>1, <1>3, <2>1
  <2>2. CASE i # count + 1
    <3>1. i \in lo .. count BY <1>1, <2>2
    <3>2. Place(i) = live[i].off /\ Whole(i) BY <1>4, <3>1
    <3> QED BY <3>2 DEF Whole, Entry
  <2> QED BY <2>1, <2>2
<1>6. \A i \in lo .. count + 1 : ToEnd(Place(i)) \in Offsets BY <1>1, <1>5, Distances
<1>7. \A i \in lo .. count + 1 : ToEnd(Place(i)) \in Nat /\ ToEnd(Place(i)) < Size
  BY <1>1, <1>6 DEF Offsets
<1>8. ASSUME NEW i \in lo .. count
      PROVE  /\ i + 1 \in lo .. count + 1 /\ live[i].len \in Nat /\ live[i].len > 0
             /\ buffer[Place(i)].len = live[i].len /\ buffer[Place(i)].id = i
             /\ logger_offset(Place(i) + live[i].len) = Place(i + 1)
             /\ ToEnd(Place(i)) > 0
  <2>1. i \in lo .. count + 1 /\ i + 1 \in lo .. count + 1 BY <1>1
  <2>0. Place(i) = live[i].off /\ Whole(i) BY <1>4
  <2>2. live[i].len \in Nat /\ live[i].len > 0
    <3>1. live[i].len \in Lengths BY <2>0 DEF Whole, Entry
    <3>2. \A n \in Lengths : n \in Nat /\ n > 0 BY SizeAssumption
    <3> QED BY <3>1, <3>2
  <2>3. buffer[Place(i)].len = live[i].len /\ buffer[Place(i)].id = i
    BY <2>0 DEF Whole
  <2>4. ToEnd(Place(i)) = ToEnd(Place(i + 1)) + live[i].len BY <2>0 DEF Whole
  <2>5. live[i].len <= ToEnd(Place(i)) BY <1>7, <2>1, <2>2, <2>4
  <2>6. /\ logger_offset(Place(i) + live[i].len) \in Offsets
        /\ ToEnd(logger_offset(Place(i) + live[i].len)) = ToEnd(Place(i)) - live[i].len
    BY <1>1, <1>5, <2>1, <2>2, <2>5, Distances
  <2>7. ToEnd(logger_offset(Place(i) + live[i].len)) = ToEnd(Place(i + 1))
    BY <1>7, <2>1, <2>2, <2>4, <2>6
  <2>8. logger_offset(Place(i) + live[i].len) = Place(i + 1)
    BY <1>1, <1>5, <2>1, <2>6, <2>7, Distances
  <2> QED BY <1>7, <2>1, <2>2, <2>3, <2>4, <2>8
<1>9. ASSUME NEW i \in lo .. count + 1, NEW j \in lo .. count + 1, Place(i) = Place(j)
      PROVE  i = j
  <2>1. i < j => ToEnd(Place(i)) > ToEnd(Place(j)) BY DEF RingFrom
  <2>2. j < i => ToEnd(Place(j)) > ToEnd(Place(i)) BY DEF RingFrom
  <2> QED BY <1>1, <1>7, <1>9, <2>1, <2>2
<1>10. ASSUME NEW i \in lo .. count
       PROVE  Place(i) = live[i].off /\ ToEnd(Place(i)) < Size
  <2>1. i \in lo .. count + 1 BY <1>1
  <2> QED BY <1>4, <1>7, <2>1
<1> QED BY <1>1, <1>2, <1>3, <1>5, <1>7, <1>8, <1>9, <1>10

----------------------------------------------------------------------------
(* What the loops find.  A recursive function is one that satisfies its    *)
(* equation, and there is one for each number of turns.                    *)
AfterTurn(f, n) ==
    [o \in Offsets |->
        IF n = 0 THEN o
        ELSE f[IF buffer[o].len < n THEN n - buffer[o].len ELSE 0]
              [logger_offset(o + buffer[o].len)]]
IsAfter(f, m) == f = [n \in 0 .. m |-> AfterTurn(f, n)]

VisibleTurn(f, n) ==
    [o \in Offsets |->
        IF n = 0 \/ o = w_off \/ buffer[o].own THEN o
        ELSE f[n - 1][logger_offset(o + buffer[o].len)]]
IsVisible(f, m) == f = [n \in 0 .. m |-> VisibleTurn(f, n)]

LEMMA Lens == ASSUME TypeOK, NEW o \in Offsets
              PROVE  buffer[o].len \in Nat /\ buffer[o].len > 0
<1>1. buffer[o] \in Entries \cup {Junk} BY DEF TypeOK
<1>2. \A n \in Lengths : n \in Nat /\ n > 0 BY SizeAssumption
<1>3. CASE buffer[o] \in Entries
  <2>1. buffer[o].len \in Lengths BY <1>3 DEF Entries
  <2> QED BY <1>2, <2>1
<1>4. CASE buffer[o] = Junk BY <1>4 DEF Junk
<1> QED BY <1>1, <1>3, <1>4

LEMMA AfterExists == ASSUME TypeOK, NEW m \in Nat PROVE \E f : IsAfter(f, m)
<1> DEFINE D == {n \in Nat : ~ \E f : IsAfter(f, n)}
<1>1. ASSUME D # {} PROVE FALSE
  <2>1. PICK n \in D : \A j \in D : n <= j BY <1>1, LeastOf
  <2>2. CASE n = 0
    <3> DEFINE g == [i \in 0 .. 0 |-> [o \in Offsets |-> o]]
    <3>1. \A i \in 0 .. 0 : AfterTurn(g, i) = [o \in Offsets |-> o] BY DEF AfterTurn
    <3>2. IsAfter(g, 0) BY <3>1 DEF IsAfter
    <3> QED BY <2>1, <2>2, <3>2
  <2>3. CASE n # 0
    <3>1. n - 1 \in Nat /\ n - 1 \notin D BY <2>1, <2>3
    <3>2. PICK f : IsAfter(f, n - 1) BY <3>1
    <3> DEFINE g == [i \in 0 .. n |-> AfterTurn(f, i)]
    <3>3. \A i \in 0 .. n - 1 : g[i] = f[i] BY <3>2 DEF IsAfter
    <3>4. ASSUME NEW i \in 0 .. n PROVE AfterTurn(g, i) = AfterTurn(f, i)
      <4>1. ASSUME NEW o \in Offsets, i # 0
            PROVE  LET k == IF buffer[o].len < i THEN i - buffer[o].len ELSE 0
                   IN  g[k] = f[k]
        <5>1. buffer[o].len \in Nat /\ buffer[o].len > 0 BY Lens
        <5>2. (IF buffer[o].len < i THEN i - buffer[o].len ELSE 0) \in 0 .. n - 1
          BY <4>1, <5>1
        <5> QED BY <3>3, <5>2
      <4> HIDE DEF g
      <4> QED BY <4>1 DEF AfterTurn
    <3>5. g = [i \in 0 .. n |-> AfterTurn(g, i)]
      <4> HIDE DEF g
      <4>1. [i \in 0 .. n |-> AfterTurn(g, i)] = [i \in 0 .. n |-> AfterTurn(f, i)] BY <3>4
      <4> QED BY <4>1 DEF g
    <3> QED BY <2>1, <3>5 DEF IsAfter
  <2> QED BY <2>2, <2>3
<1> QED BY <1>1

LEMMA VisibleExists == ASSUME TypeOK, NEW m \in Nat PROVE \E f : IsVisible(f, m)
<1> DEFINE D == {n \in Nat : ~ \E f : IsVisible(f, n)}
<1>1. ASSUME D # {} PROVE FALSE
  <2>1. PICK n \in D : \A j \in D : n <= j BY <1>1, LeastOf
  <2>2. CASE n = 0
    <3> DEFINE g == [i \in 0 .. 0 |-> [o \in Offsets |-> o]]
    <3>1. \A i \in 0 .. 0 : VisibleTurn(g, i) = [o \in Offsets |-> o] BY DEF VisibleTurn
    <3>2. IsVisible(g, 0) BY <3>1 DEF IsVisible
    <3> QED BY <2>1, <2>2, <3>2
  <2>3. CASE n # 0
    <3>1. n - 1 \in Nat /\ n - 1 \notin D BY <2>1, <2>3
    <3>2. PICK f : IsVisible(f, n - 1) BY <3>1
    <3> DEFINE g == [i \in 0 .. n |-> VisibleTurn(f, i)]
    <3>3. \A i \in 0 .. n - 1 : g[i] = f[i] BY <3>2 DEF IsVisible
    <3>4. ASSUME NEW i \in 0 .. n PROVE VisibleTurn(g, i) = VisibleTurn(f, i)
      <4>1. i # 0 => g[i - 1] = f[i - 1]
        <5>1. i # 0 => i - 1 \in 0 .. n - 1 BY <3>1
        <5> HIDE DEF g
        <5> QED BY <3>3, <5>1
      <4> HIDE DEF g
      <4> QED BY <4>1 DEF VisibleTurn
    <3>5. g = [i \in 0 .. n |-> VisibleTurn(g, i)]
      <4> HIDE DEF g
      <4>1. [i \in 0 .. n |-> VisibleTurn(g, i)] = [i \in 0 .. n |-> VisibleTurn(f, i)]
        BY <3>4
      <4> QED BY <4>1 DEF g
    <3> QED BY <2>1, <3>5 DEF IsVisible
  <2> QED BY <2>2, <2>3
<1> QED BY <1>1

(* From the place of an entry, get_next_entry finds that of a later one,   *)
(* if there is one far enough on.                                          *)
LEMMA NextEntry ==
    ASSUME TypeOK, NEW lo, RingFrom(lo), NEW len \in Nat,
           NEW i \in lo .. count + 1, len <= ToEnd(Place(i))
    PROVE  \E k \in i .. count + 1 : /\ get_next_entry(Place(i), len) = Place(k)
                                     /\ ToEnd(Place(i)) >= ToEnd(Place(k)) + len
<1> DEFINE f == After(len)
           Ok(n, j, k) == f[n][Place(j)] = Place(k) /\ ToEnd(Place(j)) >= ToEnd(Place(k)) + n
           Found(n) == \A j \in lo .. count + 1 : n <= ToEnd(Place(j)) =>
                           \E k \in j .. count + 1 : Ok(n, j, k)
           D == {n \in 0 .. len : ~Found(n)}
<1>1. IsAfter(f, len)
  <2>1. f = CHOOSE g : IsAfter(g, len) BY DEF After, IsAfter, AfterTurn
  <2> QED BY <2>1, AfterExists
<1>2. \A n \in 0 .. len : f[n] = AfterTurn(f, n) BY <1>1 DEF IsAfter
<1> HIDE DEF f
<1>3. ASSUME NEW n \in 0 .. len, \A m \in 0 .. len : m < n => Found(m) PROVE Found(n)
  <2> SUFFICES ASSUME NEW j \in lo .. count + 1, n <= ToEnd(Place(j))
               PROVE  \E k \in j .. count + 1 : Ok(n, j, k)
    OBVIOUS
  <2>1. /\ j \in Nat /\ lo \in Nat /\ count \in Nat
        /\ Place(j) \in Offsets /\ ToEnd(Place(j)) \in Nat
    BY Places
  <2>2. CASE n = 0
    <3>1. f[n][Place(j)] = Place(j) BY <1>2, <2>1, <2>2 DEF AfterTurn
    <3>2. Ok(n, j, j) /\ j \in j .. count + 1 BY <2>1, <2>2, <3>1
    <3> QED BY <3>2
  <2>3. CASE n # 0
    <3>1. j \in lo .. count /\ j + 1 \in lo .. count + 1
      <4>1. j # count + 1 BY <2>1, <2>3, Places
      <4> QED BY <2>1, <4>1
    <3> DEFINE l == live[j].len
               m == IF l < n THEN n - l ELSE 0
    <3>2. /\ l \in Nat /\ l > 0 /\ buffer[Place(j)].len = l
          /\ logger_offset(Place(j) + l) = Place(j + 1)
      BY <3>1, Places
    <3>3. ToEnd(Place(j)) = ToEnd(Place(j + 1)) + l /\ ToEnd(Place(j + 1)) \in Nat
      BY <3>1, Places DEF RingFrom, Whole
    <3>4. f[n][Place(j)] = f[m][Place(j + 1)]
      <4>1. f[n][Place(j)]
              = f[IF buffer[Place(j)].len < n THEN n - buffer[Place(j)].len ELSE 0]
                 [logger_offset(Place(j) + buffer[Place(j)].len)]
        <5>1. f[n] = AfterTurn(f, n) BY <1>2
        <5>2. Place(j) \in Offsets /\ n # 0 BY <2>1, <2>3
        <5> QED BY ONLY <5>1, <5>2 DEF AfterTurn
      <4> HIDE DEF l
      <4> QED BY <3>2, <4>1
    <3> HIDE DEF l
    <3>5. m \in 0 .. len /\ m < n /\ m <= ToEnd(Place(j + 1)) BY <2>3, <3>2, <3>3
    <3>6. Found(m) BY <1>3, <3>5
    <3>7. PICK k \in j + 1 .. count + 1 : Ok(m, j + 1, k) BY <3>1, <3>5, <3>6
    <3>8. ToEnd(Place(k)) \in Nat
      <4>1. k \in lo .. count + 1 BY <2>1, <3>7
      <4> QED BY <4>1, Places
    <3>9. Ok(n, j, k) BY <3>2, <3>3, <3>4, <3>5, <3>7, <3>8
    <3>10. k \in j .. count + 1 BY <2>1
    <3> QED BY <3>9, <3>10
  <2> QED BY <2>2, <2>3
<1>4. D = {}
  <2> SUFFICES ASSUME D # {} PROVE FALSE OBVIOUS
  <2>1. D \subseteq Nat OBVIOUS
  <2>2. PICK n \in D : \A m \in D : n <= m BY <2>1, LeastOf
  <2>3. \A m \in 0 .. len : m < n => Found(m) BY <2>2
  <2> HIDE DEF Found
  <2>4. n \in 0 .. len /\ ~Found(n) OBVIOUS
  <2> QED BY <1>3, <2>3, <2>4
<1>5. Found(len) BY <1>4
<1> QED BY <1>5 DEF get_next_entry, f

(* What get_next_entry_by_uid finds is the place of that entry, of a later *)
(* one, or of the one to come.                                             *)
LEMMA VisibleEntry ==
    ASSUME TypeOK, NEW lo, RingFrom(lo), NEW i \in lo .. count + 1
    PROVE  \E k \in i .. count + 1 : get_next_entry_by_uid(Place(i)) = Place(k)
<1> DEFINE f == Visibles
           Found(n) == \A j \in lo .. count + 1 :
                           \E k \in j .. count + 1 : f[n][Place(j)] = Place(k)
           D == {n \in 0 .. Size : ~Found(n)}
<1>0. Size \in Nat BY SizeAssumption
<1>1. IsVisible(f, Size)
  <2>1. f = CHOOSE g : IsVisible(g, Size) BY DEF Visibles, IsVisible, VisibleTurn
  <2> QED BY <1>0, <2>1, VisibleExists
<1>2. \A n \in 0 .. Size : f[n] = VisibleTurn(f, n) BY <1>1 DEF IsVisible
<1> HIDE DEF f
<1>3. ASSUME NEW n \in 0 .. Size, \A m \in 0 .. Size : m < n => Found(m) PROVE Found(n)
  <2> SUFFICES ASSUME NEW j \in lo .. count + 1
               PROVE  \E k \in j .. count + 1 : f[n][Place(j)] = Place(k)
    OBVIOUS
  <2>1. j \in Nat /\ lo \in Nat /\ count \in Nat /\ Place(j) \in Offsets BY Places
  <2>2. f[n][Place(j)] = IF n = 0 \/ Place(j) = w_off \/ buffer[Place(j)].own THEN Place(j)
                         ELSE f[n - 1][logger_offset(Place(j) + buffer[Place(j)].len)]
    BY <1>2, <2>1 DEF VisibleTurn
  <2>3. CASE n = 0 \/ Place(j) = w_off \/ buffer[Place(j)].own
    <3>1. j \in j .. count + 1 BY <2>1
    <3> QED BY <2>2, <2>3, <3>1
  <2>4. CASE ~(n = 0 \/ Place(j) = w_off \/ buffer[Place(j)].own)
    <3>1. j \in lo .. count /\ j + 1 \in lo .. count + 1
      <4>1. j # count + 1 BY <2>4, Places
      <4> QED BY <2>1, <4>1
    <3>2. logger_offset(Place(j) + buffer[Place(j)].len) = Place(j + 1) BY <3>1, Places
    <3>3. n - 1 \in 0 .. Size /\ n - 1 < n BY <1>0, <2>4
    <3>4. Found(n - 1) BY <1>3, <3>3
    <3>5. PICK k \in j + 1 .. count + 1 : f[n - 1][Place(j + 1)] = Place(k) BY <3>1, <3>4
    <3>6. k \in j .. count + 1 BY <2>1
    <3> QED BY <2>2, <2>4, <3>2, <3>5, <3>6
  <2> QED BY <2>3, <2>4
<1>4. D = {}
  <2> SUFFICES ASSUME D # {} PROVE FALSE OBVIOUS
  <2>1. D \subseteq Nat OBVIOUS
  <2>2. PICK n \in D : \A m \in D : n <= m BY <2>1, LeastOf
  <2>3. \A m \in 0 .. Size : m < n => Found(m) BY <2>2
  <2> HIDE DEF Found
  <2>4. n \in 0 .. Size /\ ~Found(n) OBVIOUS
  <2> QED BY <1>3, <2>3, <2>4
<1>5. Found(Size) BY <1>0, <1>4
<1> QED BY <1>5 DEF get_next_entry_by_uid, f

----------------------------------------------------------------------------
(* A write of len units clears the entries that it would run over, which   *)
(* are the oldest ones, and moves those who stand there to others.         *)
Clear(i, len) == ToEnd(Place(i)) + len < Size
Pulled(off, len) == IF is_between(w_off, logger_offset(w_off + len), off)
                    THEN get_next_entry(off, len) ELSE off

LEMMA PulledIsClear ==
    ASSUME TypeOK, NEW lo, RingFrom(lo), NEW len \in Lengths, NEW i \in lo .. count + 1
    PROVE  \E k \in i .. count + 1 : /\ Pulled(Place(i), len) = Place(k) /\ Clear(k, len)
                                     /\ Clear(i, len) => k = i
<1>1. len \in Nat /\ len > 0 /\ 2 * len <= Size /\ Size \in Nat BY SizeAssumption
<1>2. /\ w_off \in Offsets /\ Place(i) \in Offsets /\ ToEnd(Place(i)) \in Nat
      /\ i \in Nat /\ lo \in Nat /\ count \in Nat
  BY Places DEF TypeOK
<1>3. is_between(w_off, logger_offset(w_off + len), Place(i))
          <=> ToEnd(Place(i)) # 0 /\ ToEnd(Place(i)) + len >= Size
  BY <1>2, Lapped
<1>4. CASE Clear(i, len)
  <2>1. Pulled(Place(i), len) = Place(i) BY <1>1, <1>2, <1>3, <1>4 DEF Pulled, Clear
  <2>2. i \in i .. count + 1 BY <1>2
  <2> QED BY <1>4, <2>1, <2>2
<1>5. CASE ~Clear(i, len)
  <2>1. ToEnd(Place(i)) + len >= Size /\ len <= ToEnd(Place(i)) /\ ToEnd(Place(i)) # 0
    BY <1>1, <1>2, <1>5 DEF Clear
  <2>2. Pulled(Place(i), len) = get_next_entry(Place(i), len) BY <1>3, <2>1 DEF Pulled
  <2>3. PICK k \in i .. count + 1 : /\ get_next_entry(Place(i), len) = Place(k)
                                    /\ ToEnd(Place(i)) >= ToEnd(Place(k)) + len
    BY <1>1, <2>1, NextEntry
  <2>4. ToEnd(Place(i)) < Size
    <3>1. i \in lo .. count \/ i = count + 1 BY <1>2
    <3> QED BY <2>1, <3>1, Places
  <2>5. ToEnd(Place(k)) \in Nat
    <3>1. k \in lo .. count + 1 BY <1>2, <2>3
    <3> QED BY <3>1, Places
  <2>6. Clear(k, len) BY <1>1, <1>2, <2>3, <2>4, <2>5 DEF Clear
  <2> QED BY <1>5, <2>2, <2>3, <2>6
<1> QED BY <1>4, <1>5

LEMMA SurvivorsAre ==
    ASSUME TypeOK, NEW lo, RingFrom(lo), NEW len \in Lengths
    PROVE  \E lo2 \in lo .. count + 1 :
               /\ Survivors(len) = lo2 .. count
               /\ \A i \in lo .. count + 1 : Clear(i, len) <=> i >= lo2
<1> DEFINE S == {i \in lo .. count + 1 : Clear(i, len)}
<1>1. len \in Nat /\ len > 0 /\ 2 * len <= Size /\ Size \in Nat BY SizeAssumption
<1>2. /\ w_off \in Offsets /\ lo \in Nat /\ count \in Nat /\ lo <= count + 1
      /\ DOMAIN live = lo .. count
  BY Places DEF TypeOK
<1>3. count + 1 \in S
  <2>1. ToEnd(Place(count + 1)) = 0 BY Places
  <2> QED BY <1>1, <1>2, <2>1 DEF Clear
<1>4. PICK lo2 \in S : \A i \in S : lo2 <= i
  <2>1. S \subseteq Nat BY <1>2
  <2> QED BY <1>3, <2>1, LeastOf
<1>5. \A i \in lo .. count + 1 : Clear(i, len) <=> i >= lo2
  <2> TAKE i \in lo .. count + 1
  <2>1. ASSUME i > lo2 PROVE Clear(i, len)
    <3>1. ToEnd(Place(lo2)) > ToEnd(Place(i)) BY <2>1 DEF RingFrom
    <3>2. ToEnd(Place(lo2)) \in Nat /\ ToEnd(Place(i)) \in Nat BY Places
    <3> QED BY <1>1, <1>4, <3>1, <3>2 DEF Clear
  <2> QED BY <1>2, <1>4, <2>1
<1>6. \A i \in lo .. count :
         ~is_between(w_off, logger_offset(w_off + len), live[i].off) <=> Clear(i, len)
  <2> TAKE i \in lo .. count
  <2>1. /\ live[i].off = Place(i) /\ Place(i) \in Offsets /\ ToEnd(Place(i)) \in Nat
        /\ ToEnd(Place(i)) > 0
    <3>1. i \in lo .. count + 1 BY <1>2
    <3> QED BY <3>1, Places
  <2>2. is_between(w_off, logger_offset(w_off + len), Place(i))
            <=> ToEnd(Place(i)) # 0 /\ ToEnd(Place(i)) + len >= Size
    BY <1>2, <2>1, Lapped
  <2> QED BY <1>1, <2>1, <2>2 DEF Clear
<1>7. Survivors(len) = lo2 .. count
  <2>1. Survivors(len) = {i \in lo .. count : Clear(i, len)} BY <1>2, <1>6 DEF Survivors
  <2>2. \A i \in lo .. count : i \in lo .. count + 1 BY <1>2
  <2>3. {i \in lo .. count : Clear(i, len)} = {i \in lo .. count : i >= lo2} BY <1>5, <2>2
  <2> QED BY <1>2, <1>4, <2>1, <2>3
<1> QED BY <1>4, <1>5, <1>7

(* What is written spares the headers of the survivors.                    *)
LEMMA OverwriteSpares ==
    ASSUME TypeOK, NEW lo, RingFrom(lo), NEW len \in Lengths,
           NEW entry \in Entries, NEW copied \in 1 .. len, Overwrite(entry, copied)
    PROVE  /\ buffer' \in [Offsets -> Entries \cup {Junk}]
           /\ buffer'[w_off] = entry
           /\ \A i \in lo .. count : Clear(i, len) => buffer'[Place(i)] = buffer[Place(i)]
<1>1. len \in Nat /\ copied \in Nat /\ copied <= len /\ Size \in Nat BY SizeAssumption
<1>2. w_off \in Offsets /\ w_off \in Nat /\ w_off < Size BY <1>1 DEF TypeOK, Offsets
<1>3. buffer' = [o \in Offsets |->
                   IF o = w_off THEN entry
                   ELSE IF logger_offset(o - w_off) < copied THEN Junk ELSE buffer[o]]
  BY DEF Overwrite
<1>4. buffer' \in [Offsets -> Entries \cup {Junk}]
  <2>1. \A o \in Offsets : buffer[o] \in Entries \cup {Junk} BY DEF TypeOK
  <2> QED BY <1>3, <2>1
<1>5. buffer'[w_off] = entry BY <1>2, <1>3
<1>6. ASSUME NEW i \in lo .. count, Clear(i, len)
      PROVE  buffer'[Place(i)] = buffer[Place(i)]
  <2>1. Place(i) \in Offsets /\ ToEnd(Place(i)) > 0 /\ ToEnd(Place(i)) \in Nat
    <3>1. i \in lo .. count + 1 BY Places
    <3> QED BY <3>1, Places
  <2>2. PICK o : o = Place(i) OBVIOUS
  <2>3. o \in Nat /\ o < Size /\ o # w_off BY <1>1, <1>2, <2>1, <2>2 DEF Offsets, ToEnd
  <2>4. logger_offset(o - w_off) = IF o - w_off < 0 THEN o - w_off + Size ELSE o - w_off
    BY <1>1, <1>2, <2>3, Around
  <2>5. ToEnd(o) + len < Size BY <1>6, <2>2 DEF Clear
  <2>6. ~(logger_offset(o - w_off) < copied)
    BY <1>1, <1>2, <2>3, <2>4, <2>5 DEF ToEnd
  <2> QED BY <1>3, <2>1, <2>2, <2>3, <2>6
<1> QED BY <1>4, <1>5, <1>6

----------------------------------------------------------------------------
(* Who is at the place of an entry is afterwards at that of one that is    *)
(* whole, and at the same if that one still is.                            *)
Fixed(lo, lo2, off, off2) ==
    \A i \in lo .. count + 1 : off = Place(i) =>
        \E k \in i .. count + 1 : k >= lo2 /\ off2 = Place(k)' /\ (i >= lo2 => k = i)
FixedUp(lo, lo2) ==
    /\ lo2 \in lo .. count + 1 /\ RingFrom(lo2)'
    /\ Fixed(lo, lo2, head, head')
    /\ \A r \in open : Fixed(lo, lo2, r_off[r], r_off'[r])

LEMMA FixesUp ==
    ASSUME TypeOK, NEW lo, RingFrom(lo), NEW len \in Lengths, fix_up_readers(len),
           NEW lo2 \in lo .. count + 1, RingFrom(lo2)',
           \A i \in lo .. count + 1 : Clear(i, len) <=> i >= lo2,
           \A k \in lo2 .. count + 1 : Place(k)' = Place(k)
    PROVE  FixedUp(lo, lo2)
<1>1. lo \in Nat /\ count \in Nat BY Places
<1>2. \A off : Fixed(lo, lo2, off, Pulled(off, len))
  <2> SUFFICES ASSUME NEW i \in lo .. count + 1
               PROVE  \E k \in i .. count + 1 : /\ k >= lo2 /\ Pulled(Place(i), len) = Place(k)'
                                                /\ i >= lo2 => k = i
    BY DEF Fixed
  <2>1. PICK k \in i .. count + 1 : /\ Pulled(Place(i), len) = Place(k) /\ Clear(k, len)
                                    /\ Clear(i, len) => k = i
    BY PulledIsClear
  <2>2. k >= lo2 /\ (i >= lo2 => k = i) /\ k \in lo2 .. count + 1 BY <1>1, <2>1
  <2> QED BY <2>1, <2>2
<1>3. /\ head' = Pulled(head, len)
      /\ \A r \in open : r_off'[r] = Pulled(r_off[r], len)
  BY DEF fix_up_readers, Pulled, TypeOK
<1> QED BY <1>2, <1>3 DEF FixedUp

(* An entry that is whole stays so when what it is made of stays.          *)
LEMMA FailedRing ==
    ASSUME TypeOK, NEW lo, RingFrom(lo), NEW len \in Lengths, NEW entry \in Entries,
           NEW copied \in 1 .. len, Overwrite(entry, copied),
           live' = [i \in Survivors(len) |-> live[i]], UNCHANGED <<w_off, count>>
    PROVE  \E lo2 \in lo .. count + 1 :
               /\ RingFrom(lo2)'
               /\ \A i \in lo .. count + 1 : Clear(i, len) <=> i >= lo2
               /\ \A k \in lo2 .. count + 1 : Place(k)' = Place(k)
<1>1. PICK lo2 \in lo .. count + 1 :
          /\ Survivors(len) = lo2 .. count
          /\ \A i \in lo .. count + 1 : Clear(i, len) <=> i >= lo2
  BY SurvivorsAre
<1>2. lo \in Nat \ {0} /\ count \in Nat /\ lo2 \in Nat \ {0} /\ lo2 <= count + 1 BY Places
<1>3. live' = [i \in lo2 .. count |-> live[i]] BY <1>1
<1>4. \A k \in lo2 .. count + 1 : Place(k)' = Place(k) BY <1>2, <1>3 DEF Place
<1>5. \A o : ToEnd(o)' = ToEnd(o) BY DEF ToEnd
<1>6. \A k \in lo2 .. count + 1 : ToEnd(Place(k))' = ToEnd(Place(k))
  <2> TAKE k \in lo2 .. count + 1
  <2>1. PICK o : o = Place(k) OBVIOUS
  <2>2. Place(k)' = o BY <1>4, <2>1
  <2>3. ToEnd(Place(k))' = ToEnd(o)' BY <2>2 DEF ToEnd
  <2> QED BY <1>5, <2>1, <2>3
<1>7. ASSUME NEW i \in lo2 .. count PROVE Whole(i)'
  <2>1. i \in lo .. count /\ i \in lo .. count + 1 /\ i >= lo2 BY <1>2
  <2>2. Whole(i) /\ Place(i) = live[i].off BY <2>1, Places DEF RingFrom
  <2>3. live'[i] = live[i] BY <1>3
  <2>4. buffer'[live[i].off] = buffer[live[i].off]
    BY <1>1, <2>1, <2>2, OverwriteSpares
  <2>5. (ToEnd(Place(i)) = ToEnd(Place(i + 1)) + live[i].len)'
    <3>1. i + 1 \in lo2 .. count + 1 /\ i \in lo2 .. count + 1 BY <1>2
    <3>2. ToEnd(Place(i + 1))' = ToEnd(Place(i + 1)) BY <1>6, <3>1
    <3> QED BY <1>6, <2>2, <2>3, <3>1, <3>2 DEF Whole
  <2> QED BY <2>2, <2>3, <2>4, <2>5 DEF Whole, Entry
<1>8. \A i, j \in lo2 .. count + 1 : i < j => ToEnd(Place(i))' > ToEnd(Place(j))'
  <2>1. \A i \in lo2 .. count + 1 : i \in lo .. count + 1 BY <1>2
  <2> QED BY <1>6, <2>1 DEF RingFrom
<1>9. RingFrom(lo2)' BY <1>2, <1>3, <1>7, <1>8 DEF RingFrom
<1> QED BY <1>1, <1>4, <1>9

LEMMA WrittenRing ==
    ASSUME TypeOK, NEW lo, RingFrom(lo), NEW len \in Lengths, NEW own \in BOOLEAN,
           Overwrite([len |-> len, own |-> own, id |-> count + 1], len),
           w_off' = logger_offset(w_off + len), count' = count + 1,
           live' = [i \in Survivors(len) \cup {count + 1} |->
                       IF i = count + 1 THEN [off |-> w_off, len |-> len, own |-> own]
                                        ELSE live[i]]
    PROVE  \E lo2 \in lo .. count + 1 :
               /\ RingFrom(lo2)'
               /\ \A i \in lo .. count + 1 : Clear(i, len) <=> i >= lo2
               /\ \A k \in lo2 .. count + 1 : Place(k)' = Place(k)
<1> DEFINE entry == [len |-> len, own |-> own, id |-> count + 1]
<1>1. PICK lo2 \in lo .. count + 1 :
          /\ Survivors(len) = lo2 .. count
          /\ \A i \in lo .. count + 1 : Clear(i, len) <=> i >= lo2
  BY SurvivorsAre
<1>2. /\ lo \in Nat \ {0} /\ count \in Nat /\ lo2 \in Nat \ {0} /\ lo2 <= count + 1
      /\ w_off \in Offsets /\ Place(count + 1) = w_off
  BY Places DEF TypeOK
<1>3. live' = [i \in lo2 .. count + 1 |->
                  IF i = count + 1 THEN [off |-> w_off, len |-> len, own |-> own]
                                   ELSE live[i]]
  <2>1. Survivors(len) \cup {count + 1} = lo2 .. count + 1 BY <1>1, <1>2
  <2> QED BY <2>1
<1>4. \A k \in lo2 .. count + 1 : Place(k)' = Place(k)
  <2> TAKE k \in lo2 .. count + 1
  <2>1. Place(k)' = live'[k].off BY <1>2 DEF Place
  <2> QED BY <1>2, <1>3, <2>1 DEF Place
<1>5. /\ len \in Nat /\ len > 0 /\ 2 * len <= Size /\ Size \in Nat
      /\ w_off \in Nat /\ w_off < Size
  BY <1>2, SizeAssumption DEF Offsets
<1>6. w_off' \in Offsets /\ w_off' = IF w_off + len < Size THEN w_off + len
                                     ELSE w_off + len - Size
  BY <1>5, Around DEF Offsets
<1>7. \A k \in lo2 .. count + 1 : ToEnd(Place(k))' = ToEnd(Place(k)) + len
  <2> TAKE k \in lo2 .. count + 1
  <2>1. PICK o : o = Place(k) OBVIOUS
  <2>2. k \in lo .. count + 1 /\ k >= lo2 BY <1>2
  <2>3. Clear(k, len) /\ o \in Offsets BY <1>1, <2>1, <2>2, Places
  <2>4. ToEnd(o) + len < Size /\ o \in Nat /\ o < Size
    BY <1>5, <2>1, <2>3 DEF Clear, Offsets
  <2>5. ToEnd(o)' = ToEnd(o) + len BY <1>5, <1>6, <2>4 DEF ToEnd
  <2>6. Place(k)' = o BY <1>4, <2>1
  <2>7. ToEnd(Place(k))' = ToEnd(o)' BY <2>6 DEF ToEnd
  <2> QED BY <2>1, <2>5, <2>7
<1>8. ASSUME NEW e, e = count + 2 PROVE ToEnd(Place(e))' = 0
  <2>1. Place(e)' = w_off' BY <1>2, <1>8 DEF Place
  <2>2. w_off' \in Int BY <1>5, <1>6
  <2> QED BY <2>1, <2>2 DEF ToEnd
<1>9. entry \in Entries /\ len \in 1 .. len
  <2>1. entry \in Entries BY <1>2 DEF Entries
  <2> QED BY <1>5, <2>1
<1> HIDE DEF entry
<1>10. /\ buffer'[w_off] = entry
       /\ \A i \in lo .. count : Clear(i, len) => buffer'[Place(i)] = buffer[Place(i)]
  <2>1. Overwrite(entry, len) BY DEF entry
  <2> QED BY <1>9, <2>1, OverwriteSpares
<1>11. ASSUME NEW i \in lo2 .. count + 1 PROVE Whole(i)'
  <2>1. CASE i = count + 1
    <3>1. live'[i] = [off |-> w_off, len |-> len, own |-> own] BY <1>3, <2>1
    <3>2. ToEnd(Place(i))' = len /\ ToEnd(Place(i + 1))' = 0
      <4>1. ToEnd(Place(i))' = ToEnd(Place(i)) + len BY <1>7
      <4>2. ToEnd(Place(i)) = 0 BY <1>2, <2>1, Places
      <4>3. i + 1 = count + 2 BY <1>2, <2>1
      <4> QED BY <1>5, <1>8, <4>1, <4>2, <4>3
    <3>3. (ToEnd(Place(i)) = ToEnd(Place(i + 1)) + live[i].len)'
      BY <1>5, <3>1, <3>2
    <3>4. live'[i] \in Entry' BY <1>2, <3>1 DEF Entry, Offsets
    <3> QED BY <1>10, <2>1, <3>1, <3>3, <3>4 DEF Whole, entry
  <2>2. CASE i # count + 1
    <3>1. i \in lo .. count /\ i \in lo .. count + 1 /\ i >= lo2 /\ i + 1 \in lo2 .. count + 1
      BY <1>2, <2>2
    <3>2. Whole(i) /\ Place(i) = live[i].off BY <3>1, Places DEF RingFrom
    <3>3. live'[i] = live[i] BY <1>3, <2>2
    <3>4. buffer'[live[i].off] = buffer[live[i].off] BY <1>1, <1>10, <3>1, <3>2
    <3>5. /\ ToEnd(Place(i))' = ToEnd(Place(i)) + len
          /\ ToEnd(Place(i + 1))' = ToEnd(Place(i + 1)) + len
      BY <1>7, <3>1
    <3>6. /\ ToEnd(Place(i + 1)) \in Nat /\ live[i].len \in Nat
          /\ ToEnd(Place(i)) = ToEnd(Place(i + 1)) + live[i].len
      BY <3>1, <3>2, Places DEF Whole
    <3>7. (ToEnd(Place(i)) = ToEnd(Place(i + 1)) + live[i].len)'
      BY <1>5, <3>3, <3>5, <3>6
    <3> QED BY <3>2, <3>3, <3>4, <3>7 DEF Whole, Entry, Offsets
  <2> QED BY <2>1, <2>2
<1>12. \A i, j \in lo2 .. count + 2 : i < j => ToEnd(Place(i))' > ToEnd(Place(j))'
  <2>1. \A i \in lo2 .. count + 1 : i \in lo .. count + 1 BY <1>2
  <2>2. \A i \in lo2 .. count + 1 : ToEnd(Place(i)) \in Nat BY <2>1, Places
  <2> TAKE i, j \in lo2 .. count + 2
  <2> HAVE i < j
  <2>3. i \in lo2 .. count + 1 BY <1>2
  <2>4. CASE j = count + 2
    <3>1. ToEnd(Place(j))' = 0 BY <1>8, <2>4
    <3>2. ToEnd(Place(i))' > 0 BY <1>5, <1>7, <2>2, <2>3
    <3> QED BY <3>1, <3>2
  <2>5. CASE j # count + 2
    <3>1. j \in lo2 .. count + 1 BY <1>2, <2>5
    <3>2. ToEnd(Place(i)) > ToEnd(Place(j)) BY <2>1, <2>3, <3>1 DEF RingFrom
    <3> QED BY <1>5, <1>7, <2>2, <2>3, <3>1, <3>2
  <2> QED BY <2>4, <2>5
<1>13. RingFrom(lo2)'
  <2>1. DOMAIN live' = lo2 .. count' BY <1>3
  <2>2. lo2 \in 1 .. count' + 1 /\ count' + 1 = count + 2 BY <1>2
  <2> QED BY <1>11, <1>12, <2>1, <2>2 DEF RingFrom
<1> QED BY <1>1, <1>4, <1>13

----------------------------------------------------------------------------
(* The steps keep the invariant.                                           *)
LEMMA RingStays ==
    ASSUME NEW lo, RingFrom(lo), UNCHANGED <<buffer, w_off, live, count>>
    PROVE  /\ RingFrom(lo)' /\ \A i : Place(i)' = Place(i)
           /\ \A off : IsPlace(lo, off)' <=> IsPlace(lo, off)
<1>1. \A i : Place(i)' = Place(i) BY DEF Place
<1>2. \A i : ToEnd(Place(i))' = ToEnd(Place(i)) BY DEF ToEnd, Place
<1>3. \A i : Whole(i)' <=> Whole(i) BY <1>2 DEF Whole, Entry, Offsets
<1>4. RingFrom(lo)' BY <1>2, <1>3 DEF RingFrom
<1> QED BY <1>1, <1>4 DEF IsPlace

(* What a reader sees and takes.                                           *)
LEMMA Reads ==
    ASSUME TypeOK, NEW lo, RingFrom(lo), NEW r \in Readers, IsPlace(lo, r_off[r])
    PROVE  \E i \in lo .. count + 1 : \E k \in i .. count + 1 :
               /\ r_off[r] = Place(i) /\ Visible(r) = Place(k) /\ Visible(r) \in Offsets
               /\ Visible(r) = w_off <=> k = count + 1
               /\ k # count + 1 =>
                     /\ k \in lo .. count /\ buffer[Visible(r)].id = k
                     /\ logger_offset(Visible(r) + buffer[Visible(r)].len) = Place(k + 1)
<1>1. PICK i \in lo .. count + 1 : r_off[r] = Place(i) BY DEF IsPlace
<1>2. lo \in Nat /\ count \in Nat /\ i \in Nat BY Places
<1>3. PICK k \in i .. count + 1 : Visible(r) = Place(k)
  <2>1. PICK k \in i .. count + 1 : get_next_entry_by_uid(Place(i)) = Place(k)
    BY VisibleEntry
  <2>2. i \in i .. count + 1 BY <1>2
  <2> QED BY <1>1, <2>1, <2>2 DEF Visible
<1>4. k \in lo .. count + 1 /\ count + 1 \in lo .. count + 1 BY <1>2, <1>3
<1>5. Visible(r) \in Offsets /\ (Visible(r) = w_off <=> k = count + 1)
  BY <1>3, <1>4, Places
<1>6. ASSUME k # count + 1
      PROVE  /\ k \in lo .. count /\ buffer[Visible(r)].id = k
             /\ logger_offset(Visible(r) + buffer[Visible(r)].len) = Place(k + 1)
  <2>1. k \in lo .. count BY <1>2, <1>4, <1>6
  <2> QED BY <1>3, <2>1, Places
<1> QED BY <1>1, <1>3, <1>5, <1>6

LEMMA FixUpTypes ==
    ASSUME TypeOK, NEW lo, Aligned(lo), NEW len \in Lengths, fix_up_readers(len)
    PROVE  head' \in Offsets /\ r_off' \in [Readers -> Offsets]
<1>1. \A off : IsPlace(lo, off) => Pulled(off, len) \in Offsets
  <2> SUFFICES ASSUME NEW i \in lo .. count + 1 PROVE Pulled(Place(i), len) \in Offsets
    BY DEF IsPlace
  <2>1. PICK k \in i .. count + 1 : Pulled(Place(i), len) = Place(k)
    BY PulledIsClear DEF Aligned
  <2>2. k \in lo .. count + 1
    <3>1. lo \in Nat /\ count \in Nat BY Places DEF Aligned
    <3> QED BY <2>1, <3>1
  <2> QED BY <2>1, <2>2, Places DEF Aligned
<1>2. /\ head' = Pulled(head, len)
      /\ r_off' = [r \in Readers |-> IF r \in open THEN Pulled(r_off[r], len) ELSE r_off[r]]
  BY DEF fix_up_readers, Pulled
<1> QED BY <1>1, <1>2 DEF Aligned, TypeOK

LEMMA WriteFixes ==
    ASSUME TypeOK, NEW lo, Aligned(lo), NEW w \in Writers, Write(w)
    PROVE  TypeOK' /\ count' = count + 1 /\ \E lo2 : FixedUp(lo, lo2)
<1>1. PICK len \in Lengths, own \in BOOLEAN :
          /\ fix_up_readers(len)
          /\ Overwrite([len |-> len, own |-> own, id |-> count + 1], len)
          /\ w_off' = logger_offset(w_off + len)
          /\ live' = [i \in Survivors(len) \cup {count + 1} |->
                         IF i = count + 1 THEN [off |-> w_off, len |-> len, own |-> own]
                                          ELSE live[i]]
  BY DEF Write
<1>2. count' = count + 1 /\ UNCHANGED <<open, queued, got>> /\ pc' = [pc EXCEPT ![w] = "wake"]
  BY DEF Write, Goto
<1>3. RingFrom(lo) BY DEF Aligned
<1>4. PICK lo2 \in lo .. count + 1 :
          /\ RingFrom(lo2)'
          /\ \A i \in lo .. count + 1 : Clear(i, len) <=> i >= lo2
          /\ \A k \in lo2 .. count + 1 : Place(k)' = Place(k)
  BY <1>1, <1>2, <1>3, WrittenRing
<1>5. FixedUp(lo, lo2) BY <1>1, <1>3, <1>4, FixesUp
<1>6. TypeOK'
  <2>1. len \in Nat /\ len > 0 /\ 2 * len <= Size /\ Size \in Nat BY SizeAssumption
  <2>2. w_off \in Nat /\ w_off < Size BY <2>1 DEF TypeOK, Offsets
  <2>3. w_off' \in Offsets BY <1>1, <2>1, <2>2, Around DEF Offsets
  <2>4. buffer' \in [Offsets -> Entries \cup {Junk}]
    <3>1. [len |-> len, own |-> own, id |-> count + 1] \in Entries BY DEF Entries, TypeOK
    <3>2. len \in 1 .. len BY <2>1
    <3> QED BY <1>1, <1>3, <3>1, <3>2, OverwriteSpares
  <2>5. head' \in Offsets /\ r_off' \in [Readers -> Offsets] BY <1>1, FixUpTypes
  <2> QED BY <1>2, <2>3, <2>4, <2>5 DEF TypeOK, Offsets, Entries, Junk
<1> QED BY <1>2, <1>5, <1>6

LEMMA FailedFixes ==
    ASSUME TypeOK, NEW lo, Aligned(lo), NEW w \in Writers, FailedWrite(w)
    PROVE  TypeOK' /\ count' = count /\ \E lo2 : FixedUp(lo, lo2)
<1>0. PICK len \in Lengths : \E copied \in 1 .. len :
          /\ fix_up_readers(len)
          /\ Overwrite([len |-> len, own |-> TRUE, id |-> 0], copied)
          /\ live' = [i \in Survivors(len) |-> live[i]]
  BY DEF FailedWrite
<1>1. PICK copied \in 1 .. len :
          /\ fix_up_readers(len)
          /\ Overwrite([len |-> len, own |-> TRUE, id |-> 0], copied)
          /\ live' = [i \in Survivors(len) |-> live[i]]
  BY <1>0
<1>2. UNCHANGED <<w_off, open, pc, queued, count, got>> BY DEF FailedWrite
<1>3. RingFrom(lo) BY DEF Aligned
<1> DEFINE entry == [len |-> len, own |-> TRUE, id |-> 0]
<1>4. entry \in Entries BY DEF Entries
<1>5. Overwrite(entry, copied) BY <1>1
<1> HIDE DEF entry
<1>6. PICK lo2 \in lo .. count + 1 :
          /\ RingFrom(lo2)'
          /\ \A i \in lo .. count + 1 : Clear(i, len) <=> i >= lo2
          /\ \A k \in lo2 .. count + 1 : Place(k)' = Place(k)
  BY <1>1, <1>2, <1>3, <1>4, <1>5, FailedRing
<1>7. FixedUp(lo, lo2) BY <1>1, <1>3, <1>6, FixesUp
<1>8. TypeOK'
  <2>1. buffer' \in [Offsets -> Entries \cup {Junk}]
    BY <1>1, <1>3, <1>4, <1>5, OverwriteSpares
  <2>2. head' \in Offsets /\ r_off' \in [Readers -> Offsets] BY <1>1, FixUpTypes
  <2> QED BY <1>2, <2>1, <2>2 DEF TypeOK, Offsets, Entries, Junk
<1> QED BY <1>2, <1>7, <1>8

LEMMA FixedAligned ==
    ASSUME TypeOK, NEW lo, Aligned(lo), NEW lo2, FixedUp(lo, lo2),
           count' = count \/ count' = count + 1, open' = open
    PROVE  Aligned(lo2)'
<1>1. count \in Nat /\ lo \in Nat BY Places DEF Aligned
<1>2. \A off, off2 : IsPlace(lo, off) /\ Fixed(lo, lo2, off, off2)
          => \E k \in lo2 .. count + 1 : off2 = Place(k)'
  BY <1>1 DEF IsPlace, Fixed, FixedUp
<1>3. \A k \in lo2 .. count + 1 : k \in lo2 .. count' + 1
  <2>1. lo2 \in lo .. count + 1 BY DEF FixedUp
  <2>2. lo2 \in Nat BY <1>1, <2>1
  <2>3. \A k \in lo2 .. count + 1 : k \in lo2 .. count + 2 BY <1>1, <2>2
  <2>4. CASE count' = count BY <2>4
  <2>5. CASE count' = count + 1
    <3>1. count' + 1 = count + 2 BY <1>1, <2>5
    <3> QED BY <2>3, <3>1
  <2> QED BY <2>4, <2>5
<1>4. \A off, off2 : IsPlace(lo, off) /\ Fixed(lo, lo2, off, off2)
          => \E k \in lo2 .. count' + 1 : off2 = Place(k)'
  BY <1>2, <1>3
<1> QED BY <1>4 DEF Aligned, IsPlace, FixedUp

(* A step that moves one reader, or opens it, to a place.                  *)
LEMMA ReaderMoves ==
    ASSUME TypeOK, NEW lo, Aligned(lo), UNCHANGED ring, UNCHANGED <<live, count>>,
           NEW r \in Readers, open' \subseteq open \cup {r},
           NEW off, IsPlace(lo, off), r_off' = [r_off EXCEPT ![r] = off]
    PROVE  Aligned(lo)' /\ r_off' \in [Readers -> Offsets]
<1>1. /\ RingFrom(lo)' /\ \A x : IsPlace(lo, x)' <=> IsPlace(lo, x)
  BY RingStays DEF Aligned, ring
<1>2. \A x \in open' : IsPlace(lo, r_off'[x])
  <2> TAKE x \in open'
  <2>1. CASE x = r
    <3>1. r_off'[r] = off BY DEF TypeOK
    <3> QED BY <2>1, <3>1
  <2>2. CASE x # r
    <3>1. x \in open /\ r_off'[x] = r_off[x] BY <2>2 DEF TypeOK
    <3> QED BY <3>1 DEF Aligned
  <2> QED BY <2>1, <2>2
<1>3. off \in Offsets BY Places DEF IsPlace, Aligned
<1>4. r_off' \in [Readers -> Offsets] BY <1>3 DEF TypeOK
<1>5. \A i : Place(i)' = Place(i) BY RingStays DEF Aligned, ring
<1> QED BY <1>1, <1>2, <1>4, <1>5 DEF Aligned, IsPlace, ring

LEMMA NothingMoves ==
    ASSUME NEW lo, Aligned(lo), UNCHANGED <<ring, r_off, live, count>>, open' \subseteq open
    PROVE  Aligned(lo)'
<1>1. /\ RingFrom(lo)' /\ \A i : Place(i)' = Place(i) BY RingStays DEF Aligned, ring
<1> QED BY <1>1 DEF Aligned, IsPlace, ring

LEMMA CallsStay ==
    ASSUME TypeOK, Calls, open \subseteq open',
           NEW t \in Tasks \cup Writers, NEW place, pc' = [pc EXCEPT ![t] = place],
           place \in {"start", "schedule", "take"} /\ t \in Tasks => FileOf[t] \in open'
    PROVE  Calls'
BY DEF Calls, TypeOK

LEMMA InvInit == Init => RingInv
<1> SUFFICES ASSUME Init PROVE RingInv OBVIOUS
<1>1. Size \in Nat /\ Size > 0
  <2>1. PICK n \in Lengths : TRUE BY SizeAssumption
  <2>2. n \in Nat /\ n > 0 /\ 2 * n <= Size BY SizeAssumption
  <2> QED BY <2>2, SizeAssumption
<1>2. TypeOK BY <1>1 DEF Init, TypeOK, Offsets, Entries, Junk
<1>3. Calls BY DEF Init, Calls
<1>4. RingFrom(1)
  <2>1. count = 0 /\ DOMAIN live = {} BY DEF Init
  <2>2. 1 .. 0 = {} OBVIOUS
  <2> QED BY <2>1, <2>2 DEF RingFrom
<1>5. IsPlace(1, head) /\ open = {} BY DEF Init, IsPlace, Place
<1> QED BY <1>2, <1>3, <1>4, <1>5 DEF RingInv, Aligned

LEMMA InvWriters ==
    ASSUME RingInv, NEW w \in Writers, Write(w) \/ FailedWrite(w) \/ Wake(w) PROVE RingInv'
<1>1. PICK lo : Aligned(lo) BY DEF RingInv
<1>2. TypeOK /\ Calls BY DEF RingInv
<1>3. CASE Write(w)
  <2>1. PICK lo2 : TypeOK' /\ count' = count + 1 /\ FixedUp(lo, lo2)
    BY <1>1, <1>2, <1>3, WriteFixes
  <2>2. open' = open /\ pc' = [pc EXCEPT ![w] = "wake"] BY <1>3 DEF Write, Goto
  <2>3. Aligned(lo2)' BY <1>1, <1>2, <2>1, <2>2, FixedAligned
  <2>4. Calls' BY <1>2, <2>2, CallsStay
  <2> QED BY <2>1, <2>3, <2>4 DEF RingInv
<1>4. CASE FailedWrite(w)
  <2>1. PICK lo2 : TypeOK' /\ count' = count /\ FixedUp(lo, lo2)
    BY <1>1, <1>2, <1>4, FailedFixes
  <2>2. open' = open /\ pc' = pc BY <1>4 DEF FailedWrite
  <2>3. Aligned(lo2)' BY <1>1, <1>2, <2>1, <2>2, FixedAligned
  <2>4. Calls' BY <1>2, <2>2 DEF Calls
  <2> QED BY <2>1, <2>3, <2>4 DEF RingInv
<1>5. CASE Wake(w)
  <2>1. /\ pc' = [pc EXCEPT ![w] = "idle"] /\ queued' = {}
        /\ UNCHANGED <<ring, open, r_off, history>>
    BY <1>5 DEF Wake, Goto
  <2>2. UNCHANGED <<ring, r_off, live, count>> BY <2>1 DEF history
  <2>3. Aligned(lo)' BY <1>1, <2>1, <2>2, NothingMoves
  <2>4. Calls' BY <1>2, <2>1, CallsStay
  <2>5. TypeOK' BY <1>2, <2>1 DEF TypeOK, ring, history, Offsets, Entries, Junk
  <2> QED BY <2>3, <2>4, <2>5 DEF RingInv
<1> QED BY <1>3, <1>4, <1>5

LEMMA InvReaders ==
    ASSUME RingInv, NEW r \in Readers, Open(r) \/ Release(r) \/ Peek(r) PROVE RingInv'
<1>1. PICK lo : Aligned(lo) BY DEF RingInv
<1>2. TypeOK /\ Calls BY DEF RingInv
<1>3. CASE Open(r)
  <2>1. /\ open' = open \cup {r} /\ r_off' = [r_off EXCEPT ![r] = head]
        /\ got' = [got EXCEPT ![r] = 0] /\ UNCHANGED <<ring, pc, queued, live, count>>
    BY <1>3 DEF Open
  <2>2. IsPlace(lo, head) BY <1>1 DEF Aligned
  <2>3. Aligned(lo)' /\ r_off' \in [Readers -> Offsets]
    BY <1>1, <1>2, <2>1, <2>2, ReaderMoves
  <2>4. Calls' BY <1>2, <2>1 DEF Calls
  <2>5. TypeOK' BY <1>2, <2>1, <2>3 DEF TypeOK, ring, Offsets, Entries, Junk
  <2> QED BY <2>3, <2>4, <2>5 DEF RingInv
<1>4. CASE Release(r)
  <2>1. /\ open' = open \ {r} /\ UNCHANGED <<ring, r_off, pc, queued, history>>
        /\ \A t \in Tasks : FileOf[t] = r => pc[t] = "idle"
    BY <1>4 DEF Release
  <2>2. UNCHANGED <<ring, r_off, live, count>> BY <2>1 DEF history
  <2>3. Aligned(lo)' BY <1>1, <2>1, <2>2, NothingMoves
  <2>4. Calls' BY <1>2, <2>1 DEF Calls
  <2>5. TypeOK' BY <1>2, <2>1 DEF TypeOK, ring, history, Offsets, Entries, Junk
  <2> QED BY <2>3, <2>4, <2>5 DEF RingInv
<1>5. CASE Peek(r)
  <2>1. /\ r \in open /\ r_off' = [r_off EXCEPT ![r] = Visible(r)]
        /\ UNCHANGED <<ring, open, pc, queued, history>>
    BY <1>5 DEF Peek
  <2>2. UNCHANGED <<live, count, got>> BY <2>1 DEF history
  <2>3. IsPlace(lo, Visible(r))
    <3>1. RingFrom(lo) /\ IsPlace(lo, r_off[r]) BY <1>1, <2>1 DEF Aligned
    <3>2. PICK i \in lo .. count + 1 : \E k \in i .. count + 1 : Visible(r) = Place(k)
      BY <1>2, <3>1, Reads
    <3>3. \A k \in i .. count + 1 : k \in lo .. count + 1 BY <1>2, <3>1, Places
    <3> QED BY <3>2, <3>3 DEF IsPlace
  <2>4. Aligned(lo)' /\ r_off' \in [Readers -> Offsets]
    BY <1>1, <1>2, <2>1, <2>2, <2>3, ReaderMoves
  <2>5. Calls' BY <1>2, <2>1 DEF Calls
  <2>6. TypeOK' BY <1>2, <2>1, <2>2, <2>4 DEF TypeOK, ring, Offsets, Entries, Junk
  <2> QED BY <2>4, <2>5, <2>6 DEF RingInv
<1> QED BY <1>3, <1>4, <1>5

LEMMA InvFlush == ASSUME RingInv, Flush PROVE RingInv'
<1>1. PICK lo : Aligned(lo) BY DEF RingInv
<1>2. TypeOK /\ Calls /\ RingFrom(lo) BY <1>1 DEF RingInv, Aligned
<1>3. /\ r_off' = [r \in Readers |-> IF r \in open THEN w_off ELSE r_off[r]]
      /\ head' = w_off /\ UNCHANGED <<buffer, w_off, open, pc, queued, live, count, got>>
  BY DEF Flush, history
<1>4. RingFrom(lo)' /\ \A i : Place(i)' = Place(i) BY <1>2, <1>3, RingStays
<1>5. Place(count + 1) = w_off /\ count + 1 \in lo .. count + 1 BY <1>2, Places
<1>6. \E i \in lo .. count' + 1 : w_off = Place(i)' BY <1>3, <1>4, <1>5
<1>7. \A r \in open' : r_off'[r] = w_off BY <1>2, <1>3 DEF TypeOK
<1>8. Aligned(lo)' BY <1>3, <1>4, <1>6, <1>7 DEF Aligned, IsPlace
<1>9. TypeOK' BY <1>2, <1>3 DEF TypeOK, Offsets, Entries, Junk
<1>10. Calls' BY <1>2, <1>3 DEF Calls
<1> QED BY <1>8, <1>9, <1>10 DEF RingInv

LEMMA InvTasks ==
    ASSUME RingInv, NEW t \in Tasks,
           StartRead(t) \/ Check(t) \/ Schedule(t) \/ Signal(t) \/ Take(t)
    PROVE  RingInv'
<1>1. PICK lo : Aligned(lo) BY DEF RingInv
<1>2. TypeOK /\ Calls /\ RingFrom(lo) BY <1>1 DEF RingInv, Aligned
<1>3. CASE StartRead(t) \/ Check(t) \/ Schedule(t) \/ Signal(t)
  <2>1. /\ UNCHANGED <<ring, open, r_off, live, count, got>> /\ queued' \subseteq Tasks
        /\ \E place \in {"idle", "start", "schedule", "take"} :
              pc' = [pc EXCEPT ![t] = place]
        /\ FileOf[t] \in open
    BY <1>2, <1>3 DEF StartRead, Check, Schedule, Signal, Goto, history, Calls, TypeOK
  <2>2. Aligned(lo)' BY <1>1, <2>1, NothingMoves
  <2>3. Calls' BY <1>2, <2>1, CallsStay
  <2>4. TypeOK' BY <1>2, <2>1 DEF TypeOK, ring, Offsets, Entries, Junk
  <2> QED BY <2>2, <2>3, <2>4 DEF RingInv
<1>4. CASE Take(t)
  <2> DEFINE r == FileOf[t]
             off == Visible(r)
  <2>1. r \in open /\ r \in Readers BY <1>2, <1>4 DEF Take, Calls, TypeOK
  <2>2. IsPlace(lo, r_off[r]) BY <1>1, <2>1 DEF Aligned
  <2>3. PICK i \in lo .. count + 1, k \in lo .. count + 1 :
            /\ r_off[r] = Place(i) /\ off = Place(k) /\ (off = w_off <=> k = count + 1)
            /\ k # count + 1 => /\ k \in lo .. count /\ buffer[off].id = k
                                /\ logger_offset(off + buffer[off].len) = Place(k + 1)
    <3>1. \A i \in lo .. count + 1 : \A k \in i .. count + 1 : k \in lo .. count + 1
      BY <1>2, Places
    <3> QED BY <1>2, <2>1, <2>2, <3>1, Reads
  <2> HIDE DEF off
  <2>4. /\ UNCHANGED <<ring, open, queued, live, count>>
        /\ \E place \in {"idle", "start"} : pc' = [pc EXCEPT ![t] = place]
    BY <1>4 DEF Take, Goto
  <2>5. \/ r_off' = [r_off EXCEPT ![r] = off] /\ UNCHANGED got
        \/ /\ k # count + 1
           /\ r_off' = [r_off EXCEPT ![r] = logger_offset(off + buffer[off].len)]
           /\ got' = [got EXCEPT ![r] = buffer[off].id]
    BY <1>4, <2>3 DEF Take, off
  <2>6. \E x : IsPlace(lo, x) /\ r_off' = [r_off EXCEPT ![r] = x]
    <3>1. CASE r_off' = [r_off EXCEPT ![r] = off] BY <2>3, <3>1 DEF IsPlace
    <3>2. CASE /\ k # count + 1
               /\ r_off' = [r_off EXCEPT ![r] = logger_offset(off + buffer[off].len)]
      <4>1. k + 1 \in lo .. count + 1 BY <1>2, <2>3, <3>2, Places
      <4> QED BY <2>3, <3>2, <4>1 DEF IsPlace
    <3> QED BY <2>5, <3>1, <3>2
  <2>7. Aligned(lo)' /\ r_off' \in [Readers -> Offsets]
    BY <1>1, <1>2, <2>1, <2>4, <2>6, ReaderMoves
  <2>8. got' \in [Readers -> Nat]
    <3>1. k # count + 1 => buffer[off].id \in Nat
      <4>1. lo \in Nat BY <1>2, Places
      <4> QED BY <2>3, <4>1
    <3> QED BY <1>2, <2>5, <3>1 DEF TypeOK
  <2>9. Calls' BY <1>2, <2>1, <2>4, CallsStay
  <2>10. TypeOK' BY <1>2, <2>4, <2>7, <2>8 DEF TypeOK, ring, Offsets, Entries, Junk
  <2> QED BY <2>7, <2>9, <2>10 DEF RingInv
<1> QED BY <1>3, <1>4

LEMMA InvStep == RingInv /\ [Next]_vars => RingInv'
<1> SUFFICES ASSUME RingInv, [Next]_vars PROVE RingInv' OBVIOUS
<1>1. CASE UNCHANGED vars
  <2>1. PICK lo : Aligned(lo) BY DEF RingInv
  <2>2. UNCHANGED <<ring, r_off, live, count>> /\ open' = open BY <1>1 DEF vars, ring
  <2>3. Aligned(lo)' BY <2>1, <2>2, NothingMoves
  <2>4. Calls' BY <1>1 DEF vars, RingInv, Calls
  <2>5. TypeOK' BY <1>1 DEF vars, RingInv, TypeOK, Offsets, Entries, Junk
  <2> QED BY <2>3, <2>4, <2>5 DEF RingInv
<1> QED BY <1>1, InvWriters, InvReaders, InvFlush, InvTasks DEF Next

----------------------------------------------------------------------------
(* What the offsets stand for.  The units up to entry n that are still to  *)
(* be read from the place of entry k are what lies between the two.        *)
UnitsOf(off, n) == IF off = w_off \/ n \notin DOMAIN live \/ Before(off, n) THEN 0
                   ELSE live[n].len
IsUnits(off, f) == f = [n \in 0 .. count |-> IF n = 0 THEN 0 ELSE f[n - 1] + UnitsOf(off, n)]
Span(k, n) == IF n < k THEN 0 ELSE ToEnd(Place(k)) - ToEnd(Place(n + 1))

LEMMA Spans ==
    ASSUME TypeOK, NEW lo, RingFrom(lo), NEW k \in lo .. count + 1
    PROVE  /\ Span(k, 0) = 0 /\ Span(k, count) = ToEnd(Place(k))
           /\ \A n \in 1 .. count : Span(k, n) = Span(k, n - 1) + UnitsOf(Place(k), n)
           /\ \A n \in 0 .. count : Span(k, n) \in Int
<1>1. lo \in Nat \ {0} /\ count \in Nat /\ k \in Nat \ {0} /\ DOMAIN live = lo .. count
  BY Places
<1>2. \A i \in lo .. count + 1 : ToEnd(Place(i)) \in Nat BY Places
<1>3. ToEnd(Place(count + 1)) = 0 BY Places
<1>4. Span(k, 0) = 0 BY <1>1 DEF Span
<1>5. Span(k, count) = ToEnd(Place(k))
  <2>1. CASE k = count + 1 BY <1>1, <1>3, <2>1 DEF Span
  <2>2. CASE k # count + 1 BY <1>1, <1>2, <1>3, <2>2 DEF Span
  <2> QED BY <2>1, <2>2
<1>6. \A n \in 0 .. count : Span(k, n) \in Int
  <2> TAKE n \in 0 .. count
  <2>1. CASE n < k BY <2>1 DEF Span
  <2>2. CASE ~(n < k)
    <3>1. n + 1 \in lo .. count + 1 BY <1>1, <2>2
    <3> QED BY <1>2, <2>2, <3>1 DEF Span
  <2> QED BY <2>1, <2>2
<1>7. ASSUME NEW n \in 1 .. count
      PROVE  Span(k, n) = Span(k, n - 1) + UnitsOf(Place(k), n)
  <2>1. CASE n < k
    <3>1. UnitsOf(Place(k), n) = 0
      <4>1. CASE k = count + 1 BY <4>1, Places DEF UnitsOf
      <4>2. CASE k # count + 1
        <5>1. \A j \in DOMAIN live : live[j].off = Place(k) => j = k
          <6> SUFFICES ASSUME NEW j \in lo .. count, live[j].off = Place(k) PROVE j = k
            BY <1>1
          <6>1. Place(j) = Place(k) /\ j \in lo .. count + 1 BY <1>1, Places
          <6> QED BY <6>1, Places
        <5> QED BY <1>1, <2>1, <5>1 DEF UnitsOf, Before
      <4> QED BY <4>1, <4>2
    <3>2. Span(k, n) = 0 /\ Span(k, n - 1) = 0 BY <1>1, <2>1 DEF Span
    <3> QED BY <3>1, <3>2
  <2>2. CASE ~(n < k)
    <3>1. n \in lo .. count /\ k \in lo .. count /\ n >= k /\ n + 1 \in lo .. count + 1
      BY <1>1, <2>2
    <3>2. UnitsOf(Place(k), n) = live[n].len
      <4>1. Place(k) # w_off BY <3>1, Places
      <4>2. ~Before(Place(k), n)
        <5>1. live[k].off = Place(k) /\ k \in DOMAIN live BY <1>1, <3>1, Places
        <5> QED BY <1>1, <3>1, <5>1 DEF Before
      <4> QED BY <1>1, <3>1, <4>1, <4>2 DEF UnitsOf
    <3>3. ToEnd(Place(n)) = ToEnd(Place(n + 1)) + live[n].len /\ live[n].len \in Nat
      BY <3>1, Places DEF RingFrom, Whole
    <3>4. Span(k, n) = ToEnd(Place(k)) - ToEnd(Place(n + 1)) BY <2>2 DEF Span
    <3>5. Span(k, n - 1) = ToEnd(Place(k)) - ToEnd(Place(n))
      <4>0. n - 1 + 1 = n BY <3>1
      <4>1. CASE n = k
        <5>1. Span(k, n - 1) = 0 BY <1>1, <4>1 DEF Span
        <5> QED BY <1>2, <4>1, <5>1
      <4>2. CASE n # k BY <1>1, <3>1, <4>0, <4>2 DEF Span
      <4> QED BY <4>1, <4>2
    <3>6. ToEnd(Place(k)) \in Nat /\ ToEnd(Place(n)) \in Nat /\ ToEnd(Place(n + 1)) \in Nat
      <4>1. n \in lo .. count + 1 BY <1>1, <3>1
      <4> QED BY <1>2, <3>1, <4>1
    <3> QED BY <3>2, <3>3, <3>4, <3>5, <3>6
  <2> QED BY <2>1, <2>2
<1> QED BY <1>4, <1>5, <1>6, <1>7

LEMMA UnitsAre ==
    ASSUME TypeOK, NEW lo, RingFrom(lo), NEW k \in lo .. count + 1
    PROVE  Units(Place(k))[count] = ToEnd(Place(k))
<1> DEFINE f == Units(Place(k))
<1>0. count \in Nat BY Places
<1>1. \E g : IsUnits(Place(k), g)
  <2> DEFINE g == [n \in 0 .. count |-> Span(k, n)]
  <2>1. ASSUME NEW n \in 0 .. count
        PROVE  Span(k, n) = IF n = 0 THEN 0 ELSE g[n - 1] + UnitsOf(Place(k), n)
    <3>1. CASE n = 0 BY <3>1, Spans
    <3>2. CASE n # 0
      <4>1. n \in 1 .. count /\ n - 1 \in 0 .. count BY <1>0, <3>2
      <4>2. g[n - 1] = Span(k, n - 1) BY <4>1
      <4> HIDE DEF g
      <4> QED BY <3>2, <4>1, <4>2, Spans
    <3> QED BY <3>1, <3>2
  <2>2. IsUnits(Place(k), g)
    <3>1. g = [n \in 0 .. count |-> Span(k, n)] OBVIOUS
    <3> HIDE DEF g
    <3> QED BY <2>1, <3>1 DEF IsUnits
  <2> QED BY <2>2
<1>2. IsUnits(Place(k), f)
  <2>1. f = CHOOSE g : IsUnits(Place(k), g) BY DEF Units, IsUnits, UnitsOf
  <2> QED BY <1>1, <2>1
<1>3. \A n \in 0 .. count : f[n] = IF n = 0 THEN 0 ELSE f[n - 1] + UnitsOf(Place(k), n)
  BY <1>2 DEF IsUnits
<1> HIDE DEF f
<1> DEFINE D == {n \in 0 .. count : f[n] # Span(k, n)}
<1>4. D = {}
  <2> SUFFICES ASSUME D # {} PROVE FALSE OBVIOUS
  <2>1. D \subseteq Nat OBVIOUS
  <2>2. PICK n \in D : \A m \in D : n <= m BY <2>1, LeastOf
  <2>3. n \in 0 .. count /\ f[n] # Span(k, n) BY <2>2
  <2>4. n # 0 BY <1>3, <2>3, Spans
  <2>5. n - 1 \in 0 .. count /\ n \in 1 .. count /\ ~(n <= n - 1) BY <1>0, <2>3, <2>4
  <2>6. f[n - 1] = Span(k, n - 1) BY <2>2, <2>5
  <2>7. f[n] = f[n - 1] + UnitsOf(Place(k), n) BY <1>3, <2>3, <2>4
  <2>8. Span(k, n) = Span(k, n - 1) + UnitsOf(Place(k), n) BY <2>5, Spans
  <2> QED BY <2>3, <2>6, <2>7, <2>8
<1>5. f[count] = Span(k, count) BY <1>0, <1>4
<1> QED BY <1>5, Spans DEF f

LEMMA InvSound == RingInv => RingIsSound
<1> SUFFICES ASSUME RingInv PROVE RingIsSound OBVIOUS
<1>1. PICK lo : Aligned(lo) BY DEF RingInv
<1>2. TypeOK /\ RingFrom(lo) BY <1>1 DEF RingInv, Aligned
<1>3. lo \in Nat \ {0} /\ count \in Nat /\ DOMAIN live = lo .. count BY <1>2, Places
<1>4. Starts = {Place(i) : i \in lo .. count}
  <2>1. \A i \in lo .. count : Place(i) = live[i].off BY <1>2, Places
  <2> QED BY <1>3, <2>1 DEF Starts
<1>5. RingIsChained
  <2>1. ASSUME NEW i \in DOMAIN live
        PROVE  /\ buffer[live[i].off] = [len |-> live[i].len, own |-> live[i].own, id |-> i]
               /\ i < count => i + 1 \in DOMAIN live
               /\ logger_offset(live[i].off + live[i].len)
                    = IF i = count THEN w_off ELSE live[i + 1].off
    <3>1. i \in lo .. count BY <1>3
    <3>2. Whole(i) BY <1>2, <3>1 DEF RingFrom
    <3>3. i < count => i + 1 \in DOMAIN live BY <1>3, <3>1
    <3>4. /\ Place(i) = live[i].off
          /\ logger_offset(Place(i) + live[i].len) = Place(i + 1)
      BY <1>2, <3>1, Places
    <3>5. Place(i + 1) = IF i = count THEN w_off ELSE live[i + 1].off
      BY <1>3, <3>1 DEF Place
    <3> QED BY <3>2, <3>3, <3>4, <3>5 DEF Whole
  <2>2. w_off \notin Starts
    <3>1. \A i \in lo .. count : Place(i) # w_off
      <4>1. \A i \in lo .. count : ToEnd(Place(i)) > 0 BY <1>2, Places
      <4>2. ToEnd(w_off) = 0 BY <1>2, Places
      <4> QED BY <4>1, <4>2
    <3> QED BY <1>4, <3>1
  <2> QED BY <2>1, <2>2 DEF RingIsChained
<1>6. OffsetsAligned
  <2>1. \A off : IsPlace(lo, off) => off \in Starts \cup {w_off}
    <3> SUFFICES ASSUME NEW i \in lo .. count + 1 PROVE Place(i) \in Starts \cup {w_off}
      BY DEF IsPlace
    <3>1. CASE i = count + 1 BY <1>2, <3>1, Places
    <3>2. CASE i # count + 1
      <4>1. i \in lo .. count BY <1>3, <3>2
      <4> QED BY <1>4, <4>1
    <3> QED BY <3>1, <3>2
  <2> QED BY <1>1, <2>1 DEF Aligned, OffsetsAligned
<1>7. LogLenIsUnread
  <2> SUFFICES ASSUME NEW r \in open PROVE LogLen(r) = Units(r_off[r])[count]
    BY DEF LogLenIsUnread
  <2>1. PICK k \in lo .. count + 1 : r_off[r] = Place(k) BY <1>1 DEF Aligned, IsPlace
  <2>2. Units(r_off[r])[count] = ToEnd(r_off[r]) BY <1>2, <2>1, UnitsAre
  <2>3. r_off[r] \in Offsets /\ w_off \in Offsets BY <1>2, <2>1, Places DEF TypeOK
  <2>4. LogLen(r) = ToEnd(r_off[r])
    <3>1. r_off[r] \in Int /\ w_off \in Int /\ Size \in Int
      BY <2>3, SizeAssumption DEF Offsets
    <3> QED BY <3>1 DEF LogLen, ToEnd
  <2> QED BY <2>2, <2>4
<1> QED BY <1>5, <1>6, <1>7 DEF RingIsSound

(* Every variable keeps its type.                                          *)
THEOREM LogTypesHold == Spec => []TypeOK
<1>1. RingInv => TypeOK BY DEF RingInv
<1> QED BY <1>1, InvInit, InvStep, PTL DEF Spec

(* The whole entries of the ring are in a chain to the write offset with   *)
(* their headers in place, the start head and every reader stand at the    *)
(* start of one or at the end, and LOGGER_GET_LOG_LEN is the length of     *)
(* those still to be read: through every write that laps them, those that  *)
(* fail half way included.                                                 *)
THEOREM RingStaysSound == Spec => []RingIsSound
BY InvInit, InvStep, InvSound, PTL DEF Spec

----------------------------------------------------------------------------
(* The log behind the ring: where a reader stands is the number of the     *)
(* entry at its offset.                                                    *)
PosBar == [r \in Readers |-> IF r \in open THEN Position(r_off[r]) ELSE 1]

Numbered(lo) == First = lo /\ \A i \in lo .. count + 1 : Position(Place(i)) = i

LEMMA Views == ASSUME TypeOK, NEW lo, RingFrom(lo) PROVE Numbered(lo)
<1>1. lo \in Nat \ {0} /\ count \in Nat /\ lo <= count + 1 /\ DOMAIN live = lo .. count
  BY Places
<1>2. First = lo
  <2>1. CASE lo = count + 1
    <3>1. DOMAIN live = {} BY <1>1, <2>1
    <3> QED BY <2>1, <3>1 DEF First
  <2>2. CASE lo # count + 1
    <3>1. lo \in DOMAIN live /\ \A j \in DOMAIN live : lo <= j BY <1>1, <2>2
    <3>2. \A i \in DOMAIN live : (\A j \in DOMAIN live : i <= j) => i = lo BY <1>1, <3>1
    <3>3. DOMAIN live # {} BY <3>1
    <3>4. First = CHOOSE i \in DOMAIN live : \A j \in DOMAIN live : i <= j
      BY <3>3 DEF First
    <3> QED BY <3>1, <3>2, <3>4
  <2> QED BY <2>1, <2>2
<1>3. ASSUME NEW i \in lo .. count + 1 PROVE Position(Place(i)) = i
  <2>1. CASE i = count + 1 BY <1>1, <2>1, Places DEF Position
  <2>2. CASE i # count + 1
    <3>1. i \in lo .. count BY <1>1, <2>2
    <3>2. Place(i) = live[i].off /\ i \in DOMAIN live BY <1>1, <3>1, Places
    <3>3. Place(i) # w_off
      <4>1. ToEnd(Place(i)) > 0 /\ ToEnd(w_off) = 0 BY <3>1, Places
      <4> QED BY <4>1
    <3>4. Place(i) \in Starts BY <3>2 DEF Starts
    <3>5. \A j \in DOMAIN live : live[j].off = Place(i) => j = i
      <4> SUFFICES ASSUME NEW j \in lo .. count, live[j].off = Place(i) PROVE j = i
        BY <1>1
      <4>1. Place(j) = Place(i) /\ j \in lo .. count + 1 BY <1>1, Places
      <4> QED BY <4>1, Places
    <3>6. Position(Place(i)) = CHOOSE j \in DOMAIN live : live[j].off = Place(i)
      BY <3>3, <3>4 DEF Position
    <3> QED BY <3>2, <3>5, <3>6
  <2> QED BY <2>1, <2>2
<1> QED BY <1>2, <1>3 DEF Numbered

LEMMA ViewsAfter == ASSUME NEW lo PROVE TypeOK' /\ RingFrom(lo)' => Numbered(lo)'
<1>1. TypeOK /\ RingFrom(lo) => Numbered(lo) BY Views
<1> QED BY <1>1, PTL

(* What stands at a place has a position among the entries.                *)
LEMMA StandsAt ==
    ASSUME TypeOK, NEW lo, RingFrom(lo), NEW off, IsPlace(lo, off)
    PROVE  /\ Position(off) \in lo .. count + 1 /\ off = Place(Position(off))
           /\ Position(off) \in 1 .. count + 1
<1>1. PICK i \in lo .. count + 1 : off = Place(i) BY DEF IsPlace
<1>2. Position(off) = i BY <1>1, Views DEF Numbered
<1>3. lo \in Nat \ {0} /\ count \in Nat BY Places
<1> QED BY <1>1, <1>2, <1>3

LEMMA PositionsOk ==
    ASSUME TypeOK, NEW lo, Aligned(lo)
    PROVE  PosBar \in [Readers -> 1 .. count + 1]
<1>1. \A r \in open : Position(r_off[r]) \in 1 .. count + 1 BY StandsAt DEF Aligned
<1>2. 1 \in 1 .. count + 1 BY DEF TypeOK
<1> QED BY <1>1, <1>2 DEF PosBar

(* A write laps the log, complete or not.                                  *)
LEMMA Laps ==
    ASSUME TypeOK, NEW lo, Aligned(lo), NEW lo2, FixedUp(lo, lo2), TypeOK',
           count' = count \/ count' = count + 1, open' = open
    PROVE  /\ First' \in First .. count + 1
           /\ PosBar' \in [Readers -> 1 .. count + 1]
           /\ \A r \in Readers : IF r \in open /\ PosBar[r] < First'
                                 THEN PosBar'[r] >= First' ELSE PosBar'[r] = PosBar[r]
<1>1. /\ lo \in Nat \ {0} /\ count \in Nat /\ lo2 \in lo .. count + 1
      /\ RingFrom(lo) /\ RingFrom(lo2)'
  BY Places DEF Aligned, FixedUp
<1>2. Numbered(lo) /\ Numbered(lo2)' BY <1>1, Views, ViewsAfter
<1>3. First = lo /\ First' = lo2 BY <1>2 DEF Numbered
<1>4. ASSUME NEW k \in lo2 .. count + 1
      PROVE  k \in lo2 .. count' + 1 /\ Position(Place(k))' = k
  <2>1. k \in lo2 .. count' + 1
    <3>1. k \in lo2 .. count + 2 BY <1>1
    <3>2. CASE count' = count BY <3>2
    <3>3. CASE count' = count + 1
      <4>1. count' + 1 = count + 2 BY <1>1, <3>3
      <4> QED BY <3>1, <4>1
    <3> QED BY <3>2, <3>3
  <2> QED BY <1>2, <2>1 DEF Numbered
<1>5. ASSUME NEW r \in open
      PROVE  /\ Position(r_off[r]) \in lo .. count + 1
             /\ Position(r_off[r])' \in Position(r_off[r]) .. count + 1
             /\ Position(r_off[r])' >= lo2
             /\ Position(r_off[r]) >= lo2 => Position(r_off[r])' = Position(r_off[r])
  <2>1. PICK i \in lo .. count + 1 : r_off[r] = Place(i) BY DEF Aligned, IsPlace
  <2>2. PICK k \in i .. count + 1 : /\ k >= lo2 /\ r_off'[r] = Place(k)'
                                    /\ i >= lo2 => k = i
    BY <2>1 DEF FixedUp, Fixed
  <2>3. Position(r_off[r]) = i BY <1>2, <2>1 DEF Numbered
  <2>4. Position(r_off[r])' = k
    <3>1. k \in lo2 .. count + 1 BY <1>1, <2>2
    <3>2. Position(Place(k))' = k BY <1>4, <3>1
    <3> QED BY <2>2, <3>2
  <2> QED BY <2>2, <2>3, <2>4
<1>6. ASSUME NEW r \in Readers
      PROVE  /\ PosBar'[r] \in 1 .. count + 1
             /\ IF r \in open /\ PosBar[r] < First'
                THEN PosBar'[r] >= First' ELSE PosBar'[r] = PosBar[r]
  <2>1. CASE r \in open
    <3>1. PosBar[r] = Position(r_off[r]) BY <2>1 DEF PosBar
    <3>2. PosBar'[r] = Position(r_off[r])' BY <2>1 DEF PosBar
    <3> QED BY <1>1, <1>3, <1>5, <2>1, <3>1, <3>2
  <2>2. CASE r \notin open BY <1>1, <2>2 DEF PosBar
  <2> QED BY <2>1, <2>2
<1>7. PosBar' \in [Readers -> 1 .. count + 1]
  <2>1. PosBar' = [r \in Readers |-> PosBar'[r]] BY DEF PosBar
  <2> QED BY <1>6, <2>1
<1> QED BY <1>1, <1>3, <1>6, <1>7

LEMMA StillNumbered ==
    ASSUME UNCHANGED <<w_off, live, count>>
    PROVE  First' = First /\ \A off : Position(off)' = Position(off)
<1>1. First' = First BY DEF First
<1>2. \A off : Position(off)' = Position(off) BY DEF Position, Starts
<1> QED BY <1>1, <1>2

(* A reader that is moved on past some entries, or that opens.             *)
LEMMA MovesTo ==
    ASSUME TypeOK, UNCHANGED <<w_off, live, count>>, NEW r \in Readers, r \in open',
           open' = open \cup {r}, NEW off, r_off' = [r_off EXCEPT ![r] = off]
    PROVE  PosBar' = [PosBar EXCEPT ![r] = Position(off)]
<1>1. \A x : Position(x)' = Position(x) BY StillNumbered
<1>2. \A s \in Readers : r_off'[s] = IF s = r THEN off ELSE r_off[s] BY DEF TypeOK
<1>3. \A s \in Readers : Position(r_off[s])' = IF s = r THEN Position(off) ELSE Position(r_off[s])
  <2> TAKE s \in Readers
  <2>1. PICK x : x = r_off'[s] OBVIOUS
  <2>2. Position(r_off[s])' = Position(x)' BY <2>1 DEF Position, Starts
  <2> QED BY <1>1, <1>2, <2>1, <2>2
<1>4. PosBar' = [s \in Readers |-> IF s \in open' THEN Position(r_off[s])' ELSE 1]
  BY DEF PosBar
<1>5. PosBar = [s \in Readers |-> IF s \in open THEN Position(r_off[s]) ELSE 1]
  BY DEF PosBar
<1> QED BY <1>3, <1>4, <1>5

LEMMA WriteAppends ==
    ASSUME RingInv, NEW w \in Writers, Write(w) PROVE Abstract!Append
<1>1. PICK lo : Aligned(lo) BY DEF RingInv
<1>2. TypeOK BY DEF RingInv
<1>3. PICK lo2 : TypeOK' /\ count' = count + 1 /\ FixedUp(lo, lo2)
  BY <1>1, <1>2, WriteFixes
<1>4. UNCHANGED <<open, got>> BY DEF Write
<1> QED BY <1>1, <1>2, <1>3, <1>4, Laps DEF Abstract!Append, Abstract!Lap, PosBar

LEMMA FailedWriteDrops ==
    ASSUME RingInv, NEW w \in Writers, FailedWrite(w) PROVE Abstract!Drop
<1>1. PICK lo : Aligned(lo) BY DEF RingInv
<1>2. TypeOK BY DEF RingInv
<1>3. PICK lo2 : TypeOK' /\ count' = count /\ FixedUp(lo, lo2)
  BY <1>1, <1>2, FailedFixes
<1>4. UNCHANGED <<open, got>> BY DEF FailedWrite
<1> QED BY <1>1, <1>2, <1>3, <1>4, Laps DEF Abstract!Drop, Abstract!Lap, PosBar

LEMMA OpenOpens == ASSUME RingInv, NEW r \in Readers, Open(r) PROVE Abstract!Open(r)
<1>1. PICK lo : Aligned(lo) BY DEF RingInv
<1>2. TypeOK /\ RingFrom(lo) /\ IsPlace(lo, head) BY <1>1 DEF RingInv, Aligned
<1>3. /\ r \notin open /\ open' = open \cup {r} /\ r_off' = [r_off EXCEPT ![r] = head]
      /\ got' = [got EXCEPT ![r] = 0] /\ UNCHANGED <<w_off, live, count>>
  BY DEF Open, ring
<1>4. PosBar' = [PosBar EXCEPT ![r] = Position(head)] BY <1>2, <1>3, MovesTo
<1>5. Position(head) \in First .. count + 1 BY <1>2, StandsAt, Views DEF Numbered
<1>6. First' = First BY <1>3, StillNumbered
<1> QED BY <1>3, <1>4, <1>5, <1>6 DEF Abstract!Open, PosBar

LEMMA ReleaseCloses == ASSUME RingInv, NEW r \in Readers, Release(r) PROVE Abstract!Close(r)
<1>1. /\ r \in open /\ open' = open \ {r}
      /\ UNCHANGED <<w_off, live, count, r_off, got>>
  BY DEF Release, ring, history
<1>2. First' = First /\ \A x : Position(x)' = Position(x) BY <1>1, StillNumbered
<1>3. PosBar' = [PosBar EXCEPT ![r] = 1] BY <1>1, <1>2 DEF PosBar
<1> QED BY <1>1, <1>2, <1>3 DEF Abstract!Close, PosBar

(* A reader that passes by entries, taking none.                           *)
LEMMA PassesBy ==
    ASSUME RingInv, NEW r \in open, r_off' = [r_off EXCEPT ![r] = Visible(r)],
           UNCHANGED <<w_off, live, count, open, got>>
    PROVE  Abstract!Skip
<1>1. PICK lo : Aligned(lo) BY DEF RingInv
<1>2. /\ TypeOK /\ RingFrom(lo) /\ IsPlace(lo, r_off[r]) /\ r \in Readers
      /\ open' = open \cup {r}
  BY <1>1 DEF RingInv, Aligned, TypeOK
<1>3. PICK i \in lo .. count + 1 : \E k \in i .. count + 1 :
               r_off[r] = Place(i) /\ Visible(r) = Place(k)
  BY <1>2, Reads
<1>4. PICK k \in i .. count + 1 : r_off[r] = Place(i) /\ Visible(r) = Place(k) BY <1>3
<1>5. lo \in Nat \ {0} /\ count \in Nat BY <1>2, Places
<1>6. Position(r_off[r]) = i /\ Position(Visible(r)) = k
  BY <1>2, <1>4, <1>5, Views DEF Numbered
<1>7. PosBar' = [PosBar EXCEPT ![r] = k] BY <1>2, <1>6, MovesTo
<1>8. PosBar \in [Readers -> 1 .. count + 1] /\ PosBar[r] = i
  BY <1>1, <1>2, <1>6, PositionsOk DEF PosBar
<1>9. First' = First BY StillNumbered
<1>10. k \in 1 .. count + 1 /\ k >= i BY <1>5
<1>11. PosBar' \in [Readers -> 1 .. count + 1] BY <1>7, <1>8, <1>10
<1>12. \A s \in Readers : PosBar'[s] >= PosBar[s] /\ (s \notin open => PosBar'[s] = PosBar[s])
  <2> TAKE s \in Readers
  <2>1. CASE s = r BY <1>2, <1>7, <1>8, <1>10, <2>1
  <2>2. CASE s # r
    <3>1. PosBar'[s] = PosBar[s] /\ PosBar[s] \in 1 .. count + 1 BY <1>7, <1>8, <2>2
    <3> QED BY <1>5, <3>1
  <2> QED BY <2>1, <2>2
<1> QED BY <1>9, <1>11, <1>12 DEF Abstract!Skip, PosBar

LEMMA FlushSkips == ASSUME RingInv, Flush PROVE Abstract!Skip
<1>1. PICK lo : Aligned(lo) BY DEF RingInv
<1>2. TypeOK /\ RingFrom(lo) /\ count \in Nat BY <1>1, Places DEF RingInv, Aligned
<1>3. /\ r_off' = [r \in Readers |-> IF r \in open THEN w_off ELSE r_off[r]]
      /\ UNCHANGED <<w_off, live, count, open, got>>
  BY DEF Flush, history
<1>4. First' = First /\ \A x : Position(x)' = Position(x) BY <1>3, StillNumbered
<1>5. Position(w_off) = count + 1 BY DEF Position
<1>6. \A r \in open : Position(r_off[r])' = count + 1
  <2> TAKE r \in open
  <2>1. r_off'[r] = w_off BY <1>2, <1>3 DEF TypeOK
  <2>2. PICK x : x = w_off OBVIOUS
  <2>3. Position(r_off[r])' = Position(x)' BY <2>1, <2>2 DEF Position, Starts
  <2> QED BY <1>4, <1>5, <2>2, <2>3
<1>7. PosBar' = [r \in Readers |-> IF r \in open THEN count + 1 ELSE PosBar[r]]
  BY <1>3, <1>6 DEF PosBar
<1>8. PosBar \in [Readers -> 1 .. count + 1] BY <1>1, <1>2, PositionsOk
<1>9. PosBar' \in [Readers -> 1 .. count + 1] BY <1>2, <1>7, <1>8
<1>10. \A r \in Readers : PosBar'[r] >= PosBar[r] /\ (r \notin open => PosBar'[r] = PosBar[r])
  BY <1>2, <1>7, <1>8
<1> QED BY <1>3, <1>4, <1>9, <1>10 DEF Abstract!Skip, PosBar

LEMMA TakeReads ==
    ASSUME RingInv, NEW t \in Tasks, Take(t)
    PROVE  Abstract!Skip \/ Abstract!Read(FileOf[t])
<1> DEFINE r == FileOf[t]
<1>1. PICK lo : Aligned(lo) BY DEF RingInv
<1>2. /\ TypeOK /\ RingFrom(lo) /\ r \in open /\ r \in Readers /\ IsPlace(lo, r_off[r])
      /\ UNCHANGED <<w_off, live, count, open>> /\ open' = open \cup {r} /\ r \in open'
  BY <1>1 DEF RingInv, Aligned, Take, Calls, TypeOK, ring
<1>3. CASE r_off' = [r_off EXCEPT ![r] = Visible(r)] /\ UNCHANGED got
  <2> HIDE DEF r
  <2>1. Abstract!Skip BY <1>2, <1>3, PassesBy
  <2> QED BY <2>1
<1>4. CASE /\ Visible(r) # w_off
           /\ r_off' = [r_off EXCEPT ![r] = logger_offset(Visible(r) + buffer[Visible(r)].len)]
           /\ got' = [got EXCEPT ![r] = buffer[Visible(r)].id]
  <2> HIDE DEF r
  <2>1. PICK i \in lo .. count + 1 : \E k \in i .. count + 1 :
            /\ r_off[r] = Place(i)
            /\ Visible(r) = w_off <=> k = count + 1
            /\ k # count + 1 =>
                  /\ k \in lo .. count /\ buffer[Visible(r)].id = k
                  /\ logger_offset(Visible(r) + buffer[Visible(r)].len) = Place(k + 1)
    BY <1>2, Reads
  <2>2. PICK k \in i .. count + 1 :
            /\ r_off[r] = Place(i) /\ k # count + 1 /\ k \in lo .. count
            /\ buffer[Visible(r)].id = k
            /\ logger_offset(Visible(r) + buffer[Visible(r)].len) = Place(k + 1)
    BY <1>4, <2>1
  <2>3. lo \in Nat \ {0} /\ count \in Nat BY <1>2, Places
  <2>4. k + 1 \in lo .. count + 1 BY <2>2, <2>3
  <2>5. Position(r_off[r]) = i /\ Position(Place(k + 1)) = k + 1
    BY <1>2, <2>2, <2>4, Views DEF Numbered
  <2>6. PosBar' = [PosBar EXCEPT ![r] = k + 1]
    <3>1. r_off' = [r_off EXCEPT ![r] = Place(k + 1)] BY <1>4, <2>2
    <3> QED BY <1>2, <2>5, <3>1, MovesTo
  <2>7. PosBar[r] = i BY <1>2, <2>5 DEF PosBar
  <2>8. got' = [got EXCEPT ![r] = k] /\ got'[r] = k BY <1>2, <1>4, <2>2 DEF TypeOK
  <2>9. k \in i .. count BY <2>2, <2>3
  <2>10. First' = First BY <1>2, StillNumbered
  <2>11. Abstract!Read(r)
    BY <1>2, <2>6, <2>7, <2>8, <2>9, <2>10 DEF Abstract!Read, PosBar
  <2> QED BY <2>11 DEF r
<1> QED BY <1>3, <1>4 DEF Take

LEMMA NothingShows ==
    ASSUME UNCHANGED <<w_off, live, count, open, r_off, got>>
    PROVE  UNCHANGED Abstract!vars
<1>1. First' = First /\ \A x : Position(x)' = Position(x) BY StillNumbered
<1> QED BY <1>1 DEF Abstract!vars

LEMMA LogInit == Init => Abstract!Init
<1> SUFFICES ASSUME Init PROVE Abstract!Init OBVIOUS
<1>1. First = 1 BY DEF Init, First
<1> QED BY <1>1 DEF Init, Abstract!Init

LEMMA LogStep == RingInv /\ [Next]_vars => [Abstract!Next]_(Abstract!vars)
<1> SUFFICES ASSUME RingInv, [Next]_vars PROVE [Abstract!Next]_(Abstract!vars) OBVIOUS
<1>0. TypeOK BY DEF RingInv
<1>1. CASE UNCHANGED vars BY <1>1, NothingShows DEF vars
<1>2. ASSUME NEW w \in Writers, Write(w) \/ FailedWrite(w) \/ Wake(w)
      PROVE  [Abstract!Next]_(Abstract!vars)
  <2>1. CASE Write(w) BY <2>1, WriteAppends DEF Abstract!Next
  <2>2. CASE FailedWrite(w) BY <2>2, FailedWriteDrops DEF Abstract!Next
  <2>3. CASE Wake(w) BY <2>3, NothingShows DEF Wake, ring, history
  <2> QED BY <1>2, <2>1, <2>2, <2>3
<1>3. ASSUME NEW r \in Readers, Open(r) \/ Release(r) \/ Peek(r)
      PROVE  [Abstract!Next]_(Abstract!vars)
  <2>1. CASE Open(r) BY <2>1, OpenOpens DEF Abstract!Next
  <2>2. CASE Release(r) BY <2>2, ReleaseCloses DEF Abstract!Next
  <2>3. CASE Peek(r)
    <3>1. Abstract!Skip BY <2>3, PassesBy DEF Peek, ring, history
    <3> QED BY <3>1 DEF Abstract!Next
  <2> QED BY <1>3, <2>1, <2>2, <2>3
<1>4. CASE Flush BY <1>4, FlushSkips DEF Abstract!Next
<1>5. ASSUME NEW t \in Tasks, StartRead(t) \/ Check(t) \/ Schedule(t) \/ Signal(t) \/ Take(t)
      PROVE  [Abstract!Next]_(Abstract!vars)
  <2>1. CASE StartRead(t) \/ Check(t) \/ Schedule(t) \/ Signal(t)
    BY <2>1, NothingShows DEF StartRead, Check, Schedule, Signal, ring, history
  <2>2. CASE Take(t)
    <3>1. FileOf[t] \in Readers BY FilesAssumption
    <3> QED BY <2>2, <3>1, TakeReads DEF Abstract!Next
  <2> QED BY <1>5, <2>1, <2>2
<1> QED BY <1>1, <1>2, <1>3, <1>4, <1>5 DEF Next

(* The ring is a log: a reader gets entries in the order they were         *)
(* written, none twice, none partly overwritten and none older than where  *)
(* it stands, and a write moves no reader but those it laps.               *)
THEOREM RingIsALog == Spec => ImplementsLog
BY InvInit, InvStep, LogInit, LogStep, PTL DEF Spec, ImplementsLog, Abstract!Spec

----------------------------------------------------------------------------
(* The extents of FatBlocks.                                               *)
LEMMA GreatestOf ==
    ASSUME NEW n \in Nat, NEW S, S \subseteq 0 .. n, S # {}
    PROVE  \E k \in S : \A j \in S : j <= k
<1> DEFINE D == {n - j : j \in S}
<1>1. D \subseteq Nat /\ D # {}
  <2>1. PICK j \in S : TRUE OBVIOUS
  <2>2. n - j \in D OBVIOUS
  <2>3. \A i \in S : n - i \in Nat OBVIOUS
  <2> QED BY <2>2, <2>3
<1>2. PICK d \in D : \A e \in D : d <= e BY <1>1, LeastOf
<1>3. PICK k \in S : d = n - k BY <1>2
<1>4. ASSUME NEW j \in S PROVE j <= k
  <2>1. n - k <= n - j BY <1>2, <1>3
  <2> QED BY <2>1
<1> QED BY <1>4

----------------------------------------------------------------------------
(* The states of the manager, and those whose extents are apart.           *)
Extent == [start : Int, length : Int, inode : Inodes \cup {NULL}]
MapState == [mem : [Cells -> Extent], tree : SUBSET Cells, last : Cells \cup {NULL},
             node : [Inodes -> Cells \cup {NULL}],
             touched : BOOLEAN, bug : BOOLEAN, strayed : BOOLEAN]

Start(s, n) == s.mem[n].start
Behind(s, n) == s.mem[n].start + s.mem[n].length
Sound(s) ==
    /\ \A n \in s.tree : Start(s, n) \in Nat /\ s.mem[n].length \in Nat \ {0}
    /\ \A n, o \in s.tree : n # o => Behind(s, n) <= Start(s, o) \/ Behind(s, o) <= Start(s, n)
In(s, n, c) == Start(s, n) <= c /\ c < Behind(s, n)
Has(s, c) == \E n \in s.tree : In(s, n, c)
HasBut(s, n, c) == \E o \in s.tree \ {n} : In(s, o, c)

(* Files and extents that name each other, and what keeps them in place.   *)
Mutual(s) ==
    /\ \A i \in Inodes : s.node[i] # NULL =>
          s.node[i] \in s.tree /\ s.mem[s.node[i]].inode = i /\ i \notin Dirs
    /\ \A n \in s.tree : s.mem[n].inode # NULL => s.node[s.mem[n].inode] = n
Follows(s, t) ==
    /\ (s.touched => t.touched) /\ (s.strayed => t.strayed)
    /\ Mutual(s) /\ ~t.touched /\ ~t.strayed =>
          /\ Mutual(t) /\ t.node = s.node
          /\ \A i \in Inodes : s.node[i] # NULL => Start(t, s.node[i]) = Start(s, s.node[i])
(* An extent that starts at c may come to start before it.                 *)
FollowsTo(s, t, c) ==
    /\ (s.touched => t.touched) /\ (s.strayed => t.strayed)
    /\ Mutual(s) /\ ~t.touched /\ ~t.strayed =>
          /\ Mutual(t) /\ t.node = s.node
          /\ \A i \in Inodes : s.node[i] # NULL =>
                Start(t, s.node[i]) = Start(s, s.node[i]) \/ Start(s, s.node[i]) = c
SameSpace(s, t) == \A c \in Int : Has(t, c) <=> Has(s, c)

LEMMA LeastIsThere ==
    ASSUME NEW s \in MapState, Sound(s), NEW N, N \subseteq s.tree, N # {}
    PROVE  LeastBy(s, N) \in N /\ \A o \in N : Start(s, LeastBy(s, N)) <= Start(s, o)
<1> DEFINE S == {Start(s, n) : n \in N}
<1>1. S \subseteq Nat /\ S # {} BY DEF Sound
<1>2. PICK k \in S : \A j \in S : k <= j BY <1>1, LeastOf
<1>3. PICK n \in N : k = Start(s, n) BY <1>2
<1>4. \A o \in N : Start(s, n) <= Start(s, o) BY <1>2, <1>3
<1> QED BY <1>3, <1>4 DEF LeastBy, Start

LEMMA NextIsThere ==
    ASSUME NEW s \in MapState, Sound(s), NEW n, rb_next(s, n) # NULL
    PROVE  /\ n \in s.tree /\ rb_next(s, n) \in s.tree /\ rb_next(s, n) # n
           /\ Start(s, n) < Start(s, rb_next(s, n))
<1> DEFINE after == {o \in s.tree : s.mem[o].start > s.mem[n].start}
<1>1. n \in s.tree /\ after # {} /\ rb_next(s, n) = LeastBy(s, after) BY DEF rb_next
<1>2. rb_next(s, n) \in after BY <1>1, LeastIsThere
<1>3. PICK x : x = rb_next(s, n) OBVIOUS
<1>4. x \in s.tree /\ s.mem[x].start > s.mem[n].start BY <1>2, <1>3
<1>5. Start(s, n) \in Nat /\ Start(s, x) \in Nat BY <1>1, <1>4 DEF Sound
<1>6. Start(s, n) < Start(s, x) BY <1>4, <1>5 DEF Start
<1>7. x # n BY <1>5, <1>6
<1> QED BY <1>1, <1>3, <1>4, <1>6, <1>7

(* What joining does to the fields.                                        *)
LEMMA Joined ==
    ASSUME NEW s \in MapState, NEW n \in Cells, NEW x \in Cells, x # n, ~GoesOn,
           rb_next(s, n) = x, End(s.mem[n]) = s.mem[x].start,
           s.mem[x].inode = NULL \/ s.mem[n].inode = NULL
    PROVE  LET t == try_back_merge(s, n)
               more == [s.mem[n] EXCEPT !.length = @ + s.mem[x].length]
           IN  /\ t \in MapState /\ t.tree = s.tree \ {x}
               /\ t.mem = [[s.mem EXCEPT ![n] = more] EXCEPT ![x] = NoExtent]
               /\ s.mem[x].inode = NULL => t.node = s.node /\ t.strayed = s.strayed
               /\ s.mem[x].inode # NULL => t.strayed
               /\ s.touched => t.touched
               /\ s.strayed => t.strayed
<1> DEFINE owner == s.mem[x].inode
           u == [s EXCEPT !.mem[n].length = @ + s.mem[x].length, !.mem[x].inode = NULL,
                          !.node = [i \in Inodes |-> IF i = owner THEN n ELSE @[i]],
                          !.last = n, !.strayed = @ \/ owner # NULL,
                          !.touched = @ \/ (owner # NULL /\ owner \notin inuse)]
           t == try_back_merge(s, n)
<1>0. NULL \notin Cells /\ NULL \notin Inodes BY FatAssumption
<1>1. t = Erase(u, x) BY <1>0 DEF try_back_merge
<1>2. s.mem \in [Cells -> Extent] /\ s.node \in [Inodes -> Cells \cup {NULL}] BY DEF MapState
<1>3. /\ s.mem[n] \in Extent /\ s.mem[x] \in Extent /\ owner \in Inodes \cup {NULL}
  BY <1>2 DEF Extent
<1>4. PICK more : more = [s.mem[n] EXCEPT !.length = @ + s.mem[x].length] OBVIOUS
<1>5. more \in Extent BY <1>3, <1>4 DEF Extent
<1>6. u.mem = [[s.mem EXCEPT ![n] = more] EXCEPT ![x] = [s.mem[x] EXCEPT !.inode = NULL]]
  BY <1>2, <1>4 DEF MapState
<1>7. /\ u.tree = s.tree /\ u.last = n /\ u.bug = s.bug
      /\ u.node = [i \in Inodes |-> IF i = owner THEN n ELSE s.node[i]]
      /\ u.strayed = (s.strayed \/ owner # NULL)
      /\ u.touched = (s.touched \/ (owner # NULL /\ owner \notin inuse))
  BY DEF MapState
<1>8. u.mem \in [Cells -> Extent] /\ u.node \in [Inodes -> Cells \cup {NULL}]
  <2>1. [s.mem[x] EXCEPT !.inode = NULL] \in Extent BY <1>3 DEF Extent
  <2> HIDE DEF u, owner
  <2>2. u.mem \in [Cells -> Extent] BY <1>2, <1>5, <1>6, <2>1
  <2>3. u.node \in [Inodes -> Cells \cup {NULL}] BY <1>2, <1>7
  <2> QED BY <2>2, <2>3
<1>13. u \in MapState
  <2>1. u = [mem |-> u.mem, tree |-> u.tree, last |-> u.last, node |-> u.node,
             touched |-> u.touched, bug |-> u.bug, strayed |-> u.strayed]
    <3> DEFINE s1 == [s EXCEPT !.mem[n].length = @ + s.mem[x].length]
               s2 == [s1 EXCEPT !.mem[x].inode = NULL]
               s3 == [s2 EXCEPT !.node = [i \in Inodes |-> IF i = owner THEN n ELSE @[i]]]
               s4 == [s3 EXCEPT !.last = n]
               s5 == [s4 EXCEPT !.strayed = @ \/ owner # NULL]
               s6 == [s5 EXCEPT !.touched = @ \/ (owner # NULL /\ owner \notin inuse)]
               Rec(r) == r = [mem |-> r.mem, tree |-> r.tree, last |-> r.last, node |-> r.node,
                              touched |-> r.touched, bug |-> r.bug, strayed |-> r.strayed]
    <3>0. u = s6 OBVIOUS
    <3> HIDE DEF u
    <3>1. Rec(s) BY DEF MapState
    <3>2. Rec(s1) BY <3>1
    <3> HIDE DEF s1
    <3>3. Rec(s2) BY <3>2
    <3> HIDE DEF s2
    <3>4. Rec(s3) BY <3>3
    <3> HIDE DEF s3
    <3>5. Rec(s4) BY <3>4
    <3> HIDE DEF s4
    <3>6. Rec(s5) BY <3>5
    <3> HIDE DEF s5
    <3>7. Rec(s6) BY <3>6
    <3> HIDE DEF s6
    <3> QED BY <3>0, <3>7
  <2> HIDE DEF u
  <2> QED BY <1>7, <1>8, <2>1 DEF MapState
<1> HIDE DEF u, t
<1>9. t.mem = [u.mem EXCEPT ![x] = NoExtent] BY <1>1 DEF Erase
<1>10. t.mem = [[s.mem EXCEPT ![n] = more] EXCEPT ![x] = NoExtent]
  <2> DEFINE m == [s.mem EXCEPT ![n] = more]
  <2>1. m \in [Cells -> Extent] BY <1>2, <1>5
  <2>2. u.mem = [m EXCEPT ![x] = [s.mem[x] EXCEPT !.inode = NULL]] BY <1>6
  <2> HIDE DEF m
  <2>3. t.mem = [m EXCEPT ![x] = NoExtent] BY <1>9, <2>1, <2>2
  <2> QED BY <2>3 DEF m
<1>11. NoExtent \in Extent BY DEF NoExtent, Extent
<1>12. t.mem \in [Cells -> Extent] BY <1>2, <1>5, <1>10, <1>11
<1>14. /\ t.tree = u.tree \ {x} /\ t.last = u.last /\ t.node = u.node /\ t.bug = u.bug
       /\ t.strayed = u.strayed /\ t.touched = u.touched
  BY <1>1, <1>13 DEF Erase, MapState
<1>15. t \in MapState
  <2>1. t = [mem |-> t.mem, tree |-> t.tree, last |-> t.last, node |-> t.node,
             touched |-> t.touched, bug |-> t.bug, strayed |-> t.strayed]
    BY <1>1, <1>13 DEF Erase, MapState
  <2> QED BY <1>12, <1>13, <1>14, <2>1 DEF MapState
<1>16. s.mem[x].inode = NULL => t.node = s.node
  <2>1. SUFFICES ASSUME owner = NULL PROVE t.node = s.node OBVIOUS
  <2>2. \A i \in Inodes : i # owner BY <1>0, <2>1
  <2> HIDE DEF owner
  <2> QED BY <1>2, <1>7, <1>14, <2>2
<1>17. /\ s.touched \in BOOLEAN /\ s.strayed \in BOOLEAN BY DEF MapState
<1> QED BY <1>4, <1>7, <1>10, <1>14, <1>15, <1>16, <1>17 DEF t
LEMMA BackMerges ==
    ASSUME NEW s \in MapState, Sound(s), NEW n, ~GoesOn
    PROVE  LET t == try_back_merge(s, n)
           IN  /\ t \in MapState /\ Sound(t) /\ SameSpace(s, t) /\ Follows(s, t)
               /\ t.tree \subseteq s.tree
               /\ \A o \in t.tree : Start(t, o) = Start(s, o)
               /\ n \in s.tree => n \in t.tree
<1> DEFINE x == rb_next(s, n)
           joins == /\ x # NULL /\ End(s.mem[n]) = s.mem[x].start
                    /\ s.mem[x].inode = NULL \/ s.mem[n].inode = NULL
<1>0. NULL \notin Cells /\ NULL \notin Inodes BY FatAssumption
<1>1. PICK t : t = try_back_merge(s, n) OBVIOUS
<1>2. CASE ~joins
  <2>1. t = s BY <1>1, <1>2 DEF try_back_merge
  <2> QED BY <1>1, <2>1 DEF SameSpace, Follows
<1>3. CASE joins
  <2>1. PICK y : y = rb_next(s, n) OBVIOUS
  <2>2. /\ n \in s.tree /\ y \in s.tree /\ y # n /\ n \in Cells /\ y \in Cells
        /\ Start(s, n) < Start(s, y)
    BY <1>3, <2>1, NextIsThere DEF MapState
  <2>3. PICK more : more = [s.mem[n] EXCEPT !.length = @ + s.mem[y].length] OBVIOUS
  <2>4. /\ t \in MapState /\ t.tree = s.tree \ {y}
        /\ t.mem = [[s.mem EXCEPT ![n] = more] EXCEPT ![y] = NoExtent]
        /\ s.mem[y].inode = NULL => t.node = s.node /\ t.strayed = s.strayed
        /\ s.mem[y].inode # NULL => t.strayed
        /\ s.touched => t.touched
        /\ s.strayed => t.strayed
    BY <1>1, <1>3, <2>1, <2>2, <2>3, Joined
  <2>5. s.mem \in [Cells -> Extent] /\ s.tree \subseteq Cells BY DEF MapState
  <2>6. s.mem[n] \in Extent /\ s.mem[y] \in Extent BY <2>2, <2>5
  <2>7. /\ t.mem[n] = more /\ more.start = s.mem[n].start /\ more.inode = s.mem[n].inode
        /\ more.length = s.mem[n].length + s.mem[y].length
    BY <2>2, <2>3, <2>4, <2>5, <2>6 DEF Extent
  <2>8. \A o \in t.tree : o # n => t.mem[o] = s.mem[o] BY <2>2, <2>4, <2>5
  <2>9. n \in t.tree BY <2>2, <2>4
  <2>10. /\ Start(t, n) = Start(s, n) /\ Behind(t, n) = Behind(s, y)
         /\ Behind(s, n) = Start(s, y)
    BY <1>3, <2>1, <2>6, <2>7 DEF Start, Behind, Extent, End
  <2>11. \A o \in t.tree : o # n => Start(t, o) = Start(s, o) /\ Behind(t, o) = Behind(s, o)
    BY <2>8 DEF Start, Behind
  <2>12. Sound(t)
    <3>1. \A o \in s.tree : /\ Start(s, o) \in Nat /\ s.mem[o].length \in Nat \ {0}
                            /\ Behind(s, o) = Start(s, o) + s.mem[o].length
      BY DEF Sound, Behind, Start
    <3>2. t.mem[n].length \in Nat \ {0} BY <2>2, <2>7, <3>1
    <3>3. \A o \in t.tree : Start(t, o) \in Nat /\ t.mem[o].length \in Nat \ {0}
      BY <2>2, <2>4, <2>8, <2>10, <2>11, <3>1, <3>2
    <3>4. ASSUME NEW o \in t.tree, o # n
          PROVE  Behind(t, n) <= Start(t, o) \/ Behind(t, o) <= Start(t, n)
      <4>1. o \in s.tree /\ o # y BY <2>4
      <4>2. Behind(s, n) <= Start(s, o) \/ Behind(s, o) <= Start(s, n) BY <2>2, <3>4, <4>1 DEF Sound
      <4>3. Behind(s, y) <= Start(s, o) \/ Behind(s, o) <= Start(s, y) BY <2>2, <4>1 DEF Sound
      <4> QED BY <2>2, <2>10, <2>11, <3>1, <3>4, <4>1, <4>2, <4>3
    <3>5. ASSUME NEW o \in t.tree, NEW p \in t.tree, o # p, o # n, p # n
          PROVE  Behind(t, o) <= Start(t, p) \/ Behind(t, p) <= Start(t, o)
      <4>1. o \in s.tree /\ p \in s.tree BY <2>4
      <4>2. Behind(s, o) <= Start(s, p) \/ Behind(s, p) <= Start(s, o) BY <3>5, <4>1 DEF Sound
      <4> QED BY <2>11, <3>5, <4>2
    <3>6. ASSUME NEW o \in t.tree, NEW p \in t.tree, o # p
          PROVE  Behind(t, o) <= Start(t, p) \/ Behind(t, p) <= Start(t, o)
      <4>1. CASE o = n BY <3>4, <3>6, <4>1
      <4>2. CASE p = n BY <3>4, <3>6, <4>2
      <4>3. CASE o # n /\ p # n BY <3>5, <3>6, <4>3
      <4> QED BY <4>1, <4>2, <4>3
    <3> QED BY <3>3, <3>6 DEF Sound
  <2>13. SameSpace(s, t)
    <3> SUFFICES ASSUME NEW c \in Int PROVE Has(t, c) <=> Has(s, c) BY DEF SameSpace
    <3>1. /\ Start(s, n) \in Nat /\ Start(s, y) \in Nat
          /\ Behind(s, n) \in Nat /\ Behind(s, y) \in Nat
          /\ Start(s, y) < Behind(s, y)
      BY <2>2 DEF Sound, Start, Behind
    <3>2. Start(t, n) <= c /\ c < Behind(t, n)
            <=> \/ Start(s, n) <= c /\ c < Behind(s, n)
                \/ Start(s, y) <= c /\ c < Behind(s, y)
      BY <2>2, <2>10, <3>1
    <3>3. ASSUME Has(t, c) PROVE Has(s, c)
      <4>1. PICK o \in t.tree : Start(t, o) <= c /\ c < Behind(t, o) BY <3>3 DEF Has, In
      <4>2. CASE o = n BY <2>2, <3>2, <4>1, <4>2 DEF Has, In
      <4>3. CASE o # n BY <2>4, <2>11, <4>1, <4>3 DEF Has, In
      <4> QED BY <4>2, <4>3
    <3>4. ASSUME Has(s, c) PROVE Has(t, c)
      <4>1. PICK o \in s.tree : Start(s, o) <= c /\ c < Behind(s, o) BY <3>4 DEF Has, In
      <4>2. CASE o \in {n, y} BY <2>9, <3>2, <4>1, <4>2 DEF Has, In
      <4>3. CASE o \notin {n, y} BY <2>4, <2>11, <4>1, <4>3 DEF Has, In
      <4> QED BY <4>2, <4>3
    <3> QED BY <3>3, <3>4
  <2>14. Follows(s, t)
    <3>1. ASSUME Mutual(s), ~t.touched, ~t.strayed
          PROVE  /\ Mutual(t) /\ t.node = s.node
                 /\ \A i \in Inodes : s.node[i] # NULL => Start(t, s.node[i]) = Start(s, s.node[i])
      <4>1. s.mem[y].inode = NULL /\ t.node = s.node BY <2>4, <3>1
      <4>2. ASSUME NEW i \in Inodes, s.node[i] # NULL PROVE s.node[i] # y /\ s.node[i] \in s.tree
        BY <1>0, <3>1, <4>1, <4>2 DEF Mutual
      <4>3. \A o \in t.tree : t.mem[o].inode = s.mem[o].inode BY <2>7, <2>8
      <4>4. ASSUME NEW i \in Inodes, t.node[i] # NULL
            PROVE  t.node[i] \in t.tree /\ t.mem[t.node[i]].inode = i /\ i \notin Dirs
        BY <2>4, <3>1, <4>1, <4>2, <4>3, <4>4 DEF Mutual
      <4>5. ASSUME NEW o \in t.tree, t.mem[o].inode # NULL PROVE t.node[t.mem[o].inode] = o
        BY <2>4, <3>1, <4>1, <4>3, <4>5 DEF Mutual
      <4>6. ASSUME NEW i \in Inodes, s.node[i] # NULL
            PROVE  Start(t, s.node[i]) = Start(s, s.node[i])
        BY <2>4, <2>10, <2>11, <4>2, <4>6
      <4> QED BY <4>1, <4>4, <4>5, <4>6 DEF Mutual
    <3> QED BY <2>4, <3>1 DEF Follows
  <2> QED BY <1>1, <2>4, <2>9, <2>10, <2>11, <2>12, <2>13, <2>14
<1> QED BY <1>1, <1>2, <1>3

LEMMA LastMoves ==
    ASSUME NEW s \in MapState, NEW n \in Cells, Sound(s)
    PROVE  LET t == [s EXCEPT !.last = n]
           IN  /\ t \in MapState /\ Sound(t) /\ SameSpace(s, t) /\ Follows(s, t)
               /\ t.tree = s.tree /\ t.mem = s.mem /\ t.node = s.node
               /\ t.touched = s.touched /\ t.strayed = s.strayed
<1> DEFINE t == [s EXCEPT !.last = n]
<1>1. /\ t.tree = s.tree /\ t.mem = s.mem /\ t.node = s.node
      /\ t.touched = s.touched /\ t.strayed = s.strayed /\ t \in MapState
  BY DEF MapState
<1> HIDE DEF t
<1>2. Sound(t) BY <1>1 DEF Sound, Start, Behind
<1>3. SameSpace(s, t) BY <1>1 DEF SameSpace, Has, In, Start, Behind
<1>4. Follows(s, t) BY <1>1 DEF Follows, Mutual, Start
<1> QED BY <1>1, <1>2, <1>3, <1>4 DEF t

LEMMA FollowsOn ==
    ASSUME NEW s \in MapState, NEW t \in MapState, NEW u \in MapState,
           Follows(s, t), Follows(t, u)
    PROVE  Follows(s, u)
<1>1. ASSUME Mutual(s), ~u.touched, ~u.strayed
      PROVE  /\ Mutual(u) /\ u.node = s.node
             /\ \A i \in Inodes : s.node[i] # NULL => Start(u, s.node[i]) = Start(s, s.node[i])
  <2>1. ~t.touched /\ ~t.strayed BY <1>1 DEF Follows
  <2>2. /\ Mutual(t) /\ t.node = s.node
        /\ \A i \in Inodes : s.node[i] # NULL => Start(t, s.node[i]) = Start(s, s.node[i])
    BY <1>1, <2>1 DEF Follows
  <2>3. /\ Mutual(u) /\ u.node = t.node
        /\ \A i \in Inodes : t.node[i] # NULL => Start(u, t.node[i]) = Start(t, t.node[i])
    BY <1>1, <2>2 DEF Follows
  <2> QED BY <2>2, <2>3
<1>2. (s.touched => u.touched) /\ (s.strayed => u.strayed) BY DEF Follows
<1> QED BY <1>1, <1>2 DEF Follows

LEMMA FrontMerges ==
    ASSUME NEW s \in MapState, Sound(s), NEW n \in Cells, ~GoesOn
    PROVE  LET t == try_front_merge(s, n)
           IN  t \in MapState /\ Sound(t) /\ SameSpace(s, t) /\ Follows(s, t)
<1> DEFINE u == [s EXCEPT !.last = n]
           t == try_back_merge(u, rb_prev(s, n))
<1>1. u \in MapState /\ Sound(u) /\ SameSpace(s, u) /\ Follows(s, u) BY LastMoves
<1> HIDE DEF u
<1>2. t \in MapState /\ Sound(t) /\ SameSpace(u, t) /\ Follows(u, t) BY <1>1, BackMerges
<1>3. try_front_merge(s, n) = t BY DEF try_front_merge, u
<1> HIDE DEF t
<1>4. Follows(s, t) BY <1>1, <1>2, FollowsOn
<1>5. SameSpace(s, t) BY <1>1, <1>2 DEF SameSpace
<1> QED BY <1>2, <1>3, <1>4, <1>5

(* One extent is changed, comes or goes.                                   *)
LEMMA OneChanged ==
    ASSUME NEW s \in MapState, Sound(s), NEW w \in MapState, NEW n,
           w.tree \ {n} = s.tree \ {n}, \A o \in s.tree \ {n} : w.mem[o] = s.mem[o],
           n \in w.tree =>
               /\ Start(w, n) \in Nat /\ w.mem[n].length \in Nat \ {0}
               /\ \A o \in s.tree \ {n} :
                      Behind(w, n) <= Start(s, o) \/ Behind(s, o) <= Start(w, n)
    PROVE  /\ Sound(w)
           /\ \A c \in Int : Has(w, c) <=> HasBut(s, n, c) \/ (n \in w.tree /\ In(w, n, c))
<1>1. \A o \in s.tree \ {n} : Start(w, o) = Start(s, o) /\ Behind(w, o) = Behind(s, o)
  BY DEF Start, Behind
<1>2. \A o \in w.tree : Start(w, o) \in Nat /\ w.mem[o].length \in Nat \ {0}
  BY <1>1 DEF Sound
<1>3. ASSUME NEW o \in w.tree, NEW p \in w.tree, o # p
      PROVE  Behind(w, o) <= Start(w, p) \/ Behind(w, p) <= Start(w, o)
  <2>1. CASE o = n BY <1>1, <1>3, <2>1
  <2>2. CASE p = n BY <1>1, <1>3, <2>2
  <2>3. CASE o # n /\ p # n
    <3>1. o \in s.tree \ {n} /\ p \in s.tree \ {n} BY <2>3
    <3>2. Behind(s, o) <= Start(s, p) \/ Behind(s, p) <= Start(s, o) BY <1>3, <3>1 DEF Sound
    <3> QED BY <1>1, <3>1, <3>2
  <2> QED BY <2>1, <2>2, <2>3
<1>4. Sound(w) BY <1>2, <1>3 DEF Sound
<1>5. ASSUME NEW c \in Int
      PROVE  Has(w, c) <=> HasBut(s, n, c) \/ (n \in w.tree /\ In(w, n, c))
  <2>1. HasBut(w, n, c) <=> HasBut(s, n, c) BY <1>1 DEF HasBut, In
  <2>2. Has(w, c) <=> HasBut(w, n, c) \/ (n \in w.tree /\ In(w, n, c)) BY DEF Has, HasBut
  <2> QED BY <2>1, <2>2
<1> QED BY <1>4, <1>5

LEMMA Parts ==
    ASSUME NEW s \in MapState, Sound(s), NEW n, NEW c \in Int
    PROVE  /\ Has(s, c) <=> HasBut(s, n, c) \/ (n \in s.tree /\ In(s, n, c))
           /\ ~(HasBut(s, n, c) /\ n \in s.tree /\ In(s, n, c))
<1>1. Has(s, c) <=> HasBut(s, n, c) \/ (n \in s.tree /\ In(s, n, c)) BY DEF Has, HasBut
<1>2. ASSUME NEW o \in s.tree, o # n, In(s, o, c), n \in s.tree, In(s, n, c) PROVE FALSE
  <2>1. Behind(s, o) <= Start(s, n) \/ Behind(s, n) <= Start(s, o) BY <1>2 DEF Sound
  <2>2. /\ Start(s, o) \in Nat /\ Start(s, n) \in Nat
        /\ s.mem[n].length \in Nat /\ s.mem[o].length \in Nat
    BY <1>2 DEF Sound
  <2>3. Behind(s, o) \in Nat /\ Behind(s, n) \in Nat BY <2>2 DEF Behind, Start
  <2> QED BY <1>2, <2>1, <2>2, <2>3 DEF In
<1> QED BY <1>1, <1>2 DEF HasBut

IsClear(s, o, b, k) == \A c \in b .. b + k - 1 : ~In(s, o, c)
LEMMA Apart ==
    ASSUME NEW s \in MapState, Sound(s), NEW o \in s.tree, NEW b \in Int, NEW k \in Nat \ {0},
           IsClear(s, o, b, k)
    PROVE  b + k <= Start(s, o) \/ Behind(s, o) <= b
<1>0. \A c \in b .. b + k - 1 : ~In(s, o, c) BY DEF IsClear
<1>1. /\ Start(s, o) \in Nat /\ Behind(s, o) \in Nat /\ Start(s, o) < Behind(s, o)
  BY DEF Sound, Start, Behind
<1>2. SUFFICES ASSUME Start(s, o) < b + k, b < Behind(s, o) PROVE FALSE BY <1>1
<1>3. CASE b <= Start(s, o)
  <2>1. Start(s, o) \in b .. b + k - 1 BY <1>1, <1>2, <1>3
  <2> QED BY <1>0, <1>1, <2>1 DEF In
<1>4. CASE Start(s, o) < b
  <2>1. b \in b .. b + k - 1 OBVIOUS
  <2> QED BY <1>0, <1>1, <1>2, <1>4, <2>1 DEF In
<1> QED BY <1>1, <1>3, <1>4

LEMMA TouchKeeps ==
    ASSUME NEW s \in MapState, NEW n
    PROVE  LET t == Touch(s, n)
           IN  /\ t \in MapState /\ t.mem = s.mem /\ t.tree = s.tree /\ t.node = s.node
               /\ t.last = s.last /\ t.strayed = s.strayed /\ t.bug = s.bug
               /\ t.touched = (s.touched \/ n \notin s.tree)
<1> DEFINE t == Touch(s, n)
<1>1. t.touched = (s.touched \/ n \notin s.tree) BY DEF Touch, MapState
<1>2. /\ t.mem = s.mem /\ t.tree = s.tree /\ t.node = s.node
      /\ t.last = s.last /\ t.strayed = s.strayed /\ t.bug = s.bug
  BY DEF Touch, MapState
<1>3. t = [s EXCEPT !.touched = s.touched \/ n \notin s.tree] BY DEF Touch
<1>4. (s.touched \/ n \notin s.tree) \in BOOLEAN OBVIOUS
<1>5. t \in MapState BY <1>3, <1>4 DEF MapState
<1> QED BY <1>1, <1>2, <1>5

LEMMA MemChanges ==
    ASSUME NEW s \in MapState, NEW n \in Cells, NEW e \in Extent
    PROVE  LET t == [s EXCEPT !.mem[n] = e]
           IN  /\ t \in MapState /\ t.mem = [s.mem EXCEPT ![n] = e] /\ t.tree = s.tree
               /\ t.node = s.node /\ t.last = s.last /\ t.strayed = s.strayed
               /\ t.bug = s.bug /\ t.touched = s.touched
<1>1. [s.mem EXCEPT ![n] = e] \in [Cells -> Extent] BY DEF MapState
<1>2. PICK m : m = [s.mem EXCEPT ![n] = e] OBVIOUS
<1>3. [s EXCEPT !.mem[n] = e] = [s EXCEPT !.mem = m] BY <1>2
<1>4. [s EXCEPT !.mem = m] \in MapState BY <1>1, <1>2 DEF MapState
<1> QED BY <1>2, <1>3, <1>4 DEF MapState

LEMMA MergeIsExtent ==
    ASSUME NEW e \in Extent, NEW b \in Int, NEW k \in Nat \ {0}
    PROVE  LET m == blocks_mamager_try_merge(e, b, k)
           IN  /\ m \in Extent /\ m.inode = e.inode
               /\ e.length > 0 /\ b = End(e) => m.start = e.start /\ m.length = e.length + k
               /\ b # End(e) /\ b + k = e.start => m.start = b /\ m.length = e.length + k
<1> DEFINE m == blocks_mamager_try_merge(e, b, k)
           longer == [e EXCEPT !.length = @ + k]
           front == [e EXCEPT !.start = @ - k, !.length = @ + k]
<1>1. e.start \in Int /\ e.length \in Int /\ End(e) \in Int BY DEF Extent, End
<1>2. longer \in Extent /\ longer.inode = e.inode /\ longer.start = e.start
      /\ longer.length = e.length + k
  BY DEF Extent
<1>3. front \in Extent /\ front.inode = e.inode /\ front.start = e.start - k
      /\ front.length = e.length + k
  <2> DEFINE moved == [e EXCEPT !.start = @ - k]
  <2>2. moved = [start |-> e.start - k, length |-> e.length, inode |-> e.inode] BY DEF Extent
  <2>3. front = [moved EXCEPT !.length = @ + k] OBVIOUS
  <2> HIDE DEF front, moved
  <2>1. front = [start |-> e.start - k, length |-> e.length + k, inode |-> e.inode]
    BY <2>2, <2>3
  <2> QED BY <1>1, <2>1 DEF Extent
<1>4. m = CASE b = End(e) -> longer [] b + k = e.start -> front [] OTHER -> e
  BY DEF blocks_mamager_try_merge
<1> HIDE DEF m, longer, front
<1>5. e.length > 0 /\ b = End(e) => b + k # e.start BY <1>1 DEF End
<1>6. b = End(e) /\ b + k # e.start => m = longer BY <1>4
<1>7. b # End(e) /\ b + k = e.start => m = front BY <1>4
<1>8. m \in {longer, front, e} BY <1>4
<1>9. m \in Extent /\ m.inode = e.inode BY <1>2, <1>3, <1>8
<1>10. b + k = e.start => e.start - k = b BY <1>1
<1> QED BY <1>2, <1>3, <1>5, <1>6, <1>7, <1>9, <1>10 DEF m

LEMMA MergedIsExtent ==
    ASSUME NEW e \in Extent, NEW b \in Int, NEW k \in Nat \ {0}
    PROVE  blocks_mamager_try_merge(e, b, k) \in Extent
BY MergeIsExtent

(* The blocks join an extent of the tree.                                  *)
LEMMA Grown ==
    ASSUME NEW s \in MapState, Sound(s), NEW b \in Nat, NEW k \in Nat \ {0},
           \A c \in b .. b + k - 1 : ~Has(s, c), NEW n \in s.tree, Takes(s.mem[n], b, k),
           NEW w \in MapState, w.tree = s.tree, w.node = s.node,
           w.mem = [s.mem EXCEPT ![n] = blocks_mamager_try_merge(s.mem[n], b, k)],
           w.touched = s.touched, w.strayed = s.strayed
    PROVE  /\ Sound(w) /\ FollowsTo(s, w, b + k)
           /\ \A c \in Int : Has(w, c) <=> Has(s, c) \/ c \in b .. b + k - 1
<1> DEFINE e == s.mem[n]
           m == blocks_mamager_try_merge(e, b, k)
<1>1. /\ n \in Cells /\ e \in Extent /\ s.mem \in [Cells -> Extent] /\ e.start \in Nat
      /\ e.length \in Nat \ {0}
  BY DEF MapState, Sound, Start
<1>2. Start(s, n) = e.start /\ Behind(s, n) = End(e) /\ End(e) = e.start + e.length
  BY DEF Start, Behind, End
<1>3. ~In(s, n, b) /\ ~In(s, n, b + k - 1)
  <2>1. b \in b .. b + k - 1 /\ b + k - 1 \in b .. b + k - 1 OBVIOUS
  <2> QED BY <2>1 DEF Has
<1>4. b # e.start BY <1>1, <1>2, <1>3 DEF In
<1>5. b = End(e) \/ (b # End(e) /\ b + k = e.start) BY <1>1, <1>2, <1>4 DEF Takes
<1>6. /\ m \in Extent /\ m.inode = e.inode /\ m.length = e.length + k
      /\ \/ b = End(e) /\ m.start = e.start
         \/ b + k = e.start /\ m.start = b
  BY <1>1, <1>5, MergeIsExtent
<1> HIDE DEF e, m
<1>7. w.mem[n] = m /\ \A o \in Cells : o # n => w.mem[o] = s.mem[o] BY <1>1 DEF m, e
<1>8. Start(w, n) = m.start /\ Behind(w, n) = m.start + m.length BY <1>7 DEF Start, Behind
<1>9. Start(w, n) \in Nat /\ w.mem[n].length \in Nat \ {0} BY <1>1, <1>6, <1>7, <1>8
<1>10. ASSUME NEW o \in s.tree \ {n}
       PROVE  Behind(w, n) <= Start(s, o) \/ Behind(s, o) <= Start(w, n)
  <2>1. b + k <= Start(s, o) \/ Behind(s, o) <= b
    <3>1. \A c \in b .. b + k - 1 : ~In(s, o, c) BY DEF Has
    <3>2. o \in s.tree /\ b \in Int /\ IsClear(s, o, b, k) BY <3>1 DEF IsClear
    <3> HIDE DEF e, m
    <3> QED BY <3>2, Apart
  <2>2. Behind(s, n) <= Start(s, o) \/ Behind(s, o) <= Start(s, n) BY DEF Sound
  <2>3. Start(s, o) \in Nat /\ Behind(s, o) \in Nat /\ Start(s, o) < Behind(s, o)
    BY DEF Sound, Start, Behind
  <2> QED BY <1>1, <1>2, <1>6, <1>8, <2>1, <2>2, <2>3
<1>11. \A o \in s.tree \ {n} : w.mem[o] = s.mem[o] BY <1>7 DEF MapState
<1>12. /\ Sound(w)
       /\ \A c \in Int : Has(w, c) <=> HasBut(s, n, c) \/ (n \in w.tree /\ In(w, n, c))
  BY <1>9, <1>10, <1>11, OneChanged
<1>13. ASSUME NEW c \in Int PROVE Has(w, c) <=> Has(s, c) \/ c \in b .. b + k - 1
  <2>1. In(w, n, c) <=> In(s, n, c) \/ c \in b .. b + k - 1
    BY <1>1, <1>2, <1>6, <1>8 DEF In
  <2> QED BY <1>12, <2>1, Parts
<1>14. FollowsTo(s, w, b + k)
  <2>1. \A o \in s.tree : w.mem[o].inode = s.mem[o].inode BY <1>6, <1>7, <1>11 DEF e
  <2>2. Mutual(s) => Mutual(w)
    <3> SUFFICES ASSUME Mutual(s) PROVE Mutual(w) OBVIOUS
    <3>1. ASSUME NEW i \in Inodes, w.node[i] # NULL
          PROVE  w.node[i] \in w.tree /\ w.mem[w.node[i]].inode = i /\ i \notin Dirs
      BY <2>1, <3>1 DEF Mutual
    <3>2. ASSUME NEW o \in w.tree, w.mem[o].inode # NULL PROVE w.node[w.mem[o].inode] = o
      BY <2>1, <3>2 DEF Mutual
    <3> QED BY <3>1, <3>2 DEF Mutual
  <2>3. ASSUME NEW o \in s.tree
        PROVE  Start(w, o) = Start(s, o) \/ Start(s, o) = b + k
    BY <1>2, <1>6, <1>8, <1>11 DEF Start
  <2>4. Mutual(s) => \A i \in Inodes : s.node[i] # NULL =>
                        Start(w, s.node[i]) = Start(s, s.node[i]) \/ Start(s, s.node[i]) = b + k
    BY <2>3 DEF Mutual
  <2> QED BY <2>2, <2>4 DEF FollowsTo
<1> QED BY <1>12, <1>13, <1>14

(* The blocks become an extent of their own.                               *)
LEMMA MadeKeeps ==
    ASSUME NEW s \in MapState, Sound(s), NEW b \in Nat, NEW k \in Nat \ {0},
           \A d \in b .. b + k - 1 : ~Has(s, d), NEW c \in Cells \ s.tree
    PROVE  LET t == Made(s, c, b, k)
           IN  /\ t \in MapState /\ Sound(t) /\ Follows(s, t)
               /\ \A d \in Int : Has(t, d) <=> Has(s, d) \/ d \in b .. b + k - 1
               /\ t.tree = s.tree \cup {c} /\ t.node = s.node
               /\ t.touched = s.touched /\ t.strayed = s.strayed
               /\ t.mem[c] = [start |-> b, length |-> k, inode |-> NULL]
               /\ \A o \in s.tree : t.mem[o] = s.mem[o]
<1> DEFINE e == [start |-> b, length |-> k, inode |-> NULL]
           u == [s EXCEPT !.mem[c] = e]
           t == [u EXCEPT !.tree = @ \cup {c}]
<1>1. Made(s, c, b, k) = t BY DEF Made
<1>2. e \in Extent BY DEF Extent
<1>3. e.start = b /\ e.length = k /\ e.inode = NULL OBVIOUS
<1> HIDE DEF e
<1>4. /\ u \in MapState /\ u.mem = [s.mem EXCEPT ![c] = e] /\ u.tree = s.tree
      /\ u.node = s.node /\ u.strayed = s.strayed /\ u.touched = s.touched
  BY <1>2, MemChanges
<1> HIDE DEF u
<1>5. /\ t \in MapState /\ t.mem = u.mem /\ t.tree = s.tree \cup {c}
      /\ t.node = s.node /\ t.strayed = s.strayed /\ t.touched = s.touched
  BY <1>4 DEF MapState
<1> HIDE DEF t
<1>6. t.mem[c] = e /\ \A o \in s.tree : t.mem[o] = s.mem[o] BY <1>4, <1>5 DEF MapState
<1>7. Start(t, c) = b /\ Behind(t, c) = b + k BY <1>3, <1>6 DEF Start, Behind
<1>8. ASSUME NEW o \in s.tree PROVE b + k <= Start(s, o) \/ Behind(s, o) <= b
  <2>1. \A d \in b .. b + k - 1 : ~In(s, o, d) BY DEF Has
  <2>2. b \in Int /\ IsClear(s, o, b, k) BY <2>1 DEF IsClear
  <2> QED BY <2>2, Apart
<1>9. /\ Sound(t)
      /\ \A d \in Int : Has(t, d) <=> HasBut(s, c, d) \/ (c \in t.tree /\ In(t, c, d))
  <2>1. t.tree \ {c} = s.tree \ {c} BY <1>5
  <2>2. \A o \in s.tree \ {c} : t.mem[o] = s.mem[o] BY <1>6
  <2>3. Start(t, c) \in Nat /\ t.mem[c].length \in Nat \ {0} BY <1>3, <1>6, <1>7
  <2>4. \A o \in s.tree \ {c} : Behind(t, c) <= Start(s, o) \/ Behind(s, o) <= Start(t, c)
    BY <1>7, <1>8
  <2> QED BY <1>5, <2>1, <2>2, <2>3, <2>4, OneChanged
<1>10. ASSUME NEW d \in Int PROVE Has(t, d) <=> Has(s, d) \/ d \in b .. b + k - 1
  <2>1. In(t, c, d) <=> d \in b .. b + k - 1 BY <1>7 DEF In
  <2>2. HasBut(s, c, d) <=> Has(s, d) BY DEF HasBut, Has
  <2> QED BY <1>5, <1>9, <2>1, <2>2
<1>11. Follows(s, t)
  <2>1. Mutual(s) => Mutual(t)
    <3> SUFFICES ASSUME Mutual(s) PROVE Mutual(t) OBVIOUS
    <3>1. ASSUME NEW i \in Inodes, t.node[i] # NULL
          PROVE  t.node[i] \in t.tree /\ t.mem[t.node[i]].inode = i /\ i \notin Dirs
      BY <1>5, <1>6, <3>1 DEF Mutual
    <3>2. ASSUME NEW o \in t.tree, t.mem[o].inode # NULL PROVE t.node[t.mem[o].inode] = o
      BY <1>3, <1>5, <1>6, <3>2 DEF Mutual
    <3> QED BY <3>1, <3>2 DEF Mutual
  <2>2. \A o \in s.tree : Start(t, o) = Start(s, o) BY <1>6 DEF Start
  <2> QED BY <1>5, <2>1, <2>2 DEF Follows, Mutual
<1> QED BY <1>1, <1>5, <1>6, <1>9, <1>10, <1>11 DEF e

LEMMA BlocksAreFreed ==
    ASSUME NEW s \in MapState, Sound(s), NEW b \in Nat, NEW k \in Nat \ {0}, ~GoesOn,
           \A c \in b .. b + k - 1 : ~Has(s, c), NEW r \in blocks_mamager_free_blocks(s, b, k)
    PROVE  /\ r.kept \in BOOLEAN /\ r.map \in MapState /\ Sound(r.map)
           /\ FollowsTo(s, r.map, b + k)
           /\ ~r.map.touched =>
                 \A c \in Int : Has(r.map, c) <=> Has(s, c) \/ (r.kept /\ c \in b .. b + k - 1)
<1> DEFINE u == IF s.last = NULL THEN s ELSE Touch(s, s.last)
           merged == IF s.last # NULL /\ Takes(s.mem[s.last], b, k) THEN {s.last}
                     ELSE {n \in s.tree : Takes(s.mem[n], b, k)}
           With(n) == [u EXCEPT !.mem[n] = blocks_mamager_try_merge(@, b, k)]
           Into(n) == IF With(n).mem[n].start = b THEN try_front_merge(With(n), n)
                                                  ELSE try_back_merge(With(n), n)
<1>1. /\ u \in MapState /\ u.mem = s.mem /\ u.tree = s.tree /\ u.node = s.node
      /\ u.strayed = s.strayed /\ (s.touched => u.touched)
      /\ (s.last # NULL /\ s.last \notin s.tree => u.touched)
  BY TouchKeeps
<1>2. \/ \E n \in merged : r = [map |-> Into(n), kept |-> TRUE]
      \/ \E c \in Cells \ s.tree : r = [map |-> Made(u, c, b, k), kept |-> TRUE]
      \/ r = [map |-> u, kept |-> FALSE]
  BY DEF blocks_mamager_free_blocks
<1>3. ASSUME NEW n \in merged
      PROVE  n \in Cells /\ Takes(s.mem[n], b, k) /\ (n \notin s.tree => u.touched)
  BY <1>1, <1>3 DEF MapState
<1> HIDE DEF u, merged
<1>4. Sound(u) /\ \A c \in Int : Has(u, c) <=> Has(s, c)
  BY <1>1 DEF Sound, Start, Behind, Has, In
<1>5. Mutual(s) => Mutual(u) BY <1>1 DEF Mutual
<1>6. CASE \E n \in merged : r = [map |-> Into(n), kept |-> TRUE]
  <2>1. PICK n \in merged : r = [map |-> Into(n), kept |-> TRUE] BY <1>6
  <2>2. PICK w : w = With(n) OBVIOUS
  <2>3. /\ w \in MapState /\ w.tree = s.tree /\ w.node = s.node
        /\ w.mem = [s.mem EXCEPT ![n] = blocks_mamager_try_merge(s.mem[n], b, k)]
        /\ w.touched = u.touched /\ w.strayed = u.strayed
    <3>1. n \in Cells /\ u.mem[n] \in Extent BY <1>1, <1>3 DEF MapState
    <3>2. PICK e : e = u.mem[n] OBVIOUS
    <3>4. e \in Extent /\ b \in Int BY <3>1, <3>2
    <3>5. blocks_mamager_try_merge(e, b, k) \in Extent BY <3>4, MergedIsExtent
    <3>6. blocks_mamager_try_merge(u.mem[n], b, k) \in Extent BY <3>2, <3>5
    <3>3. w = [u EXCEPT !.mem[n] = blocks_mamager_try_merge(u.mem[n], b, k)] BY <2>2
    <3> QED BY <1>1, <3>1, <3>6, <3>3, MemChanges
  <2>4. r.kept = TRUE /\ r.map \in {try_front_merge(w, n), try_back_merge(w, n)} BY <2>1, <2>2
  <2>5. ASSUME Sound(w)
        PROVE  r.map \in MapState /\ Sound(r.map) /\ SameSpace(w, r.map) /\ Follows(w, r.map)
    <3>1. n \in Cells BY <1>3
    <3> QED BY <2>3, <2>4, <2>5, <3>1, FrontMerges, BackMerges
  <2>6. CASE n \notin s.tree
    <3>1. \A o \in s.tree : w.mem[o] = s.mem[o] BY <2>3, <2>6 DEF MapState
    <3>2. Sound(w) BY <2>3, <3>1 DEF Sound, Start, Behind
    <3>3. r.map.touched BY <1>3, <2>3, <2>5, <2>6, <3>2 DEF Follows
    <3>4. s.strayed => r.map.strayed BY <1>1, <2>3, <2>5, <3>2 DEF Follows
    <3> QED BY <2>4, <2>5, <3>2, <3>3, <3>4 DEF FollowsTo
  <2>7. CASE n \in s.tree
    <3>1. /\ Sound(w) /\ FollowsTo(u, w, b + k)
          /\ \A c \in Int : Has(w, c) <=> Has(u, c) \/ c \in b .. b + k - 1
      <4>1. \A c \in b .. b + k - 1 : ~Has(u, c) BY <1>4
      <4>2. Takes(u.mem[n], b, k) /\ n \in u.tree BY <1>1, <1>3, <2>7
      <4>3. /\ w.tree = u.tree /\ w.node = u.node
            /\ w.mem = [u.mem EXCEPT ![n] = blocks_mamager_try_merge(u.mem[n], b, k)]
        BY <1>1, <2>3
      <4> QED BY <1>1, <1>4, <2>3, <4>1, <4>2, <4>3, Grown
    <3>2. FollowsTo(s, r.map, b + k)
      <4>1. (s.touched => r.map.touched) /\ (s.strayed => r.map.strayed)
        BY <1>1, <2>5, <3>1 DEF Follows, FollowsTo
      <4>2. ASSUME Mutual(s), ~r.map.touched, ~r.map.strayed
            PROVE  /\ Mutual(r.map) /\ r.map.node = s.node
                   /\ \A i \in Inodes : s.node[i] # NULL =>
                         \/ Start(r.map, s.node[i]) = Start(s, s.node[i])
                         \/ Start(s, s.node[i]) = b + k
        <5>1. Mutual(u) /\ ~w.touched /\ ~w.strayed BY <1>5, <2>5, <3>1, <4>2 DEF Follows
        <5>2. /\ Mutual(w) /\ w.node = u.node
              /\ \A i \in Inodes : u.node[i] # NULL =>
                    Start(w, u.node[i]) = Start(u, u.node[i]) \/ Start(u, u.node[i]) = b + k
          BY <3>1, <5>1 DEF FollowsTo
        <5>3. /\ Mutual(r.map) /\ r.map.node = w.node
              /\ \A i \in Inodes : w.node[i] # NULL => Start(r.map, w.node[i]) = Start(w, w.node[i])
          BY <2>5, <3>1, <4>2, <5>2 DEF Follows
        <5>4. u.node = s.node /\ \A o : Start(u, o) = Start(s, o) BY <1>1 DEF Start
        <5> QED BY <5>2, <5>3, <5>4
      <4> QED BY <4>1, <4>2 DEF FollowsTo
    <3> QED BY <1>4, <2>4, <2>5, <3>1, <3>2 DEF SameSpace
  <2> QED BY <2>6, <2>7
<1>7. CASE \E c \in Cells \ s.tree : r = [map |-> Made(u, c, b, k), kept |-> TRUE]
  <2>1. PICK c \in Cells \ s.tree : r = [map |-> Made(u, c, b, k), kept |-> TRUE] BY <1>7
  <2>2. r.kept = TRUE /\ r.map = Made(u, c, b, k) BY <2>1
  <2>3. /\ r.map \in MapState /\ Sound(r.map) /\ Follows(u, r.map)
        /\ \A d \in Int : Has(r.map, d) <=> Has(u, d) \/ d \in b .. b + k - 1
    <3>1. \A d \in b .. b + k - 1 : ~Has(u, d) BY <1>4
    <3>2. c \in Cells \ u.tree BY <1>1
    <3>3. u \in MapState /\ Sound(u) BY <1>1, <1>4
    <3> DEFINE t == Made(u, c, b, k)
    <3>4. /\ t \in MapState /\ Sound(t) /\ Follows(u, t)
          /\ \A d \in Int : Has(t, d) <=> Has(u, d) \/ d \in b .. b + k - 1
      BY <3>1, <3>2, <3>3, MadeKeeps
    <3> QED BY <2>2, <3>4
  <2> QED BY <1>1, <1>4, <1>5, <2>2, <2>3 DEF Follows, FollowsTo, Start
<1>8. CASE r = [map |-> u, kept |-> FALSE]
  <2>1. r.kept = FALSE /\ r.map = u BY <1>8
  <2> QED BY <1>1, <1>4, <1>5, <2>1 DEF FollowsTo, Start
<1> QED BY <1>2, <1>6, <1>7, <1>8

LEMMA NodeChanges ==
    ASSUME NEW s \in MapState, NEW i \in Inodes, NEW n \in Cells \cup {NULL}
    PROVE  LET t == [s EXCEPT !.node[i] = n]
           IN  /\ t \in MapState /\ t.node = [s.node EXCEPT ![i] = n] /\ t.mem = s.mem
               /\ t.tree = s.tree /\ t.last = s.last /\ t.strayed = s.strayed
               /\ t.bug = s.bug /\ t.touched = s.touched
<1>1. [s.node EXCEPT ![i] = n] \in [Inodes -> Cells \cup {NULL}] BY DEF MapState
<1>2. PICK m : m = [s.node EXCEPT ![i] = n] OBVIOUS
<1>3. [s EXCEPT !.node[i] = n] = [s EXCEPT !.node = m] BY <1>2
<1>4. [s EXCEPT !.node = m] \in MapState BY <1>1, <1>2 DEF MapState
<1> QED BY <1>2, <1>3, <1>4 DEF MapState

(* Only the owner of an extent changes.                                    *)
LEMMA Renamed ==
    ASSUME NEW s \in MapState, Sound(s), NEW t \in MapState, NEW n \in Cells, t.tree = s.tree,
           NEW e \in Extent, t.mem = [s.mem EXCEPT ![n] = e],
           e.start = s.mem[n].start, e.length = s.mem[n].length
    PROVE  /\ Sound(t) /\ SameSpace(s, t)
           /\ \A o \in Cells : Start(t, o) = Start(s, o) /\ Behind(t, o) = Behind(s, o)
           /\ t.mem[n] = e /\ \A o \in Cells : o # n => t.mem[o] = s.mem[o]
<1>1. s.mem \in [Cells -> Extent] /\ s.tree \subseteq Cells BY DEF MapState
<1>2. t.mem[n] = e /\ \A o \in Cells : o # n => t.mem[o] = s.mem[o] BY <1>1
<1>3. \A o \in Cells : t.mem[o].start = s.mem[o].start /\ t.mem[o].length = s.mem[o].length
  BY <1>2
<1>4. \A o \in Cells : Start(t, o) = Start(s, o) /\ Behind(t, o) = Behind(s, o)
  BY <1>3 DEF Start, Behind
<1>5. Sound(t)
  <2>1. \A o \in t.tree : o \in Cells /\ o \in s.tree BY <1>1
  <2> QED BY <1>3, <1>4, <2>1 DEF Sound
<1>6. SameSpace(s, t) BY <1>1, <1>4 DEF SameSpace, Has, In
<1> QED BY <1>2, <1>4, <1>5, <1>6

(* What changes when inode i gets or loses an extent.                      *)
OthersStay(s, t, i) ==
    /\ (s.touched => t.touched) /\ (s.strayed => t.strayed)
    /\ Mutual(s) /\ ~t.touched /\ ~t.strayed =>
          /\ Mutual(t)
          /\ \A j \in Inodes \ {i} : t.node[j] = s.node[j]
          /\ \A j \in Inodes \ {i} : s.node[j] # NULL => Start(t, s.node[j]) = Start(s, s.node[j])

LetGo(s, n, i) == [Touch(s, n) EXCEPT !.mem[n].inode = NULL, !.node[i] = NULL]
LEMMA LetGoKeeps ==
    ASSUME NEW s \in MapState, Sound(s), NEW i \in Inodes, s.node[i] # NULL
    PROVE  LET t == LetGo(s, s.node[i], i)
           IN  /\ t \in MapState /\ Sound(t) /\ SameSpace(s, t) /\ OthersStay(s, t, i)
               /\ t.tree = s.tree /\ t.node[i] = NULL
<1>0. NULL \notin Cells /\ NULL \notin Inodes BY FatAssumption
<1>1. PICK n : n = s.node[i] OBVIOUS
<1>2. n \in Cells BY <1>1 DEF MapState
<1>3. PICK u : u = Touch(s, n) OBVIOUS
<1>4. /\ u \in MapState /\ u.mem = s.mem /\ u.tree = s.tree /\ u.node = s.node
      /\ u.strayed = s.strayed /\ u.touched = (s.touched \/ n \notin s.tree)
  BY <1>3, TouchKeeps
<1>5. PICK e : e = [u.mem[n] EXCEPT !.inode = NULL] OBVIOUS
<1>6. /\ e \in Extent /\ e.inode = NULL /\ e.start = s.mem[n].start /\ e.length = s.mem[n].length
  <2>1. s.mem[n] \in Extent BY <1>2 DEF MapState
  <2> QED BY <1>4, <1>5, <2>1 DEF Extent
<1>7. PICK w : w = [u EXCEPT !.mem[n] = e] OBVIOUS
<1>8. /\ w \in MapState /\ w.mem = [s.mem EXCEPT ![n] = e] /\ w.tree = s.tree
      /\ w.node = s.node /\ w.strayed = s.strayed /\ w.touched = u.touched
  BY <1>2, <1>4, <1>6, <1>7, MemChanges
<1>9. PICK t : t = [w EXCEPT !.node[i] = NULL] OBVIOUS
<1>10. LetGo(s, s.node[i], i) = t BY <1>1, <1>3, <1>5, <1>7, <1>9 DEF LetGo
<1>11. /\ t \in MapState /\ t.mem = w.mem /\ t.tree = s.tree
       /\ t.node = [s.node EXCEPT ![i] = NULL] /\ t.strayed = s.strayed /\ t.touched = u.touched
  BY <1>8, <1>9, NodeChanges
<1>12. /\ Sound(t) /\ SameSpace(s, t)
       /\ \A o \in Cells : Start(t, o) = Start(s, o)
       /\ t.mem[n] = e /\ \A o \in Cells : o # n => t.mem[o] = s.mem[o]
  <2>1. t.mem = [s.mem EXCEPT ![n] = e] BY <1>8, <1>11
  <2>2. t \in MapState /\ t.tree = s.tree BY <1>11
  <2>3. e \in Extent /\ e.start = s.mem[n].start /\ e.length = s.mem[n].length BY <1>6
  <2>4. Sound(t) /\ SameSpace(s, t) BY <1>2, <2>1, <2>2, <2>3, Renamed
  <2>5. \A o \in Cells : Start(t, o) = Start(s, o) BY <1>2, <2>1, <2>2, <2>3, Renamed
  <2>6. t.mem[n] = e /\ \A o \in Cells : o # n => t.mem[o] = s.mem[o]
    BY <1>2, <2>1 DEF MapState
  <2> QED BY <2>4, <2>5, <2>6
<1>13. /\ t.node[i] = NULL
       /\ \A j \in Inodes \ {i} : t.node[j] = s.node[j] /\ s.node[j] \in Cells \cup {NULL}
  BY <1>11 DEF MapState
<1>14. OthersStay(s, t, i)
  <2>1. Mutual(s) => Mutual(t)
    <3> SUFFICES ASSUME Mutual(s) PROVE Mutual(t) OBVIOUS
    <3>1. ASSUME NEW j \in Inodes, t.node[j] # NULL
          PROVE  t.node[j] \in t.tree /\ t.mem[t.node[j]].inode = j /\ j \notin Dirs
      <4>1. j # i /\ t.node[j] = s.node[j] BY <1>13, <3>1
      <4>2. s.node[j] # n BY <1>1, <3>1, <4>1 DEF Mutual
      <4> QED BY <1>11, <1>12, <1>13, <3>1, <4>1, <4>2 DEF Mutual
    <3>2. ASSUME NEW o \in t.tree, t.mem[o].inode # NULL PROVE t.node[t.mem[o].inode] = o
      <4>1. o # n /\ o \in Cells /\ o \in s.tree BY <1>6, <1>11, <1>12, <3>2 DEF MapState
      <4>2. t.mem[o] = s.mem[o] /\ s.mem[o].inode \in Inodes
        BY <1>12, <3>2, <4>1 DEF MapState, Extent
      <4>3. s.node[s.mem[o].inode] = o BY <3>2, <4>1, <4>2 DEF Mutual
      <4> QED BY <1>1, <1>13, <4>1, <4>2, <4>3
    <3> QED BY <3>1, <3>2 DEF Mutual
  <2> QED BY <1>4, <1>8, <1>11, <1>12, <1>13, <2>1 DEF OthersStay
<1> QED BY <1>10, <1>11, <1>12, <1>13, <1>14

Ours(s, n, i) == n \in s.tree /\ IF i \in Dirs THEN s.mem[n].inode = NULL ELSE s.node[i] = n
LEMMA ReserveKeeps ==
    ASSUME NEW s \in MapState, Sound(s), NEW n \in s.tree, NEW i \in Inodes,
           s.mem[n].inode = NULL, i \notin Dirs => s.node[i] = NULL
    PROVE  LET t == Reserve(s, n, i)
           IN  /\ t \in MapState /\ Sound(t) /\ SameSpace(s, t) /\ OthersStay(s, t, i)
               /\ Ours(t, n, i) /\ t.mem[n].start = s.mem[n].start
               /\ t.mem[n].length = s.mem[n].length
               /\ t.touched = s.touched /\ t.strayed = s.strayed
<1>0. NULL \notin Cells /\ NULL \notin Inodes BY FatAssumption
<1>1. n \in Cells /\ s.tree \subseteq Cells /\ s.mem[n] \in Extent BY DEF MapState
<1>2. CASE i \in Dirs
  <2>1. Reserve(s, n, i) = s BY <1>2 DEF Reserve
  <2>2. SameSpace(s, s) /\ OthersStay(s, s, i) BY DEF SameSpace, OthersStay
  <2> QED BY <1>2, <2>1, <2>2 DEF Ours
<1>3. CASE i \notin Dirs
  <2>1. PICK u : u = [s EXCEPT !.node[i] = n] OBVIOUS
  <2>2. /\ u \in MapState /\ u.node = [s.node EXCEPT ![i] = n] /\ u.mem = s.mem
        /\ u.tree = s.tree /\ u.strayed = s.strayed /\ u.touched = s.touched
    BY <1>1, <2>1, NodeChanges
  <2>3. PICK e : e = [u.mem[n] EXCEPT !.inode = i] OBVIOUS
  <2>4. e \in Extent /\ e.inode = i /\ e.start = s.mem[n].start /\ e.length = s.mem[n].length
    BY <1>1, <2>2, <2>3 DEF Extent
  <2>5. PICK t : t = [u EXCEPT !.mem[n] = e] OBVIOUS
  <2>6. Reserve(s, n, i) = t BY <1>3, <2>1, <2>3, <2>5 DEF Reserve
  <2>7. /\ t \in MapState /\ t.mem = [s.mem EXCEPT ![n] = e] /\ t.tree = s.tree
        /\ t.node = u.node /\ t.strayed = s.strayed /\ t.touched = s.touched
    BY <1>1, <2>2, <2>4, <2>5, MemChanges
  <2>8. Sound(t) /\ SameSpace(s, t) BY <1>1, <2>4, <2>7, Renamed
  <2>9. \A o \in Cells : Start(t, o) = Start(s, o) BY <1>1, <2>4, <2>7, Renamed
  <2>10. t.mem[n] = e /\ \A o \in Cells : o # n => t.mem[o] = s.mem[o]
    BY <1>1, <2>7 DEF MapState
  <2>11. /\ t.node[i] = n
         /\ \A j \in Inodes \ {i} : t.node[j] = s.node[j] /\ s.node[j] \in Cells \cup {NULL}
    BY <2>2, <2>7 DEF MapState
  <2>12. OthersStay(s, t, i)
    <3>1. Mutual(s) => Mutual(t)
      <4> SUFFICES ASSUME Mutual(s) PROVE Mutual(t) OBVIOUS
      <4>1. ASSUME NEW j \in Inodes, t.node[j] # NULL
            PROVE  t.node[j] \in t.tree /\ t.mem[t.node[j]].inode = j /\ j \notin Dirs
        <5>1. CASE j = i BY <1>3, <2>4, <2>7, <2>10, <2>11, <5>1
        <5>2. CASE j # i
          <6>1. s.node[j] \in s.tree /\ s.mem[s.node[j]].inode = j /\ j \notin Dirs
            BY <2>11, <4>1, <5>2 DEF Mutual
          <6> QED BY <1>0, <1>1, <2>7, <2>10, <2>11, <5>2, <6>1
        <5> QED BY <5>1, <5>2
      <4>2. ASSUME NEW o \in t.tree, t.mem[o].inode # NULL PROVE t.node[t.mem[o].inode] = o
        <5>1. CASE o = n BY <2>4, <2>10, <2>11, <5>1
        <5>2. CASE o # n
          <6>1. o \in s.tree /\ o \in Cells /\ t.mem[o] = s.mem[o] BY <1>1, <2>7, <2>10, <5>2
          <6>2. s.node[s.mem[o].inode] = o /\ s.mem[o].inode \in Inodes
            BY <4>2, <6>1 DEF Mutual, MapState, Extent
          <6>3. s.mem[o].inode # i BY <1>0, <1>3, <6>1, <6>2
          <6> QED BY <2>11, <6>1, <6>2, <6>3
        <5> QED BY <5>1, <5>2
      <4> QED BY <4>1, <4>2 DEF Mutual
    <3> QED BY <1>0, <2>7, <2>9, <2>11, <3>1 DEF OthersStay
  <2> QED BY <1>3, <2>4, <2>6, <2>7, <2>8, <2>10, <2>11, <2>12 DEF Ours
<1> QED BY <1>2, <1>3

LEMMA EraseIs ==
    ASSUME NEW s \in MapState, NEW n \in Cells, ~GoesOn
    PROVE  LET t == Erase(s, n)
           IN  /\ t \in MapState /\ t.tree = s.tree \ {n} /\ t.mem = [s.mem EXCEPT ![n] = NoExtent]
               /\ t.node = s.node /\ t.touched = s.touched /\ t.strayed = s.strayed
<1> DEFINE u == [s EXCEPT !.tree = @ \ {n}]
           t == Erase(s, n)
<1>1. u \in MapState /\ u.tree = s.tree \ {n} /\ u.mem = s.mem /\ u.node = s.node
      /\ u.touched = s.touched /\ u.strayed = s.strayed
  BY DEF MapState
<1>2. NoExtent \in Extent BY DEF NoExtent, Extent
<1>3. t = [u EXCEPT !.mem[n] = NoExtent] BY DEF Erase
<1> HIDE DEF t, u
<1>4. /\ t \in MapState /\ t.mem = [u.mem EXCEPT ![n] = NoExtent] /\ t.tree = u.tree
      /\ t.node = u.node /\ t.strayed = u.strayed /\ t.touched = u.touched
  BY <1>1, <1>2, <1>3, MemChanges
<1> QED BY <1>1, <1>4 DEF t

(* The fields when blocks are taken from the front.                        *)
IsPriv(s, n, i, k, t) ==
    /\ t \in MapState /\ t.strayed = s.strayed
    /\ t.touched = (s.touched \/ n \notin s.tree)
    /\ \A o \in Cells : o # n => t.mem[o] = s.mem[o]
    /\ s.mem[n].length > k =>
          /\ t.tree = s.tree /\ t.node = s.node /\ Start(t, n) = Start(s, n) + k
          /\ t.mem[n].length = s.mem[n].length - k /\ t.mem[n].inode = s.mem[n].inode
    /\ s.mem[n].length <= k => t.tree = s.tree \ {n} /\ t.node = [s.node EXCEPT ![i] = NULL]
LEMMA PrivIs ==
    ASSUME NEW s \in MapState, NEW n \in Cells, NEW i \in Inodes, NEW k \in Nat \ {0}, ~GoesOn
    PROVE  IsPriv(s, n, i, k, alloc_blocks_priv(s, n, i, k))
<1>1. PICK u : u = Touch(s, n) OBVIOUS
<1>2. /\ u \in MapState /\ u.mem = s.mem /\ u.tree = s.tree /\ u.node = s.node
      /\ u.strayed = s.strayed /\ u.touched = (s.touched \/ n \notin s.tree)
  BY <1>1, TouchKeeps
<1>3. s.mem \in [Cells -> Extent] /\ s.mem[n] \in Extent BY DEF MapState
<1>4. PICK e1 : e1 = [u.mem[n] EXCEPT !.start = @ + k] OBVIOUS
<1>5. /\ e1 \in Extent /\ e1.start = s.mem[n].start + k /\ e1.length = s.mem[n].length
      /\ e1.inode = s.mem[n].inode
  BY <1>2, <1>3, <1>4 DEF Extent
<1>6. PICK u1 : u1 = [u EXCEPT !.mem[n] = e1] OBVIOUS
<1>7. /\ u1 \in MapState /\ u1.mem = [s.mem EXCEPT ![n] = e1] /\ u1.tree = s.tree
      /\ u1.node = s.node /\ u1.strayed = s.strayed /\ u1.touched = u.touched
  BY <1>2, <1>5, <1>6, MemChanges
<1>8. u1.mem[n] = e1 /\ \A o \in Cells : o # n => u1.mem[o] = s.mem[o] BY <1>3, <1>7
<1>9. PICK e2 : e2 = [u1.mem[n] EXCEPT !.length = @ - k] OBVIOUS
<1>10. /\ e2 \in Extent /\ e2.start = s.mem[n].start + k /\ e2.length = s.mem[n].length - k
       /\ e2.inode = s.mem[n].inode
  BY <1>5, <1>8, <1>9 DEF Extent
<1>11. PICK u2 : u2 = [u1 EXCEPT !.mem[n] = e2] OBVIOUS
<1>12. /\ u2 \in MapState /\ u2.mem = [u1.mem EXCEPT ![n] = e2] /\ u2.tree = s.tree
       /\ u2.node = s.node /\ u2.strayed = s.strayed /\ u2.touched = u.touched
  BY <1>7, <1>10, <1>11, MemChanges
<1>13. u2.mem[n] = e2 /\ \A o \in Cells : o # n => u2.mem[o] = s.mem[o]
  BY <1>7, <1>8, <1>12 DEF MapState
<1>14. u2 = [u EXCEPT !.mem[n].start = @ + k, !.mem[n].length = @ - k]
  BY <1>4, <1>6, <1>9, <1>11
<1>15. alloc_blocks_priv(s, n, i, k)
         = IF u2.mem[n].length > 0 THEN u2
           ELSE Erase([u2 EXCEPT !.node[i] = NULL, !.bug = @ \/ n \notin s.tree], n)
  BY <1>1, <1>14 DEF alloc_blocks_priv
<1>16. CASE s.mem[n].length > k
  <2>1. u2.mem[n].length > 0 BY <1>3, <1>10, <1>13, <1>16 DEF Extent
  <2>2. alloc_blocks_priv(s, n, i, k) = u2 BY <1>15, <2>1
  <2>3. ~(s.mem[n].length <= k) BY <1>3, <1>16 DEF Extent
  <2>4. Start(u2, n) = Start(s, n) + k BY <1>10, <1>13 DEF Start
  <2>5. u2.mem[n].length = s.mem[n].length - k /\ u2.mem[n].inode = s.mem[n].inode
    BY <1>10, <1>13
  <2> QED BY <1>2, <1>12, <1>13, <2>2, <2>3, <2>4, <2>5 DEF IsPriv
<1>17. CASE s.mem[n].length <= k
  <2>1. ~(u2.mem[n].length > 0) /\ ~(s.mem[n].length > k)
    BY <1>3, <1>10, <1>13, <1>17 DEF Extent
  <2>2. PICK v1 : v1 = [u2 EXCEPT !.node[i] = NULL] OBVIOUS
  <2>3. /\ v1 \in MapState /\ v1.node = [u2.node EXCEPT ![i] = NULL] /\ v1.mem = u2.mem
        /\ v1.tree = u2.tree /\ v1.strayed = u2.strayed /\ v1.touched = u2.touched
    BY <1>12, <2>2, NodeChanges
  <2>4. PICK v2 : v2 = [v1 EXCEPT !.bug = @ \/ n \notin s.tree] OBVIOUS
  <2>5. /\ v2 \in MapState /\ v2.node = v1.node /\ v2.mem = v1.mem
        /\ v2.tree = v1.tree /\ v2.strayed = v1.strayed /\ v2.touched = v1.touched
    BY <2>3, <2>4 DEF MapState
  <2>6. v2 = [u2 EXCEPT !.node[i] = NULL, !.bug = @ \/ n \notin s.tree] BY <2>2, <2>4
  <2>7. PICK t : t = Erase(v2, n) OBVIOUS
  <2>8. alloc_blocks_priv(s, n, i, k) = t BY <1>15, <2>1, <2>6, <2>7
  <2>9. /\ t \in MapState /\ t.tree = v2.tree \ {n} /\ t.mem = [v2.mem EXCEPT ![n] = NoExtent]
        /\ t.node = v2.node /\ t.touched = v2.touched /\ t.strayed = v2.strayed
    BY <2>5, <2>7, EraseIs
  <2>10. \A o \in Cells : o # n => t.mem[o] = u2.mem[o] BY <1>12, <2>3, <2>5, <2>9 DEF MapState
  <2>11. t.tree = s.tree \ {n} /\ t.node = [s.node EXCEPT ![i] = NULL]
    BY <1>12, <2>3, <2>5, <2>9
  <2>12. t.touched = (s.touched \/ n \notin s.tree) /\ t.strayed = s.strayed
    BY <1>2, <1>12, <2>3, <2>5, <2>9
  <2> QED BY <1>13, <2>1, <2>8, <2>9, <2>10, <2>11, <2>12 DEF IsPriv
<1> QED BY <1>3, <1>16, <1>17 DEF Extent

TakesFront(s, n, i, k, t) ==
    /\ t \in MapState /\ Sound(t) /\ (s.touched => t.touched) /\ t.strayed = s.strayed
    /\ n \notin s.tree => t.touched
    /\ n \in s.tree => \A c \in Int : Has(t, c) <=>
                          Has(s, c) /\ c \notin Start(s, n) .. Start(s, n) + k - 1
    /\ Ours(s, n, i) => OthersStay(s, t, i)
    /\ Ours(s, n, i) /\ Mutual(s) /\ ~t.touched /\ ~t.strayed /\ t.node[i] # NULL =>
          t.node[i] = n /\ Start(t, n) = Start(s, n) + k
LEMMA PrivKeeps ==
    ASSUME NEW s \in MapState, Sound(s), NEW n \in Cells, NEW i \in Inodes, NEW k \in Nat \ {0},
           ~GoesOn, s.mem[n].length >= k
    PROVE  TakesFront(s, n, i, k, alloc_blocks_priv(s, n, i, k))
<1>0. NULL \notin Cells /\ NULL \notin Inodes BY FatAssumption
<1>1. PICK t : t = alloc_blocks_priv(s, n, i, k) OBVIOUS
<1>2. /\ s.mem \in [Cells -> Extent] /\ s.tree \subseteq Cells /\ s.mem[n] \in Extent
      /\ s.mem[n].length \in Int /\ Start(s, n) \in Int
      /\ Behind(s, n) = Start(s, n) + s.mem[n].length
      /\ s.node \in [Inodes -> Cells \cup {NULL}]
  BY DEF MapState, Extent, Start, Behind
<1>13. IsPriv(s, n, i, k, t) BY <1>1, PrivIs
<1>3. /\ t \in MapState /\ t.strayed = s.strayed
      /\ t.touched = (s.touched \/ n \notin s.tree)
      /\ \A o \in Cells : o # n => t.mem[o] = s.mem[o]
  BY <1>13 DEF IsPriv
<1>4. s.mem[n].length > k =>
         /\ t.tree = s.tree /\ t.node = s.node /\ Start(t, n) = Start(s, n) + k
         /\ t.mem[n].length = s.mem[n].length - k /\ t.mem[n].inode = s.mem[n].inode
  BY <1>13 DEF IsPriv
<1>5. s.mem[n].length = k => t.tree = s.tree \ {n} /\ t.node = [s.node EXCEPT ![i] = NULL]
  BY <1>2, <1>13 DEF IsPriv
<1>6. s.mem[n].length > k \/ s.mem[n].length = k BY <1>2
<1>7. s.mem[n].length > k => Behind(t, n) = Behind(s, n)
  BY <1>2, <1>4 DEF Behind, Start
<1>8. /\ Sound(t)
      /\ \A c \in Int : Has(t, c) <=> HasBut(s, n, c) \/ (n \in t.tree /\ In(t, n, c))
  <2>1. t.tree \ {n} = s.tree \ {n} BY <1>4, <1>5, <1>6
  <2>2. \A o \in s.tree \ {n} : t.mem[o] = s.mem[o] BY <1>2, <1>3
  <2>3. ASSUME n \in t.tree
        PROVE  /\ Start(t, n) \in Nat /\ t.mem[n].length \in Nat \ {0}
               /\ \A o \in s.tree \ {n} : Behind(t, n) <= Start(s, o) \/ Behind(s, o) <= Start(t, n)
    <3>1. s.mem[n].length > k /\ n \in s.tree BY <1>4, <1>5, <1>6, <2>3
    <3>2. Start(s, n) \in Nat /\ s.mem[n].length \in Nat BY <3>1 DEF Sound
    <3>3. ASSUME NEW o \in s.tree \ {n}
          PROVE  Behind(t, n) <= Start(s, o) \/ Behind(s, o) <= Start(t, n)
      <4>1. Behind(s, n) <= Start(s, o) \/ Behind(s, o) <= Start(s, n) BY <3>1 DEF Sound
      <4>2. Behind(s, o) \in Int BY DEF Sound, Behind, Start
      <4> QED BY <1>2, <1>4, <1>7, <3>1, <4>1, <4>2
    <3> QED BY <1>2, <1>4, <3>1, <3>2, <3>3
  <2> QED BY <1>3, <2>1, <2>2, <2>3, OneChanged
<1>9. ASSUME n \in s.tree, NEW c \in Int
      PROVE  Has(t, c) <=> Has(s, c) /\ c \notin Start(s, n) .. Start(s, n) + k - 1
  <2>1. n \in t.tree /\ In(t, n, c) <=>
           In(s, n, c) /\ c \notin Start(s, n) .. Start(s, n) + k - 1
    <3>1. CASE s.mem[n].length > k
      BY <1>2, <1>4, <1>7, <1>9, <3>1 DEF In
    <3>2. CASE s.mem[n].length = k
      BY <1>2, <1>5, <1>9, <3>2 DEF In
    <3> QED BY <1>6, <3>1, <3>2
  <2>2. c \in Start(s, n) .. Start(s, n) + k - 1 => In(s, n, c) BY <1>2 DEF In
  <2> QED BY <1>8, <1>9, <2>1, <2>2, Parts
<1>10. n \notin s.tree => t.touched BY <1>3
<1>11. ASSUME Ours(s, n, i), Mutual(s)
       PROVE  /\ Mutual(t)
              /\ \A j \in Inodes \ {i} : t.node[j] = s.node[j]
              /\ \A j \in Inodes \ {i} : s.node[j] # NULL =>
                    Start(t, s.node[j]) = Start(s, s.node[j])
              /\ t.node[i] # NULL => t.node[i] = n /\ Start(t, n) = Start(s, n) + k
  <2>1. n \in s.tree /\ (i \in Dirs => s.node[i] = NULL /\ s.mem[n].inode = NULL)
        /\ (i \notin Dirs => s.node[i] = n /\ s.mem[n].inode = i)
    BY <1>0, <1>11 DEF Ours, Mutual
  <2>2. \A j \in Inodes \ {i} : t.node[j] = s.node[j] BY <1>2, <1>4, <1>5, <1>6
  <2>3. \A j \in Inodes \ {i} : s.node[j] # NULL => s.node[j] # n /\ s.node[j] \in s.tree
    BY <1>0, <1>11, <2>1 DEF Mutual
  <2>4. \A j \in Inodes \ {i} : s.node[j] # NULL => Start(t, s.node[j]) = Start(s, s.node[j])
    BY <1>2, <1>3, <2>3 DEF Start
  <2>5. t.node[i] # NULL => t.node[i] = n /\ s.mem[n].length > k /\ i \notin Dirs
    BY <1>2, <1>4, <1>5, <1>6, <2>1
  <2>6. ASSUME NEW j \in Inodes, t.node[j] # NULL
        PROVE  t.node[j] \in t.tree /\ t.mem[t.node[j]].inode = j /\ j \notin Dirs
    <3>1. CASE j = i BY <1>4, <2>1, <2>5, <2>6, <3>1
    <3>2. CASE j # i
      <4>1. /\ t.node[j] = s.node[j] /\ s.node[j] # n /\ s.node[j] \in s.tree
            /\ s.mem[s.node[j]].inode = j /\ j \notin Dirs
        BY <1>11, <2>2, <2>3, <2>6, <3>2 DEF Mutual
      <4>2. t.mem[s.node[j]] = s.mem[s.node[j]] BY <1>2, <1>3, <4>1
      <4> QED BY <1>4, <1>5, <1>6, <4>1, <4>2
    <3> QED BY <3>1, <3>2
  <2>7. ASSUME NEW o \in t.tree, t.mem[o].inode # NULL PROVE t.node[t.mem[o].inode] = o
    <3>1. o \in s.tree /\ o \in Cells BY <1>2, <1>4, <1>5, <1>6
    <3>2. CASE o = n
      <4>1. s.mem[n].length > k BY <1>5, <1>6, <3>2
      <4> QED BY <1>4, <2>1, <2>7, <3>2, <4>1
    <3>3. CASE o # n
      <4>1. t.mem[o] = s.mem[o] /\ s.mem[o].inode \in Inodes
        BY <1>2, <1>3, <2>7, <3>1, <3>3 DEF Extent
      <4>2. s.node[s.mem[o].inode] = o BY <1>11, <2>7, <3>1, <4>1 DEF Mutual
      <4>3. s.mem[o].inode # i BY <1>0, <2>1, <3>1, <3>3, <4>2
      <4> QED BY <2>2, <4>1, <4>2, <4>3
    <3> QED BY <3>2, <3>3
  <2> QED BY <1>4, <2>2, <2>4, <2>5, <2>6, <2>7 DEF Mutual
<1>12. Ours(s, n, i) => OthersStay(s, t, i) BY <1>3, <1>11 DEF OthersStay
<1> QED BY <1>1, <1>3, <1>8, <1>9, <1>10, <1>11, <1>12 DEF TakesFront

(* The longest extent is cut in two.                                       *)
LEMMA Halves == \A L \in Nat : L >= 2 => /\ L \div 2 \in Nat \ {0}
                                          /\ L - L \div 2 \in Nat \ {0}
                                          /\ L \div 2 + (L - L \div 2) = L
<1> SUFFICES ASSUME NEW L \in Nat, L >= 2
             PROVE  /\ L \div 2 \in Nat \ {0} /\ L - L \div 2 \in Nat \ {0}
                    /\ L \div 2 + (L - L \div 2) = L
  OBVIOUS
<1>1. PICK q : q = L \div 2 OBVIOUS
<1>2. q \in Int /\ L = 2 * q + (L % 2) /\ L % 2 \in {0, 1} BY <1>1
<1>3. q \in Nat \ {0} /\ L - q \in Nat \ {0} /\ q + (L - q) = L BY <1>2
<1> QED BY <1>1, <1>3

IsSplit(s, c, half, t) ==
    /\ t \in MapState /\ Sound(t) /\ SameSpace(s, t) /\ Follows(s, t)
    /\ c \in t.tree /\ t.mem[c].inode = NULL /\ t.mem[c].length = half
    /\ t.node = s.node /\ t.touched = s.touched /\ t.strayed = s.strayed
LEMMA SplitKeeps ==
    ASSUME NEW s \in MapState, Sound(s), NEW n \in s.tree, NEW c \in Cells \ s.tree,
           s.mem[n].length >= 2
    PROVE  LET half == s.mem[n].length - s.mem[n].length \div 2
               t == Made([s EXCEPT !.mem[n].length = @ - half], c,
                         s.mem[n].start + s.mem[n].length \div 2, half)
           IN  IsSplit(s, c, half, t)
<1>1. /\ s.mem \in [Cells -> Extent] /\ s.tree \subseteq Cells /\ s.mem[n] \in Extent
      /\ s.mem[n].length \in Nat /\ s.mem[n].start \in Nat /\ Start(s, n) = s.mem[n].start
      /\ Behind(s, n) = s.mem[n].start + s.mem[n].length
  BY DEF MapState, Sound, Start, Behind
<1>2. PICK l : l = s.mem[n].length \div 2 OBVIOUS
<1>3. PICK half : half = s.mem[n].length - l OBVIOUS
<1>4. l \in Nat \ {0} /\ half \in Nat \ {0} /\ l + half = s.mem[n].length
  <2>1. \A L \in Nat : L >= 2 => /\ L \div 2 \in Nat \ {0} /\ L - L \div 2 \in Nat \ {0}
                                 /\ L \div 2 + (L - L \div 2) = L
    BY Halves
  <2>2. PICK L : L = s.mem[n].length OBVIOUS
  <2> QED BY <1>1, <1>2, <1>3, <2>1, <2>2
<1>5. PICK e : e = [s.mem[n] EXCEPT !.length = @ - half] OBVIOUS
<1>6. e \in Extent /\ e.start = s.mem[n].start /\ e.length = l /\ e.inode = s.mem[n].inode
  BY <1>1, <1>4, <1>5 DEF Extent
<1>7. PICK u : u = [s EXCEPT !.mem[n] = e] OBVIOUS
<1>8. /\ u \in MapState /\ u.mem = [s.mem EXCEPT ![n] = e] /\ u.tree = s.tree
      /\ u.node = s.node /\ u.strayed = s.strayed /\ u.touched = s.touched
  BY <1>1, <1>6, <1>7, MemChanges
<1>9. u.mem[n] = e /\ \A o \in Cells : o # n => u.mem[o] = s.mem[o] BY <1>1, <1>8
<1>10. Start(u, n) = Start(s, n) /\ Behind(u, n) = Start(s, n) + l
  BY <1>1, <1>6, <1>9 DEF Start, Behind
<1>11. /\ Sound(u)
       /\ \A d \in Int : Has(u, d) <=> HasBut(s, n, d) \/ (n \in u.tree /\ In(u, n, d))
  <2>1. ASSUME NEW o \in s.tree \ {n}
        PROVE  Behind(u, n) <= Start(s, o) \/ Behind(s, o) <= Start(u, n)
    <3>1. Behind(s, n) <= Start(s, o) \/ Behind(s, o) <= Start(s, n) BY DEF Sound
    <3>2. Start(s, o) \in Int /\ Behind(s, o) \in Int BY DEF Sound, Start, Behind
    <3> QED BY <1>1, <1>4, <1>10, <3>1, <3>2
  <2>2. Start(u, n) \in Nat /\ u.mem[n].length \in Nat \ {0} BY <1>1, <1>4, <1>6, <1>9, <1>10
  <2>3. \A o \in s.tree \ {n} : u.mem[o] = s.mem[o] BY <1>1, <1>9
  <2> QED BY <1>8, <2>1, <2>2, <2>3, OneChanged
<1>12. PICK b : b = s.mem[n].start + l OBVIOUS
<1>13. b \in Nat BY <1>1, <1>4, <1>12
<1>14. ASSUME NEW d \in Int
       PROVE  /\ Has(s, d) <=> Has(u, d) \/ d \in b .. b + half - 1
              /\ d \in b .. b + half - 1 => ~Has(u, d)
  <2>1. In(s, n, d) <=> In(u, n, d) \/ d \in b .. b + half - 1
    BY <1>1, <1>4, <1>10, <1>12 DEF In
  <2>2. d \in b .. b + half - 1 => ~In(u, n, d) BY <1>1, <1>4, <1>10, <1>12 DEF In
  <2> QED BY <1>8, <1>11, <2>1, <2>2, Parts
<1>15. PICK t : t = Made(u, c, b, half) OBVIOUS
<1>16. /\ t \in MapState /\ Sound(t) /\ Follows(u, t)
       /\ \A d \in Int : Has(t, d) <=> Has(u, d) \/ d \in b .. b + half - 1
       /\ t.tree = u.tree \cup {c} /\ t.node = u.node
       /\ t.touched = u.touched /\ t.strayed = u.strayed
       /\ t.mem[c] = [start |-> b, length |-> half, inode |-> NULL]
  <2>1. \A d \in b .. b + half - 1 : ~Has(u, d) BY <1>13, <1>14
  <2>2. c \in Cells \ u.tree BY <1>8
  <2> QED BY <1>4, <1>8, <1>11, <1>13, <1>15, <2>1, <2>2, MadeKeeps
<1>17. t = Made([s EXCEPT !.mem[n].length = @ - half], c, s.mem[n].start + l, half)
  BY <1>5, <1>7, <1>12, <1>15
<1>18. SameSpace(s, t) BY <1>14, <1>16 DEF SameSpace
<1>19. Follows(s, t)
  <2>1. Follows(s, u)
    <3>1. \A o \in Cells : u.mem[o].inode = s.mem[o].inode /\ Start(u, o) = Start(s, o)
      BY <1>6, <1>9 DEF Start
    <3>2. \A o \in s.tree : u.mem[o].inode = s.mem[o].inode BY <1>1, <3>1
    <3>3. Mutual(s) => Mutual(u) BY <1>8, <3>2 DEF Mutual
    <3>4. s.node \in [Inodes -> Cells \cup {NULL}] BY DEF MapState
    <3> QED BY <1>8, <3>1, <3>3, <3>4 DEF Follows
  <2> QED BY <1>8, <1>16, <2>1, FollowsOn
<1>20. t.mem[c].inode = NULL /\ t.mem[c].length = half BY <1>16
<1>21. IsSplit(s, c, half, t) BY <1>8, <1>16, <1>18, <1>19, <1>20 DEF IsSplit
<1> QED BY <1>2, <1>3, <1>17, <1>21

LEMMA OthersStayOn ==
    ASSUME NEW s \in MapState, NEW t \in MapState, NEW u \in MapState, NEW i \in Inodes,
           OthersStay(s, t, i), OthersStay(t, u, i)
    PROVE  OthersStay(s, u, i)
<1>1. ASSUME Mutual(s), ~u.touched, ~u.strayed
      PROVE  /\ Mutual(u)
             /\ \A j \in Inodes \ {i} : u.node[j] = s.node[j]
             /\ \A j \in Inodes \ {i} : s.node[j] # NULL =>
                   Start(u, s.node[j]) = Start(s, s.node[j])
  <2>1. ~t.touched /\ ~t.strayed BY <1>1 DEF OthersStay
  <2>2. /\ Mutual(t)
        /\ \A j \in Inodes \ {i} : t.node[j] = s.node[j]
        /\ \A j \in Inodes \ {i} : s.node[j] # NULL => Start(t, s.node[j]) = Start(s, s.node[j])
    BY <1>1, <2>1 DEF OthersStay
  <2>3. /\ Mutual(u)
        /\ \A j \in Inodes \ {i} : u.node[j] = t.node[j]
        /\ \A j \in Inodes \ {i} : t.node[j] # NULL => Start(u, t.node[j]) = Start(t, t.node[j])
    BY <1>1, <2>2 DEF OthersStay
  <2> QED BY <2>2, <2>3
<1>2. (s.touched => u.touched) /\ (s.strayed => u.strayed) BY DEF OthersStay
<1> QED BY <1>1, <1>2 DEF OthersStay

(* What the manager answers to a file that asks for k clusters.            *)
IsAllocated(s, i, k, r) ==
    /\ r.kept \in BOOLEAN /\ r.got \in Int /\ r.map \in MapState /\ Sound(r.map)
    /\ OthersStay(s, r.map, i)
    /\ ~r.map.touched /\ r.got = -1 => SameSpace(s, r.map)
    /\ ~r.map.touched /\ r.got # -1 =>
          /\ r.got \in Nat /\ \A c \in r.got .. r.got + k - 1 : Has(s, c)
          /\ \A c \in Int : Has(r.map, c) <=> Has(s, c) /\ c \notin r.got .. r.got + k - 1
    /\ Mutual(s) /\ ~r.map.touched /\ ~r.map.strayed /\ r.got # -1 /\ r.map.node[i] # NULL =>
          Start(r.map, r.map.node[i]) = r.got + k

LEMMA GrantedIsAllocated ==
    ASSUME NEW s \in MapState, NEW t \in MapState, Sound(t), SameSpace(s, t), NEW i \in Inodes,
           OthersStay(s, t, i), NEW k \in Nat \ {0}, ~GoesOn,
           NEW n \in Cells, t.mem[n].length >= k, n \in t.tree => Ours(t, n, i)
    PROVE  IsAllocated(s, i, k, Granted(t, n, i, k))
<1>1. PICK u : u = alloc_blocks_priv(t, n, i, k) OBVIOUS
<1>2. TakesFront(t, n, i, k, u) BY <1>1, PrivKeeps
<1>3. PICK r : r = Granted(t, n, i, k) OBVIOUS
<1>4. r.map = u /\ r.got = t.mem[n].start /\ r.kept = TRUE BY <1>1, <1>3 DEF Granted
<1>5. r.got \in Int /\ r.got = Start(t, n) BY <1>4 DEF MapState, Extent, Start
<1>6. u \in MapState /\ Sound(u) BY <1>2 DEF TakesFront
<1>7. OthersStay(t, u, i)
  <2>1. CASE n \in t.tree BY <1>2, <2>1 DEF TakesFront
  <2>2. CASE n \notin t.tree BY <1>2, <2>2 DEF TakesFront, OthersStay
  <2> QED BY <2>1, <2>2
<1>8. OthersStay(s, u, i) BY <1>6, <1>7, OthersStayOn
<1>9. ASSUME ~u.touched
      PROVE  /\ r.got \in Nat /\ \A c \in r.got .. r.got + k - 1 : Has(s, c)
             /\ \A c \in Int : Has(u, c) <=> Has(s, c) /\ c \notin r.got .. r.got + k - 1
             /\ Mutual(s) /\ ~u.strayed /\ u.node[i] # NULL => Start(u, u.node[i]) = r.got + k
  <2>1. n \in t.tree BY <1>2, <1>9 DEF TakesFront
  <2>2. r.got \in Nat BY <1>5, <2>1 DEF Sound
  <2>3. ASSUME NEW c \in r.got .. r.got + k - 1 PROVE Has(t, c)
    <3>1. t.mem[n].length \in Nat BY <2>1 DEF Sound
    <3>2. In(t, n, c) BY <1>5, <2>2, <2>3, <3>1 DEF In, Behind, Start
    <3> QED BY <2>1, <3>2 DEF Has
  <2>4. \A c \in Int : Has(t, c) <=> Has(s, c) BY DEF SameSpace
  <2>5. \A c \in r.got .. r.got + k - 1 : c \in Int BY <1>5
  <2>6. \A c \in Int : Has(u, c) <=> Has(t, c) /\ c \notin r.got .. r.got + k - 1
    BY <1>2, <1>5, <2>1 DEF TakesFront
  <2>7. Mutual(s) /\ ~u.strayed => Mutual(t)
    BY <1>7, <1>9 DEF OthersStay
  <2>8. Mutual(s) /\ ~u.strayed /\ u.node[i] # NULL => Start(u, u.node[i]) = r.got + k
    BY <1>2, <1>5, <1>9, <2>1, <2>7 DEF TakesFront
  <2> QED BY <2>2, <2>3, <2>4, <2>5, <2>6, <2>8
<1>10. r.got = -1 => r.got \notin Nat OBVIOUS
<1>11. IsAllocated(s, i, k, r) BY <1>4, <1>5, <1>6, <1>8, <1>9, <1>10 DEF IsAllocated
<1> QED BY <1>3, <1>11

(* In a volume that ends somewhere, one extent is the longest.             *)
LEMMA LongestIsThere ==
    ASSUME NEW s \in MapState, Sound(s), s.tree # {}, NEW M \in Nat,
           \A c \in Int : Has(s, c) => c <= M
    PROVE  LET N == {n \in s.tree : \A o \in s.tree : s.mem[n].length >= s.mem[o].length}
           IN  LeastBy(s, N) \in N
<1> DEFINE N == {n \in s.tree : \A o \in s.tree : s.mem[n].length >= s.mem[o].length}
           L == {s.mem[n].length : n \in s.tree}
<1>1. ASSUME NEW n \in s.tree PROVE s.mem[n].length \in 0 .. M + 1
  <2>1. Start(s, n) \in Nat /\ s.mem[n].length \in Nat \ {0} BY DEF Sound
  <2>2. In(s, n, Behind(s, n) - 1) BY <2>1 DEF In, Behind, Start
  <2>3. Behind(s, n) - 1 <= M BY <2>1, <2>2 DEF Has, Behind, Start
  <2> QED BY <2>1, <2>3 DEF Behind, Start
<1>2. L \subseteq 0 .. M + 1 /\ L # {} BY <1>1
<1>3. PICK k \in L : \A j \in L : j <= k
  <2>1. M + 1 \in Nat OBVIOUS
  <2> HIDE DEF L
  <2> QED BY <1>2, <2>1, GreatestOf
<1>4. PICK n \in s.tree : k = s.mem[n].length BY <1>3
<1>5. ASSUME NEW o \in s.tree PROVE s.mem[n].length >= s.mem[o].length
  <2>1. s.mem[o].length <= s.mem[n].length BY <1>3, <1>4
  <2> QED BY <1>1, <2>1
<1>6. n \in N BY <1>5
<1>7. N \subseteq s.tree /\ N # {} BY <1>6
<1> HIDE DEF N
<1>8. LeastBy(s, N) \in N BY <1>7, LeastIsThere
<1> QED BY <1>8 DEF N

LEMMA RefusedIsAllocated ==
    ASSUME NEW s \in MapState, NEW t \in MapState, Sound(t), SameSpace(s, t), NEW i \in Inodes,
           OthersStay(s, t, i), NEW k \in Nat \ {0}, NEW kept \in BOOLEAN
    PROVE  IsAllocated(s, i, k, Refused(t, kept))
<1>1. PICK r : r = Refused(t, kept) OBVIOUS
<1>2. r.map = t /\ r.got = -1 /\ r.kept = kept BY <1>1 DEF Refused
<1>3. IsAllocated(s, i, k, r) BY <1>2 DEF IsAllocated
<1> QED BY <1>1, <1>3

LEMMA BlocksAreTaken ==
    ASSUME NEW s \in MapState, Sound(s), NEW i \in Inodes, NEW k \in Nat \ {0}, ~GoesOn,
           NEW M \in Nat, \A c \in Int : Has(s, c) => c <= M,
           NEW r \in blocks_mamager_alloc_blocks(s, i, k)
    PROVE  IsAllocated(s, i, k, r)
<1> DEFINE own == s.node[i]
           fit == {n \in s.tree : Fits(s.mem[n], k)}
           first == LeastBy(s, fit)
           long == LeastBy(s, {n \in s.tree : \A o \in s.tree : s.mem[n].length >= s.mem[o].length})
           half == s.mem[long].length - s.mem[long].length \div 2
           Split(c) == Made([s EXCEPT !.mem[long].length = @ - half], c,
                            s.mem[long].start + s.mem[long].length \div 2, half)
<1>0. SameSpace(s, s) /\ OthersStay(s, s, i) BY DEF SameSpace, OthersStay
<1>1. CASE own # NULL /\ i \notin Dirs
  <2>1. own \in Cells BY <1>1 DEF MapState
  <2>2. r = IF s.mem[own].length < k THEN Refused(LetGo(s, own, i), TRUE) ELSE Granted(s, own, i, k)
    BY <1>1 DEF blocks_mamager_alloc_blocks, LetGo
  <2>3. CASE s.mem[own].length < k
    <3>1. r = Refused(LetGo(s, own, i), TRUE) BY <2>2, <2>3
    <3>2. PICK t : t = LetGo(s, own, i) OBVIOUS
    <3>3. t \in MapState /\ Sound(t) /\ SameSpace(s, t) /\ OthersStay(s, t, i)
      BY <1>1, <3>2, LetGoKeeps
    <3> QED BY <3>1, <3>2, <3>3, RefusedIsAllocated
  <2>4. CASE ~(s.mem[own].length < k)
    <3>1. r = Granted(s, own, i, k) BY <2>2, <2>4
    <3>2. s.mem[own].length >= k BY <2>1, <2>4 DEF MapState, Extent
    <3>3. own \in s.tree => Ours(s, own, i) BY <1>1 DEF Ours
    <3> HIDE DEF own
    <3> QED BY <1>0, <2>1, <3>1, <3>2, <3>3, GrantedIsAllocated
  <2> QED BY <2>3, <2>4
<1>2. CASE (own = NULL \/ i \in Dirs) /\ fit # {}
  <2>1. r = Granted(Reserve(s, first, i), first, i, k)
    BY <1>2 DEF blocks_mamager_alloc_blocks
  <2>2. first \in fit
    <3>1. fit \subseteq s.tree OBVIOUS
    <3> HIDE DEF fit
    <3> QED BY <1>2, <3>1, LeastIsThere
  <2>3. PICK n : n = first OBVIOUS
  <2>4. n \in s.tree /\ n \in Cells /\ s.mem[n].inode = NULL /\ s.mem[n].length >= k
    BY <2>2, <2>3 DEF Fits, MapState
  <2>5. PICK t : t = Reserve(s, n, i) OBVIOUS
  <2>6. /\ t \in MapState /\ Sound(t) /\ SameSpace(s, t) /\ OthersStay(s, t, i)
        /\ Ours(t, n, i) /\ t.mem[n].length = s.mem[n].length
    BY <1>2, <2>4, <2>5, ReserveKeeps
  <2>7. t.mem[n].length >= k BY <2>4, <2>6
  <2> QED BY <2>1, <2>3, <2>4, <2>5, <2>6, <2>7, GrantedIsAllocated
<1>3. CASE ~(own # NULL /\ i \notin Dirs) /\ ~((own = NULL \/ i \in Dirs) /\ fit # {})
  <2>1. r \in IF s.tree = {} \/ s.mem[long].length < 2 THEN {Refused(s, TRUE)}
              ELSE {IF half >= k * 2 + 1 THEN Granted(Reserve(Split(c), c, i), c, i, k)
                    ELSE Refused(Split(c), TRUE) : c \in Cells \ s.tree}
                   \cup {Refused(s, FALSE)}
    BY <1>3 DEF blocks_mamager_alloc_blocks
  <2>2. CASE r \in {Refused(s, TRUE), Refused(s, FALSE)}
    BY <1>0, <2>2, RefusedIsAllocated
  <2>3. CASE r \notin {Refused(s, TRUE), Refused(s, FALSE)}
    <3>1. s.tree # {} /\ ~(s.mem[long].length < 2) BY <2>1, <2>3
    <3>2. PICK c \in Cells \ s.tree :
             r = IF half >= k * 2 + 1 THEN Granted(Reserve(Split(c), c, i), c, i, k)
                 ELSE Refused(Split(c), TRUE)
      BY <2>1, <2>3
    <3>3. long \in s.tree BY <3>1, LongestIsThere
    <3>13. PICK n : n = long OBVIOUS
    <3>14. n \in s.tree /\ ~(s.mem[n].length < 2) BY <3>1, <3>3, <3>13
    <3>15. s.mem[n].length \in Nat BY <3>14 DEF Sound
    <3>4. s.mem[n].length \in Nat /\ s.mem[n].length >= 2 BY <3>14, <3>15
    <3>5. PICK h : h = half OBVIOUS
    <3>16. h = s.mem[n].length - s.mem[n].length \div 2 BY <3>5, <3>13
    <3>6. h \in Int
      <4>1. \A l \in Nat : l - l \div 2 \in Int OBVIOUS
      <4> QED BY <3>15, <3>16, <4>1
    <3>7. PICK t : t = Split(c) OBVIOUS
    <3>8. IsSplit(s, c, h, t)
      <4> HIDE DEF long
      <4> QED BY <3>3, <3>4, <3>5, <3>7, <3>13, SplitKeeps
    <3>9. /\ t \in MapState /\ Sound(t) /\ SameSpace(s, t) /\ Follows(s, t)
          /\ c \in t.tree /\ t.mem[c].inode = NULL /\ t.mem[c].length = h
          /\ t.node = s.node
      BY <3>8 DEF IsSplit
    <3>10. OthersStay(s, t, i) BY <3>9 DEF Follows, OthersStay
    <3>11. CASE h >= k * 2 + 1
      <4>1. r = Granted(Reserve(t, c, i), c, i, k) BY <3>2, <3>5, <3>7, <3>11
      <4>2. i \notin Dirs => t.node[i] = NULL BY <1>3, <3>9
      <4>3. PICK u : u = Reserve(t, c, i) OBVIOUS
      <4>4. /\ u \in MapState /\ Sound(u) /\ SameSpace(t, u) /\ OthersStay(t, u, i)
            /\ Ours(u, c, i) /\ u.mem[c].length = t.mem[c].length
        BY <3>9, <4>2, <4>3, ReserveKeeps
      <4>5. u.mem[c].length >= k BY <3>6, <3>9, <3>11, <4>4
      <4>6. SameSpace(s, u) BY <3>9, <4>4 DEF SameSpace
      <4>7. OthersStay(s, u, i) BY <3>9, <3>10, <4>4, OthersStayOn
      <4>8. c \in Cells OBVIOUS
      <4> QED BY <4>1, <4>3, <4>4, <4>5, <4>6, <4>7, <4>8, GrantedIsAllocated
    <3>12. CASE ~(h >= k * 2 + 1)
      <4>1. r = Refused(t, TRUE) BY <3>2, <3>5, <3>7, <3>12
      <4> QED BY <3>9, <3>10, <4>1, RefusedIsAllocated
    <3> QED BY <3>11, <3>12
  <2> QED BY <2>2, <2>3
<1> QED BY <1>1, <1>2, <1>3

IsReleased(s, i, t) ==
    /\ t \in MapState /\ Sound(t) /\ SameSpace(s, t) /\ OthersStay(s, t, i)
    /\ Mutual(s) /\ ~t.touched /\ ~t.strayed => t.node[i] = NULL
LEMMA ReleaseKeeps ==
    ASSUME NEW s \in MapState, Sound(s), NEW i \in Inodes, ~GoesOn
    PROVE  IsReleased(s, i, blocks_mamager_on_inode_release(s, i))
<1>1. PICK n : n = s.node[i] OBVIOUS
<1>2. CASE n = NULL \/ i \in Dirs
  <2>1. blocks_mamager_on_inode_release(s, i) = s
    BY <1>1, <1>2 DEF blocks_mamager_on_inode_release
  <2>2. Mutual(s) => s.node[i] = NULL BY <1>1, <1>2 DEF Mutual
  <2>3. IsReleased(s, i, s) BY <2>2 DEF IsReleased, SameSpace, OthersStay
  <2> QED BY <2>1, <2>3
<1>3. CASE ~(n = NULL \/ i \in Dirs)
  <2>1. n \in Cells BY <1>1, <1>3 DEF MapState
  <2>2. PICK t : t = LetGo(s, n, i) OBVIOUS
  <2>3. /\ t \in MapState /\ Sound(t) /\ SameSpace(s, t) /\ OthersStay(s, t, i)
        /\ t.node[i] = NULL
    BY <1>1, <1>3, <2>2, LetGoKeeps
  <2>4. PICK u : u = try_back_merge(t, n) OBVIOUS
  <2>5. u \in MapState /\ Sound(u) /\ SameSpace(t, u) /\ Follows(t, u)
    BY <2>3, <2>4, BackMerges
  <2>6. PICK w : w = try_front_merge(u, n) OBVIOUS
  <2>7. w \in MapState /\ Sound(w) /\ SameSpace(u, w) /\ Follows(u, w)
    BY <2>1, <2>5, <2>6, FrontMerges
  <2>8. blocks_mamager_on_inode_release(s, i) = w
    BY <1>1, <1>3, <2>2, <2>4, <2>6 DEF blocks_mamager_on_inode_release, LetGo
  <2>9. Follows(t, w) BY <2>3, <2>5, <2>7, FollowsOn
  <2>10. OthersStay(t, w, i) BY <2>9 DEF Follows, OthersStay
  <2>11. OthersStay(s, w, i) BY <2>3, <2>7, <2>10, OthersStayOn
  <2>12. SameSpace(s, w) BY <2>3, <2>5, <2>7 DEF SameSpace
  <2>13. Mutual(s) /\ ~w.touched /\ ~w.strayed => w.node[i] = NULL
    <3>1. ~w.touched /\ ~w.strayed => ~t.touched /\ ~t.strayed BY <2>9 DEF Follows
    <3>2. Mutual(s) /\ ~w.touched /\ ~w.strayed => Mutual(t) BY <2>3, <3>1 DEF OthersStay
    <3>3. Mutual(s) /\ ~w.touched /\ ~w.strayed => w.node = t.node BY <2>9, <3>2 DEF Follows
    <3> QED BY <2>3, <3>3
  <2> QED BY <2>7, <2>8, <2>11, <2>12, <2>13 DEF IsReleased
<1> QED BY <1>2, <1>3

IsEmptied(s, t) ==
    /\ t \in MapState /\ t.tree = {} /\ t.strayed = s.strayed /\ (s.touched => t.touched)
    /\ Mutual(s) => \A i \in Inodes : t.node[i] = NULL
LEMMA FreeAllKeeps ==
    ASSUME NEW s \in MapState, ~GoesOn
    PROVE  IsEmptied(s, blocks_mamager_free_all(s))
<1>0. NULL \notin Cells /\ NULL \notin Inodes BY FatAssumption
<1> DEFINE owners == {s.mem[n].inode : n \in s.tree} \ {NULL}
           nodes == [i \in Inodes |-> IF i \in owners THEN NULL ELSE s.node[i]]
           t == blocks_mamager_free_all(s)
<1>1. s.node \in [Inodes -> Cells \cup {NULL}] BY DEF MapState
<1>2. nodes \in [Inodes -> Cells \cup {NULL}] BY <1>1
<1>3. NoExtent \in Extent BY DEF NoExtent, Extent
<1>4. PICK m : m = [n \in Cells |-> NoExtent] OBVIOUS
<1>5. m \in [Cells -> Extent] BY <1>3, <1>4
<1>6. t = [s EXCEPT !.node = nodes, !.mem = m, !.tree = {},
                    !.touched = @ \/ ~(owners \subseteq inuse)]
  BY <1>4 DEF blocks_mamager_free_all
<1>7. ASSUME Mutual(s), NEW i \in Inodes PROVE nodes[i] = NULL
  <2>1. i \in owners \/ s.node[i] = NULL BY <1>0, <1>7 DEF Mutual
  <2> QED BY <1>7, <2>1
<1> HIDE DEF t, nodes, owners
<1>8. /\ t.node = nodes /\ t.mem = m /\ t.tree = {} /\ t.last = s.last
      /\ t.strayed = s.strayed /\ t.bug = s.bug
      /\ t.touched = (s.touched \/ ~(owners \subseteq inuse))
  BY <1>6 DEF MapState
<1>9. t \in MapState
  <2> DEFINE u == [s EXCEPT !.node = nodes, !.mem = m, !.tree = {}]
  <2>1. u \in MapState BY <1>2, <1>5 DEF MapState
  <2>2. PICK b \in BOOLEAN : b = (u.touched \/ ~(owners \subseteq inuse)) OBVIOUS
  <2>3. t = [u EXCEPT !.touched = b] BY <1>6, <2>2
  <2> HIDE DEF u
  <2> QED BY <2>1, <2>3 DEF MapState
<1>10. IsEmptied(s, t) BY <1>7, <1>8, <1>9 DEF IsEmptied
<1> QED BY <1>10 DEF t

----------------------------------------------------------------------------
(* The volume, and what has the shape the actions need.                    *)
V == CHOOSE v \in Volumes : TRUE
Contents == Int \cup UNION AlreadyThere
FatTypes ==
    /\ Map \in MapState
    /\ fat \in [Volumes -> SUBSET Contents]
    /\ chain \in [Inodes -> Seq(Clusters(V))] /\ freeing \in [Inodes -> Seq(Clusters(V))]
    /\ fat_lock \in [Volumes -> Inodes \cup {NULL, "count"}]
    /\ free_clusters \in [Volumes -> Int] /\ free_clus_valid \in [Volumes -> BOOLEAN]
    /\ state \in [Volumes -> {"out", "mounting", "mounted", "closing"}]
    /\ counting \in [Volumes -> Nat] /\ opens \in [Inodes -> Int]
    /\ counted \in [Volumes -> BOOLEAN] /\ gaveup \in [Volumes -> BOOLEAN]
    /\ lost \in [Volumes -> SUBSET Int] /\ tail \in [Inodes -> Int]

(* A cluster that a file has, or that its caller has yet to free, is in    *)
(* use, and nobody else's.                                                 *)
InUse(s) == \A i \in Inodes : \A p \in 1 .. Len(s[i]) : s[i][p] \in fat[V]
Once(s) == \A i, j \in Inodes : \A p \in 1 .. Len(s[i]), q \in 1 .. Len(s[j]) :
               s[i][p] = s[j][q] => i = j /\ p = q
FilesAreApart ==
    /\ InUse(chain) /\ InUse(freeing) /\ Once(chain) /\ Once(freeing)
    /\ \A i, j \in Inodes : \A p \in 1 .. Len(chain[i]), q \in 1 .. Len(freeing[j]) :
          chain[i][p] # freeing[j][q]
    /\ \A i \in Inodes : tail[i] # 0 => chain[i] # <<>> /\ tail[i] = chain[i][Len(chain[i])]

(* How far a count has come, and what the number of free clusters is.      *)
CountIsSound ==
    /\ free_clusters[V] >= -1 /\ (~free_clus_valid[V] => free_clusters[V] = -1)
    /\ free_clusters[V] # -1 =>
          /\ free_clusters[V] <= Cardinality(FreeOf(V))
          /\ gaveup[V] \/ free_clusters[V] = Cardinality(FreeOf(V))
    /\ counted[V] => free_clus_valid[V] /\ free_clusters[V] # -1 /\ counting[V] = 0
    /\ state[V] \in {"out", "closing"} => counting[V] = 0
    /\ counting[V] >= FAT_START_ENT => fat_lock[V] = "count"

(* The extents are free clusters.  After a count they are all of them, up  *)
(* to the lost ones, during one all below the entry it has come to.        *)
SpaceIsSound ==
    /\ Sound(Map)
    /\ \A c \in Int : Has(Map, c) => c \in FreeOf(V) /\ c \notin lost[V]
    /\ lost[V] \subseteq FreeOf(V)
    /\ counted[V] => \A c \in FreeOf(V) : Has(Map, c) \/ c \in lost[V]
    /\ counting[V] >= FAT_START_ENT =>
          \A c \in FreeOf(V) : c < counting[V] <=> Has(Map, c) \/ c \in lost[V]
    /\ counting[V] = 1 /\ free_clusters[V] = -1 => lost[V] = {} /\ \A c \in Int : ~Has(Map, c)

FatIInv == FatTypes /\ FilesAreApart /\ CountIsSound /\ (~touched => SpaceIsSound)

LEMMA TheVolume ==
    ASSUME Volumes = {V}
    PROVE  /\ V \in Volumes /\ LastOf[V] \in Nat /\ LastOf[V] > FAT_START_ENT
           /\ Clusters(V) = 2 .. LastOf[V] /\ FAT_START_ENT = 2
           /\ \A i \in Inodes : VolumeOf[i] = V
BY FatAssumption DEF FAT_START_ENT, Clusters

LEMMA MapIs ==
    ASSUME NEW s \in MapState, Becomes(s)
    PROVE  Map' = s
<1>1. s = [mem |-> s.mem, tree |-> s.tree, last |-> s.last, node |-> s.node,
           touched |-> s.touched, bug |-> s.bug, strayed |-> s.strayed]
  BY DEF MapState
<1> QED BY <1>1 DEF Map, Becomes

LEMMA MapStays ==
    ASSUME UNCHANGED mapvars
    PROVE  Map' = Map /\ touched' = touched
BY DEF mapvars, Map

LEMMA FatStarts ==
    ASSUME Volumes = {V}, FatInit
    PROVE  FatIInv
<1> USE DEF FatInit
<1>1. V \in Volumes BY TheVolume
<1>2. Map \in MapState
  <2>1. [n \in Cells |-> NoExtent] \in [Cells -> Extent] BY DEF NoExtent, Extent
  <2> QED BY <2>1 DEF Map, MapState
<1>3. \A i \in Inodes : chain[i] = <<>> /\ freeing[i] = <<>> /\ tail[i] = 0 OBVIOUS
<1>4. FatTypes
  <2>1. fat \in [Volumes -> SUBSET Contents] BY DEF Contents
  <2>2. <<>> \in Seq(Clusters(V)) OBVIOUS
  <2> QED BY <1>2, <2>1, <2>2 DEF FatTypes
<1>5. FilesAreApart
  <2>1. \A i \in Inodes : 1 .. Len(chain[i]) = {} /\ 1 .. Len(freeing[i]) = {} BY <1>3
  <2> QED BY <1>3, <2>1 DEF FilesAreApart, InUse, Once
<1>6. CountIsSound BY <1>1 DEF CountIsSound, FAT_START_ENT
<1>7. SpaceIsSound
  <2>1. Map.tree = {} BY DEF Map
  <2> QED BY <1>1, <2>1 DEF SpaceIsSound, Sound, Has, FAT_START_ENT
<1> QED BY <1>4, <1>5, <1>6, <1>7 DEF FatIInv

(* The clusters of a chain stay where they are or are set aside.           *)
LEMMA SetAsideKeeps ==
    ASSUME Volumes = {V}, FatIInv, NEW i \in Inodes, NEW skip \in 0 .. Len(chain[i]),
           freeing[i] = <<>>, fat_truncate_blocks(i, skip)
    PROVE  /\ chain' \in [Inodes -> Seq(Clusters(V))] /\ freeing' \in [Inodes -> Seq(Clusters(V))]
           /\ tail' \in [Inodes -> Int] /\ FilesAreApart'
<1>1. /\ chain \in [Inodes -> Seq(Clusters(V))] /\ freeing \in [Inodes -> Seq(Clusters(V))]
      /\ tail \in [Inodes -> Int]
  BY DEF FatIInv, FatTypes
<1>2. PICK s \in Seq(Clusters(V)) : s = chain[i] BY <1>1
<1>3. PICK n \in Nat : n = Len(s) BY LenProperties
<1>4. skip \in 0 .. n BY <1>2, <1>3
<1>5. PICK a : a = SubSeq(s, 1, skip) OBVIOUS
<1>6. a \in Seq(Clusters(V)) /\ Len(a) = skip /\ \A p \in 1 .. skip : a[p] = s[p]
  BY <1>3, <1>4, <1>5, SubSeqProperties
<1>7. PICK b : b = SubSeq(s, skip + 1, n) OBVIOUS
<1>8. b \in Seq(Clusters(V)) /\ Len(b) = n - skip /\ \A p \in 1 .. n - skip : b[p] = s[skip + p]
  BY <1>3, <1>4, <1>7, SubSeqProperties
<1>9. /\ chain' = [chain EXCEPT ![i] = a] /\ tail' = [tail EXCEPT ![i] = 0] /\ fat' = fat
      /\ freeing' = [freeing EXCEPT ![i] = b] \/ freeing' = freeing
  BY <1>2, <1>3, <1>5, <1>7 DEF fat_truncate_blocks
<1>10. /\ chain' \in [Inodes -> Seq(Clusters(V))] /\ freeing' \in [Inodes -> Seq(Clusters(V))]
       /\ tail' \in [Inodes -> Int]
  <2>1. chain' \in [Inodes -> Seq(Clusters(V))] BY <1>1, <1>6, <1>9
  <2>2. freeing' \in [Inodes -> Seq(Clusters(V))] BY <1>1, <1>8, <1>9
  <2>3. tail' \in [Inodes -> Int] BY <1>1, <1>9
  <2> QED BY <2>1, <2>2, <2>3
<1>11. /\ chain'[i] = a /\ (freeing'[i] = b \/ freeing'[i] = <<>>) /\ tail'[i] = 0
       /\ \A j \in Inodes : j # i =>
             chain'[j] = chain[j] /\ freeing'[j] = freeing[j] /\ tail'[j] = tail[j]
  BY <1>1, <1>9
<1>12. ASSUME NEW j \in Inodes, NEW p \in 1 .. Len(chain'[j])
       PROVE  /\ p \in 1 .. Len(chain[j]) /\ chain'[j][p] = chain[j][p] /\ (j = i => p <= skip)
  <2>1. CASE j = i BY <1>2, <1>3, <1>4, <1>6, <1>11, <1>12, <2>1
  <2>2. CASE j # i BY <1>11, <1>12, <2>2
  <2> QED BY <2>1, <2>2
<1>13. ASSUME NEW j \in Inodes, NEW q \in 1 .. Len(freeing'[j])
       PROVE  \/ j # i /\ q \in 1 .. Len(freeing[j]) /\ freeing'[j][q] = freeing[j][q]
              \/ j = i /\ skip + q \in 1 .. Len(chain[i]) /\ freeing'[j][q] = chain[i][skip + q]
                 /\ q > 0
  <2>1. CASE j = i
    <3>1. freeing'[i] # <<>> BY <1>13, <2>1
    <3>2. freeing'[i] = b BY <1>11, <3>1
    <3>3. q \in 1 .. n - skip BY <1>8, <1>13, <2>1, <3>2
    <3>4. skip + q \in 1 .. n BY <1>4, <3>3
    <3>5. freeing'[i][q] = s[skip + q] BY <1>8, <3>2, <3>3
    <3> QED BY <1>2, <1>3, <2>1, <3>3, <3>4, <3>5
  <2>2. CASE j # i BY <1>11, <1>13, <2>2
  <2> QED BY <2>1, <2>2
<1>14. FilesAreApart BY DEF FatIInv
<1>15. InUse(chain)' /\ Once(chain)'
  <2>1. InUse(chain)' BY <1>9, <1>12, <1>14 DEF FilesAreApart, InUse
  <2>2. ASSUME NEW j \in Inodes, NEW k \in Inodes, NEW p \in 1 .. Len(chain'[j]),
               NEW q \in 1 .. Len(chain'[k]), chain'[j][p] = chain'[k][q]
        PROVE  j = k /\ p = q
    BY <1>12, <1>14, <2>2 DEF FilesAreApart, Once
  <2> QED BY <2>1, <2>2 DEF Once
<1>16. InUse(freeing)'
  <2> SUFFICES ASSUME NEW j \in Inodes, NEW q \in 1 .. Len(freeing'[j])
               PROVE  freeing'[j][q] \in fat'[V]
    BY DEF InUse
  <2> QED BY <1>9, <1>13, <1>14 DEF FilesAreApart, InUse
<1>17. Once(freeing)'
  <2> SUFFICES ASSUME NEW j \in Inodes, NEW k \in Inodes, NEW p \in 1 .. Len(freeing'[j]),
                      NEW q \in 1 .. Len(freeing'[k]), freeing'[j][p] = freeing'[k][q]
               PROVE  j = k /\ p = q
    BY DEF Once
  <2>1. CASE j # i /\ k # i BY <1>13, <1>14, <2>1 DEF FilesAreApart, Once
  <2>2. CASE j = i /\ k = i
    <3>1. skip + p = skip + q BY <1>13, <1>14, <2>2 DEF FilesAreApart, Once
    <3> QED BY <2>2, <3>1, <1>4
  <2>3. CASE j = i /\ k # i BY <1>13, <1>14, <2>3 DEF FilesAreApart
  <2>4. CASE j # i /\ k = i BY <1>13, <1>14, <2>4 DEF FilesAreApart
  <2> QED BY <2>1, <2>2, <2>3, <2>4
<1>18. ASSUME NEW j \in Inodes, NEW k \in Inodes, NEW p \in 1 .. Len(chain'[j]),
              NEW q \in 1 .. Len(freeing'[k])
       PROVE  chain'[j][p] # freeing'[k][q]
  <2>1. CASE k # i BY <1>12, <1>13, <1>14, <2>1 DEF FilesAreApart
  <2>2. CASE k = i
    <3> SUFFICES ASSUME chain'[j][p] = freeing'[k][q] PROVE FALSE OBVIOUS
    <3>1. j = i /\ p = skip + q BY <1>12, <1>13, <1>14, <2>2 DEF FilesAreApart, Once
    <3>2. p <= skip BY <1>12, <3>1
    <3> QED BY <1>4, <3>1, <3>2
  <2> QED BY <2>1, <2>2
<1>19. \A j \in Inodes : tail'[j] # 0 => chain'[j] # <<>> /\ tail'[j] = chain'[j][Len(chain'[j])]
  BY <1>11, <1>14 DEF FilesAreApart
<1> QED BY <1>10, <1>15, <1>16, <1>17, <1>18, <1>19 DEF FilesAreApart

(* A step that leaves alone which clusters are free.                       *)
LEMMA QuietKeeps ==
    ASSUME Volumes = {V}, FatIInv, ~touched, Map' \in MapState, Sound(Map'), SameSpace(Map, Map'),
           UNCHANGED <<countvars, fat, fat_lock, lost, gaveup>>, FilesAreApart',
           chain' \in [Inodes -> Seq(Clusters(V))], freeing' \in [Inodes -> Seq(Clusters(V))],
           tail' \in [Inodes -> Int], opens' \in [Inodes -> Int]
    PROVE  FatIInv'
<1>1. /\ UNCHANGED <<free_clusters, free_clus_valid, state, counting, counted>>
      /\ UNCHANGED <<fat, fat_lock, lost, gaveup>>
  BY DEF countvars
<1>2. FatTypes' BY <1>1 DEF FatIInv, FatTypes
<1>3. CountIsSound' BY <1>1 DEF FatIInv, CountIsSound, FreeOf
<1>4. SpaceIsSound'
  <2>1. \A c \in Int : Has(Map', c) <=> Has(Map, c) BY DEF SameSpace
  <2>2. FreeOf(V)' = FreeOf(V) /\ FreeOf(V) \subseteq Int
    BY <1>1, TheVolume DEF FreeOf
  <2>3. SpaceIsSound BY DEF FatIInv
  <2> QED BY <1>1, <2>1, <2>2, <2>3 DEF SpaceIsSound
<1> QED BY <1>2, <1>3, <1>4 DEF FatIInv

LEMMA FilesStay ==
    ASSUME FatIInv, UNCHANGED <<fat, chain, freeing>>, tail' \in [Inodes -> Int],
           \A i \in Inodes : tail'[i] \in {0, tail[i]}
    PROVE  /\ FilesAreApart' /\ chain' \in [Inodes -> Seq(Clusters(V))]
           /\ freeing' \in [Inodes -> Seq(Clusters(V))]
<1>1. /\ FilesAreApart /\ chain \in [Inodes -> Seq(Clusters(V))]
      /\ freeing \in [Inodes -> Seq(Clusters(V))]
  BY DEF FatIInv, FatTypes
<1>2. \A i \in Inodes : tail'[i] # 0 => chain'[i] # <<>> /\ tail'[i] = chain'[i][Len(chain'[i])]
  BY <1>1 DEF FilesAreApart
<1>3. InUse(chain)' /\ InUse(freeing)' /\ Once(chain)' /\ Once(freeing)'
  BY <1>1 DEF FilesAreApart, InUse, Once
<1> QED BY <1>1, <1>2, <1>3 DEF FilesAreApart

LEMMA TruncateFatKeeps ==
    ASSUME Volumes = {V}, FatIInv, ~touched, NEW i \in Inodes,
           \/ \E skip \in 0 .. Len(chain[i]) : Truncate(i, skip)
           \/ fat_evict_inode(i) \/ fat_destroy_inode(i) \/ fat_alloc_inode(i)
    PROVE  FatIInv'
<1>1. /\ chain \in [Inodes -> Seq(Clusters(V))] /\ Map \in MapState /\ SpaceIsSound
      /\ opens \in [Inodes -> Int] /\ tail \in [Inodes -> Int]
  BY DEF FatIInv, FatTypes
<1>2. SameSpace(Map, Map) BY DEF SameSpace
<1>3. Sound(Map) BY <1>1 DEF SpaceIsSound
<1>4. ASSUME NEW skip \in 0 .. Len(chain[i]), freeing[i] = <<>>, fat_truncate_blocks(i, skip),
             UNCHANGED <<mapvars, countvars, lost, gaveup, opens>>
      PROVE  FatIInv'
  <2>1. /\ chain' \in [Inodes -> Seq(Clusters(V))] /\ freeing' \in [Inodes -> Seq(Clusters(V))]
        /\ tail' \in [Inodes -> Int] /\ FilesAreApart'
    BY <1>4, SetAsideKeeps
  <2>2. Map' = Map BY <1>4, MapStays
  <2>3. UNCHANGED <<countvars, fat, fat_lock, lost, gaveup>> BY <1>4 DEF fat_truncate_blocks
  <2> QED BY <1>1, <1>2, <1>3, <1>4, <2>1, <2>2, <2>3, QuietKeeps
<1>5. CASE \E skip \in 0 .. Len(chain[i]) : Truncate(i, skip)
  <2>1. PICK skip \in 0 .. Len(chain[i]) : Truncate(i, skip) BY <1>5
  <2> QED BY <1>4, <2>1 DEF Truncate, Idle, inodevars
<1>6. CASE fat_evict_inode(i)
  <2>1. 0 \in 0 .. Len(chain[i]) BY <1>1, LenProperties
  <2> QED BY <1>4, <1>6, <2>1 DEF fat_evict_inode, Idle
<1>7. CASE fat_destroy_inode(i) \/ fat_alloc_inode(i)
  <2>1. UNCHANGED <<mapvars, countvars, filevars, opens, lost, gaveup>>
    BY <1>7 DEF fat_destroy_inode, fat_alloc_inode
  <2>2. UNCHANGED <<fat, chain, freeing, fat_lock, tail>> BY <2>1 DEF filevars
  <2>3. /\ FilesAreApart' /\ chain' \in [Inodes -> Seq(Clusters(V))]
        /\ freeing' \in [Inodes -> Seq(Clusters(V))]
    BY <1>1, <2>2, FilesStay
  <2>4. Map' = Map BY <2>1, MapStays
  <2> QED BY <1>1, <1>2, <1>3, <2>1, <2>2, <2>3, <2>4, QuietKeeps
<1> QED BY <1>5, <1>6, <1>7

LEMMA OpenKeeps ==
    ASSUME Volumes = {V}, FatIInv, ~touched, NEW i \in Inodes, fat_file_open(i)
    PROVE  FatIInv'
<1> USE DEF fat_file_open
<1>1. /\ Map \in MapState /\ SpaceIsSound /\ opens \in [Inodes -> Int] /\ tail \in [Inodes -> Int]
  BY DEF FatIInv, FatTypes
<1>2. Sound(Map) BY <1>1 DEF SpaceIsSound
<1>3. UNCHANGED <<mem, tree, last_merged, touched, bug>> OBVIOUS
<1>4. Map' \in MapState
  <2>1. node \in [Inodes -> Cells \cup {NULL}] BY <1>1 DEF Map, MapState
  <2>2. node' \in [Inodes -> Cells \cup {NULL}] BY <2>1
  <2>3. strayed' \in BOOLEAN OBVIOUS
  <2> QED BY <1>1, <1>3, <2>2, <2>3 DEF Map, MapState
<1>5. Map'.mem = Map.mem /\ Map'.tree = Map.tree BY <1>3 DEF Map
<1>6. Sound(Map') /\ SameSpace(Map, Map')
  BY <1>2, <1>5 DEF Sound, SameSpace, Has, In, Start, Behind
<1>7. opens' \in [Inodes -> Int] /\ tail' \in [Inodes -> Int] BY <1>1
<1>8. \A j \in Inodes : tail'[j] \in {0, tail[j]} BY <1>1
<1>9. /\ FilesAreApart' /\ chain' \in [Inodes -> Seq(Clusters(V))]
      /\ freeing' \in [Inodes -> Seq(Clusters(V))]
  BY <1>7, <1>8, FilesStay
<1> QED BY <1>4, <1>6, <1>7, <1>9, QuietKeeps

LEMMA ReleaseFileKeeps ==
    ASSUME Volumes = {V}, FatIInv, ~touched, ~GoesOn, NEW i \in Inodes, fat_file_release(i)
    PROVE  FatIInv'
<1> USE DEF fat_file_release
<1>1. /\ Map \in MapState /\ SpaceIsSound /\ opens \in [Inodes -> Int] /\ tail \in [Inodes -> Int]
  BY DEF FatIInv, FatTypes
<1>2. Sound(Map) BY <1>1 DEF SpaceIsSound
<1>3. PICK t : t = blocks_mamager_on_inode_release(Map, i) OBVIOUS
<1>4. t \in MapState /\ Sound(t) /\ SameSpace(Map, t)
  BY <1>1, <1>2, <1>3, ReleaseKeeps DEF IsReleased
<1>5. Map' = t BY <1>3, <1>4, MapIs
<1>7. opens' \in [Inodes -> Int] /\ tail' \in [Inodes -> Int] BY <1>1
<1>8. \A j \in Inodes : tail'[j] \in {0, tail[j]} BY <1>1
<1>9. /\ FilesAreApart' /\ chain' \in [Inodes -> Seq(Clusters(V))]
      /\ freeing' \in [Inodes -> Seq(Clusters(V))]
  BY <1>7, <1>8, FilesStay
<1> QED BY <1>4, <1>5, <1>7, <1>9, QuietKeeps

LEMMA FreeIsFinite ==
    ASSUME Volumes = {V}, NEW F
    PROVE  IsFiniteSet(Clusters(V) \ F) /\ Cardinality(Clusters(V) \ F) \in Nat
<1>1. IsFiniteSet(2 .. LastOf[V]) BY TheVolume, FS_Interval
<1>2. IsFiniteSet(Clusters(V) \ F) BY <1>1, TheVolume, FS_Subset
<1> QED BY <1>2, FS_CardinalityType

LEMMA CountStartsKeeps ==
    ASSUME Volumes = {V}, FatIInv, ~touched, ~GoesOn, NEW v \in Volumes,
           fat_fill_super(v) \/ fat_statfs(v)
    PROVE  FatIInv'
<1>1. v = V /\ V \in Volumes OBVIOUS
<1>2. StartCount(V) BY <1>1 DEF fat_fill_super, fat_statfs
<1>3. FatTypes /\ CountIsSound /\ FilesAreApart BY DEF FatIInv
<1>4. PICK t : t = blocks_mamager_free_all(Map) OBVIOUS
<1>5. t \in MapState /\ t.tree = {} BY <1>3, <1>4, FreeAllKeeps DEF IsEmptied, FatTypes
<1>6. Map' = t BY <1>2, <1>4, <1>5, MapIs DEF StartCount
<1>7. /\ counting' = [counting EXCEPT ![V] = 1] /\ counted' = [w \in Volumes |-> FALSE]
      /\ lost' = [lost EXCEPT ![V] = {}] /\ tail' = [i \in Inodes |-> 0]
      /\ UNCHANGED <<opens, fat, chain, freeing, fat_lock, gaveup>>
  BY <1>2 DEF StartCount, inodevars
<1>8. /\ counting'[V] = 1 /\ counted'[V] = FALSE /\ lost'[V] = {}
      /\ counting' \in [Volumes -> Nat] /\ counted' \in [Volumes -> BOOLEAN]
      /\ lost' \in [Volumes -> SUBSET Int] /\ tail' \in [Inodes -> Int]
  BY <1>3, <1>7 DEF FatTypes
<1>9. /\ free_clusters' \in [Volumes -> Int] /\ free_clus_valid' \in [Volumes -> BOOLEAN]
      /\ state' \in [Volumes -> {"out", "mounting", "mounted", "closing"}]
      /\ state'[V] \in {"mounting", "mounted"}
      /\ free_clusters'[V] >= -1 /\ (~free_clus_valid'[V] => free_clusters'[V] = -1)
      /\ free_clusters'[V] # -1 => free_clusters'[V] = Cardinality(FreeOf(V))
  <2>1. /\ free_clusters \in [Volumes -> Int] /\ free_clus_valid \in [Volumes -> BOOLEAN]
        /\ state \in [Volumes -> {"out", "mounting", "mounted", "closing"}]
    BY <1>3 DEF FatTypes
  <2>2. CASE fat_fill_super(v)
    <3>1. Cardinality(FreeOf(V)) \in Nat BY FreeIsFinite DEF FreeOf
    <3>2. /\ state' = [state EXCEPT ![V] = "mounting"]
          /\ free_clusters' = [free_clusters EXCEPT
                                 ![V] = IF V \in UseFree THEN Cardinality(FreeOf(V)) ELSE -1]
          /\ free_clus_valid' = [free_clus_valid EXCEPT ![V] = V \in UseFree]
      BY <1>1, <2>2 DEF fat_fill_super
    <3>3. free_clusters'[V] = IF V \in UseFree THEN Cardinality(FreeOf(V)) ELSE -1
      BY <2>1, <3>2
    <3>4. free_clus_valid'[V] = (V \in UseFree) BY <2>1, <3>2
    <3>5. /\ state'[V] = "mounting"
          /\ state' \in [Volumes -> {"out", "mounting", "mounted", "closing"}]
      BY <2>1, <3>2
    <3>6. free_clusters' \in [Volumes -> Int] BY <2>1, <3>1, <3>2
    <3>7. free_clus_valid' \in [Volumes -> BOOLEAN] BY <2>1, <3>2
    <3>8. CASE V \in UseFree
      <4>1. free_clusters'[V] = Cardinality(FreeOf(V)) /\ free_clus_valid'[V] BY <3>3, <3>4, <3>8
      <4>2. free_clusters'[V] >= -1 BY <3>1, <4>1
      <4> QED BY <3>5, <3>6, <3>7, <4>1, <4>2
    <3>9. CASE V \notin UseFree
      <4>1. free_clusters'[V] = -1 BY <3>3, <3>9
      <4> QED BY <3>5, <3>6, <3>7, <4>1
    <3> QED BY <3>8, <3>9
  <2>3. CASE fat_statfs(v)
    <3>1. /\ UNCHANGED <<free_clusters, free_clus_valid, state>> /\ state[V] = "mounted"
          /\ free_clusters[V] = -1
      BY <1>1, <1>3, <2>3 DEF fat_statfs, CountIsSound
    <3> QED BY <2>1, <3>1
  <2> QED BY <2>2, <2>3
<1>10. FatTypes' BY <1>3, <1>5, <1>6, <1>7, <1>8, <1>9 DEF FatTypes
<1>11. FilesAreApart'
  <2>1. \A i \in Inodes : tail'[i] \in {0, tail[i]} BY <1>7
  <2> QED BY <1>7, <1>8, <2>1, FilesStay
<1>12. CountIsSound'
  <2>1. FreeOf(V)' = FreeOf(V) /\ Cardinality(FreeOf(V)) \in Nat
    BY <1>7, FreeIsFinite DEF FreeOf
  <2> QED BY <1>8, <1>9, <2>1 DEF CountIsSound, FAT_START_ENT
<1>13. SpaceIsSound'
  <2>1. \A c \in Int : ~Has(Map', c) BY <1>5, <1>6 DEF Has
  <2>2. Sound(Map') BY <1>5, <1>6 DEF Sound
  <2> QED BY <1>8, <2>1, <2>2 DEF SpaceIsSound, FAT_START_ENT
<1> QED BY <1>10, <1>11, <1>12, <1>13 DEF FatIInv

LEMMA PutSuperKeeps ==
    ASSUME Volumes = {V}, FatIInv, ~touched, ~GoesOn, NEW v \in Volumes, fat_put_super(v)
    PROVE  FatIInv'
<1>1. v = V /\ V \in Volumes OBVIOUS
<1>3. FatTypes /\ CountIsSound /\ FilesAreApart /\ SpaceIsSound BY DEF FatIInv
<1>4. PICK t : t = blocks_mamager_free_all(Map) OBVIOUS
<1>5. t \in MapState /\ t.tree = {} BY <1>3, <1>4, FreeAllKeeps DEF IsEmptied, FatTypes
<1>6. Map' = t BY <1>4, <1>5, MapIs DEF fat_put_super
<1>7. /\ state[V] = "closing" /\ state' = [state EXCEPT ![V] = "out"]
      /\ counted' = [w \in Volumes |-> FALSE] /\ tail' = [i \in Inodes |-> 0]
      /\ UNCHANGED <<free_clusters, free_clus_valid, counting, opens, fat, chain, freeing, fat_lock,
                     lost, gaveup>>
  BY <1>1 DEF fat_put_super, inodevars
<1>8. /\ counted'[V] = FALSE /\ counted' \in [Volumes -> BOOLEAN] /\ tail' \in [Inodes -> Int]
      /\ state' \in [Volumes -> {"out", "mounting", "mounted", "closing"}]
      /\ counting[V] = 0
  BY <1>3, <1>7 DEF FatTypes, CountIsSound
<1>10. FatTypes' BY <1>3, <1>5, <1>6, <1>7, <1>8 DEF FatTypes
<1>11. FilesAreApart'
  <2>1. \A i \in Inodes : tail'[i] \in {0, tail[i]} BY <1>7
  <2> QED BY <1>7, <1>8, <2>1, FilesStay
<1>12. CountIsSound' BY <1>3, <1>7, <1>8 DEF CountIsSound, FreeOf, FAT_START_ENT
<1>13. SpaceIsSound'
  <2>1. \A c \in Int : ~Has(Map', c) BY <1>5, <1>6 DEF Has
  <2>2. Sound(Map') BY <1>5, <1>6 DEF Sound
  <2>3. FreeOf(V)' = FreeOf(V) BY <1>7 DEF FreeOf
  <2> QED BY <1>3, <1>7, <1>8, <2>1, <2>2, <2>3 DEF SpaceIsSound, FAT_START_ENT
<1> QED BY <1>10, <1>11, <1>12, <1>13 DEF FatIInv

LEMMA EvictInodesKeeps ==
    ASSUME Volumes = {V}, FatIInv, ~touched, NEW v \in Volumes, EvictInodes(v)
    PROVE  FatIInv'
<1>1. v = V /\ V \in Volumes /\ \A i \in Inodes : VolumeOf[i] = V BY TheVolume
<1>3. FatTypes /\ CountIsSound /\ FilesAreApart /\ SpaceIsSound BY DEF FatIInv
<1>4. /\ state' = [state EXCEPT ![V] = "closing"] /\ counting[V] = 0
      /\ chain' = [i \in Inodes |-> <<>>] /\ tail' = [i \in Inodes |-> 0]
      /\ \A i \in Inodes : freeing[i] = <<>>
      /\ UNCHANGED <<mapvars, free_clusters, free_clus_valid, counting, counted, opens,
                     fat, freeing, fat_lock, lost, gaveup>>
  BY <1>1 DEF EvictInodes
<1>5. Map' = Map /\ touched' = touched BY <1>4, MapStays
<1>6. /\ chain' \in [Inodes -> Seq(Clusters(V))] /\ tail' \in [Inodes -> Int]
      /\ state' \in [Volumes -> {"out", "mounting", "mounted", "closing"}]
  <2>1. <<>> \in Seq(Clusters(V)) OBVIOUS
  <2> QED BY <1>3, <1>4, <2>1 DEF FatTypes
<1>7. FatTypes' BY <1>3, <1>4, <1>5, <1>6 DEF FatTypes
<1>8. FilesAreApart'
  <2>1. \A i \in Inodes : /\ 1 .. Len(chain'[i]) = {} /\ 1 .. Len(freeing'[i]) = {}
                          /\ tail'[i] = 0
    BY <1>4
  <2> QED BY <2>1 DEF FilesAreApart, InUse, Once
<1>9. CountIsSound' BY <1>3, <1>4 DEF CountIsSound, FreeOf, FAT_START_ENT
<1>10. SpaceIsSound'
  <2>1. FreeOf(V)' = FreeOf(V) BY <1>4 DEF FreeOf
  <2> QED BY <1>3, <1>4, <1>5, <2>1 DEF SpaceIsSound
<1> QED BY <1>7, <1>8, <1>9, <1>10 DEF FatIInv

LEMMA LockCountKeeps ==
    ASSUME Volumes = {V}, FatIInv, ~touched, NEW v \in Volumes, LockCount(v)
    PROVE  FatIInv'
<1>1. v = V /\ V \in Volumes /\ FAT_START_ENT = 2 /\ Clusters(V) = 2 .. LastOf[V] BY TheVolume
<1>3. FatTypes /\ CountIsSound /\ FilesAreApart /\ SpaceIsSound BY DEF FatIInv
<1>4. /\ counting[V] = 1
      /\ UNCHANGED <<mapvars, free_clusters, free_clus_valid, counted, inodevars, fat, chain,
                     freeing, tail, lost, gaveup>>
  BY <1>1 DEF LockCount
<1>5. Map' = Map /\ touched' = touched /\ opens' = opens BY <1>4, MapStays DEF inodevars
<1>6. \/ /\ free_clusters[V] # -1
         /\ counting' = [counting EXCEPT ![V] = 0] /\ state' = [state EXCEPT ![V] = "mounted"]
         /\ fat_lock' = fat_lock
      \/ /\ ~(free_clusters[V] # -1 /\ free_clus_valid[V])
         /\ counting' = [counting EXCEPT ![V] = 2] /\ fat_lock' = [fat_lock EXCEPT ![V] = "count"]
         /\ state' = state
  BY <1>1 DEF LockCount, Mounted
<1>7. \/ /\ free_clusters[V] # -1 /\ counting'[V] = 0 /\ state'[V] = "mounted"
      \/ /\ free_clusters[V] = -1 /\ counting'[V] = 2 /\ fat_lock'[V] = "count"
         /\ state'[V] = state[V]
  BY <1>1, <1>3, <1>6 DEF FatTypes, CountIsSound
<1>8. FatTypes'
  <2>1. /\ counting' \in [Volumes -> Nat]
        /\ state' \in [Volumes -> {"out", "mounting", "mounted", "closing"}]
    BY <1>3, <1>6 DEF FatTypes
  <2>2. fat_lock' \in [Volumes -> Inodes \cup {NULL, "count"}] BY <1>3, <1>6 DEF FatTypes
  <2> QED BY <1>3, <1>4, <1>5, <2>1, <2>2 DEF FatTypes
<1>9. FilesAreApart'
  <2>1. tail' \in [Inodes -> Int] /\ \A i \in Inodes : tail'[i] \in {0, tail[i]}
    BY <1>3, <1>4 DEF FatTypes
  <2> QED BY <1>4, <2>1, FilesStay
<1>10. CountIsSound'
  <2>1. FreeOf(V)' = FreeOf(V) BY <1>4 DEF FreeOf
  <2>2. ~counted[V] BY <1>3, <1>4 DEF CountIsSound
  <2>3. state[V] \notin {"out", "closing"} BY <1>3, <1>4 DEF CountIsSound
  <2> QED BY <1>1, <1>3, <1>4, <1>7, <2>1, <2>2, <2>3 DEF CountIsSound
<1>11. SpaceIsSound'
  <2>1. FreeOf(V)' = FreeOf(V) BY <1>4 DEF FreeOf
  <2>2. \A c \in FreeOf(V) : c \in Int /\ ~(c < 2) BY <1>1, TheVolume DEF FreeOf
  <2>3. SpaceIsSound'
    <3>1. CASE counting'[V] = 0 BY <1>1, <1>3, <1>4, <1>5, <2>1, <3>1 DEF SpaceIsSound
    <3>2. CASE counting'[V] # 0
      <4>1. free_clusters[V] = -1 /\ counting'[V] = 2 BY <1>7, <3>2
      <4>2. lost[V] = {} /\ \A c \in Int : ~Has(Map, c) BY <1>3, <1>4, <4>1 DEF SpaceIsSound
      <4> QED BY <1>1, <1>3, <1>4, <1>5, <2>1, <2>2, <4>1, <4>2 DEF SpaceIsSound
    <3> QED BY <3>1, <3>2
  <2> QED BY <2>3
<1> QED BY <1>8, <1>9, <1>10, <1>11 DEF FatIInv

LEMMA CountKeeps ==
    ASSUME Volumes = {V}, FatIInv, ~touched, ~GoesOn, NEW v \in Volumes, fat_count_free_clusters(v)
    PROVE  FatIInv'
<1> DEFINE ahead == {c \in FreeOf(V) : c >= counting[V]}
<1>1. v = V /\ V \in Volumes /\ FAT_START_ENT = 2 /\ Clusters(V) = 2 .. LastOf[V]
      /\ LastOf[V] \in Nat
  BY TheVolume
<1>2. FatTypes /\ CountIsSound /\ FilesAreApart /\ SpaceIsSound BY DEF FatIInv
<1>3. /\ counting[V] >= 2 /\ counting[V] \in Nat /\ Map \in MapState /\ ~counted[V]
      /\ fat_lock[V] = "count" /\ state[V] \notin {"out", "closing"}
      /\ counting \in [Volumes -> Nat] /\ lost \in [Volumes -> SUBSET Int]
  BY <1>1, <1>2 DEF fat_count_free_clusters, FatTypes, CountIsSound
<1>4. UNCHANGED <<opens, fat, chain, freeing, tail, gaveup>>
  BY DEF fat_count_free_clusters, inodevars
<1>5. FreeOf(V)' = FreeOf(V) /\ FreeOf(V) \subseteq 2 .. LastOf[V] BY <1>1, <1>4 DEF FreeOf
<1>6. FilesAreApart'
  <2>1. tail' \in [Inodes -> Int] /\ \A i \in Inodes : tail'[i] \in {0, tail[i]}
    BY <1>2, <1>4 DEF FatTypes
  <2> QED BY <1>4, <2>1, FilesStay
<1>7. ASSUME NEW first \in ahead, NEW last \in ahead, first <= last,
             first .. last \subseteq ahead, \A c \in ahead : first <= c,
             NEW r \in blocks_mamager_free_blocks(Map, first, last - first + 1), Becomes(r.map),
             lost' = IF r.kept THEN lost ELSE [lost EXCEPT ![V] = @ \cup (first .. last)],
             counting' = [counting EXCEPT ![V] = last + 1],
             UNCHANGED <<fat_lock, free_clusters, free_clus_valid, state, counted>>
      PROVE  FatIInv'
  <2>1. first \in Nat /\ last \in Nat /\ first \in FreeOf(V) /\ last \in FreeOf(V)
        /\ counting[V] <= first
    BY <1>1, <1>3, <1>5
  <2>2. PICK k : k = last - first + 1 OBVIOUS
  <2>3. k \in Nat \ {0} /\ first .. first + k - 1 = first .. last /\ first + k = last + 1
    BY <1>7, <2>1, <2>2
  <2>4. \A c \in first .. last : c \in FreeOf(V) /\ c \in Int /\ counting[V] <= c
    BY <1>1, <1>3, <1>5, <1>7
  <2>5. \A c \in FreeOf(V) : c < counting[V] <=> Has(Map, c) \/ c \in lost[V]
    BY <1>1, <1>2, <1>3 DEF SpaceIsSound
  <2>6. \A c \in first .. last : ~Has(Map, c) /\ c \notin lost[V] BY <1>3, <2>4, <2>5
  <2>7. Sound(Map) BY <1>2 DEF SpaceIsSound
  <2>8. /\ r.kept \in BOOLEAN /\ r.map \in MapState /\ Sound(r.map)
        /\ ~r.map.touched =>
              \A c \in Int : Has(r.map, c) <=> Has(Map, c) \/ (r.kept /\ c \in first .. last)
    <3>1. \A c \in first .. first + k - 1 : ~Has(Map, c) BY <2>3, <2>6
    <3>2. r \in blocks_mamager_free_blocks(Map, first, k) BY <2>2
    <3>3. /\ r.kept \in BOOLEAN /\ r.map \in MapState /\ Sound(r.map)
          /\ ~r.map.touched =>
                \A c \in Int : Has(r.map, c) <=>
                                  Has(Map, c) \/ (r.kept /\ c \in first .. first + k - 1)
      BY <1>3, <2>1, <2>3, <2>7, <3>1, <3>2, BlocksAreFreed
    <3> QED BY <2>3, <3>3
  <2>9. Map' = r.map /\ touched' = r.map.touched BY <1>7, <2>8, MapIs DEF Becomes
  <2>10. counting'[V] = last + 1 /\ counting' \in [Volumes -> Nat] BY <1>1, <1>3, <1>7, <2>1
  <2>11. /\ lost' \in [Volumes -> SUBSET Int]
         /\ lost'[V] = IF r.kept THEN lost[V] ELSE lost[V] \cup (first .. last)
    <3>1. CASE r.kept BY <1>3, <1>7, <3>1
    <3>2. CASE ~r.kept
      <4>1. first .. last \subseteq Int BY <2>4
      <4>2. lost' = [lost EXCEPT ![V] = @ \cup (first .. last)] BY <1>7, <3>2
      <4> QED BY <1>1, <1>3, <3>2, <4>1, <4>2
    <3> QED BY <3>1, <3>2
  <2>12. FatTypes' BY <1>2, <1>4, <1>7, <2>8, <2>9, <2>10, <2>11 DEF FatTypes
  <2>13. CountIsSound'
    BY <1>1, <1>2, <1>3, <1>4, <1>5, <1>7 DEF CountIsSound
  <2>14. ASSUME ~touched' PROVE SpaceIsSound'
    <3>1. \A c \in Int : Has(Map', c) <=> Has(Map, c) \/ (r.kept /\ c \in first .. last)
      BY <2>8, <2>9, <2>14
    <3>2. \A c \in Int : Has(Map', c) => c \in FreeOf(V) /\ c \notin lost'[V]
      <4> SUFFICES ASSUME NEW c \in Int, Has(Map', c) PROVE c \in FreeOf(V) /\ c \notin lost'[V]
        OBVIOUS
      <4>1. CASE Has(Map, c)
        <5>1. c \in FreeOf(V) /\ c \notin lost[V] BY <1>2, <4>1 DEF SpaceIsSound
        <5>2. c \notin first .. last BY <2>6, <4>1
        <5> QED BY <2>11, <5>1, <5>2
      <4>2. CASE ~Has(Map, c) BY <2>4, <2>6, <2>11, <3>1, <4>2
      <4> QED BY <4>1, <4>2
    <3>3. lost'[V] \subseteq FreeOf(V) BY <1>2, <2>4, <2>11 DEF SpaceIsSound
    <3>4. ASSUME NEW c \in FreeOf(V)
          PROVE  c < last + 1 <=> Has(Map', c) \/ c \in lost'[V]
      <4>1. c \in Int BY <1>5
      <4>2. CASE c < counting[V] BY <2>1, <1>3, <1>7, <2>5, <2>11, <3>1, <4>1, <4>2
      <4>3. CASE c \in first .. last
        <5>1. c < last + 1 BY <2>1, <4>1, <4>3
        <5>2. r.kept => Has(Map', c) BY <3>1, <4>1, <4>3
        <5>3. ~r.kept => c \in lost'[V] BY <2>11, <4>3
        <5> QED BY <5>1, <5>2, <5>3
      <4>4. CASE c > last
        <5>1. ~Has(Map, c) /\ c \notin lost[V] BY <1>3, <1>7, <2>1, <2>5, <4>1, <4>4
        <5> QED BY <2>1, <2>11, <3>1, <4>1, <4>4, <5>1
      <4>5. counting[V] <= c => first <= c BY <1>3, <1>7, <4>1
      <4> QED BY <1>3, <2>1, <4>1, <4>2, <4>3, <4>4, <4>5
    <3> QED BY <1>1, <1>3, <1>5, <1>7, <2>1, <2>8, <2>9, <2>10, <3>2, <3>3, <3>4 DEF SpaceIsSound
  <2> QED BY <1>6, <2>12, <2>13, <2>14 DEF FatIInv
<1>8. ASSUME EndCount(V), UNCHANGED <<mapvars, lost>>,
             \/ /\ ahead = {}
                /\ free_clusters' = [free_clusters EXCEPT ![V] = Cardinality(FreeOf(V))]
                /\ free_clus_valid' = [free_clus_valid EXCEPT ![V] = TRUE]
                /\ counted' = [counted EXCEPT ![V] = TRUE]
             \/ UNCHANGED <<free_clusters, free_clus_valid, counted>>
      PROVE  FatIInv'
  <2>1. /\ Map' = Map /\ touched' = touched /\ counting' = [counting EXCEPT ![V] = 0]
        /\ state' = [state EXCEPT ![V] = "mounted"] /\ fat_lock' = [fat_lock EXCEPT ![V] = NULL]
    BY <1>8, MapStays DEF EndCount, Mounted
  <2>2. /\ counting' \in [Volumes -> Nat] /\ counting'[V] = 0 /\ state'[V] = "mounted"
        /\ state' \in [Volumes -> {"out", "mounting", "mounted", "closing"}]
        /\ fat_lock' \in [Volumes -> Inodes \cup {NULL, "count"}]
    BY <1>2, <2>1 DEF FatTypes
  <2>3. Cardinality(FreeOf(V)) \in Nat BY FreeIsFinite DEF FreeOf
  <2>4. /\ free_clusters' \in [Volumes -> Int] /\ free_clus_valid' \in [Volumes -> BOOLEAN]
        /\ counted' \in [Volumes -> BOOLEAN]
    <3>1. free_clusters' \in [Volumes -> Int] BY <1>2, <1>8, <2>3 DEF FatTypes
    <3>2. free_clus_valid' \in [Volumes -> BOOLEAN] BY <1>2, <1>8 DEF FatTypes
    <3>3. counted' \in [Volumes -> BOOLEAN] BY <1>2, <1>8 DEF FatTypes
    <3> QED BY <3>1, <3>2, <3>3
  <2>5. \/ /\ ahead = {} /\ free_clusters'[V] = Cardinality(FreeOf(V)) /\ free_clus_valid'[V]
        \/ /\ free_clusters'[V] = free_clusters[V] /\ free_clus_valid'[V] = free_clus_valid[V]
           /\ ~counted'[V]
    BY <1>2, <1>3, <1>8 DEF FatTypes
  <2>6. FatTypes' BY <1>2, <1>4, <1>8, <2>1, <2>2, <2>4 DEF FatTypes
  <2>7. CountIsSound' BY <1>1, <1>2, <1>4, <1>5, <2>2, <2>3, <2>5 DEF CountIsSound
  <2>8. SpaceIsSound'
    <3>1. ahead = {} => \A c \in FreeOf(V) : Has(Map, c) \/ c \in lost[V]
      BY <1>1, <1>2, <1>3, <1>5 DEF SpaceIsSound
    <3> QED BY <1>1, <1>2, <1>5, <1>8, <2>1, <2>2, <2>5, <3>1 DEF SpaceIsSound
  <2> QED BY <1>6, <2>6, <2>7, <2>8 DEF FatIInv
<1>9. \/ \E first, last \in ahead :
            /\ first <= last /\ first .. last \subseteq ahead /\ \A c \in ahead : first <= c
            /\ \E r \in blocks_mamager_free_blocks(Map, first, last - first + 1) :
                 /\ Becomes(r.map)
                 /\ lost' = IF r.kept THEN lost ELSE [lost EXCEPT ![V] = @ \cup (first .. last)]
            /\ counting' = [counting EXCEPT ![V] = last + 1]
            /\ UNCHANGED <<fat_lock, free_clusters, free_clus_valid, state, counted>>
      \/ /\ EndCount(V) /\ UNCHANGED <<mapvars, lost>>
         /\ \/ /\ ahead = {}
               /\ free_clusters' = [free_clusters EXCEPT ![V] = Cardinality(FreeOf(V))]
               /\ free_clus_valid' = [free_clus_valid EXCEPT ![V] = TRUE]
               /\ counted' = [counted EXCEPT ![V] = TRUE]
            \/ UNCHANGED <<free_clusters, free_clus_valid, counted>>
  BY <1>1 DEF fat_count_free_clusters
<1> HIDE DEF ahead
<1> QED BY <1>7, <1>8, <1>9

LEMMA HeadIsInUse ==
    ASSUME FatIInv, NEW i \in Inodes, freeing[i] # <<>>
    PROVE  LET c == Head(freeing[i])
           IN  /\ c \in Clusters(V) /\ c \in fat[V] /\ c = freeing[i][1]
               /\ Len(freeing[i]) \in Nat \ {0}
               /\ \A j \in Inodes : \A p \in 1 .. Len(chain[j]) : chain[j][p] # c
<1>1. PICK s \in Seq(Clusters(V)) : s = freeing[i] BY DEF FatIInv, FatTypes
<1>2. s # <<>> BY <1>1
<1>3. Head(s) \in Clusters(V) /\ Head(s) = s[1] /\ Len(s) \in Nat \ {0}
  BY <1>2, HeadTailProperties, EmptySeq
<1>4. 1 \in 1 .. Len(s) BY <1>3
<1>5. s[1] \in fat[V] /\ \A j \in Inodes : \A p \in 1 .. Len(chain[j]) : chain[j][p] # s[1]
  BY <1>1, <1>4 DEF FatIInv, FilesAreApart, InUse
<1> QED BY <1>1, <1>3, <1>5

LEMMA FreedFilesAreApart ==
    ASSUME FatIInv, V \in Volumes, NEW i \in Inodes, freeing[i] # <<>>,
           fat' = [fat EXCEPT ![V] = @ \ {Head(freeing[i])}],
           freeing' = [freeing EXCEPT ![i] = Tail(@)], UNCHANGED <<chain, tail>>
    PROVE  FilesAreApart' /\ freeing' \in [Inodes -> Seq(Clusters(V))]
<1>1. /\ FilesAreApart /\ freeing \in [Inodes -> Seq(Clusters(V))]
      /\ fat \in [Volumes -> SUBSET Contents]
  BY DEF FatIInv, FatTypes
<1>2. PICK c : c = Head(freeing[i]) OBVIOUS
<1>3. /\ c \in fat[V] /\ c = freeing[i][1] /\ Len(freeing[i]) \in Nat \ {0}
      /\ \A j \in Inodes : \A p \in 1 .. Len(chain[j]) : chain[j][p] # c
  BY <1>2, HeadIsInUse
<1>4. fat'[V] = fat[V] \ {c} BY <1>1, <1>2
<1>5. PICK s : s = freeing[i] OBVIOUS
<1>6. PICK u : u = Tail(s) OBVIOUS
<1>7. /\ u \in Seq(Clusters(V)) /\ Len(u) = Len(s) - 1
      /\ \A p \in 1 .. Len(u) : u[p] = s[p + 1]
  BY <1>1, <1>5, <1>6, HeadTailProperties
<1>8. freeing' = [freeing EXCEPT ![i] = u] BY <1>5, <1>6
<1>9. freeing' \in [Inodes -> Seq(Clusters(V))] BY <1>1, <1>7, <1>8
<1>10. ASSUME NEW j \in Inodes, NEW q \in 1 .. Len(freeing'[j])
       PROVE  IF j = i THEN q + 1 \in 1 .. Len(freeing[i]) /\ freeing'[j][q] = freeing[i][q + 1]
                       ELSE q \in 1 .. Len(freeing[j]) /\ freeing'[j][q] = freeing[j][q]
  <2>1. CASE j = i
    <3>1. freeing'[j] = u BY <1>1, <1>8, <2>1
    <3>2. q + 1 \in 1 .. Len(s) BY <1>3, <1>5, <1>7, <1>10, <3>1
    <3> QED BY <1>5, <1>7, <1>10, <2>1, <3>1, <3>2
  <2>2. CASE j # i BY <1>1, <1>8, <1>10, <2>2
  <2> QED BY <2>1, <2>2
<1>11. 1 \in 1 .. Len(freeing[i]) BY <1>3
<1>12. InUse(chain)' BY <1>1, <1>3, <1>4 DEF InUse, FilesAreApart
<1>13. InUse(freeing)'
  <2> SUFFICES ASSUME NEW j \in Inodes, NEW q \in 1 .. Len(freeing'[j])
               PROVE  freeing'[j][q] \in fat[V] \ {c}
    BY <1>4 DEF InUse
  <2>1. CASE j = i
    <3>1. q + 1 \in 1 .. Len(freeing[i]) /\ freeing'[j][q] = freeing[i][q + 1] BY <1>10, <2>1
    <3>2. q + 1 # 1 OBVIOUS
    <3>3. freeing[i][q + 1] # c BY <1>1, <1>3, <1>11, <3>1, <3>2 DEF FilesAreApart, Once
    <3> QED BY <1>1, <2>1, <3>1, <3>3 DEF FilesAreApart, InUse
  <2>2. CASE j # i
    <3>1. q \in 1 .. Len(freeing[j]) /\ freeing'[j][q] = freeing[j][q] BY <1>10, <2>2
    <3>2. freeing[j][q] # c BY <1>1, <1>3, <1>11, <2>2, <3>1 DEF FilesAreApart, Once
    <3> QED BY <1>1, <3>1, <3>2 DEF FilesAreApart, InUse
  <2> QED BY <2>1, <2>2
<1>14. Once(freeing)'
  <2> SUFFICES ASSUME NEW j \in Inodes, NEW k \in Inodes, NEW p \in 1 .. Len(freeing'[j]),
                      NEW q \in 1 .. Len(freeing'[k]), freeing'[j][p] = freeing'[k][q]
               PROVE  j = k /\ p = q
    BY DEF Once
  <2>1. CASE j # i /\ k # i BY <1>10, <1>1, <2>1 DEF FilesAreApart, Once
  <2>2. CASE j = i /\ k = i
    <3>1. p + 1 = q + 1 BY <1>10, <1>1, <2>2 DEF FilesAreApart, Once
    <3> QED BY <2>2, <3>1
  <2>3. CASE j = i /\ k # i BY <1>10, <1>1, <2>3 DEF FilesAreApart, Once
  <2>4. CASE j # i /\ k = i BY <1>10, <1>1, <2>4 DEF FilesAreApart, Once
  <2> QED BY <2>1, <2>2, <2>3, <2>4
<1>15. ASSUME NEW j \in Inodes, NEW k \in Inodes, NEW p \in 1 .. Len(chain'[j]),
              NEW q \in 1 .. Len(freeing'[k])
       PROVE  chain'[j][p] # freeing'[k][q]
  <2>1. CASE k = i BY <1>10, <1>1, <2>1 DEF FilesAreApart
  <2>2. CASE k # i BY <1>10, <1>1, <2>2 DEF FilesAreApart
  <2> QED BY <2>1, <2>2
<1>16. \A j \in Inodes : tail'[j] # 0 => chain'[j] # <<>> /\ tail'[j] = chain'[j][Len(chain'[j])]
  BY <1>1 DEF FilesAreApart
<1>17. Once(chain)' BY <1>1 DEF FilesAreApart, Once
<1> QED BY <1>9, <1>12, <1>13, <1>14, <1>15, <1>16, <1>17 DEF FilesAreApart

LEMMA FreeKeeps ==
    ASSUME Volumes = {V}, FatIInv, ~touched, ~GoesOn, NEW i \in Inodes, fat_free_clusters(i)
    PROVE  FatIInv'
<1>1. /\ V \in Volumes /\ VolumeOf[i] = V /\ FAT_START_ENT = 2 /\ Clusters(V) = 2 .. LastOf[V]
      /\ LastOf[V] \in Nat
  BY TheVolume
<1>2. FatTypes /\ CountIsSound /\ FilesAreApart /\ SpaceIsSound BY DEF FatIInv
<1>3. PICK c : c = Head(freeing[i]) OBVIOUS
<1>4. /\ freeing[i] # <<>> /\ fat_lock[V] \in {NULL, i}
      /\ UNCHANGED <<inodevars, chain, tail, clash, free_clus_valid, state, counting, counted,
                     gaveup>>
  BY <1>1 DEF fat_free_clusters
<1>5. /\ c \in 2 .. LastOf[V] /\ c \in fat[V]
      /\ \A j \in Inodes : \A p \in 1 .. Len(chain[j]) : chain[j][p] # c
  BY <1>1, <1>3, <1>4, HeadIsInUse
<1>6. counting[V] < 2 /\ counting[V] \in Nat /\ Sound(Map) /\ Map \in MapState
  <2>1. fat_lock[V] # "count" BY <1>4, FatAssumption
  <2> QED BY <1>1, <1>2, <2>1 DEF CountIsSound, FatTypes, SpaceIsSound
<1>7. c \notin FreeOf(V) /\ ~Has(Map, c)
  <2>1. c \notin FreeOf(V) BY <1>5 DEF FreeOf
  <2> QED BY <1>2, <1>5, <2>1 DEF SpaceIsSound
<1>8. CASE /\ fat' = [fat EXCEPT ![V] = @ \ {c}] /\ Count(V, 1)
           /\ IF free_clusters[V] = -1 THEN UNCHANGED <<mapvars, lost, failures>>
              ELSE \E r \in blocks_mamager_free_blocks(Map, c, 1) :
                     /\ Becomes(r.map) /\ KeptOrFailed(r)
                     /\ lost' = IF r.kept THEN lost ELSE [lost EXCEPT ![V] = @ \cup {c}]
           /\ freeing' = [freeing EXCEPT ![i] = Tail(@)]
           /\ fat_lock' \in {[fat_lock EXCEPT ![V] = i], [fat_lock EXCEPT ![V] = NULL]}
  <2>1. FilesAreApart' /\ freeing' \in [Inodes -> Seq(Clusters(V))]
    BY <1>1, <1>3, <1>4, <1>8, FreedFilesAreApart
  <2>2. fat' \in [Volumes -> SUBSET Contents] /\ fat'[V] = fat[V] \ {c}
    BY <1>1, <1>2, <1>8 DEF FatTypes
  <2>3. FreeOf(V)' = FreeOf(V) \cup {c} BY <1>1, <1>5, <2>2 DEF FreeOf
  <2>4. Cardinality(FreeOf(V)') = Cardinality(FreeOf(V)) + 1 /\ Cardinality(FreeOf(V)) \in Nat
    <3>1. IsFiniteSet(FreeOf(V)) /\ Cardinality(FreeOf(V)) \in Nat BY FreeIsFinite DEF FreeOf
    <3> QED BY <1>7, <2>3, <3>1, FS_AddElement
  <2>5. /\ free_clusters' \in [Volumes -> Int]
        /\ free_clusters'[V] = IF free_clusters[V] = -1 THEN -1 ELSE free_clusters[V] + 1
    BY <1>1, <1>2, <1>8 DEF FatTypes, Count
  <2>6. fat_lock' \in [Volumes -> Inodes \cup {NULL, "count"}] BY <1>2, <1>8 DEF FatTypes
  <2>7. free_clusters[V] \in Int /\ free_clusters[V] >= -1 BY <1>1, <1>2 DEF FatTypes, CountIsSound
  <2>8. free_clusters'[V] = -1 <=> free_clusters[V] = -1 BY <2>5, <2>7
  <2>9. CountIsSound'
    BY <1>1, <1>2, <1>4, <1>6, <2>4, <2>5, <2>7, <2>8 DEF CountIsSound
  <2>10. CASE free_clusters[V] = -1
    <3>1. Map' = Map /\ touched' = touched /\ lost' = lost BY <1>8, <2>10, MapStays
    <3>2. FatTypes' BY <1>2, <1>4, <2>1, <2>2, <2>5, <2>6, <3>1 DEF FatTypes, inodevars
    <3>3. ~counted[V] BY <1>2, <2>10 DEF CountIsSound
    <3>4. SpaceIsSound'
      BY <1>1, <1>2, <1>4, <1>6, <2>3, <2>8, <3>1, <3>3 DEF SpaceIsSound
    <3> QED BY <2>1, <2>9, <3>2, <3>4 DEF FatIInv
  <2>11. CASE free_clusters[V] # -1
    <3>1. PICK r \in blocks_mamager_free_blocks(Map, c, 1) :
             /\ Becomes(r.map)
             /\ lost' = IF r.kept THEN lost ELSE [lost EXCEPT ![V] = @ \cup {c}]
      BY <1>8, <2>11
    <3>2. c .. c + 1 - 1 = {c} /\ c \in Nat BY <1>1, <1>5
    <3>3. /\ r.kept \in BOOLEAN /\ r.map \in MapState /\ Sound(r.map)
          /\ ~r.map.touched => \A d \in Int : Has(r.map, d) <=> Has(Map, d) \/ (r.kept /\ d = c)
      <4>0. PICK k : k = 1 OBVIOUS
      <4>3. k \in Nat \ {0} /\ c .. c + k - 1 = {c} /\ c \in Nat BY <3>2, <4>0
      <4>4. r \in blocks_mamager_free_blocks(Map, c, k) BY <3>1, <4>0
      <4>1. \A d \in c .. c + k - 1 : ~Has(Map, d) BY <1>7, <4>3
      <4>2. /\ r.kept \in BOOLEAN /\ r.map \in MapState /\ Sound(r.map)
            /\ ~r.map.touched =>
                 \A d \in Int : Has(r.map, d) <=> Has(Map, d) \/ (r.kept /\ d \in c .. c + k - 1)
        BY <1>6, <4>1, <4>3, <4>4, BlocksAreFreed
      <4> QED BY <4>2, <4>3
    <3>4. Map' = r.map /\ touched' = r.map.touched BY <3>1, <3>3, MapIs DEF Becomes
    <3>5. /\ lost' \in [Volumes -> SUBSET Int]
          /\ lost'[V] = IF r.kept THEN lost[V] ELSE lost[V] \cup {c}
      <4>1. lost \in [Volumes -> SUBSET Int] /\ c \in Int BY <1>2, <1>5 DEF FatTypes
      <4>2. CASE r.kept BY <3>1, <4>1, <4>2
      <4>3. CASE ~r.kept
        <5>1. lost' = [lost EXCEPT ![V] = @ \cup {c}] BY <3>1, <4>3
        <5> QED BY <1>1, <4>1, <4>3, <5>1
      <4> QED BY <4>2, <4>3
    <3>6. FatTypes' BY <1>2, <1>4, <2>1, <2>2, <2>5, <2>6, <3>3, <3>4, <3>5 DEF FatTypes, inodevars
    <3>7. ASSUME ~touched' PROVE SpaceIsSound'
      <4>1. \A d \in Int : Has(Map', d) <=> Has(Map, d) \/ (r.kept /\ d = c)
        BY <3>3, <3>4, <3>7
      <4>2. c \notin lost[V] BY <1>2, <1>7 DEF SpaceIsSound
      <4>3. \A d \in Int : Has(Map', d) => d \in FreeOf(V)' /\ d \notin lost'[V]
        BY <1>2, <1>7, <2>3, <3>5, <4>1, <4>2 DEF SpaceIsSound
      <4>4. lost'[V] \subseteq FreeOf(V)' BY <1>2, <2>3, <3>5 DEF SpaceIsSound
      <4>5. counted'[V] => \A d \in FreeOf(V)' : Has(Map', d) \/ d \in lost'[V]
        <5> SUFFICES ASSUME counted[V], NEW d \in FreeOf(V)' PROVE Has(Map', d) \/ d \in lost'[V]
          BY <1>4
        <5>1. d \in Int BY <1>1, <1>5, <2>3 DEF FreeOf
        <5>2. CASE d = c BY <3>3, <3>5, <4>1, <5>1, <5>2
        <5>3. CASE d # c
          <6>1. Has(Map, d) \/ d \in lost[V] BY <1>2, <2>3, <5>3 DEF SpaceIsSound
          <6> QED BY <3>5, <4>1, <5>1, <6>1
        <5> QED BY <5>2, <5>3
      <4> QED BY <1>1, <1>4, <1>6, <2>8, <2>11, <3>3, <3>4, <4>3, <4>4, <4>5 DEF SpaceIsSound
    <3> QED BY <2>1, <2>9, <3>6, <3>7 DEF FatIInv
  <2> QED BY <2>10, <2>11
<1>9. CASE /\ freeing' = [freeing EXCEPT ![i] = <<>>] /\ fat_lock' = [fat_lock EXCEPT ![V] = NULL]
           /\ UNCHANGED <<mapvars, fat, free_clusters, lost>>
  <2>1. Map' = Map /\ touched' = touched BY <1>9, MapStays
  <2>2. /\ freeing' \in [Inodes -> Seq(Clusters(V))]
        /\ fat_lock' \in [Volumes -> Inodes \cup {NULL, "count"}]
    <3>1. <<>> \in Seq(Clusters(V)) OBVIOUS
    <3>2. freeing' \in [Inodes -> Seq(Clusters(V))] BY <1>2, <1>9, <3>1 DEF FatTypes
    <3>3. fat_lock' \in [Volumes -> Inodes \cup {NULL, "count"}] BY <1>2, <1>9 DEF FatTypes
    <3> QED BY <3>2, <3>3
  <2>3. FatTypes' BY <1>2, <1>4, <1>9, <2>1, <2>2 DEF FatTypes, inodevars
  <2>4. ASSUME NEW j \in Inodes, NEW q \in 1 .. Len(freeing'[j])
        PROVE  q \in 1 .. Len(freeing[j]) /\ freeing'[j][q] = freeing[j][q]
    <3>1. freeing'[j] # <<>> BY <2>4
    <3> QED BY <1>2, <1>9, <2>4, <3>1 DEF FatTypes
  <2>5. FilesAreApart'
    <3>1. InUse(freeing)' BY <1>2, <1>9, <2>4 DEF FilesAreApart, InUse
    <3>2. ASSUME NEW j \in Inodes, NEW k \in Inodes, NEW p \in 1 .. Len(freeing'[j]),
                 NEW q \in 1 .. Len(freeing'[k]), freeing'[j][p] = freeing'[k][q]
          PROVE  j = k /\ p = q
      <4>1. p \in 1 .. Len(freeing[j]) /\ freeing'[j][p] = freeing[j][p] BY <2>4
      <4>2. q \in 1 .. Len(freeing[k]) /\ freeing'[k][q] = freeing[k][q] BY <2>4
      <4>3. freeing[j][p] = freeing[k][q] BY <3>2, <4>1, <4>2
      <4>4. Once(freeing) BY <1>2 DEF FilesAreApart
      <4> QED BY <4>1, <4>2, <4>3, <4>4 DEF Once
    <3>3. Once(freeing)' BY <3>2 DEF Once
    <3>4. ASSUME NEW j \in Inodes, NEW k \in Inodes, NEW p \in 1 .. Len(chain'[j]),
                 NEW q \in 1 .. Len(freeing'[k])
          PROVE  chain'[j][p] # freeing'[k][q]
      BY <1>2, <1>4, <2>4 DEF FilesAreApart
    <3>5. InUse(chain)' /\ Once(chain)' BY <1>2, <1>4, <1>9 DEF FilesAreApart, InUse, Once
    <3>6. \A j \in Inodes : tail'[j] # 0 => chain'[j] # <<>> /\ tail'[j] = chain'[j][Len(chain'[j])]
      BY <1>2, <1>4 DEF FilesAreApart
    <3> QED BY <3>1, <3>3, <3>4, <3>5, <3>6 DEF FilesAreApart
  <2>6. FreeOf(V)' = FreeOf(V) BY <1>9 DEF FreeOf
  <2>7. CountIsSound' BY <1>1, <1>2, <1>4, <1>6, <1>9, <2>6 DEF CountIsSound
  <2>8. SpaceIsSound' BY <1>1, <1>2, <1>4, <1>9, <2>1, <2>6 DEF SpaceIsSound
  <2> QED BY <2>3, <2>5, <2>7, <2>8 DEF FatIInv
<1> QED BY <1>1, <1>3, <1>8, <1>9 DEF fat_free_clusters

----------------------------------------------------------------------------
LEMMA QuotientAndRest ==
    ASSUME NEW n \in Nat \ {0}, NEW a \in Int
    PROVE  /\ a = n * (a \div n) + (a % n) /\ a % n \in 0 .. n - 1 /\ a \div n \in Int
OBVIOUS

LEMMA NeighboursDiffer ==
    ASSUME NEW n \in Nat \ {0}, n >= 2, NEW a \in Int
    PROVE  a % n # (a + 1) % n
<1> DEFINE q == a \div n
           b == a + 1
           p == b \div n
<1>1. /\ a = n * (a \div n) + (a % n) /\ a % n \in 0 .. n - 1 /\ a \div n \in Int
  BY QuotientAndRest
<1>2. b \in Int OBVIOUS
<1> HIDE DEF b
<1>3. /\ b = n * (b \div n) + (b % n) /\ b % n \in 0 .. n - 1 /\ b \div n \in Int
  BY <1>2, QuotientAndRest
<1>4. a = n * q + (a % n) /\ q \in Int BY <1>1
<1>5. b = n * p + (b % n) /\ p \in Int BY <1>3
<1> HIDE DEF p, q
<1>6. a % n = b % n => n * p - n * q = 1
  <2>1. n * p \in Int /\ n * q \in Int BY <1>4, <1>5
  <2> QED BY <1>1, <1>3, <1>4, <1>5, <2>1 DEF b
<1>7. n * p - n * q = n * (p - q) BY <1>4, <1>5
<1>8. ASSUME NEW d \in Nat PROVE n * d >= 0 OBVIOUS
<1>9. p - q <= 0 => n * (p - q) <= 0
  <2>1. p - q <= 0 => q - p \in Nat BY <1>4, <1>5
  <2>2. n * (p - q) = -(n * (q - p)) /\ n * (q - p) \in Int BY <1>4, <1>5
  <2> QED BY <1>8, <2>1, <2>2
<1>10. p - q >= 1 => n * (p - q) >= n
  <2>1. p - q >= 1 => p - q - 1 \in Nat BY <1>4, <1>5
  <2>2. n * (p - q) = n * (p - q - 1) + n BY <1>4, <1>5
  <2>3. n * (p - q - 1) \in Int BY <1>4, <1>5
  <2> QED BY <1>8, <2>1, <2>2, <2>3
<1>11. p - q <= 0 \/ p - q >= 1 BY <1>4, <1>5
<1>12. n * (p - q) \in Int BY <1>4, <1>5
<1> QED BY <1>6, <1>7, <1>9, <1>10, <1>11, <1>12 DEF b

LEMMA SmallRest ==
    ASSUME NEW n \in Nat \ {0}, NEW a \in 0 .. n - 1
    PROVE  a % n = a
OBVIOUS

(* The entries of the FAT that are read for k clusters from from on.        *)
AreEntries(e, from, k) ==
    /\ e \in [1 .. k -> Clusters(V)] /\ (k = 2 => e[1] # e[2])
    /\ from \in Clusters(V) /\ from + k - 1 \in Clusters(V) =>
          \A j \in 1 .. k : e[j] = from + j - 1
LEMMA EntriesAre ==
    ASSUME Volumes = {V}, NEW from \in Int, NEW k \in 1 .. 2
    PROVE  AreEntries(Visited(V, from, k), from, k)
<1>1. LastOf[V] \in Nat /\ LastOf[V] > 2 /\ Clusters(V) = 2 .. LastOf[V] /\ FAT_START_ENT = 2
  BY TheVolume
<1>2. PICK n \in Nat \ {0} : n = LastOf[V] - 2 + 1 /\ n >= 2 BY <1>1
<1>3. PICK a \in Int : a = (IF from > LastOf[V] THEN 2 ELSE from) - 2 BY <1>1
<1>4. PICK e : e = Visited(V, from, k) OBVIOUS
<1>5. e = [j \in 1 .. k |-> 2 + ((a + j - 1) % n)]
  BY <1>1, <1>2, <1>3, <1>4 DEF Visited
<1>6. ASSUME NEW j \in 1 .. k PROVE e[j] = 2 + ((a + j - 1) % n) /\ e[j] \in Clusters(V)
  <2>1. e[j] = 2 + ((a + j - 1) % n) BY <1>5
  <2>2. (a + j - 1) % n \in 0 .. n - 1
    <3>1. PICK b \in Int : b = a + j - 1 BY <1>3
    <3>2. b % n \in 0 .. n - 1 BY <3>1, QuotientAndRest
    <3> QED BY <3>1, <3>2
  <2> QED BY <1>1, <1>2, <2>1, <2>2
<1>7. e \in [1 .. k -> Clusters(V)] BY <1>5, <1>6
<1>8. ASSUME k = 2 PROVE e[1] # e[2]
  <2>1. a % n # (a + 1) % n BY <1>2, NeighboursDiffer
  <2>2. a % n \in 0 .. n - 1 /\ (a + 1) % n \in 0 .. n - 1
    <3>1. PICK b \in Int : b = a + 1 BY <1>3
    <3>2. b % n \in 0 .. n - 1 BY QuotientAndRest
    <3>3. a % n \in 0 .. n - 1 BY QuotientAndRest
    <3> QED BY <3>1, <3>2, <3>3
  <2>3. a + 1 - 1 = a /\ a + 2 - 1 = a + 1 OBVIOUS
  <2>4. e[1] = 2 + (a % n) /\ e[2] = 2 + ((a + 1) % n) BY <1>5, <1>8, <2>3
  <2> QED BY <2>1, <2>2, <2>4
<1>9. ASSUME from \in Clusters(V), from + k - 1 \in Clusters(V), NEW j \in 1 .. k
      PROVE  e[j] = from + j - 1
  <2>1. a = from - 2 BY <1>1, <1>3, <1>9
  <2>2. a + j - 1 \in 0 .. n - 1 BY <1>1, <1>2, <1>9, <2>1
  <2>3. (a + j - 1) % n = a + j - 1 BY <2>2, SmallRest
  <2> QED BY <1>6, <2>1, <2>3
<1> QED BY <1>4, <1>7, <1>8, <1>9 DEF AreEntries

Chosen(e, done) == {e[j] : j \in 1 .. done}
LEMMA ChosenAre ==
    ASSUME NEW F, IsFiniteSet(F), NEW k \in 1 .. 2, NEW e, k = 2 => e[1] # e[2],
           NEW done \in 0 .. k, \A j \in 1 .. done : e[j] \in F
    PROVE  Cardinality(F \ Chosen(e, done)) = Cardinality(F) - done
<1>1. CASE done = 0
  <2>1. Chosen(e, done) = {} BY <1>1 DEF Chosen
  <2>2. F \ Chosen(e, done) = F /\ Cardinality(F) \in Nat BY <2>1, FS_CardinalityType
  <2> QED BY <1>1, <2>2
<1>2. CASE done = 1
  <2>1. Chosen(e, done) = {e[1]} /\ e[1] \in F BY <1>2 DEF Chosen
  <2> QED BY <1>2, <2>1, FS_RemoveElement
<1>3. CASE done = 2
  <2>1. k = 2 BY <1>3
  <2>2. 1 .. done = {1, 2} BY <1>3
  <2>3. Chosen(e, done) = {e[1], e[2]} BY <2>2 DEF Chosen
  <2>4. e[1] \in F /\ e[2] \in F /\ e[1] # e[2] BY <2>1, <2>2
  <2>5. PICK G : G = F \ {e[1]} OBVIOUS
  <2>6. IsFiniteSet(G) /\ Cardinality(G) = Cardinality(F) - 1 BY <2>4, <2>5, FS_RemoveElement
  <2>7. Cardinality(G \ {e[2]}) = Cardinality(G) - 1 BY <2>4, <2>5, <2>6, FS_RemoveElement
  <2>8. F \ Chosen(e, done) = G \ {e[2]} BY <2>3, <2>5
  <2>9. PICK n \in Nat : n = Cardinality(F) BY FS_CardinalityType
  <2>10. Cardinality(F \ Chosen(e, done)) = n - 1 - 1 BY <2>6, <2>7, <2>8, <2>9
  <2> QED BY <1>3, <2>9, <2>10
<1> QED BY <1>1, <1>2, <1>3

(* The clusters of e come to i, which hands none back: others keep theirs. *)
LEMMA GrownFilesAreApart ==
    ASSUME FatIInv, NEW i \in Inodes, freeing[i] = <<>>,
           NEW C, C \subseteq Clusters(V), C \cap fat[V] = {}, fat'[V] = fat[V] \cup C,
           NEW e \in Seq(C), \A p, q \in 1 .. Len(e) : e[p] = e[q] => p = q,
           NEW x \in Int, x # 0 => e # <<>> /\ x = e[Len(e)],
           tail' = [tail EXCEPT ![i] = x],
           \/ chain' = [chain EXCEPT ![i] = @ \o e] /\ freeing' = freeing
           \/ chain' = chain /\ freeing' = [freeing EXCEPT ![i] = e] /\ x = 0
    PROVE  /\ FilesAreApart' /\ chain' \in [Inodes -> Seq(Clusters(V))]
           /\ freeing' \in [Inodes -> Seq(Clusters(V))] /\ tail' \in [Inodes -> Int]
<1>1. /\ FilesAreApart /\ chain \in [Inodes -> Seq(Clusters(V))] /\ tail \in [Inodes -> Int]
      /\ freeing \in [Inodes -> Seq(Clusters(V))]
  BY DEF FatIInv, FatTypes
<1>2. e \in Seq(Clusters(V)) /\ Len(e) \in Nat /\ \A p \in 1 .. Len(e) : e[p] \in C
  <2>1. Len(e) \in Nat /\ \A p \in 1 .. Len(e) : e[p] \in C BY LenProperties, ElementOfSeq
  <2>2. e \in [1 .. Len(e) -> Clusters(V)] BY <2>1, LenProperties
  <2> QED BY <2>1, <2>2, SeqDef
<1>3. PICK s \in Seq(Clusters(V)) : s = chain[i] BY <1>1
<1>4. PICK u : u = s \o e OBVIOUS
<1>5. /\ u \in Seq(Clusters(V)) /\ Len(u) = Len(s) + Len(e) /\ Len(s) \in Nat
      /\ \A p \in 1 .. Len(s) + Len(e) : u[p] = IF p <= Len(s) THEN s[p] ELSE e[p - Len(s)]
  BY <1>2, <1>4, ConcatProperties, LenProperties
<1>6. tail' \in [Inodes -> Int] BY <1>1
<1>7. tail'[i] = x /\ \A j \in Inodes : j # i => tail'[j] = tail[j] BY <1>1
(* A cluster of a chain was there, or has just come to i.                  *)
<1>8. CASE chain' = [chain EXCEPT ![i] = u] /\ freeing' = freeing
  <2>1. chain' \in [Inodes -> Seq(Clusters(V))] BY <1>1, <1>5, <1>8
  <2>2. ASSUME NEW j \in Inodes, NEW p \in 1 .. Len(chain'[j])
        PROVE  \/ p \in 1 .. Len(chain[j]) /\ chain'[j][p] = chain[j][p]
               \/ /\ j = i /\ p \in Nat /\ p - Len(s) \in 1 .. Len(e)
                  /\ chain'[j][p] = e[p - Len(s)] /\ chain'[j][p] \in C
    <3>1. CASE j # i BY <1>1, <1>8, <2>2, <3>1
    <3>2. CASE j = i
      <4>1. chain'[j] = u BY <1>1, <1>8, <3>2
      <4>2. p \in 1 .. Len(s) + Len(e) BY <1>5, <2>2, <4>1
      <4>3. CASE p <= Len(s) BY <1>3, <1>5, <3>2, <4>1, <4>2, <4>3
      <4>4. CASE ~(p <= Len(s))
        <5>1. p - Len(s) \in 1 .. Len(e) BY <1>2, <1>5, <4>2, <4>4
        <5>2. chain'[j][p] = e[p - Len(s)] BY <1>5, <4>1, <4>2, <4>4
        <5> QED BY <1>2, <3>2, <4>2, <5>1, <5>2
      <4> QED BY <4>3, <4>4
    <3> QED BY <3>1, <3>2
  <2>3. InUse(chain)' BY <1>1, <2>2 DEF FilesAreApart, InUse
  <2>4. InUse(freeing)' BY <1>1, <1>8 DEF FilesAreApart, InUse
  <2>5. Once(freeing)' BY <1>1, <1>8 DEF FilesAreApart, Once
  <2>6. Once(chain)'
    <3> SUFFICES ASSUME NEW j \in Inodes, NEW k \in Inodes, NEW p \in 1 .. Len(chain'[j]),
                        NEW q \in 1 .. Len(chain'[k]), chain'[j][p] = chain'[k][q]
                 PROVE  j = k /\ p = q
      BY DEF Once
    <3> DEFINE Old(a, b) == b \in 1 .. Len(chain[a]) /\ chain'[a][b] = chain[a][b]
               New(a, b) == /\ a = i /\ b \in Nat /\ b - Len(s) \in 1 .. Len(e)
                            /\ chain'[a][b] = e[b - Len(s)] /\ chain'[a][b] \in C
    <3>1. Old(j, p) \/ New(j, p) BY <2>2
    <3>2. Old(k, q) \/ New(k, q) BY <2>2
    <3>3. Old(j, p) => chain'[j][p] \in fat[V] BY <1>1 DEF FilesAreApart, InUse
    <3>4. Old(k, q) => chain'[k][q] \in fat[V] BY <1>1 DEF FilesAreApart, InUse
    <3>5. CASE Old(j, p) /\ Old(k, q)
      <4>1. p \in 1 .. Len(chain[j]) /\ q \in 1 .. Len(chain[k]) /\ chain[j][p] = chain[k][q]
        BY <3>5
      <4>2. Once(chain) BY <1>1 DEF FilesAreApart
      <4> QED BY <4>1, <4>2 DEF Once
    <3>6. CASE New(j, p) /\ New(k, q)
      <4>1. p - Len(s) = q - Len(s) BY <3>6
      <4> QED BY <1>5, <3>6, <4>1
    <3>7. CASE Old(j, p) /\ New(k, q) BY <3>3, <3>7
    <3>8. CASE New(j, p) /\ Old(k, q) BY <3>4, <3>8
    <3> HIDE DEF Old, New
    <3> QED BY <3>1, <3>2, <3>5, <3>6, <3>7, <3>8
  <2>7. ASSUME NEW j \in Inodes, NEW k \in Inodes, NEW p \in 1 .. Len(chain'[j]),
               NEW q \in 1 .. Len(freeing'[k])
        PROVE  chain'[j][p] # freeing'[k][q]
    <3>1. q \in 1 .. Len(freeing[k]) /\ freeing'[k][q] = freeing[k][q] BY <1>8, <2>7
    <3>2. freeing[k][q] \in fat[V] BY <1>1, <3>1 DEF FilesAreApart, InUse
    <3>3. CASE chain'[j][p] \in C BY <3>1, <3>2, <3>3
    <3>4. CASE p \in 1 .. Len(chain[j]) /\ chain'[j][p] = chain[j][p]
      BY <1>1, <3>1, <3>4 DEF FilesAreApart
    <3> QED BY <2>2, <3>3, <3>4
  <2>8. ASSUME NEW j \in Inodes, tail'[j] # 0
        PROVE  chain'[j] # <<>> /\ tail'[j] = chain'[j][Len(chain'[j])]
    <3>1. CASE j # i
      <4>1. chain'[j] = chain[j] BY <1>1, <1>8, <3>1
      <4> QED BY <1>1, <1>7, <2>8, <3>1, <4>1 DEF FilesAreApart
    <3>2. CASE j = i
      <4>1. chain'[j] = u BY <1>1, <1>8, <3>2
      <4>2. e # <<>> /\ x = e[Len(e)] BY <1>7, <2>8, <3>2
      <4>3. Len(e) > 0 BY <1>2, <4>2, EmptySeq
      <4>4. Len(u) > 0 /\ u[Len(u)] = e[Len(e)]
        <5>1. PICK n \in Nat : n = Len(s) BY <1>5
        <5>2. PICK m \in Nat : m = Len(e) BY <1>2
        <5>3. n + m \in 1 .. n + m /\ ~(n + m <= n) /\ n + m - n = m BY <4>3, <5>1, <5>2
        <5>4. u[n + m] = e[n + m - n] BY <1>5, <5>1, <5>2, <5>3
        <5> QED BY <1>5, <5>1, <5>2, <5>3, <5>4
      <4>5. u # <<>> BY <4>4
      <4> QED BY <1>7, <3>2, <4>1, <4>2, <4>4, <4>5
    <3> QED BY <3>1, <3>2
  <2> QED BY <1>1, <1>6, <1>8, <2>1, <2>3, <2>4, <2>5, <2>6, <2>7, <2>8 DEF FilesAreApart
<1>9. CASE chain' = chain /\ freeing' = [freeing EXCEPT ![i] = e] /\ x = 0
  <2>1. freeing' \in [Inodes -> Seq(Clusters(V))] BY <1>1, <1>2, <1>9
  <2>2. ASSUME NEW j \in Inodes, NEW q \in 1 .. Len(freeing'[j])
        PROVE  \/ j # i /\ q \in 1 .. Len(freeing[j]) /\ freeing'[j][q] = freeing[j][q]
               \/ j = i /\ q \in 1 .. Len(e) /\ freeing'[j][q] = e[q] /\ freeing'[j][q] \in C
    <3>1. CASE j # i BY <1>1, <1>9, <2>2, <3>1
    <3>2. CASE j = i BY <1>1, <1>2, <1>9, <2>2, <3>2
    <3> QED BY <3>1, <3>2
  <2>3. InUse(chain)' BY <1>1, <1>9 DEF FilesAreApart, InUse
  <2>4. InUse(freeing)' BY <1>1, <2>2 DEF FilesAreApart, InUse
  <2>5. Once(chain)' BY <1>1, <1>9 DEF FilesAreApart, Once
  <2>6. Once(freeing)'
    <3> SUFFICES ASSUME NEW j \in Inodes, NEW k \in Inodes, NEW p \in 1 .. Len(freeing'[j]),
                        NEW q \in 1 .. Len(freeing'[k]), freeing'[j][p] = freeing'[k][q]
                 PROVE  j = k /\ p = q
      BY DEF Once
    <3>1. ASSUME NEW a \in Inodes, NEW b \in 1 .. Len(freeing[a]) PROVE freeing[a][b] \in fat[V]
      BY <1>1 DEF FilesAreApart, InUse
    <3>2. CASE j # i /\ k # i BY <1>1, <2>2, <3>2 DEF FilesAreApart, Once
    <3>3. CASE j = i /\ k = i BY <2>2, <3>3
    <3>4. CASE j = i /\ k # i
      <4>1. freeing'[j][p] \in C BY <2>2, <3>4
      <4>2. freeing'[k][q] \in fat[V] BY <2>2, <3>1, <3>4
      <4> QED BY <4>1, <4>2
    <3>5. CASE j # i /\ k = i
      <4>1. freeing'[k][q] \in C BY <2>2, <3>5
      <4>2. freeing'[j][p] \in fat[V] BY <2>2, <3>1, <3>5
      <4> QED BY <4>1, <4>2
    <3> QED BY <3>2, <3>3, <3>4, <3>5
  <2>7. ASSUME NEW j \in Inodes, NEW k \in Inodes, NEW p \in 1 .. Len(chain'[j]),
               NEW q \in 1 .. Len(freeing'[k])
        PROVE  chain'[j][p] # freeing'[k][q]
    <3>1. p \in 1 .. Len(chain[j]) /\ chain'[j][p] = chain[j][p] BY <1>9, <2>7
    <3>2. chain[j][p] \in fat[V] BY <1>1, <3>1 DEF FilesAreApart, InUse
    <3>3. CASE freeing'[k][q] \in C BY <3>1, <3>2, <3>3
    <3>4. CASE q \in 1 .. Len(freeing[k]) /\ freeing'[k][q] = freeing[k][q]
      BY <1>1, <3>1, <3>4 DEF FilesAreApart
    <3> QED BY <2>2, <3>3, <3>4
  <2>8. \A j \in Inodes : tail'[j] # 0 => chain'[j] # <<>> /\ tail'[j] = chain'[j][Len(chain'[j])]
    BY <1>1, <1>7, <1>9 DEF FilesAreApart
  <2> QED BY <1>1, <1>6, <1>9, <2>1, <2>3, <2>4, <2>5, <2>6, <2>7, <2>8 DEF FilesAreApart
<1> QED BY <1>3, <1>4, <1>8, <1>9

(* The first entries that are read, as a sequence of what is taken.        *)
InOrder(e, k, done, f, C) ==
    /\ Len(e) = k /\ C \subseteq Clusters(V) /\ f \in Seq(C)
    /\ \A p, q \in 1 .. Len(f) : f[p] = f[q] => p = q
    /\ done = k => e \in Seq(C)
    /\ \A p, q \in 1 .. k : e[p] = e[q] => p = q
LEMMA ChosenInOrder ==
    ASSUME NEW k \in 1 .. 2, NEW from, NEW e, AreEntries(e, from, k), NEW done \in 0 .. k
    PROVE  InOrder(e, k, done, SubSeq(e, 1, done), Chosen(e, done))
<1>1. e \in [1 .. k -> Clusters(V)] /\ (k = 2 => e[1] # e[2]) /\ k \in Nat BY DEF AreEntries
<1>2. e \in Seq(Clusters(V)) /\ Len(e) = k BY <1>1, SeqDef, LenProperties
<1>3. PICK C : C = Chosen(e, done) OBVIOUS
<1>4. \A j \in 1 .. done : e[j] \in C /\ j \in 1 .. k BY <1>3 DEF Chosen
<1>5. C \subseteq Clusters(V) BY <1>1, <1>3, <1>4 DEF Chosen
<1>6. PICK f : f = SubSeq(e, 1, done) OBVIOUS
<1>7. f \in Seq(Clusters(V)) /\ Len(f) = done /\ \A p \in 1 .. done : f[p] = e[p]
  BY <1>2, <1>6, SubSeqProperties
<1>8. f \in Seq(C)
  <2>1. f \in [1 .. done -> Clusters(V)] BY <1>7, LenProperties
  <2>2. f \in [1 .. done -> C] BY <1>4, <1>7, <2>1
  <2> QED BY <2>2, SeqDef
<1>9. \A p, q \in 1 .. k : e[p] = e[q] => p = q BY <1>1
<1>10. \A p, q \in 1 .. Len(f) : f[p] = f[q] => p = q BY <1>4, <1>7, <1>9
<1>11. ASSUME done = k PROVE e \in Seq(C)
  <2>1. e \in [1 .. k -> C] BY <1>1, <1>4, <1>11
  <2> QED BY <1>1, <2>1, SeqDef
<1>12. InOrder(e, k, done, f, C) BY <1>2, <1>5, <1>8, <1>9, <1>10, <1>11 DEF InOrder
<1> QED BY <1>3, <1>6, <1>12

LEMMA FileIsAllocated ==
    ASSUME Volumes = {V}, FatIInv, ~touched, ~GoesOn, NEW i \in Inodes, NEW k \in 1 .. 2,
           NEW r \in blocks_mamager_alloc_blocks(Map, i, k)
    PROVE  IsAllocated(Map, i, k, r)
<1>1. Map \in MapState /\ Sound(Map) BY DEF FatIInv, FatTypes, SpaceIsSound
<1>2. LastOf[V] \in Nat BY TheVolume
<1>3. \A c \in Int : Has(Map, c) => c <= LastOf[V]
  BY TheVolume DEF FatIInv, SpaceIsSound, FreeOf
<1>4. k \in Nat \ {0} OBVIOUS
<1> QED BY <1>1, <1>2, <1>3, <1>4, BlocksAreTaken

LEMMA AllocKeeps ==
    ASSUME Volumes = {V}, FatIInv, ~touched, ~clash, ~GoesOn, NEW i \in Inodes, NEW k \in 1 .. 2,
           fat_alloc_clusters(i, k)
    PROVE  FatIInv' /\ (~touched' => ~clash')
<1>1. /\ V \in Volumes /\ VolumeOf[i] = V /\ Clusters(V) = 2 .. LastOf[V] /\ LastOf[V] \in Nat
      /\ FAT_START_ENT = 2
  BY TheVolume
<1>2. FatTypes /\ CountIsSound /\ FilesAreApart /\ SpaceIsSound BY DEF FatIInv
<1>3. /\ freeing[i] = <<>> /\ fat_lock[V] = NULL
      /\ ~(free_clusters[V] # -1 /\ free_clus_valid[V] /\ free_clusters[V] < k)
      /\ UNCHANGED <<fat_lock, inodevars, state, counting, counted>>
  BY <1>1 DEF fat_alloc_clusters, Idle
<1>4. PICK r \in blocks_mamager_alloc_blocks(Map, i, k) :
         /\ Becomes(r.map)
         /\ IF r.got = -1 THEN GiveUp(i, V) ELSE TakeEntries(i, k, V, r.got)
  BY <1>1 DEF fat_alloc_clusters
<1>6. \A c \in Int : Has(Map, c) => c \in FreeOf(V) /\ c \in 2 .. LastOf[V] /\ c \notin lost[V]
  BY <1>1, <1>2 DEF SpaceIsSound, FreeOf
<1>7. IsAllocated(Map, i, k, r) BY <1>4, FileIsAllocated
<1>8. Map' = r.map /\ touched' = r.map.touched
  <2>1. r.map \in MapState BY <1>7 DEF IsAllocated
  <2> QED BY <1>4, <2>1, MapIs DEF Becomes
<1>9. Map' \in MapState /\ Sound(Map') BY <1>7, <1>8 DEF IsAllocated
<1>10. counting[V] < 2 /\ counting[V] \in Nat
  <2>1. fat_lock[V] # "count" BY <1>3, FatAssumption
  <2> QED BY <1>1, <1>2, <2>1 DEF CountIsSound, FatTypes
<1>11. /\ free_clusters[V] \in Int /\ free_clusters[V] >= -1
       /\ (free_clusters[V] # -1 => free_clusters[V] >= k)
  BY <1>1, <1>2, <1>3 DEF CountIsSound, FatTypes
<1>12. IsFiniteSet(FreeOf(V)) /\ Cardinality(FreeOf(V)) \in Nat BY FreeIsFinite DEF FreeOf
<1>13. CASE r.got = -1
  <2>1. /\ free_clusters' = [free_clusters EXCEPT ![V] = 0]
        /\ free_clus_valid' = [free_clus_valid EXCEPT ![V] = TRUE]
        /\ gaveup' = [gaveup EXCEPT ![V] = TRUE] /\ tail' = [tail EXCEPT ![i] = 0]
        /\ UNCHANGED <<fat, chain, freeing, lost, clash>>
    BY <1>4, <1>13 DEF GiveUp
  <2>2. tail' \in [Inodes -> Int] /\ \A j \in Inodes : tail'[j] \in {0, tail[j]}
    BY <1>2, <2>1 DEF FatTypes
  <2>3. FilesAreApart' BY <2>1, <2>2, FilesStay
  <2>4. /\ free_clusters' \in [Volumes -> Int] /\ free_clusters'[V] = 0
        /\ free_clus_valid' \in [Volumes -> BOOLEAN] /\ free_clus_valid'[V]
        /\ gaveup' \in [Volumes -> BOOLEAN] /\ gaveup'[V]
    <3>1. free_clusters' \in [Volumes -> Int] /\ free_clusters'[V] = 0
      BY <1>1, <1>2, <2>1 DEF FatTypes
    <3>2. free_clus_valid' \in [Volumes -> BOOLEAN] /\ free_clus_valid'[V]
      BY <1>1, <1>2, <2>1 DEF FatTypes
    <3>3. gaveup' \in [Volumes -> BOOLEAN] /\ gaveup'[V] BY <1>1, <1>2, <2>1 DEF FatTypes
    <3> QED BY <3>1, <3>2, <3>3
  <2>5. FatTypes' BY <1>2, <1>3, <1>9, <2>1, <2>2, <2>4 DEF FatTypes, inodevars
  <2>6. FreeOf(V)' = FreeOf(V) BY <2>1 DEF FreeOf
  <2>7. CountIsSound' BY <1>2, <1>3, <1>12, <2>4, <2>6 DEF CountIsSound
  <2>8. ASSUME ~touched' PROVE SpaceIsSound'
    <3>1. SameSpace(Map, Map') BY <1>7, <1>8, <1>13, <2>8 DEF IsAllocated
    <3>2. \A c \in Int : Has(Map', c) <=> Has(Map, c) BY <3>1 DEF SameSpace
    <3>3. \A c \in FreeOf(V) : c \in Int BY <1>1 DEF FreeOf
    <3> QED BY <1>1, <1>2, <1>3, <1>9, <1>10, <2>1, <2>4, <2>6, <3>2, <3>3 DEF SpaceIsSound
  <2> QED BY <2>1, <2>3, <2>5, <2>7, <2>8 DEF FatIInv
<1>14. CASE r.got # -1
  <2>1. PICK from \in Int : from = r.got BY <1>7 DEF IsAllocated
  <2>2. TakeEntries(i, k, V, from) BY <1>4, <1>14, <2>1
  <2> DEFINE e == Visited(V, from, k)
  <2>3. AreEntries(e, from, k) BY EntriesAre
  <2> DEFINE Rest(d) == {from + j : j \in d .. k - 1}
             Outcome(d) ==
                IF d = k
                THEN /\ lost' = lost
                     /\ \/ /\ chain' = [chain EXCEPT ![i] = @ \o e] /\ freeing' = freeing
                           /\ tail' = [tail EXCEPT ![i] = IF node'[i] = NULL THEN 0 ELSE e[k]]
                        \/ /\ freeing' = [freeing EXCEPT ![i] = e]
                           /\ tail' = [tail EXCEPT ![i] = 0] /\ chain' = chain
                ELSE /\ tail' = [tail EXCEPT ![i] = 0] /\ chain' = chain
                     /\ \/ e[d + 1] \in fat[V] /\ lost' = lost /\ freeing' = freeing
                        \/ /\ lost' = [lost EXCEPT ![V] = @ \cup Rest(d)]
                           /\ freeing' = [freeing EXCEPT ![i] = SubSeq(e, 1, d)]
  <2>4. PICK done \in 0 .. k :
           /\ \A j \in 1 .. done : e[j] \notin fat[V]
           /\ fat' = [fat EXCEPT ![V] = @ \cup {e[j] : j \in 1 .. done}]
           /\ Count(V, -done) /\ free_clus_valid' = free_clus_valid /\ gaveup' = gaveup
           /\ Outcome(done) /\ (clash' = clash \/ (done # k /\ e[done + 1] \in fat[V]))
    BY <2>2 DEF TakeEntries
  <2> HIDE DEF e
  <2>5. PICK C : C = Chosen(e, done) OBVIOUS
  <2>6. /\ Len(e) = k /\ C \subseteq Clusters(V)
        /\ SubSeq(e, 1, done) \in Seq(C)
        /\ \A p, q \in 1 .. Len(SubSeq(e, 1, done)) :
              SubSeq(e, 1, done)[p] = SubSeq(e, 1, done)[q] => p = q
        /\ done = k => e \in Seq(C)
        /\ \A p, q \in 1 .. k : e[p] = e[q] => p = q
    <3>1. InOrder(e, k, done, SubSeq(e, 1, done), C) BY <2>3, <2>5, ChosenInOrder
    <3> QED BY <3>1 DEF InOrder
  <2>7. e \in [1 .. k -> Clusters(V)] /\ (k = 2 => e[1] # e[2]) BY <2>3 DEF AreEntries
  <2>8. C \cap fat[V] = {} BY <2>4, <2>5 DEF Chosen
  <2>9. fat'[V] = fat[V] \cup C /\ fat' \in [Volumes -> SUBSET Contents]
    <3>1. fat' = [fat EXCEPT ![V] = @ \cup C] BY <2>4, <2>5 DEF Chosen
    <3>2. C \subseteq Contents BY <1>1, <2>6 DEF Contents
    <3> QED BY <1>1, <1>2, <3>1, <3>2 DEF FatTypes
  <2>10. /\ FilesAreApart' /\ chain' \in [Inodes -> Seq(Clusters(V))]
         /\ freeing' \in [Inodes -> Seq(Clusters(V))] /\ tail' \in [Inodes -> Int]
    <3>1. CASE /\ done = k /\ chain' = [chain EXCEPT ![i] = @ \o e] /\ freeing' = freeing
               /\ tail' = [tail EXCEPT ![i] = IF node'[i] = NULL THEN 0 ELSE e[k]]
      <4>1. PICK x : x = IF node'[i] = NULL THEN 0 ELSE e[k] OBVIOUS
      <4>2. e[k] \in Int /\ e # <<>> BY <1>1, <2>6, <2>7
      <4>3. x \in Int /\ (x # 0 => e # <<>> /\ x = e[Len(e)]) BY <2>6, <4>1, <4>2
      <4>4. tail' = [tail EXCEPT ![i] = x] /\ e \in Seq(C) BY <2>6, <3>1, <4>1
      <4>5. \A p, q \in 1 .. Len(e) : e[p] = e[q] => p = q BY <2>6
      <4>6. C \subseteq Clusters(V) /\ fat'[V] = fat[V] \cup C BY <2>6, <2>9
      <4> QED BY <1>3, <2>8, <3>1, <4>3, <4>4, <4>5, <4>6, GrownFilesAreApart
    <3>2. ASSUME NEW f \in Seq(C), \A p, q \in 1 .. Len(f) : f[p] = f[q] => p = q,
                 chain' = chain, freeing' = [freeing EXCEPT ![i] = f],
                 tail' = [tail EXCEPT ![i] = 0]
          PROVE  /\ FilesAreApart' /\ chain' \in [Inodes -> Seq(Clusters(V))]
                 /\ freeing' \in [Inodes -> Seq(Clusters(V))] /\ tail' \in [Inodes -> Int]
      <4>1. PICK x : x = 0 OBVIOUS
      <4>2. x \in Int /\ (x # 0 => f # <<>> /\ x = f[Len(f)]) BY <4>1
      <4>3. tail' = [tail EXCEPT ![i] = x] BY <3>2, <4>1
      <4>4. C \subseteq Clusters(V) /\ fat'[V] = fat[V] \cup C BY <2>6, <2>9
      <4> QED BY <1>3, <2>8, <3>2, <4>1, <4>2, <4>3, <4>4, GrownFilesAreApart
    <3>3. CASE /\ done = k /\ freeing' = [freeing EXCEPT ![i] = e]
               /\ tail' = [tail EXCEPT ![i] = 0] /\ chain' = chain
      BY <2>6, <3>2, <3>3
    <3>4. CASE /\ tail' = [tail EXCEPT ![i] = 0] /\ chain' = chain /\ freeing' = freeing
      <4>1. <<>> \in Seq(C) /\ \A p, q \in 1 .. Len(<<>>) : <<>>[p] = <<>>[q] => p = q OBVIOUS
      <4>2. freeing' = [freeing EXCEPT ![i] = <<>>] BY <1>2, <1>3, <3>4 DEF FatTypes
      <4> QED BY <3>2, <3>4, <4>1, <4>2
    <3>5. CASE /\ tail' = [tail EXCEPT ![i] = 0] /\ chain' = chain
               /\ freeing' = [freeing EXCEPT ![i] = SubSeq(e, 1, done)]
      BY <2>6, <3>2, <3>5
    <3> QED BY <2>4, <3>1, <3>3, <3>4, <3>5
  <2>11. FreeOf(V)' = FreeOf(V) \ C BY <2>9 DEF FreeOf
  <2>12. Cardinality(FreeOf(V)') = Cardinality(FreeOf(V)) - done
    <3>1. \A j \in 1 .. done : e[j] \in FreeOf(V) BY <2>4, <2>7 DEF FreeOf
    <3>2. PICK F : F = FreeOf(V) OBVIOUS
    <3>3. IsFiniteSet(F) /\ \A j \in 1 .. done : e[j] \in F BY <1>12, <3>1, <3>2
    <3>4. k = 2 => e[1] # e[2] BY <2>7
    <3>5. Cardinality(F \ Chosen(e, done)) = Cardinality(F) - done BY <3>3, <3>4, ChosenAre
    <3> QED BY <2>5, <2>11, <3>2, <3>5
  <2>13. /\ free_clusters' \in [Volumes -> Int]
         /\ free_clusters'[V] = IF free_clusters[V] = -1 THEN -1 ELSE free_clusters[V] - done
    <3>1. free_clusters' = [free_clusters EXCEPT ![V] = IF @ = -1 THEN -1 ELSE @ - done]
      BY <2>4 DEF Count
    <3> QED BY <1>1, <1>2, <3>1 DEF FatTypes
  <2>14. /\ free_clusters'[V] >= -1 /\ (free_clusters'[V] = -1 <=> free_clusters[V] = -1)
    BY <1>11, <2>13
  <2>15. CountIsSound' BY <1>2, <1>3, <1>11, <1>12, <2>4, <2>12, <2>13, <2>14 DEF CountIsSound
  <2>16. lost' \in [Volumes -> SUBSET Int] /\ lost'[V] \in {lost[V], lost[V] \cup Rest(done)}
         /\ (lost'[V] = lost[V] =>
                done = k \/ e[done + 1] \in fat[V] \/ Rest(done) \subseteq lost[V])
    <3>1. lost \in [Volumes -> SUBSET Int] /\ Rest(done) \subseteq Int BY <1>2 DEF FatTypes
    <3>2. \/ lost' = lost /\ (done = k \/ e[done + 1] \in fat[V])
          \/ lost' = [lost EXCEPT ![V] = @ \cup Rest(done)]
      BY <2>4
    <3> HIDE DEF Rest
    <3> QED BY <1>1, <3>1, <3>2
  <2>17. FatTypes'
    BY <1>2, <1>3, <1>9, <2>4, <2>9, <2>10, <2>13, <2>16 DEF FatTypes, inodevars
  <2>18. ASSUME ~touched' PROVE SpaceIsSound' /\ ~clash'
    <3>1. /\ from \in Nat /\ \A c \in from .. from + k - 1 : Has(Map, c)
          /\ \A c \in Int : Has(Map', c) <=> Has(Map, c) /\ c \notin from .. from + k - 1
      BY <1>7, <1>8, <1>14, <2>1, <2>18 DEF IsAllocated
    <3>2. \A c \in from .. from + k - 1 : c \in FreeOf(V) /\ c \in Clusters(V) /\ c \notin lost[V]
      BY <1>1, <1>6, <3>1
    <3>3. \A j \in 1 .. k : e[j] = from + j - 1
      <4>1. from \in from .. from + k - 1 /\ from + k - 1 \in from .. from + k - 1 OBVIOUS
      <4> QED BY <2>3, <3>2, <4>1 DEF AreEntries
    <3>4. C = from .. from + done - 1
      <4>1. C = {e[j] : j \in 1 .. done} BY <2>5 DEF Chosen
      <4>2. \A c \in C : c \in from .. from + done - 1 BY <3>3, <4>1
      <4>3. ASSUME NEW c \in from .. from + done - 1 PROVE c \in C
        <5>1. c - from + 1 \in 1 .. done /\ c - from + 1 \in 1 .. k BY <4>3
        <5>2. e[c - from + 1] = c BY <3>3, <5>1
        <5> QED BY <4>1, <5>1, <5>2
      <4> QED BY <4>2, <4>3
    <3>5. Rest(done) = from + done .. from + k - 1
      <4>1. \A c \in Rest(done) : c \in from + done .. from + k - 1 OBVIOUS
      <4>2. ASSUME NEW c \in from + done .. from + k - 1 PROVE c \in Rest(done)
        <5>1. c - from \in done .. k - 1 /\ from + (c - from) = c BY <4>2
        <5> QED BY <5>1
      <4> QED BY <4>1, <4>2
    <3>6. ASSUME done # k PROVE e[done + 1] \notin fat[V]
      <4>1. done + 1 \in 1 .. k /\ from + (done + 1) - 1 \in from .. from + k - 1 BY <3>6
      <4>2. e[done + 1] \in FreeOf(V) BY <3>2, <3>3, <4>1
      <4> QED BY <4>2 DEF FreeOf
    <3>7. lost'[V] = lost[V] \cup (from + done .. from + k - 1)
      <4>1. done = k => from + done .. from + k - 1 = {} OBVIOUS
      <4> HIDE DEF Rest
      <4> QED BY <2>16, <3>5, <3>6, <4>1
    <3> HIDE DEF Rest, Outcome
    <3>8. \A c \in from + done .. from + k - 1 : c \in from .. from + k - 1 /\ c \notin C
      BY <3>4
    <3>9. \A c \in C : c \in from .. from + k - 1 BY <3>4
    <3>10. lost'[V] \subseteq FreeOf(V)'
      <4>1. lost[V] \subseteq FreeOf(V) BY <1>2 DEF SpaceIsSound
      <4> QED BY <2>11, <3>2, <3>7, <3>8, <3>9, <4>1
    <3>11. \A c \in Int : Has(Map', c) => c \in FreeOf(V)' /\ c \notin lost'[V]
      BY <1>6, <2>11, <3>1, <3>7, <3>8, <3>9
    <3>12. counted'[V] => \A c \in FreeOf(V)' : Has(Map', c) \/ c \in lost'[V]
      <4> SUFFICES ASSUME counted[V], NEW c \in FreeOf(V), c \notin C
                   PROVE  Has(Map', c) \/ c \in lost'[V]
        BY <1>3, <2>11
      <4>1. Has(Map, c) \/ c \in lost[V] BY <1>2 DEF SpaceIsSound
      <4>2. c \in Int BY <1>1 DEF FreeOf
      <4>3. CASE c \in from .. from + k - 1
        <5>1. c \in from + done .. from + k - 1 BY <3>4, <4>2, <4>3
        <5> QED BY <3>7, <5>1
      <4>4. CASE c \notin from .. from + k - 1 BY <3>1, <3>7, <4>1, <4>2, <4>4
      <4> QED BY <4>3, <4>4
    <3>13. ~(counting'[V] = 1 /\ free_clusters'[V] = -1)
      <4>1. Has(Map, from) /\ from \in Int BY <3>1
      <4> QED BY <1>2, <1>3, <2>14, <4>1 DEF SpaceIsSound
    <3>14. ~clash' BY <2>4, <3>6
    <3> QED BY <1>1, <1>3, <1>9, <1>10, <3>10, <3>11, <3>12, <3>13, <3>14 DEF SpaceIsSound
  <2> QED BY <2>10, <2>15, <2>17, <2>18 DEF FatIInv
<1> QED BY <1>13, <1>14

----------------------------------------------------------------------------
LEMMA FatNextKeeps ==
    ASSUME Volumes = {V}, ~GoesOn, FatIInv, [FatNext]_fatvars
    PROVE  FatIInv'
<1>1. CASE FatNext
  <2>1. ~touched /\ ~clash BY <1>1 DEF FatNext, Running
  <2>2. ASSUME NEW i \in Inodes, NEW k \in 1 .. 2, fat_alloc_clusters(i, k) PROVE FatIInv'
    BY <2>1, <2>2, AllocKeeps
  <2>3. ASSUME NEW i \in Inodes,
               \/ \E skip \in 0 .. Len(chain[i]) : Truncate(i, skip)
               \/ fat_evict_inode(i) \/ fat_destroy_inode(i) \/ fat_alloc_inode(i)
        PROVE  FatIInv'
    BY <2>1, <2>3, TruncateFatKeeps
  <2>4. ASSUME NEW i \in Inodes, fat_free_clusters(i) PROVE FatIInv' BY <2>1, <2>4, FreeKeeps
  <2>5. ASSUME NEW i \in Inodes, fat_file_open(i) PROVE FatIInv' BY <2>1, <2>5, OpenKeeps
  <2>6. ASSUME NEW i \in Inodes, fat_file_release(i) PROVE FatIInv'
    BY <2>1, <2>6, ReleaseFileKeeps
  <2>7. ASSUME NEW v \in Volumes, fat_fill_super(v) \/ fat_statfs(v) PROVE FatIInv'
    BY <2>1, <2>7, CountStartsKeeps
  <2>8. ASSUME NEW v \in Volumes, LockCount(v) PROVE FatIInv' BY <2>1, <2>8, LockCountKeeps
  <2>9. ASSUME NEW v \in Volumes, fat_count_free_clusters(v) PROVE FatIInv'
    BY <2>1, <2>9, CountKeeps
  <2>10. ASSUME NEW v \in Volumes, EvictInodes(v) PROVE FatIInv' BY <2>1, <2>10, EvictInodesKeeps
  <2>11. ASSUME NEW v \in Volumes, fat_put_super(v) PROVE FatIInv' BY <2>1, <2>11, PutSuperKeeps
  <2> QED BY <1>1, <2>2, <2>3, <2>4, <2>5, <2>6, <2>7, <2>8, <2>9, <2>10, <2>11 DEF FatNext
<1>2. CASE UNCHANGED fatvars
  <2>1. UNCHANGED <<mapvars, countvars, inodevars, filevars, lost, gaveup>> BY <1>2 DEF fatvars
  <2>2. Map' = Map /\ touched' = touched BY <2>1, MapStays
  <2>3. UNCHANGED <<free_clusters, free_clus_valid, state, counting, counted, opens,
                    fat, chain, freeing, fat_lock, tail, lost, gaveup>>
    BY <2>1 DEF countvars, inodevars, filevars
  <2>4. FatTypes' BY <2>2, <2>3 DEF FatIInv, FatTypes
  <2>5. FilesAreApart' BY <2>3 DEF FatIInv, FilesAreApart, InUse, Once
  <2>6. CountIsSound' BY <2>3 DEF FatIInv, CountIsSound, FreeOf
  <2>7. (~touched => SpaceIsSound)' BY <2>2, <2>3 DEF FatIInv, SpaceIsSound, FreeOf
  <2> QED BY <2>4, <2>5, <2>6, <2>7 DEF FatIInv
<1> QED BY <1>1, <1>2

LEMMA SoundIsAccounted ==
    ASSUME Volumes = {V}, FatIInv
    PROVE  SpaceIsAccounted
<1>1. FreeCountIsTrue
  <2>1. \A v \in Volumes : v = V OBVIOUS
  <2> QED BY <2>1 DEF FatIInv, CountIsSound, FreeCountIsTrue
<1>2. ASSUME Trusted
      PROVE  /\ \A n \in tree : mem[n].length > 0
             /\ \A n, o \in tree : n # o => Covers(n) \cap Covers(o) = {}
             /\ \A v \in Volumes : /\ UNION {Covers(n) : n \in tree} = FreeOf(v) \ lost[v]
                                    /\ lost[v] \subseteq FreeOf(v)
  <2>1. ~touched /\ counted[V] BY <1>2 DEF Trusted
  <2>2. SpaceIsSound BY <2>1 DEF FatIInv
  <2>3. Map.tree = tree /\ Map.mem = mem BY DEF Map
  <2>4. ASSUME NEW n \in tree
        PROVE  /\ mem[n].start \in Nat /\ mem[n].length \in Nat \ {0}
               /\ \A c \in Int : c \in Covers(n) <=> In(Map, n, c)
               /\ Covers(n) \subseteq Int
    <3>1. mem[n].start \in Nat /\ mem[n].length \in Nat \ {0}
      BY <2>2, <2>3 DEF SpaceIsSound, Sound, Start
    <3> QED BY <2>3, <3>1 DEF Covers, End, In, Start, Behind
  <2>5. ASSUME NEW n \in tree, NEW o \in tree, n # o PROVE Covers(n) \cap Covers(o) = {}
    <3>1. Sound(Map) BY <2>2 DEF SpaceIsSound
    <3>2. Behind(Map, n) <= Start(Map, o) \/ Behind(Map, o) <= Start(Map, n)
      BY <2>3, <2>5, <3>1 DEF Sound
    <3>3. ASSUME NEW c \in Int, In(Map, n, c), In(Map, o, c) PROVE FALSE
      BY <2>3, <2>4, <3>2, <3>3 DEF In, Start, Behind
    <3> QED BY <2>4, <3>3
  <2>6. UNION {Covers(n) : n \in tree} = FreeOf(V) \ lost[V]
    <3>1. ASSUME NEW n \in tree, NEW c \in Covers(n) PROVE c \in FreeOf(V) \ lost[V]
      <4>1. c \in Int /\ Has(Map, c) BY <2>3, <2>4, <3>1 DEF Has
      <4> QED BY <2>2, <4>1 DEF SpaceIsSound
    <3>2. ASSUME NEW c \in FreeOf(V) \ lost[V] PROVE \E n \in tree : c \in Covers(n)
      <4>1. c \in Int BY TheVolume DEF FreeOf
      <4>2. Has(Map, c) BY <2>1, <2>2, <3>2 DEF SpaceIsSound
      <4> QED BY <2>3, <2>4, <4>1, <4>2 DEF Has
    <3> QED BY <3>1, <3>2
  <2>7. lost[V] \subseteq FreeOf(V) BY <2>2 DEF SpaceIsSound
  <2> QED BY <2>4, <2>5, <2>6, <2>7
<1> QED BY <1>1, <1>2 DEF SpaceIsAccounted, MapIsExact

(* The tree, the count and the FAT of one volume agree on which clusters   *)
(* are free, whatever fatent.c allocates, frees, merges and splits, for    *)
(* whom, and whichever read, write or allocation fails, up to the first    *)
(* use of a freed extent.                                                  *)
THEOREM SpaceStaysAccounted ==
    ASSUME Volumes = {V}, ~GoesOn
    PROVE  FatSpec => []SpaceIsAccounted
<1>1. FatInit => FatIInv BY FatStarts
<1>2. FatIInv /\ [FatNext]_fatvars => FatIInv' BY FatNextKeeps
<1>3. FatIInv => SpaceIsAccounted BY SoundIsAccounted
<1> QED BY <1>1, <1>2, <1>3, PTL DEF FatSpec

LEMMA TakenIsFree ==
    ASSUME Volumes = {V}, ~GoesOn, FatIInv, ~touched => ~clash, [FatNext]_fatvars
    PROVE  ~touched' => ~clash'
<1>1. CASE FatNext
  <2>1. ~touched /\ ~clash BY <1>1 DEF FatNext, Running
  <2>2. ASSUME NEW i \in Inodes, NEW k \in 1 .. 2, fat_alloc_clusters(i, k)
        PROVE  ~touched' => ~clash'
    BY <2>1, <2>2, AllocKeeps
  <2>3. ASSUME NEW i \in Inodes,
               \/ \E skip \in 0 .. Len(chain[i]) : Truncate(i, skip)
               \/ fat_free_clusters(i) \/ fat_evict_inode(i) \/ fat_destroy_inode(i)
               \/ fat_alloc_inode(i) \/ fat_file_open(i) \/ fat_file_release(i)
        PROVE  clash' = clash
    BY <2>3 DEF Truncate, fat_free_clusters, fat_evict_inode, fat_destroy_inode, fat_alloc_inode,
                fat_file_open, fat_file_release, fat_truncate_blocks, filevars
  <2>4. ASSUME NEW v \in Volumes,
               \/ fat_fill_super(v) \/ fat_statfs(v) \/ LockCount(v) \/ fat_count_free_clusters(v)
               \/ EvictInodes(v) \/ fat_put_super(v)
        PROVE  clash' = clash
    BY <2>4 DEF fat_fill_super, fat_statfs, StartCount, LockCount, fat_count_free_clusters,
                EvictInodes, fat_put_super
  <2> QED BY <1>1, <2>1, <2>2, <2>3, <2>4 DEF FatNext
<1>2. CASE UNCHANGED fatvars BY <1>2 DEF fatvars, mapvars, filevars
<1> QED BY <1>1, <1>2

(* fatent.c:1005: BUG is not reached.  A cluster that comes out of the     *)
(* tree is free in the FAT, up to the first use of a freed extent.         *)
THEOREM TakenClustersAreFree ==
    ASSUME Volumes = {V}, ~GoesOn
    PROVE  FatSpec => [](~touched => AllocatedIsFree)
<1>1. FatInit => FatIInv /\ (~touched => ~clash) BY FatStarts DEF FatInit
<1>2. FatIInv /\ (~touched => ~clash) /\ [FatNext]_fatvars
        => FatIInv' /\ (~touched => ~clash)'
  BY FatNextKeeps, TakenIsFree
<1>3. FatIInv /\ (~touched => ~clash) => (~touched => AllocatedIsFree) BY DEF AllocatedIsFree
<1> QED BY <1>1, <1>2, <1>3, PTL DEF FatSpec

----------------------------------------------------------------------------
(* A file and its extent name each other, while it is open, and the extent *)
(* begins behind the last cluster that came from it.                       *)
InPlace(s) == \A i \in Inodes :
    /\ s.node[i] # NULL => opens[i] > 0
    /\ tail[i] # 0 => s.node[i] # NULL /\ Start(s, s.node[i]) = tail[i] + 1
GrowsInPlace == ~touched /\ ~strayed => Mutual(Map) /\ InPlace(Map)

(* The last cluster of a file is in use.                                   *)
LEMMA TailIsInUse ==
    ASSUME FatIInv, NEW i \in Inodes, tail[i] # 0
    PROVE  /\ tail[i] \in fat[V] /\ tail[i] \in Int
           /\ Len(chain[i]) \in 1 .. Len(chain[i]) /\ tail[i] = chain[i][Len(chain[i])]
<1>1. PICK s \in Seq(Clusters(V)) : s = chain[i] BY DEF FatIInv, FatTypes
<1>2. s # <<>> /\ tail[i] = s[Len(s)] BY <1>1 DEF FatIInv, FilesAreApart
<1>3. Len(s) \in 1 .. Len(s) BY <1>2, LenProperties, EmptySeq
<1>4. s[Len(s)] \in fat[V] BY <1>1, <1>3 DEF FatIInv, FilesAreApart, InUse
<1>5. tail[i] \in Int BY DEF FatIInv, FatTypes
<1> QED BY <1>1, <1>2, <1>3, <1>4, <1>5

LEMMA QuietInPlace ==
    ASSUME FatIInv, GrowsInPlace, ~touched' /\ ~strayed', UNCHANGED <<mapvars, opens>>,
           \A i \in Inodes : tail'[i] \in {0, tail[i]}
    PROVE  Mutual(Map') /\ InPlace(Map)'
<1>1. Map' = Map /\ touched' = touched /\ strayed' = strayed BY MapStays DEF mapvars
<1>2. Mutual(Map) /\ InPlace(Map) BY <1>1 DEF GrowsInPlace
<1> QED BY <1>1, <1>2 DEF InPlace

(* What comes back to the tree is not what a file ends with.               *)
LEMMA FreedInPlace ==
    ASSUME Volumes = {V}, FatIInv, GrowsInPlace, ~touched' /\ ~strayed', ~touched, ~GoesOn,
           NEW c \in Nat, NEW k \in Nat \ {0}, \A d \in c .. c + k - 1 : ~Has(Map, d),
           NEW r \in blocks_mamager_free_blocks(Map, c, k), Becomes(r.map),
           \A i \in Inodes : tail[i] # c + k - 1, UNCHANGED <<tail, opens>>
    PROVE  Mutual(Map') /\ InPlace(Map)'
<1>1. Map \in MapState /\ Sound(Map) BY DEF FatIInv, FatTypes, SpaceIsSound
<1>2. r.map \in MapState /\ FollowsTo(Map, r.map, c + k) BY <1>1, BlocksAreFreed
<1>3. Map' = r.map BY <1>2, MapIs
<1>4. /\ Map.touched = touched /\ Map.strayed = strayed /\ Map.node = node
      /\ Map'.touched = touched' /\ Map'.strayed = strayed' /\ Map'.node = node'
  BY DEF Map
<1>5. ~strayed BY <1>2, <1>3, <1>4 DEF FollowsTo
<1>6. Mutual(Map) /\ InPlace(Map) BY <1>5 DEF GrowsInPlace
<1>7. /\ Mutual(Map') /\ node' = node
      /\ \A i \in Inodes : node[i] # NULL =>
            Start(Map', node[i]) = Start(Map, node[i]) \/ Start(Map, node[i]) = c + k
  BY <1>2, <1>3, <1>4, <1>6 DEF FollowsTo
<1>8. ASSUME NEW i \in Inodes, tail[i] # 0
      PROVE  node[i] # NULL /\ Start(Map', node[i]) = tail[i] + 1
  <2>1. node[i] # NULL /\ Start(Map, node[i]) = tail[i] + 1 BY <1>4, <1>6, <1>8 DEF InPlace
  <2>2. tail[i] \in Int BY DEF FatIInv, FatTypes
  <2>3. tail[i] + 1 # c + k BY <2>2
  <2> QED BY <1>7, <2>1, <2>3
<1> QED BY <1>4, <1>6, <1>7, <1>8 DEF InPlace

LEMMA FreeInPlace ==
    ASSUME Volumes = {V}, FatIInv, GrowsInPlace, ~touched' /\ ~strayed', ~touched, ~GoesOn,
           NEW i \in Inodes, fat_free_clusters(i)
    PROVE  Mutual(Map') /\ InPlace(Map)'
<1>1. V \in Volumes /\ VolumeOf[i] = V /\ Clusters(V) = 2 .. LastOf[V] /\ LastOf[V] \in Nat
  BY TheVolume
<1>2. PICK c : c = Head(freeing[i]) OBVIOUS
<1>3. UNCHANGED <<opens, tail>> BY DEF fat_free_clusters, inodevars
<1>4. CASE UNCHANGED mapvars BY <1>3, <1>4, QuietInPlace
<1>5. CASE \E r \in blocks_mamager_free_blocks(Map, c, 1) : Becomes(r.map)
  <2>1. PICK k : k = 1 OBVIOUS
  <2>2. PICK r \in blocks_mamager_free_blocks(Map, c, k) : Becomes(r.map) BY <1>5, <2>1
  <2>3. freeing[i] # <<>> BY DEF fat_free_clusters
  <2>4. /\ c \in Nat /\ c \in fat[V]
        /\ \A j \in Inodes : \A p \in 1 .. Len(chain[j]) : chain[j][p] # c
    BY <1>1, <1>2, <2>3, HeadIsInUse
  <2>5. ~Has(Map, c) BY <2>4 DEF FatIInv, SpaceIsSound, FreeOf
  <2>6. c + k - 1 = c /\ k \in Nat \ {0} /\ \A d \in c .. c + k - 1 : ~Has(Map, d)
    BY <2>1, <2>4, <2>5
  <2>7. \A j \in Inodes : tail[j] # c + k - 1
    <3>1. ASSUME NEW j \in Inodes PROVE tail[j] # c
      <4>1. CASE tail[j] = 0 BY <1>1, <1>2, <2>3, <4>1, HeadIsInUse
      <4>2. CASE tail[j] # 0 BY <2>4, <4>2, TailIsInUse
      <4> QED BY <4>1, <4>2
    <3> QED BY <2>6, <3>1
  <2> QED BY <1>3, <2>2, <2>4, <2>6, <2>7, FreedInPlace
<1> QED BY <1>1, <1>2, <1>4, <1>5 DEF fat_free_clusters

LEMMA CountInPlace ==
    ASSUME Volumes = {V}, FatIInv, GrowsInPlace, ~touched' /\ ~strayed', ~touched, ~GoesOn,
           NEW v \in Volumes, fat_count_free_clusters(v)
    PROVE  Mutual(Map') /\ InPlace(Map)'
<1> DEFINE ahead == {c \in FreeOf(V) : c >= counting[V]}
<1>1. v = V /\ V \in Volumes /\ Clusters(V) = 2 .. LastOf[V] /\ LastOf[V] \in Nat
  BY TheVolume
<1>2. UNCHANGED <<opens, tail>> /\ counting[V] >= 2 /\ counting[V] \in Nat
  BY <1>1 DEF fat_count_free_clusters, inodevars, FAT_START_ENT, FatIInv, FatTypes
<1>3. CASE UNCHANGED mapvars BY <1>2, <1>3, QuietInPlace
<1>4. ASSUME NEW first \in ahead, NEW last \in ahead, first <= last, first .. last \subseteq ahead,
             NEW r \in blocks_mamager_free_blocks(Map, first, last - first + 1), Becomes(r.map)
      PROVE  Mutual(Map') /\ InPlace(Map)'
  <2>1. first \in Nat /\ last \in Nat /\ last \notin fat[V] /\ last # 0
    BY <1>1 DEF FreeOf
  <2>2. PICK k : k = last - first + 1 OBVIOUS
  <2>3. k \in Nat \ {0} /\ first .. first + k - 1 = first .. last /\ first + k - 1 = last
    BY <1>4, <2>1, <2>2
  <2>4. \A c \in first .. last : ~Has(Map, c)
    <3> SUFFICES ASSUME NEW c \in first .. last PROVE ~Has(Map, c) OBVIOUS
    <3>1. c \in FreeOf(V) /\ c \in Int /\ ~(c < counting[V])
      BY <1>1, <1>2, <1>4, <2>1
    <3> QED BY <1>2, <3>1 DEF FatIInv, SpaceIsSound, FAT_START_ENT
  <2>5. \A c \in first .. first + k - 1 : ~Has(Map, c) BY <2>3, <2>4
  <2>6. \A j \in Inodes : tail[j] # first + k - 1 BY <2>1, <2>3, TailIsInUse
  <2>7. r \in blocks_mamager_free_blocks(Map, first, k) BY <2>2
  <2> QED BY <1>2, <1>4, <2>1, <2>3, <2>5, <2>6, <2>7, FreedInPlace
<1>5. \/ UNCHANGED mapvars
      \/ \E first, last \in ahead :
            /\ first <= last /\ first .. last \subseteq ahead
            /\ \E r \in blocks_mamager_free_blocks(Map, first, last - first + 1) : Becomes(r.map)
  BY <1>1 DEF fat_count_free_clusters
<1> HIDE DEF ahead
<1> QED BY <1>3, <1>4, <1>5

LEMMA OpenInPlace ==
    ASSUME FatIInv, GrowsInPlace, ~touched' /\ ~strayed', NEW i \in Inodes, fat_file_open(i)
    PROVE  Mutual(Map') /\ InPlace(Map)'
<1>1. /\ node \in [Inodes -> Cells \cup {NULL}] /\ opens \in [Inodes -> Int]
      /\ tail \in [Inodes -> Int]
  BY DEF FatIInv, FatTypes, Map, MapState
<1>2. /\ node[i] = NULL /\ ~strayed /\ UNCHANGED <<mem, tree, last_merged, touched, bug>>
      /\ node' = [node EXCEPT ![i] = NULL] /\ tail' = [tail EXCEPT ![i] = 0]
      /\ opens' = [opens EXCEPT ![i] = @ + 1]
  BY DEF fat_file_open
<1>3. node' = node BY <1>1, <1>2
<1>4. Mutual(Map) /\ InPlace(Map) BY <1>2 DEF GrowsInPlace
<1>5. Map'.mem = Map.mem /\ Map'.tree = Map.tree /\ Map'.node = Map.node /\ Map.node = node
  BY <1>2, <1>3 DEF Map
<1>6. Mutual(Map') BY <1>4, <1>5 DEF Mutual
<1>7. \A j \in Inodes : tail'[j] \in {0, tail[j]} /\ (opens[j] > 0 => opens'[j] > 0)
  BY <1>1, <1>2
<1>8. InPlace(Map)' BY <1>4, <1>5, <1>7 DEF InPlace, Start
<1> QED BY <1>6, <1>8

LEMMA ReleaseInPlace ==
    ASSUME FatIInv, GrowsInPlace, ~touched' /\ ~strayed', ~touched, ~GoesOn, NEW i \in Inodes,
           fat_file_release(i)
    PROVE  Mutual(Map') /\ InPlace(Map)'
<1>1. /\ Map \in MapState /\ Sound(Map) /\ opens \in [Inodes -> Int] /\ tail \in [Inodes -> Int]
  BY DEF FatIInv, FatTypes, SpaceIsSound
<1>2. /\ tail' = [tail EXCEPT ![i] = 0] /\ opens' = [opens EXCEPT ![i] = @ - 1]
  BY DEF fat_file_release
<1>3. PICK t : t = blocks_mamager_on_inode_release(Map, i) OBVIOUS
<1>4. IsReleased(Map, i, t) BY <1>1, <1>3, ReleaseKeeps
<1>5. Map' = t
  <2>1. t \in MapState BY <1>4 DEF IsReleased
  <2> QED BY <1>3, <2>1, MapIs DEF fat_file_release
<1>6. /\ Map.strayed = strayed /\ Map'.touched = touched' /\ Map'.strayed = strayed'
      /\ Map.node = node /\ Map'.node = node'
  BY DEF Map
<1>7. ~strayed BY <1>4, <1>5, <1>6 DEF IsReleased, OthersStay
<1>8. Mutual(Map) /\ InPlace(Map) BY <1>7 DEF GrowsInPlace
<1>9. /\ Mutual(Map') /\ node'[i] = NULL
      /\ \A j \in Inodes \ {i} : node'[j] = node[j]
      /\ \A j \in Inodes \ {i} : node[j] # NULL => Start(Map', node[j]) = Start(Map, node[j])
  BY <1>4, <1>5, <1>6, <1>8 DEF IsReleased, OthersStay
<1>10. /\ tail'[i] = 0
       /\ \A j \in Inodes \ {i} : tail'[j] = tail[j] /\ opens'[j] = opens[j]
  BY <1>1, <1>2
<1>11. InPlace(Map)' BY <1>6, <1>8, <1>9, <1>10 DEF InPlace
<1> QED BY <1>9, <1>11

LEMMA EmptyInPlace ==
    ASSUME FatIInv, GrowsInPlace, ~touched' /\ ~strayed', ~touched, ~GoesOn,
           Becomes(blocks_mamager_free_all(Map)), tail' = [i \in Inodes |-> 0]
    PROVE  Mutual(Map') /\ InPlace(Map)'
<1>1. Map \in MapState BY DEF FatIInv, FatTypes
<1>2. PICK t : t = blocks_mamager_free_all(Map) OBVIOUS
<1>3. IsEmptied(Map, t) BY <1>1, <1>2, FreeAllKeeps
<1>4. Map' = t
  <2>1. t \in MapState BY <1>3 DEF IsEmptied
  <2> QED BY <1>2, <2>1, MapIs
<1>5. Map.strayed = strayed /\ Map'.strayed = strayed' BY DEF Map
<1>6. Mutual(Map) BY <1>3, <1>4, <1>5 DEF GrowsInPlace, IsEmptied
<1>7. Map'.tree = {} /\ \A i \in Inodes : Map'.node[i] = NULL BY <1>3, <1>4, <1>6 DEF IsEmptied
<1>8. Mutual(Map') BY <1>7 DEF Mutual
<1>9. InPlace(Map)' BY <1>7 DEF InPlace
<1> QED BY <1>8, <1>9

LEMMA AllocInPlace ==
    ASSUME Volumes = {V}, FatIInv, GrowsInPlace, ~touched' /\ ~strayed', ~touched, ~GoesOn,
           ~GrowsClosed, NEW i \in Inodes, NEW k \in 1 .. 2, fat_alloc_clusters(i, k)
    PROVE  Mutual(Map') /\ InPlace(Map)'
<1>1. VolumeOf[i] = V /\ V \in Volumes /\ Clusters(V) = 2 .. LastOf[V] /\ LastOf[V] \in Nat
  BY TheVolume
<1>2. PICK r \in blocks_mamager_alloc_blocks(Map, i, k) :
         /\ Becomes(r.map)
         /\ IF r.got = -1 THEN GiveUp(i, V) ELSE TakeEntries(i, k, V, r.got)
  BY <1>1 DEF fat_alloc_clusters
<1>3. IsAllocated(Map, i, k, r) BY <1>2, FileIsAllocated
<1>4. Map' = r.map
  <2>1. r.map \in MapState BY <1>3 DEF IsAllocated
  <2> QED BY <1>2, <2>1, MapIs
<1>5. /\ Map.strayed = strayed /\ Map'.touched = touched' /\ Map'.strayed = strayed'
      /\ Map.node = node /\ Map'.node = node'
  BY DEF Map
<1>6. ~strayed BY <1>3, <1>4, <1>5 DEF IsAllocated, OthersStay
<1>7. Mutual(Map) /\ InPlace(Map) BY <1>6 DEF GrowsInPlace
<1>8. /\ Mutual(Map')
      /\ \A j \in Inodes \ {i} : node'[j] = node[j]
      /\ \A j \in Inodes \ {i} : node[j] # NULL => Start(Map', node[j]) = Start(Map, node[j])
  BY <1>3, <1>4, <1>5, <1>7 DEF IsAllocated, OthersStay
<1>9. opens' = opens BY DEF fat_alloc_clusters, inodevars
<1>10. node'[i] # NULL => opens'[i] > 0
  BY <1>5, <1>8, <1>9 DEF fat_alloc_clusters, Mutual
<1>11. tail \in [Inodes -> Int] BY DEF FatIInv, FatTypes
<1>12. CASE tail' = [tail EXCEPT ![i] = 0]
  <2>1. tail'[i] = 0 /\ \A j \in Inodes \ {i} : tail'[j] = tail[j] BY <1>11, <1>12
  <2>2. InPlace(Map)' BY <1>5, <1>7, <1>8, <1>9, <1>10, <2>1 DEF InPlace
  <2> QED BY <1>8, <2>2
<1>13. CASE /\ r.got # -1
            /\ tail' = [tail EXCEPT ![i] = IF node'[i] = NULL THEN 0
                                           ELSE Visited(V, r.got, k)[k]]
  <2>1. PICK from : from = r.got OBVIOUS
  <2>2. PICK e : e = Visited(V, from, k) OBVIOUS
  <2>3. /\ from \in Nat /\ \A c \in from .. from + k - 1 : Has(Map, c)
        /\ node'[i] # NULL => Start(Map', node'[i]) = from + k
    BY <1>3, <1>4, <1>5, <1>7, <1>13, <2>1 DEF IsAllocated
  <2>4. from \in Clusters(V) /\ from + k - 1 \in Clusters(V)
    <3>1. \A c \in from .. from + k - 1 : c \in FreeOf(V) /\ c \in Clusters(V)
      BY <2>3 DEF FatIInv, SpaceIsSound, FreeOf
    <3>2. from \in from .. from + k - 1 /\ from + k - 1 \in from .. from + k - 1 BY <2>3
    <3> QED BY <3>1, <3>2
  <2>5. e[k] = from + k - 1
    <3>1. AreEntries(e, from, k) BY <2>2, <2>3, EntriesAre
    <3> QED BY <2>4, <3>1 DEF AreEntries
  <2>6. /\ tail'[i] = IF node'[i] = NULL THEN 0 ELSE from + k - 1
        /\ \A j \in Inodes \ {i} : tail'[j] = tail[j]
    BY <1>11, <1>13, <2>1, <2>2, <2>5
  <2>7. tail'[i] # 0 => node'[i] # NULL /\ Start(Map', node'[i]) = tail'[i] + 1
    BY <2>3, <2>6
  <2>8. InPlace(Map)' BY <1>5, <1>7, <1>8, <1>9, <1>10, <2>6, <2>7 DEF InPlace
  <2> QED BY <1>8, <2>8
<1>14. \/ tail' = [tail EXCEPT ![i] = 0]
       \/ /\ r.got # -1
          /\ tail' = [tail EXCEPT ![i] = IF node'[i] = NULL THEN 0
                                         ELSE Visited(V, r.got, k)[k]]
  BY <1>2 DEF GiveUp, TakeEntries
<1> QED BY <1>12, <1>13, <1>14

LEMMA NextInPlace ==
    ASSUME Volumes = {V}, ~GoesOn, ~GrowsClosed, FatIInv, GrowsInPlace, [FatNext]_fatvars
    PROVE  GrowsInPlace'
<1> SUFFICES ASSUME ~touched' /\ ~strayed' PROVE Mutual(Map') /\ InPlace(Map)'
  BY DEF GrowsInPlace
<1>1. CASE FatNext
  <2>1. ~touched BY <1>1 DEF FatNext, Running
  <2>2. ASSUME NEW i \in Inodes, NEW k \in 1 .. 2, fat_alloc_clusters(i, k)
        PROVE  Mutual(Map') /\ InPlace(Map)'
    BY <2>1, <2>2, AllocInPlace
  <2>3. ASSUME NEW i \in Inodes,
               \/ \E skip \in 0 .. Len(chain[i]) : Truncate(i, skip)
               \/ fat_evict_inode(i) \/ fat_destroy_inode(i) \/ fat_alloc_inode(i)
        PROVE  Mutual(Map') /\ InPlace(Map)'
    <3>1. tail \in [Inodes -> Int] BY DEF FatIInv, FatTypes
    <3>2. UNCHANGED <<mapvars, opens>> /\ (tail' = [tail EXCEPT ![i] = 0] \/ tail' = tail)
      BY <2>3 DEF Truncate, fat_evict_inode, fat_destroy_inode, fat_alloc_inode,
                  fat_truncate_blocks, inodevars, filevars
    <3>3. \A j \in Inodes : tail'[j] \in {0, tail[j]} BY <3>1, <3>2
    <3> QED BY <3>2, <3>3, QuietInPlace
  <2>4. ASSUME NEW i \in Inodes, fat_free_clusters(i) PROVE Mutual(Map') /\ InPlace(Map)'
    BY <2>1, <2>4, FreeInPlace
  <2>5. ASSUME NEW i \in Inodes, fat_file_open(i) PROVE Mutual(Map') /\ InPlace(Map)'
    BY <2>5, OpenInPlace
  <2>6. ASSUME NEW i \in Inodes, fat_file_release(i) PROVE Mutual(Map') /\ InPlace(Map)'
    BY <2>1, <2>6, ReleaseInPlace
  <2>7. ASSUME NEW v \in Volumes, fat_fill_super(v) \/ fat_statfs(v) \/ fat_put_super(v)
        PROVE  Mutual(Map') /\ InPlace(Map)'
    BY <2>1, <2>7, EmptyInPlace DEF fat_fill_super, fat_statfs, StartCount, fat_put_super
  <2>8. ASSUME NEW v \in Volumes, LockCount(v) \/ EvictInodes(v)
        PROVE  Mutual(Map') /\ InPlace(Map)'
    <3>1. UNCHANGED <<mapvars, opens>> BY <2>8 DEF LockCount, EvictInodes, inodevars
    <3>2. tail' = tail \/ tail' = [i \in Inodes |-> IF VolumeOf[i] = v THEN 0 ELSE tail[i]]
      BY <2>8 DEF LockCount, EvictInodes
    <3>3. \A j \in Inodes : tail'[j] \in {0, tail[j]} BY <3>2
    <3> QED BY <3>1, <3>3, QuietInPlace
  <2>9. ASSUME NEW v \in Volumes, fat_count_free_clusters(v) PROVE Mutual(Map') /\ InPlace(Map)'
    BY <2>1, <2>9, CountInPlace
  <2> QED BY <1>1, <2>2, <2>3, <2>4, <2>5, <2>6, <2>7, <2>8, <2>9 DEF FatNext
<1>2. CASE UNCHANGED fatvars
  <2>1. UNCHANGED <<mapvars, opens, tail>> BY <1>2 DEF fatvars, inodevars, filevars
  <2>2. \A j \in Inodes : tail'[j] \in {0, tail[j]} BY <2>1
  <2> QED BY <2>1, <2>2, QuietInPlace
<1> QED BY <1>1, <1>2

(* As long as every file is extended while it is open: a file and its      *)
(* extent name each other, and its next cluster follows the last one, up   *)
(* to the first time that an open or a merge parts the two.                *)
THEOREM FilesStayInPlace ==
    ASSUME Volumes = {V}, ~GoesOn, ~GrowsClosed
    PROVE  FatSpec => []FilesGrowInPlace
<1>1. FatInit => FatIInv /\ GrowsInPlace
  <2>1. ASSUME FatInit PROVE GrowsInPlace
    <3>1. /\ Map.tree = {} /\ \A i \in Inodes : Map.node[i] = NULL /\ tail[i] = 0
      BY <2>1 DEF FatInit, Map
    <3> QED BY <3>1 DEF GrowsInPlace, Mutual, InPlace
  <2> QED BY <2>1, FatStarts
<1>2. FatIInv /\ GrowsInPlace /\ [FatNext]_fatvars => FatIInv' /\ GrowsInPlace'
  BY FatNextKeeps, NextInPlace
<1>3. GrowsInPlace => FilesGrowInPlace
  BY DEF GrowsInPlace, Mutual, InPlace, Map, Start, FilesGrowInPlace, ReservationsAreMutual,
         WritesAreSequential
<1> QED BY <1>1, <1>2, <1>3, PTL DEF FatSpec
=============================================================================
