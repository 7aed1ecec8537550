----------------------------- MODULE TabsProofs ------------------------------
(***************************************************************************)
(* Proofs about Tabs: layout and focus for any items, tabs and heights.    *)
(***************************************************************************)
EXTENDS Tabs, SequenceTheorems, TLAPS

-----------------------------------------------------------------------------
(* Lists.                                                                  *)

LEMMA PlaceIsUnique ==
  ASSUME NEW list \in Seq(Items), IsInjective(list), NEW k \in DOMAIN list
  PROVE  PlaceOf(list, list[k]) = k
BY DEF PlaceOf, IsInjective

LEMMA PlaceInList ==
  ASSUME NEW list \in Seq(Items), NEW i \in ToSet(list)
  PROVE  PlaceOf(list, i) \in DOMAIN list /\ list[PlaceOf(list, i)] = i
<1>1. \E k \in DOMAIN list : list[k] = i
  BY DEF ToSet
<1>. QED  BY <1>1 DEF PlaceOf

LEMMA BelowByPlace ==
  ASSUME NEW list \in Seq(Items), IsInjective(list),
         NEW j \in DOMAIN list, NEW k \in DOMAIN list
  PROVE  list[j] \in Below(list, list[k]) <=> j > k
<1>1. DOMAIN list = 1..Len(list) /\ Len(list) \in Nat
  BY LenProperties
<1>2. Below(list, list[k]) = {list[m] : m \in k + 1..Len(list)}
  BY PlaceIsUnique DEF Below
<1>3. j > k => j \in k + 1..Len(list)
  BY <1>1
<1>4. ASSUME NEW m \in k + 1..Len(list), list[j] = list[m]
      PROVE  j > k
  BY <1>1, <1>4 DEF IsInjective
<1>. QED  BY <1>2, <1>3, <1>4

LEMMA BelowInList ==
  ASSUME NEW list \in Seq(Items), NEW i \in ToSet(list)
  PROVE  Below(list, i) \subseteq ToSet(list)
<1>1. PlaceOf(list, i) \in 1..Len(list) /\ DOMAIN list = 1..Len(list) /\ Len(list) \in Nat
  BY PlaceInList, LenProperties
<1>. QED  BY <1>1 DEF Below, ToSet

\* A new first item.
LEMMA PutFirst ==
  ASSUME NEW list \in Seq(Items), IsInjective(list), NEW i \in Items, i \notin ToSet(list)
  PROVE  /\ <<i>> \o list \in Seq(Items) /\ IsInjective(<<i>> \o list)
         /\ Len(<<i>> \o list) = Len(list) + 1
         /\ (<<i>> \o list)[1] = i
         /\ \A k \in 2..Len(list) + 1 : (<<i>> \o list)[k] = list[k - 1]
         /\ ToSet(<<i>> \o list) = ToSet(list) \union {i}
<1>. DEFINE new == <<i>> \o list
<1>1. <<i>> \in Seq(Items) /\ Len(<<i>>) = 1 /\ <<i>>[1] = i
  OBVIOUS
<1>2. /\ new \in Seq(Items) /\ Len(new) = Len(list) + 1 /\ Len(list) \in Nat
      /\ \A k \in 1..Len(list) + 1 : new[k] = IF k <= 1 THEN <<i>>[k] ELSE list[k - 1]
      /\ DOMAIN new = 1..Len(list) + 1 /\ DOMAIN list = 1..Len(list)
  BY <1>1, ConcatProperties, LenProperties
<1>. HIDE DEF new
<1>3. new[1] = i /\ \A k \in 2..Len(list) + 1 : new[k] = list[k - 1]
  BY <1>1, <1>2
<1>4. ASSUME NEW k \in DOMAIN new, k # 1
      PROVE  k - 1 \in DOMAIN list /\ new[k] = list[k - 1] /\ new[k] \in ToSet(list)
  <2>1. k - 1 \in DOMAIN list /\ new[k] = list[k - 1]
    BY <1>2, <1>3, <1>4
  <2>. QED  BY <2>1 DEF ToSet
<1>5. \A k \in DOMAIN list : k + 1 \in 2..Len(list) + 1 /\ new[k + 1] = list[k]
  BY <1>2, <1>3
<1>6. IsInjective(new)
  <2>1. ASSUME NEW j \in DOMAIN new, NEW k \in DOMAIN new, new[j] = new[k]
        PROVE  j = k
    <3>1. CASE j = 1 /\ k # 1
      BY <1>3, <1>4, <2>1, <3>1
    <3>2. CASE k = 1 /\ j # 1
      BY <1>3, <1>4, <2>1, <3>2
    <3>3. CASE j # 1 /\ k # 1
      <4>1. j - 1 = k - 1
        BY <1>4, <2>1, <3>3 DEF IsInjective
      <4>. QED  BY <1>2, <4>1
    <3>. QED  BY <3>1, <3>2, <3>3
  <2>. QED  BY <2>1 DEF IsInjective
<1>7. ToSet(new) = ToSet(list) \union {i}
  <2>1. ASSUME NEW x \in ToSet(new)  PROVE  x \in ToSet(list) \union {i}
    <3>1. PICK k \in DOMAIN new : x = new[k]
      BY <2>1 DEF ToSet
    <3>. QED  BY <1>3, <1>4, <3>1
  <2>2. ASSUME NEW x \in ToSet(list)  PROVE  x \in ToSet(new)
    <3>1. PICK k \in DOMAIN list : x = list[k]
      BY <2>2 DEF ToSet
    <3>. QED  BY <1>2, <1>5, <3>1 DEF ToSet
  <2>3. i \in ToSet(new)
    BY <1>2, <1>3 DEF ToSet
  <2>. QED  BY <2>1, <2>2, <2>3
<1>. QED  BY <1>2, <1>3, <1>6, <1>7 DEF new

\* An item leaves its list.
LEMMA TakeOut ==
  ASSUME NEW list \in Seq(Items), IsInjective(list), NEW k \in DOMAIN list
  PROVE  /\ RemoveAt(list, k) \in Seq(Items) /\ IsInjective(RemoveAt(list, k))
         /\ Len(RemoveAt(list, k)) = Len(list) - 1
         /\ \A m \in 1..Len(list) - 1 :
              RemoveAt(list, k)[m] = IF m < k THEN list[m] ELSE list[m + 1]
         /\ ToSet(RemoveAt(list, k)) = ToSet(list) \ {list[k]}
<1>. DEFINE new == RemoveAt(list, k)
            a   == SubSeq(list, 1, k - 1)
            b   == SubSeq(list, k + 1, Len(list))
<1>1. /\ DOMAIN list = 1..Len(list) /\ Len(list) \in Nat
      /\ \A m \in 1..Len(list) : list[m] \in Items
      /\ k \in 1..Len(list)
  BY LenProperties, ElementOfSeq
<1>2. /\ a \in Seq(Items) /\ Len(a) = k - 1
      /\ \A m \in 1..k - 1 : a[m] = list[m]
  <2>1. \A m \in 1..k - 1 : list[m] \in Items
    BY <1>1
  <2>2. /\ a \in Seq(Items) /\ Len(a) = IF 1 <= k - 1 THEN k - 1 - 1 + 1 ELSE 0
        /\ \A m \in 1..k - 1 - 1 + 1 : a[m] = list[1 + m - 1]
    BY <1>1, <2>1, SubSeqProperties
  <2>. QED  BY <1>1, <2>2
<1>3. /\ b \in Seq(Items) /\ Len(b) = Len(list) - k
      /\ \A m \in 1..Len(list) - k : b[m] = list[k + m]
  <2>1. \A m \in k + 1..Len(list) : list[m] \in Items
    BY <1>1
  <2>2. /\ b \in Seq(Items)
        /\ Len(b) = IF k + 1 <= Len(list) THEN Len(list) - (k + 1) + 1 ELSE 0
        /\ \A m \in 1..Len(list) - (k + 1) + 1 : b[m] = list[k + 1 + m - 1]
    BY <1>1, <2>1, SubSeqProperties
  <2>3. ASSUME NEW m \in 1..Len(list) - k
        PROVE  b[m] = list[k + m]
    <3>1. m \in 1..Len(list) - (k + 1) + 1 /\ k + 1 + m - 1 = k + m
      BY <1>1
    <3>. QED  BY <2>2, <3>1
  <2>4. Len(b) = Len(list) - k
    BY <1>1, <2>2
  <2>. QED  BY <2>2, <2>3, <2>4
<1>4. new = a \o b
  BY DEF RemoveAt
<1>. HIDE DEF new, a, b
<1>5. /\ new \in Seq(Items) /\ Len(new) = Len(list) - 1
      /\ \A m \in 1..Len(list) - 1 : new[m] = IF m <= k - 1 THEN a[m] ELSE b[m - (k - 1)]
  <2>1. /\ a \o b \in Seq(Items) /\ Len(a \o b) = Len(a) + Len(b)
        /\ \A m \in 1..Len(a) + Len(b) :
             (a \o b)[m] = IF m <= Len(a) THEN a[m] ELSE b[m - Len(a)]
    BY <1>2, <1>3, ConcatProperties
  <2>2. Len(a) + Len(b) = Len(list) - 1
    BY <1>1, <1>2, <1>3
  <2>. QED  BY <1>2, <1>4, <2>1, <2>2
<1>6. \A m \in 1..Len(list) - 1 : new[m] = IF m < k THEN list[m] ELSE list[m + 1]
  <2>. SUFFICES ASSUME NEW m \in 1..Len(list) - 1
                PROVE  new[m] = IF m < k THEN list[m] ELSE list[m + 1]
    OBVIOUS
  <2>1. CASE m < k
    BY <1>1, <1>2, <1>5, <2>1
  <2>2. CASE ~(m < k)
    <3>1. m - (k - 1) \in 1..Len(list) - k /\ k + (m - (k - 1)) = m + 1 /\ ~(m <= k - 1)
      BY <1>1, <2>2
    <3>. QED  BY <1>3, <1>5, <2>2, <3>1
  <2>. QED  BY <2>1, <2>2
<1>7. DOMAIN new = 1..Len(list) - 1
  BY <1>5, LenProperties
<1>8. IsInjective(new)
  <2>1. ASSUME NEW j \in DOMAIN new, NEW m \in DOMAIN new, new[j] = new[m]
        PROVE  j = m
    <3>. DEFINE at(x) == IF x < k THEN x ELSE x + 1
    <3>1. /\ at(j) \in DOMAIN list /\ new[j] = list[at(j)]
          /\ at(m) \in DOMAIN list /\ new[m] = list[at(m)]
      BY <1>1, <1>6, <1>7
    <3>2. at(j) = at(m)
      BY <2>1, <3>1 DEF IsInjective
    <3>. QED  BY <1>1, <1>7, <3>2
  <2>. QED  BY <2>1 DEF IsInjective
<1>9. ToSet(new) = ToSet(list) \ {list[k]}
  <2>1. ASSUME NEW x \in ToSet(new)  PROVE  x \in ToSet(list) \ {list[k]}
    <3>1. PICK m \in DOMAIN new : x = new[m]
      BY <2>1 DEF ToSet
    <3>2. PICK n \in DOMAIN list : x = list[n] /\ n # k
      <4>1. CASE m < k
        BY <1>1, <1>6, <1>7, <3>1, <4>1
      <4>2. CASE ~(m < k)
        <5>1. m + 1 \in DOMAIN list /\ x = list[m + 1] /\ m + 1 # k
          BY <1>1, <1>6, <1>7, <3>1, <4>2
        <5>. QED  BY <5>1
      <4>. QED  BY <4>1, <4>2
    <3>. QED  BY <3>2 DEF ToSet, IsInjective
  <2>2. ASSUME NEW x \in ToSet(list) \ {list[k]}  PROVE  x \in ToSet(new)
    <3>1. PICK n \in DOMAIN list : x = list[n] /\ n # k
      BY <2>2 DEF ToSet
    <3>2. CASE n < k
      <4>1. n \in DOMAIN new /\ new[n] = x
        BY <1>1, <1>6, <1>7, <3>1, <3>2
      <4>. QED  BY <4>1 DEF ToSet
    <3>3. CASE n > k
      <4>1. n - 1 \in DOMAIN new /\ new[n - 1] = x
        BY <1>1, <1>6, <1>7, <3>1, <3>3
      <4>. QED  BY <4>1 DEF ToSet
    <3>. QED  BY <1>1, <3>1, <3>2, <3>3
  <2>. QED  BY <2>1, <2>2
<1>. QED  BY <1>5, <1>6, <1>8, <1>9 DEF new

-----------------------------------------------------------------------------
(* Layout.                                                                 *)

\* The items of a list stand one below the other, within a room.
Stack(list, p, h, room) ==
  /\ \A k \in DOMAIN list :
       p[list[k]] = IF k = 1 THEN 0 ELSE p[list[k - 1]] + h[list[k - 1]]
  /\ \A j, k \in DOMAIN list : j < k => p[list[j]] + h[list[j]] <= p[list[k]]
  /\ \A k \in DOMAIN list : p[list[k]] \in Nat /\ p[list[k]] + h[list[k]] <= room

Sizes == [Items -> Nat]

\* A list whose items stay where they are.
LEMMA StackStays ==
  ASSUME NEW list \in Seq(Items), NEW p \in Sizes, NEW h \in Sizes,
         NEW p2, NEW h2, NEW room \in Nat, NEW room2 \in Nat, room2 >= room,
         Stack(list, p, h, room),
         \A x \in ToSet(list) : p2[x] = p[x] /\ h2[x] = h[x]
  PROVE  Stack(list, p2, h2, room2)
<1>1. /\ DOMAIN list = 1..Len(list) /\ Len(list) \in Nat
      /\ \A k \in DOMAIN list : list[k] \in Items /\ list[k] \in ToSet(list)
  BY LenProperties, ElementOfSeq DEF ToSet
<1>2. \A k \in DOMAIN list : /\ p2[list[k]] = p[list[k]] /\ h2[list[k]] = h[list[k]]
                             /\ p[list[k]] \in Nat /\ h[list[k]] \in Nat
  BY <1>1 DEF Sizes
<1>3. \A k \in DOMAIN list : k # 1 => k - 1 \in DOMAIN list
  BY <1>1
<1>4. \A k \in DOMAIN list :
        p2[list[k]] = IF k = 1 THEN 0 ELSE p2[list[k - 1]] + h2[list[k - 1]]
  BY <1>2, <1>3 DEF Stack
<1>5. \A j, k \in DOMAIN list : j < k => p2[list[j]] + h2[list[j]] <= p2[list[k]]
  BY <1>2 DEF Stack
<1>6. ASSUME NEW k \in DOMAIN list  PROVE p2[list[k]] \in Nat /\ p2[list[k]] + h2[list[k]] <= room2
  <2>. DEFINE end == p[list[k]] + h[list[k]]
  <2>1. end \in Nat /\ p2[list[k]] \in Nat /\ p2[list[k]] + h2[list[k]] = end
    BY <1>2
  <2>2. end <= room
    BY DEF Stack
  <2>. HIDE DEF end
  <2>. QED  BY <2>1, <2>2
<1>. QED  BY <1>4, <1>5, <1>6 DEF Stack

\* An item without height on top.
LEMMA StackOnTop ==
  ASSUME NEW list \in Seq(Items), IsInjective(list), NEW i \in Items, i \notin ToSet(list),
         NEW p \in Sizes, NEW h \in Sizes, NEW room \in Nat,
         Stack(list, p, h, room), p[i] = 0, h[i] = 0
  PROVE  Stack(<<i>> \o list, p, h, room)
<1>. DEFINE new == <<i>> \o list
<1>1. /\ new \in Seq(Items) /\ Len(new) = Len(list) + 1 /\ new[1] = i
      /\ \A k \in 2..Len(list) + 1 : new[k] = list[k - 1]
  BY PutFirst
<1>. HIDE DEF new
<1>2. /\ DOMAIN list = 1..Len(list) /\ Len(list) \in Nat /\ DOMAIN new = 1..Len(list) + 1
      /\ \A k \in DOMAIN list : list[k] \in Items
  BY <1>1, LenProperties, ElementOfSeq
<1>3. ASSUME NEW k \in DOMAIN new, k # 1
      PROVE  /\ k - 1 \in DOMAIN list /\ new[k] = list[k - 1]
             /\ p[new[k]] \in Nat /\ h[new[k]] \in Nat
  <2>1. k - 1 \in DOMAIN list /\ new[k] = list[k - 1]
    BY <1>1, <1>2, <1>3
  <2>. QED  BY <1>2, <2>1 DEF Sizes
<1>4. ASSUME NEW k \in DOMAIN new
      PROVE  p[new[k]] = IF k = 1 THEN 0 ELSE p[new[k - 1]] + h[new[k - 1]]
  <2>1. CASE k = 1
    BY <1>1, <2>1
  <2>2. CASE k = 2
    <3>1. p[list[1]] = 0 /\ new[2] = list[1]
      BY <1>2, <1>3, <2>2 DEF Stack
    <3>. QED  BY <1>1, <2>2, <3>1
  <2>3. CASE k # 1 /\ k # 2
    <3>1. /\ k - 1 \in DOMAIN list /\ new[k] = list[k - 1] /\ k - 1 # 1
          /\ k - 1 \in DOMAIN new
      BY <1>2, <1>3, <2>3
    <3>2. new[k - 1] = list[k - 2] /\ (k - 1) - 1 = k - 2
      BY <1>2, <1>3, <2>3, <3>1
    <3>3. p[list[k - 1]] = p[list[k - 2]] + h[list[k - 2]]
      BY <3>1, <3>2 DEF Stack
    <3>. QED  BY <2>3, <3>1, <3>2, <3>3
  <2>. QED  BY <2>1, <2>2, <2>3
<1>5. ASSUME NEW j \in DOMAIN new, NEW k \in DOMAIN new, j < k
      PROVE  p[new[j]] + h[new[j]] <= p[new[k]]
  <2>1. k # 1
    BY <1>2, <1>5
  <2>2. CASE j = 1
    BY <1>1, <1>3, <2>1, <2>2
  <2>3. CASE j # 1
    <3>1. j - 1 < k - 1
      BY <1>2, <1>5
    <3>. QED  BY <1>3, <2>1, <2>3, <3>1 DEF Stack
  <2>. QED  BY <2>2, <2>3
<1>6. ASSUME NEW k \in DOMAIN new
      PROVE  p[new[k]] \in Nat /\ p[new[k]] + h[new[k]] <= room
  <2>1. CASE k = 1
    BY <1>1, <2>1
  <2>2. CASE k # 1
    BY <1>3, <2>2 DEF Stack
  <2>. QED  BY <2>1, <2>2
<1>7. Stack(new, p, h, room)
  BY <1>4, <1>5, <1>6 DEF Stack
<1>. QED  BY <1>7 DEF new

\* Sums, with the sizes as numbers of their own.
LEMMA EndMoves ==
  ASSUME NEW a \in Int, NEW b \in Int, NEW c \in Int, NEW d \in Int
  PROVE  /\ a = b + c => a + d = b + (c + d) /\ a + d = (b + d) + c
         /\ a + c <= b => a + (c + d) <= b + d /\ (a + d) + c <= b + d
         /\ (a + d) + c = a + c + d /\ a + (c + d) = a + c + d
OBVIOUS

LEMMA RoomBetween ==
  ASSUME NEW a \in Nat, NEW b \in Nat, NEW c \in Nat, NEW e \in Nat, NEW d \in Int,
         a <= b, b + c <= e, c + d >= 0
  PROVE  a <= e + d
OBVIOUS

\* An item changes its height by d, and those below move.
LEMMA StackShifts ==
  ASSUME NEW list \in Seq(Items), NEW k \in DOMAIN list, NEW d \in Int,
         NEW p \in Sizes, NEW h \in Sizes, NEW room \in Nat, Stack(list, p, h, room),
         NEW p2, NEW h2, NEW room2 \in Nat, h[list[k]] + d >= 0,
         room2 >= room, room2 >= p[list[Len(list)]] + h[list[Len(list)]] + d,
         \A j \in DOMAIN list :
           /\ p2[list[j]] = IF j > k THEN p[list[j]] + d ELSE p[list[j]]
           /\ h2[list[j]] = IF j = k THEN h[list[j]] + d ELSE h[list[j]]
  PROVE  Stack(list, p2, h2, room2)
<1>1. /\ DOMAIN list = 1..Len(list) /\ Len(list) \in Nat
      /\ \A j \in DOMAIN list : list[j] \in Items
  BY LenProperties, ElementOfSeq
<1>. DEFINE P(j) == p[list[j]]
            H(j) == h[list[j]]
            P2(j) == p2[list[j]]
            H2(j) == h2[list[j]]
<1>2. \A j \in DOMAIN list : P(j) \in Nat /\ H(j) \in Nat
  BY <1>1 DEF Sizes
<1>3. /\ \A j \in DOMAIN list : P(j) = IF j = 1 THEN 0 ELSE P(j - 1) + H(j - 1)
      /\ \A i, j \in DOMAIN list : i < j => P(i) + H(i) <= P(j)
  BY DEF Stack
<1>4. H(k) + d >= 0 /\ room2 >= P(Len(list)) + H(Len(list)) + d
  OBVIOUS
<1>5. \A j \in DOMAIN list : /\ P2(j) = IF j > k THEN P(j) + d ELSE P(j)
                             /\ H2(j) = IF j = k THEN H(j) + d ELSE H(j)
  OBVIOUS
<1>6. SUFFICES
        /\ \A j \in DOMAIN list : P2(j) \in Nat
        /\ \A j \in DOMAIN list : P2(j) = IF j = 1 THEN 0 ELSE P2(j - 1) + H2(j - 1)
        /\ \A i, j \in DOMAIN list : i < j => P2(i) + H2(i) <= P2(j)
        /\ \A j \in DOMAIN list : P2(j) + H2(j) <= room2
  BY DEF Stack
<1>. HIDE DEF P, H, P2, H2
<1>7. ASSUME NEW j \in DOMAIN list
      PROVE  P2(j) \in Nat /\ H2(j) \in Nat
  <2>1. CASE j > k
    <3>1. P(k) + H(k) <= P(j) /\ P2(j) = P(j) + d /\ H2(j) = H(j)
      BY <1>1, <1>3, <1>5, <2>1
    <3>. QED  BY <1>2, <1>4, <3>1, SMTT(30)
  <2>2. CASE ~(j > k)
    BY <1>2, <1>4, <1>5, <2>2, SMTT(30)
  <2>. QED  BY <2>1, <2>2
<1>8. ASSUME NEW j \in DOMAIN list
      PROVE  P2(j) = IF j = 1 THEN 0 ELSE P2(j - 1) + H2(j - 1)
  <2>1. CASE j = 1
    BY <1>1, <1>3, <1>5, <2>1
  <2>2. CASE j # 1
    <3>1. PICK i \in DOMAIN list : i = j - 1
      BY <1>1, <2>2
    <3>2. P(j) = P(i) + H(i)
      BY <1>3, <2>2, <3>1
    <3>3. P2(j) = P2(i) + H2(i)
      <4>1. CASE j <= k
        BY <1>1, <1>5, <3>1, <3>2, <4>1
      <4>2. CASE i = k
        <5>1. P2(j) = P(j) + d /\ P2(i) = P(i) /\ H2(i) = H(i) + d
          BY <1>1, <1>5, <3>1, <4>2
        <5>. QED  BY <1>2, <3>2, <5>1, EndMoves
      <4>3. CASE i > k
        <5>1. P2(j) = P(j) + d /\ P2(i) = P(i) + d /\ H2(i) = H(i)
          BY <1>1, <1>5, <3>1, <4>3
        <5>. QED  BY <1>2, <3>2, <5>1, EndMoves
      <4>. QED  BY <1>1, <3>1, <4>1, <4>2, <4>3
    <3>. QED  BY <2>2, <3>1, <3>3
  <2>. QED  BY <2>1, <2>2
<1>9. ASSUME NEW i \in DOMAIN list, NEW j \in DOMAIN list, i < j
      PROVE  P2(i) + H2(i) <= P2(j)
  <2>1. P(i) + H(i) <= P(j)
    BY <1>3, <1>9
  <2>2. CASE j <= k
    <3>1. P2(i) = P(i) /\ P2(j) = P(j) /\ H2(i) = H(i)
      BY <1>1, <1>5, <1>9, <2>2
    <3>. QED  BY <2>1, <3>1
  <2>3. CASE i = k
    <3>1. P2(i) = P(i) /\ P2(j) = P(j) + d /\ H2(i) = H(i) + d
      BY <1>1, <1>5, <1>9, <2>3
    <3>. QED  BY <1>2, <2>1, <3>1, EndMoves
  <2>4. CASE i > k
    <3>1. P2(i) = P(i) + d /\ P2(j) = P(j) + d /\ H2(i) = H(i)
      BY <1>1, <1>5, <1>9, <2>4
    <3>. QED  BY <1>2, <2>1, <3>1, EndMoves
  <2>5. CASE i < k /\ k < j
    <3>1. P(i) + H(i) <= P(k) /\ P(k) + H(k) <= P(j)
      BY <1>3, <2>5
    <3>2. P2(i) = P(i) /\ P2(j) = P(j) + d /\ H2(i) = H(i)
      BY <1>1, <1>5, <2>5
    <3>3. P(i) + H(i) \in Nat
      BY <1>2, SMTT(30)
    <3>. QED  BY <1>2, <1>4, <3>1, <3>2, <3>3, RoomBetween, SMTT(30)
  <2>. QED  BY <1>1, <1>9, <2>2, <2>3, <2>4, <2>5
<1>10. ASSUME NEW j \in DOMAIN list
       PROVE  P2(j) + H2(j) <= room2
  <2>1. PICK n \in DOMAIN list : n = Len(list) /\ j <= n
    BY <1>1
  <2>. room2 >= P(n) + H(n) + d
    BY <1>4, <2>1
  <2>2. CASE n = k
    <3>1. P2(n) = P(n) /\ H2(n) = H(n) + d
      BY <1>1, <1>5, <2>2
    <3>2. P2(n) + H2(n) <= room2
      BY <1>2, <3>1, EndMoves
    <3>. QED  BY <1>7, <1>9, <2>1, <3>2, SMTT(30)
  <2>3. CASE n # k
    <3>1. P2(n) = P(n) + d /\ H2(n) = H(n)
      BY <1>1, <1>5, <2>1, <2>3
    <3>2. P2(n) + H2(n) <= room2
      BY <1>2, <3>1, EndMoves
    <3>. QED  BY <1>7, <1>9, <2>1, <3>2, SMTT(30)
  <2>. QED  BY <2>2, <2>3
<1>. QED  BY <1>7, <1>8, <1>9, <1>10

\* An item without height leaves.
LEMMA StackCloses ==
  ASSUME NEW list \in Seq(Items), IsInjective(list), NEW k \in DOMAIN list,
         NEW p, NEW h, NEW room \in Nat, Stack(list, p, h, room), h[list[k]] = 0,
         \A j \in DOMAIN list : p[list[j]] \in Nat /\ h[list[j]] \in Nat
  PROVE  Stack(RemoveAt(list, k), p, h, room)
<1>. DEFINE new == RemoveAt(list, k)
            at(m) == IF m < k THEN m ELSE m + 1
<1>1. /\ new \in Seq(Items) /\ Len(new) = Len(list) - 1
      /\ \A m \in 1..Len(list) - 1 : new[m] = IF m < k THEN list[m] ELSE list[m + 1]
  BY TakeOut
<1>. HIDE DEF new
<1>2. /\ DOMAIN list = 1..Len(list) /\ Len(list) \in Nat /\ DOMAIN new = 1..Len(list) - 1
  BY <1>1, LenProperties
<1>3. ASSUME NEW m \in DOMAIN new
      PROVE  at(m) \in DOMAIN list /\ new[m] = list[at(m)]
  BY <1>1, <1>2
<1>4. ASSUME NEW m \in DOMAIN new
      PROVE  p[new[m]] = IF m = 1 THEN 0 ELSE p[new[m - 1]] + h[new[m - 1]]
  <2>1. p[list[at(m)]] = IF at(m) = 1 THEN 0 ELSE p[list[at(m) - 1]] + h[list[at(m) - 1]]
    BY <1>3 DEF Stack
  <2>2. CASE m < k
    <3>1. m # 1 => m - 1 \in DOMAIN new /\ new[m - 1] = list[m - 1]
      BY <1>1, <1>2, <2>2
    <3>. QED  BY <1>3, <2>1, <2>2, <3>1
  <2>3. CASE m = k
    <3>1. /\ new[m] = list[k + 1] /\ at(m) - 1 = k /\ at(m) # 1
          /\ p[list[k + 1]] = p[list[k]] + 0
      BY <1>2, <1>3, <2>1, <2>3
    <3>2. p[list[k]] = IF k = 1 THEN 0 ELSE p[list[k - 1]] + h[list[k - 1]]
      BY DEF Stack
    <3>3. k # 1 => new[m - 1] = list[k - 1]
      BY <1>1, <1>2, <2>3
    <3>. QED  BY <2>3, <3>1, <3>2, <3>3
  <2>4. CASE m > k
    <3>1. new[m] = list[m + 1] /\ new[m - 1] = list[m] /\ m # 1
      BY <1>1, <1>2, <2>4
    <3>2. at(m) = m + 1 /\ at(m) - 1 = m /\ at(m) # 1
      BY <1>2, <2>4
    <3>. QED  BY <2>1, <3>1, <3>2
  <2>. QED  BY <1>2, <2>2, <2>3, <2>4
<1>5. ASSUME NEW j \in DOMAIN new, NEW m \in DOMAIN new, j < m
      PROVE  p[new[j]] + h[new[j]] <= p[new[m]]
  <2>1. at(j) < at(m)
    BY <1>2, <1>5
  <2>. QED  BY <1>3, <2>1 DEF Stack
<1>6. \A m \in DOMAIN new : p[new[m]] \in Nat /\ p[new[m]] + h[new[m]] <= room
  BY <1>3 DEF Stack
<1>7. Stack(new, p, h, room)
  BY <1>4, <1>5, <1>6 DEF Stack
<1>. QED  BY <1>7 DEF new

-----------------------------------------------------------------------------
(* The invariant.                                                          *)

Types == items \in [Tabs -> Seq(Items)] /\ TypeOK

Layout ==
  /\ pad >= term_height
  /\ \A t \in Tabs : Stack(items[t], pos, height, pad)

\* An item takes no place before it appears.
Unplaced == \A i \in Items : ~Shown(i) => pos[i] = 0 /\ height[i] = 0

TabsInv == Types /\ Layout /\ Unplaced /\ FocusOnShown

FocusInView ==
  \A t \in Tabs : LET f == focused'[t] IN
    f \notin {focused[t], None} /\ height'[f] < term_height' =>
      InView(scroll_pos'[t], pos'[f], height'[f])

FocusKept ==
  \A t \in Tabs :
    user[t] /\ focused[t] # focused'[t] /\ items[t] # items'[t]
      => focused[t] \notin ToSet(items'[t])

LEMMA TabsInvImplies ==
  ASSUME TabsInv  PROVE  TypeOK /\ LayoutFits /\ FocusOnShown
BY DEF TabsInv, Types, Layout, LayoutFits, Stack

\* Different tabs have different items.
LEMMA Apart ==
  ASSUME Types, NEW t \in Tabs, NEW u \in Tabs, t # u
  PROVE  ToSet(items[t]) \intersect ToSet(items[u]) = {}
BY DEF Types, TypeOK

LEMMA Members ==
  ASSUME Types, NEW t \in Tabs
  PROVE  /\ items[t] \in Seq(Items) /\ IsInjective(items[t])
         /\ ToSet(items[t]) \subseteq Items
         /\ \A i \in Items : i \in ToSet(items[t]) <=> TabOf[i] = t /\ Shown(i)
<1>1. items[t] \in Seq(Items)
  BY DEF Types
<1>2. \A k \in DOMAIN items[t] : items[t][k] \in Items
  BY <1>1, LenProperties, ElementOfSeq
<1>. QED  BY <1>1, <1>2 DEF Types, TypeOK, Shown, ToSet

-----------------------------------------------------------------------------
(* Changes of height.                                                      *)

LEMMA ResizeMoves ==
  ASSUME Types, NEW list \in Seq(Items), IsInjective(list), NEW i \in ToSet(list),
         NEW new \in Nat, Stack(list, pos, height, pad), Resize(list, i, new)
  PROVE  /\ pad' \in Nat /\ pad' >= pad
         /\ pos' \in Sizes /\ height' \in Sizes /\ height' = [height EXCEPT ![i] = new]
         /\ pos'[i] = IF new = 0 THEN 0 ELSE pos[i]
         /\ \A j \in Items \ ToSet(list) : pos'[j] = pos[j] /\ height'[j] = height[j]
         /\ Stack(list, [pos' EXCEPT ![i] = pos[i]], height', pad')
<1>. DEFINE d    == new - height[i]
            p2   == [pos' EXCEPT ![i] = pos[i]]
            last == list[Len(list)]
<1>1. PICK k \in DOMAIN list : list[k] = i
  BY DEF ToSet
<1>2. /\ DOMAIN list = 1..Len(list) /\ Len(list) \in Nat /\ i \in Items
      /\ \A j \in DOMAIN list : list[j] \in Items
  BY <1>1, LenProperties, ElementOfSeq
<1>3. pos \in Sizes /\ height \in Sizes /\ pad \in Nat
  BY DEF Types, TypeOK, Sizes
<1>4. height[i] \in Nat /\ d \in Int /\ height[i] + d = new /\ last \in Items
  BY <1>1, <1>2, <1>3 DEF Sizes
<1>5. /\ height' = [height EXCEPT ![i] = new]
      /\ pos' = [j \in Items |-> CASE j \in Below(list, i) -> pos[j] + d
                                 [] j = i /\ new = 0 -> 0
                                 [] OTHER -> pos[j]]
      /\ pad' = AtLeast(pos[last] + height[last] + d, pad)
  BY DEF Resize
<1>6. pad' \in Nat /\ pad' >= pad /\ pad' >= pos[last] + height[last] + d
  <2>1. pos[last] \in Nat /\ height[last] \in Nat
    BY <1>3, <1>4 DEF Sizes
  <2>2. PICK n \in Int : n = pos[last] + height[last] + d
    BY <1>4, <2>1
  <2>3. pad' = AtLeast(n, pad)
    BY <1>5, <2>2
  <2>4. pad' \in Nat /\ pad' >= pad /\ pad' >= n
    BY <1>3, <2>2, <2>3 DEF AtLeast
  <2>. QED  BY <2>2, <2>4
<1>7. /\ i \notin Below(list, i)
      /\ \A j \in DOMAIN list : list[j] \in Below(list, i) <=> j > k
  BY <1>1, <1>2, BelowByPlace
<1>8. /\ pos'[i] = IF new = 0 THEN 0 ELSE pos[i]
      /\ \A j \in Items \ Below(list, i) : j # i => pos'[j] = pos[j]
      /\ \A j \in Below(list, i) : j \in Items => pos'[j] = pos[j] + d
      /\ DOMAIN pos' = Items
  BY <1>2, <1>5, <1>7
<1>. HIDE DEF d
<1>9. ASSUME NEW j \in DOMAIN list
      PROVE  /\ p2[list[j]] = IF j > k THEN pos[list[j]] + d ELSE pos[list[j]]
             /\ height'[list[j]] = IF j = k THEN height[list[j]] + d ELSE height[list[j]]
  <2>1. list[j] \in Items /\ (list[j] = i <=> j = k)
    BY <1>1, <1>2 DEF IsInjective
  <2>2. height'[list[j]] = IF j = k THEN height[list[j]] + d ELSE height[list[j]]
    BY <1>3, <1>4, <1>5, <2>1 DEF Sizes
  <2>3. p2[list[j]] = IF j = k THEN pos[i] ELSE pos'[list[j]]
    BY <1>8, <2>1
  <2>4. CASE j = k
    BY <1>1, <1>2, <2>2, <2>3, <2>4
  <2>5. CASE j # k
    BY <1>7, <1>8, <2>1, <2>2, <2>3, <2>5
  <2>. QED  BY <2>4, <2>5
<1>. HIDE DEF p2
<1>10. Stack(list, p2, height', pad')
  <2>. HIDE DEF last
  <2>1. PICK room \in Nat : room = pad
    BY <1>3
  <2>2. PICK room2 \in Nat : room2 = pad'
    BY <1>6
  <2>3. /\ height[list[k]] + d >= 0 /\ Stack(list, pos, height, room) /\ room2 >= room
        /\ room2 >= pos[list[Len(list)]] + height[list[Len(list)]] + d
    BY <1>1, <1>4, <1>6, <2>1, <2>2 DEF last
  <2>4. Stack(list, p2, height', room2)
    BY <1>1, <1>3, <1>4, <1>9, <2>3, StackShifts
  <2>. QED  BY <2>2, <2>4
<1>11. pos' \in Sizes
  <2>1. ASSUME NEW j \in Items  PROVE  pos'[j] \in Nat
    <3>1. CASE j \in Below(list, i)
      <4>1. PICK m \in DOMAIN list : list[m] = j
        BY <3>1, BelowInList DEF ToSet
      <4>2. p2[j] = pos'[j]
        BY <1>7, <1>8, <3>1 DEF p2
      <4>. QED  BY <1>10, <4>1, <4>2 DEF Stack
    <3>2. CASE j \notin Below(list, i)
      BY <1>3, <1>8, <3>2 DEF Sizes
    <3>. QED  BY <3>1, <3>2
  <2>. QED  BY <1>5, <2>1 DEF Sizes
<1>12. height' \in Sizes
  BY <1>3, <1>5 DEF Sizes
<1>13. \A j \in Items \ ToSet(list) : pos'[j] = pos[j] /\ height'[j] = height[j]
  <2>1. Below(list, i) \subseteq ToSet(list)
    BY BelowInList
  <2>. QED  BY <1>3, <1>5, <1>8, <2>1 DEF Sizes
<1>. QED  BY <1>5, <1>6, <1>8, <1>10, <1>11, <1>12, <1>13 DEF p2

\* The other tabs keep their places.
LEMMA OthersStay ==
  ASSUME Types, Layout, NEW t \in Tabs, NEW u \in Tabs, t # u,
         NEW list, ToSet(list) \intersect ToSet(items[u]) = {},
         pad' \in Nat, pad' >= pad,
         \A j \in Items \ ToSet(list) : pos'[j] = pos[j] /\ height'[j] = height[j]
  PROVE  Stack(items[u], pos', height', pad')
<1>1. /\ items[u] \in Seq(Items) /\ Stack(items[u], pos, height, pad)
      /\ pos \in Sizes /\ height \in Sizes /\ pad \in Nat
  BY DEF Types, TypeOK, Layout, Sizes
<1>2. \A x \in ToSet(items[u]) : x \in Items /\ x \notin ToSet(list)
  BY Members
<1>3. \A x \in ToSet(items[u]) : pos'[x] = pos[x] /\ height'[x] = height[x]
  BY <1>1, <1>2 DEF Sizes
<1>. QED  BY <1>1, <1>3, StackStays

-----------------------------------------------------------------------------
(* Moves of the focus.                                                     *)

LEMMA ScrollToShows ==
  ASSUME NEW scroll \in Nat, NEW top \in Nat, NEW size \in Nat, NEW term \in Nat \ {0}
  PROVE  /\ ScrollTo(scroll, top, size, term) \in Nat
         /\ size < term => /\ ScrollTo(scroll, top, size, term) <= top
                           /\ top + size <= ScrollTo(scroll, top, size, term) + (term - 1)
BY DEF ScrollTo

LEMMA FocusMoves ==
  ASSUME Types, NEW t \in Tabs, NEW i \in Items, pos' \in Sizes, height' \in Sizes,
         term_height' = term_height, Focus(t, i)
  PROVE  /\ focused' = [focused EXCEPT ![t] = i]
         /\ focused' \in [Tabs -> Items \union {None}] /\ scroll_pos' \in [Tabs -> Nat]
         /\ FocusInView
<1>1. /\ focused \in [Tabs -> Items \union {None}] /\ scroll_pos \in [Tabs -> Nat]
      /\ term_height \in Nat \ {0}
  BY TabsAssumption DEF Types, TypeOK
<1>2. pos'[i] \in Nat /\ height'[i] \in Nat /\ scroll_pos[t] \in Nat
  BY <1>1 DEF Sizes
<1>. DEFINE new == ScrollTo(scroll_pos[t], pos'[i], height'[i], term_height)
<1>3. /\ new \in Nat
      /\ height'[i] < term_height => /\ new <= pos'[i]
                                     /\ pos'[i] + height'[i] <= new + (term_height - 1)
  BY <1>1, <1>2, ScrollToShows
<1>4. /\ focused' = [focused EXCEPT ![t] = i]
      /\ scroll_pos' = IF focused[t] = i THEN scroll_pos ELSE [scroll_pos EXCEPT ![t] = new]
  BY DEF Focus
<1>. HIDE DEF new
<1>5. FocusInView
  <2>1. ASSUME NEW u \in Tabs, focused'[u] # focused[u], height'[focused'[u]] < term_height'
        PROVE  InView(scroll_pos'[u], pos'[focused'[u]], height'[focused'[u]])
    <3>1. u = t /\ focused'[u] = i /\ scroll_pos'[u] = new
      BY <1>1, <1>4, <2>1
    <3>. QED  BY <1>3, <2>1, <3>1 DEF InView
  <2>. QED  BY <2>1 DEF FocusInView
<1>. QED  BY <1>1, <1>3, <1>4, <1>5

LEMMA FocusStays ==
  ASSUME focused' = focused  PROVE  FocusInView
BY DEF FocusInView

\* An item appears or changes its height: its list, with it, stands again.
LEMMA ResizeKeepsLayout ==
  ASSUME Types, Layout, NEW t \in Tabs, NEW list \in Seq(Items), IsInjective(list),
         NEW i \in Items, ToSet(list) = ToSet(items[t]) \union {i}, TabOf[i] = t,
         Stack(list, pos, height, pad), NEW new \in Nat \ {0}, Resize(list, i, new)
  PROVE  /\ pad' \in Nat /\ pad' >= pad /\ pos' \in Sizes /\ height' \in Sizes
         /\ Stack(list, pos', height', pad')
         /\ \A u \in Tabs \ {t} : Stack(items[u], pos', height', pad')
         /\ \A j \in Items \ ToSet(list) : pos'[j] = pos[j] /\ height'[j] = height[j]
<1>1. i \in ToSet(list) /\ new \in Nat /\ new # 0
  OBVIOUS
<1>2. /\ pad' \in Nat /\ pad' >= pad /\ pos' \in Sizes /\ height' \in Sizes
      /\ pos'[i] = pos[i]
      /\ \A j \in Items \ ToSet(list) : pos'[j] = pos[j] /\ height'[j] = height[j]
      /\ Stack(list, [pos' EXCEPT ![i] = pos[i]], height', pad')
  BY <1>1, ResizeMoves
<1>3. [pos' EXCEPT ![i] = pos[i]] = pos'
  BY <1>2 DEF Sizes
<1>4. ASSUME NEW u \in Tabs, u # t
      PROVE  ToSet(list) \intersect ToSet(items[u]) = {}
  BY <1>4, Apart, Members
<1>. QED  BY <1>2, <1>3, <1>4, OthersStay

-----------------------------------------------------------------------------
(* Events of the server.                                                   *)

LEMMA AppearInv ==
  ASSUME TabsInv, NEW i \in Items, NEW new \in Heights, Appear(i, new)
  PROVE  TabsInv' /\ FocusInView /\ FocusKept
<1>. USE DEF TabsInv
<1>. DEFINE t    == TabOf[i]
            list == <<i>> \o items[t]
<1>1. /\ t \in Tabs /\ new \in Nat \ {0} /\ ~Shown(i) /\ None \notin Items
      /\ items' = [items EXCEPT ![t] = list]
      /\ items \in [Tabs -> Seq(Items)] /\ items'[t] = list
      /\ mapped' = mapped \union {i}
      /\ UNCHANGED <<user, tab_index, term_height, menu, crashed>>
  BY TabsAssumption DEF Appear, Types
<1>2. i \notin ToSet(items[t])
  BY <1>1 DEF Shown
<1>3. list \in Seq(Items) /\ IsInjective(list) /\ ToSet(list) = ToSet(items[t]) \union {i}
  BY <1>1, <1>2, Members, PutFirst
<1>4. Stack(list, pos, height, pad)
  <2>1. pos \in Sizes /\ height \in Sizes /\ pad \in Nat /\ pos[i] = 0 /\ height[i] = 0
    BY <1>1 DEF Types, TypeOK, Sizes, Unplaced
  <2>2. Stack(items[t], pos, height, pad)
    BY <1>1 DEF Layout
  <2>. QED  BY <1>1, <1>2, <2>1, <2>2, Members, StackOnTop
<1>. HIDE DEF list
<1>5. Resize(list, i, new)
  BY <1>1 DEF Appear
<1>6. /\ pad' \in Nat /\ pad' >= pad /\ pos' \in Sizes /\ height' \in Sizes
      /\ Stack(list, pos', height', pad')
      /\ \A u \in Tabs \ {t} : Stack(items[u], pos', height', pad')
      /\ \A j \in Items \ ToSet(list) : pos'[j] = pos[j] /\ height'[j] = height[j]
  BY <1>1, <1>3, <1>4, <1>5, ResizeKeepsLayout
<1>. HIDE DEF t
<1>7. \A u \in Tabs : u # t => items'[u] = items[u]
  BY <1>1
<1>8. Layout'
  <2>1. pad' >= term_height'
    BY <1>1, <1>6, TabsAssumption DEF Layout, Types, TypeOK
  <2>. QED  BY <1>1, <1>6, <1>7, <2>1 DEF Layout
<1>9. Unplaced'
  <2>1. ASSUME NEW j \in Items, ~(j \in ToSet(items'[TabOf[j]]))
        PROVE  ~Shown(j) /\ j \notin ToSet(list)
    BY <1>1, <1>3, <1>7, <2>1, Members, TabsAssumption DEF t, Shown
  <2>. QED  BY <1>6, <2>1 DEF Unplaced, Shown
<1>10. /\ focused' \in [Tabs -> Items \union {None}] /\ scroll_pos' \in [Tabs -> Nat]
       /\ FocusInView
       /\ \A u \in Tabs : u # t => focused'[u] = focused[u]
       /\ focused'[t] \in {i, focused[t]}
       /\ user[t] /\ focused[t] # None => focused'[t] = focused[t]
       /\ focused[t] = None => focused'[t] = i
  <2>0. focused \in [Tabs -> Items \union {None}] /\ scroll_pos \in [Tabs -> Nat]
    BY DEF Types, TypeOK
  <2>1. CASE focused[t] = None \/ ~user[t]
    <3>1. Focus(t, i)
      BY <2>1 DEF Appear, t
    <3>2. /\ focused' = [focused EXCEPT ![t] = i] /\ scroll_pos' \in [Tabs -> Nat]
          /\ FocusInView
      BY <1>1, <1>6, <3>1, FocusMoves
    <3>. QED  BY <1>1, <2>0, <2>1, <3>2
  <2>2. CASE ~(focused[t] = None \/ ~user[t])
    <3>1. focused' = focused /\ scroll_pos' = scroll_pos
      BY <2>2 DEF Appear, t
    <3>. QED  BY <2>0, <2>2, <3>1, FocusStays
  <2>. QED  BY <2>1, <2>2
<1>11. Types'
  <2>1. items' \in [Tabs -> Seq(Items)]
    BY <1>1, <1>3
  <2>2. ASSUME NEW u \in Tabs
        PROVE  IsInjective(items'[u]) /\ \A j \in ToSet(items'[u]) : TabOf[j] = u
    BY <1>1, <1>3, <1>7, Members DEF t
  <2>3. /\ pos' \in [Items -> Nat] /\ height' \in [Items -> Nat] /\ pad' \in Nat
        /\ mapped' \subseteq Items
    BY <1>1, <1>6 DEF Sizes, Types, TypeOK
  <2>. QED  BY <1>1, <1>10, <2>1, <2>2, <2>3 DEF Types, TypeOK
<1>12. FocusOnShown'
  <2>1. ASSUME NEW u \in Tabs
        PROVE  IF items'[u] = <<>> THEN focused'[u] = None
                                   ELSE focused'[u] \in ToSet(items'[u])
    <3>1. CASE u # t
      BY <1>7, <1>10, <3>1 DEF FocusOnShown
    <3>2. CASE u = t
      <4>1. focused'[t] \in ToSet(list)
        <5>1. CASE focused[t] = None
          BY <1>3, <1>10, <5>1
        <5>2. CASE focused[t] # None
          BY <1>1, <1>3, <1>10, <5>2 DEF FocusOnShown
        <5>. QED  BY <5>1, <5>2
      <4>2. list # <<>>
        BY <1>3, <4>1 DEF ToSet
      <4>. QED  BY <1>1, <3>2, <4>1, <4>2
    <3>. QED  BY <3>1, <3>2
  <2>. QED  BY <2>1 DEF FocusOnShown
<1>13. FocusKept
  <2>1. ASSUME NEW u \in Tabs, user[u], focused[u] # focused'[u]
        PROVE  u = t /\ focused[u] = None
    BY <1>10, <2>1
  <2>2. None \notin ToSet(items'[t])
    BY <1>1, <1>3, Members
  <2>. QED  BY <2>1, <2>2 DEF FocusKept
<1>. QED  BY <1>8, <1>9, <1>10, <1>11, <1>12, <1>13

LEMMA ChangeHeightInv ==
  ASSUME TabsInv, NEW i \in Items, NEW new \in Heights, ChangeHeight(i, new)
  PROVE  TabsInv' /\ FocusInView /\ FocusKept
<1>. USE DEF TabsInv
<1>. DEFINE t    == TabOf[i]
            list == items[t]
<1>1. /\ t \in Tabs /\ new \in Nat \ {0} /\ Shown(i) /\ Resize(list, i, new)
      /\ UNCHANGED <<items, focused, scroll_pos, user, tab_index, term_height, menu,
                     mapped, crashed>>
  BY TabsAssumption DEF ChangeHeight, focus
<1>2. /\ list \in Seq(Items) /\ IsInjective(list) /\ ToSet(list) = ToSet(items[t]) \union {i}
      /\ Stack(list, pos, height, pad)
  BY <1>1, Members DEF Layout, Shown
<1>3. /\ pad' \in Nat /\ pad' >= pad /\ pos' \in Sizes /\ height' \in Sizes
      /\ Stack(list, pos', height', pad')
      /\ \A u \in Tabs \ {t} : Stack(items[u], pos', height', pad')
      /\ \A j \in Items \ ToSet(list) : pos'[j] = pos[j] /\ height'[j] = height[j]
  BY <1>1, <1>2, ResizeKeepsLayout
<1>. HIDE DEF t
<1>4. Layout'
  <2>1. pad' >= term_height'
    BY <1>1, <1>3, TabsAssumption DEF Layout, Types, TypeOK
  <2>. QED  BY <1>1, <1>3, <2>1 DEF Layout
<1>5. Unplaced'
  <2>1. \A j \in Items : ~Shown(j) => j \notin ToSet(list)
    BY <1>1, Members
  <2>. QED  BY <1>1, <1>3, <2>1 DEF Unplaced, Shown
<1>6. Types'
  BY <1>1, <1>3 DEF Types, TypeOK, Sizes, Menus
<1>7. FocusOnShown' /\ FocusKept /\ FocusInView
  BY <1>1, FocusStays DEF FocusOnShown, FocusKept
<1>. QED  BY <1>4, <1>5, <1>6, <1>7

\* The focus is left to another item of the list, if there is one.
LEMMA HeirInRest ==
  ASSUME NEW list \in Seq(Items), IsInjective(list), NEW k \in DOMAIN list
  PROVE  IF Len(list) = 1 THEN Heir(list, list[k]) = None
                          ELSE Heir(list, list[k]) \in ToSet(list) \ {list[k]}
<1>1. /\ DOMAIN list = 1..Len(list) /\ Len(list) \in Nat /\ PlaceOf(list, list[k]) = k
      /\ k \in 1..Len(list)
  BY LenProperties, PlaceIsUnique
<1>2. CASE k < Len(list)
  <2>1. k + 1 \in DOMAIN list /\ k + 1 # k /\ Len(list) # 1
    BY <1>1, <1>2
  <2>2. list[k + 1] \in ToSet(list) \ {list[k]}
    BY <2>1 DEF ToSet, IsInjective
  <2>. QED  BY <1>1, <1>2, <2>1, <2>2 DEF Heir
<1>3. CASE k = Len(list) /\ k > 1
  <2>0. PICK n \in Nat : n = Len(list) /\ n = k
    BY <1>1, <1>3
  <2>1. k - 1 \in 1..Len(list) /\ k - 1 # k /\ Len(list) # 1 /\ ~(k < Len(list))
    BY <1>3, <2>0
  <2>2. list[k - 1] \in ToSet(list) \ {list[k]}
    BY <1>1, <2>1 DEF ToSet, IsInjective
  <2>. QED  BY <1>1, <1>3, <2>1, <2>2 DEF Heir
<1>4. CASE k = 1 /\ Len(list) = 1
  <2>1. ~(k < Len(list)) /\ ~(k > 1)
    BY <1>4
  <2>. QED  BY <1>1, <1>4, <2>1 DEF Heir
<1>. QED  BY <1>1, <1>2, <1>3, <1>4

LEMMA DisappearInv ==
  ASSUME TabsInv, NEW i \in Items, Disappear(i)
  PROVE  TabsInv' /\ FocusInView /\ FocusKept
<1>. USE DEF TabsInv
<1>. DEFINE t    == TabOf[i]
            list == items[t]
            k    == PlaceOf(list, i)
            rest == RemoveAt(list, k)
            p2   == [pos' EXCEPT ![i] = pos[i]]
<1>1. /\ t \in Tabs /\ Shown(i) /\ None \notin Items /\ i \in ToSet(list)
      /\ Resize(list, i, 0) /\ Unfocus(t, i)
      /\ items' = [items EXCEPT ![t] = rest]
      /\ items \in [Tabs -> Seq(Items)]
      /\ UNCHANGED <<user, tab_index, term_height, menu, mapped, crashed>>
  BY TabsAssumption DEF Disappear, Types, Shown
<1>2. /\ list \in Seq(Items) /\ IsInjective(list)
      /\ Stack(list, pos, height, pad) /\ k \in DOMAIN list /\ list[k] = i
  BY <1>1, Members, PlaceInList DEF Layout
<1>3. /\ pad' \in Nat /\ pad' >= pad
      /\ pos' \in Sizes /\ height' \in Sizes /\ height' = [height EXCEPT ![i] = 0]
      /\ pos'[i] = 0
      /\ \A j \in Items \ ToSet(list) : pos'[j] = pos[j] /\ height'[j] = height[j]
      /\ Stack(list, p2, height', pad')
  <2>1. PICK new \in Nat : new = 0
    OBVIOUS
  <2>2. Resize(list, i, new)
    BY <1>1, <2>1
  <2>3. /\ pad' \in Nat /\ pad' >= pad /\ pos' \in Sizes /\ height' \in Sizes
        /\ height' = [height EXCEPT ![i] = new]
        /\ pos'[i] = IF new = 0 THEN 0 ELSE pos[i]
        /\ \A j \in Items \ ToSet(list) : pos'[j] = pos[j] /\ height'[j] = height[j]
        /\ Stack(list, p2, height', pad')
    <3>1. i \in ToSet(list) /\ list \in Seq(Items) /\ IsInjective(list)
          /\ Stack(list, pos, height, pad)
      BY <1>1, <1>2
    <3>. HIDE DEF list, t
    <3>. QED  BY <2>2, <3>1, ResizeMoves, ZenonT(30)
  <2>. QED  BY <2>1, <2>3
<1>4. /\ rest \in Seq(Items) /\ IsInjective(rest) /\ Len(rest) = Len(list) - 1
      /\ ToSet(rest) = ToSet(list) \ {i} /\ Len(list) \in Nat
  BY <1>2, TakeOut, LenProperties
<1>5. height'[i] = 0 /\ p2 \in Sizes /\ \A x \in Items \ {i} : p2[x] = pos'[x]
  BY <1>3 DEF Types, TypeOK, Sizes
<1>. HIDE DEF p2, k, rest
<1>6. Stack(rest, pos', height', pad')
  <2>1. \A j \in DOMAIN list : p2[list[j]] \in Nat /\ height'[list[j]] \in Nat
    <3>1. \A j \in DOMAIN list : list[j] \in Items
      BY <1>2, LenProperties, ElementOfSeq
    <3>. QED  BY <1>3, <1>5, <3>1 DEF Sizes
  <2>2. Stack(rest, p2, height', pad')
    BY <1>2, <1>3, <1>5, <2>1, StackCloses DEF rest
  <2>3. \A x \in ToSet(rest) : pos'[x] = p2[x]
    BY <1>1, <1>4, <1>5, Members
  <2>4. \A x \in ToSet(rest) : pos'[x] = p2[x] /\ height'[x] = height'[x]
    BY <2>3
  <2>. QED  BY <1>3, <1>4, <1>5, <2>2, <2>4, StackStays
<1>. HIDE DEF t
<1>7. items'[t] = rest /\ \A u \in Tabs : u # t => items'[u] = items[u]
  BY <1>1
<1>8. Layout'
  <2>1. pad' >= term_height'
    BY <1>1, <1>3, TabsAssumption DEF Layout, Types, TypeOK
  <2>2. ASSUME NEW u \in Tabs, u # t
        PROVE  Stack(items[u], pos', height', pad')
    BY <1>1, <1>3, <2>2, Apart, OthersStay
  <2>. QED  BY <1>6, <1>7, <2>1, <2>2 DEF Layout
<1>9. Unplaced'
  <2>1. ASSUME NEW j \in Items, ~(j \in ToSet(items'[TabOf[j]])), j # i
        PROVE  ~Shown(j) /\ j \notin ToSet(list)
    BY <1>1, <1>4, <1>7, <2>1, Members, TabsAssumption DEF t, Shown
  <2>. QED  BY <1>3, <1>5, <2>1 DEF Unplaced, Shown
<1>10. IF Len(list) = 1 THEN Heir(list, i) = None
                        ELSE Heir(list, i) \in ToSet(rest)
  BY <1>2, <1>4, HeirInRest
<1>11. ToSet(rest) \subseteq Items
  BY <1>1, <1>4, Members
<1>12. /\ focused' \in [Tabs -> Items \union {None}] /\ scroll_pos' \in [Tabs -> Nat]
       /\ FocusInView
       /\ \A u \in Tabs : u # t => focused'[u] = focused[u]
       /\ focused[t] # i => focused'[t] = focused[t]
       /\ focused[t] = i => focused'[t] = Heir(list, i)
  <2>0. focused \in [Tabs -> Items \union {None}] /\ scroll_pos \in [Tabs -> Nat]
    BY DEF Types, TypeOK
  <2>1. CASE focused[t] # i
    <3>1. focused' = focused /\ scroll_pos' = scroll_pos
      BY <1>1, <2>1 DEF Unfocus
    <3>. QED  BY <2>0, <2>1, <3>1, FocusStays
  <2>2. CASE focused[t] = i /\ Heir(list, i) = None
    <3>1. focused' = [focused EXCEPT ![t] = None] /\ scroll_pos' = scroll_pos
      BY <1>1, <2>2 DEF Unfocus
    <3>2. FocusInView
      BY <1>1, <2>0, <3>1 DEF FocusInView
    <3>. QED  BY <1>1, <2>0, <2>2, <3>1, <3>2
  <2>3. CASE focused[t] = i /\ Heir(list, i) # None
    <3>1. Focus(t, Heir(list, i)) /\ Heir(list, i) \in Items
      BY <1>1, <1>10, <1>11, <2>3 DEF Unfocus
    <3>2. /\ focused' = [focused EXCEPT ![t] = Heir(list, i)] /\ FocusInView
          /\ focused' \in [Tabs -> Items \union {None}] /\ scroll_pos' \in [Tabs -> Nat]
      BY <1>1, <1>3, <3>1, FocusMoves
    <3>. QED  BY <1>1, <2>0, <2>3, <3>2
  <2>. QED  BY <2>1, <2>2, <2>3
<1>13. Types'
  <2>1. items' \in [Tabs -> Seq(Items)]
    BY <1>1, <1>4
  <2>2. ASSUME NEW u \in Tabs
        PROVE  IsInjective(items'[u]) /\ \A j \in ToSet(items'[u]) : TabOf[j] = u
    BY <1>1, <1>4, <1>7, Members
  <2>3. pos' \in [Items -> Nat] /\ height' \in [Items -> Nat] /\ pad' \in Nat
    BY <1>3 DEF Sizes
  <2>. QED  BY <1>1, <1>12, <2>1, <2>2, <2>3 DEF Types, TypeOK
<1>14. FocusOnShown'
  <2>1. focused[t] \in ToSet(list)
    <3>1. list # <<>>
      BY <1>1 DEF ToSet
    <3>. QED  BY <1>1, <3>1 DEF FocusOnShown
  <2>2. CASE Len(list) = 1
    <3>1. rest = <<>>
      BY <1>4, <2>2, EmptySeq
    <3>2. ToSet(list) = {i}
      BY <1>1, <1>2, <2>2, LenProperties DEF ToSet
    <3>. QED  BY <1>7, <1>10, <1>12, <2>1, <2>2, <3>1, <3>2 DEF FocusOnShown
  <2>3. CASE Len(list) # 1
    <3>1. rest # <<>>
      BY <1>10, <2>3 DEF ToSet
    <3>2. focused'[t] \in ToSet(rest)
      BY <1>4, <1>10, <1>12, <2>1, <2>3
    <3>. QED  BY <1>7, <1>12, <3>1, <3>2 DEF FocusOnShown
  <2>. QED  BY <2>2, <2>3
<1>15. FocusKept
  <2>1. ASSUME NEW u \in Tabs, focused[u] # focused'[u]
        PROVE  focused[u] \notin ToSet(items'[u])
    BY <1>4, <1>7, <1>12, <2>1
  <2>. QED  BY <2>1 DEF FocusKept
<1>. QED  BY <1>8, <1>9, <1>12, <1>13, <1>14, <1>15

LEMMA TermResizeInv ==
  ASSUME TabsInv, NEW new \in TermHeights, TermResize(new)
  PROVE  TabsInv' /\ FocusInView /\ FocusKept
<1>. USE DEF TabsInv
<1>1. /\ term_height' = new /\ pad' = AtLeast(new, pad) /\ new \in Nat \ {0}
      /\ UNCHANGED <<items, pos, height, focused, user, tab_index, menu, mapped, crashed>>
  BY TabsAssumption DEF TermResize
<1>2. /\ pos \in Sizes /\ height \in Sizes /\ pad \in Nat /\ tab_index \in Tabs
      /\ focused[tab_index] \in Items \union {None} /\ scroll_pos \in [Tabs -> Nat]
  BY DEF Types, TypeOK, Sizes
<1>3. pad' \in Nat /\ pad' >= pad /\ pad' >= new
  BY <1>1, <1>2 DEF AtLeast
<1>4. scroll_pos' \in [Tabs -> Nat]
  <2>. DEFINE f == focused[tab_index]
              s == ScrollTo(scroll_pos[tab_index], pos[f], height[f], new)
  <2>1. CASE f = None
    BY <1>2, <2>1 DEF TermResize
  <2>2. CASE f # None
    <3>1. s \in Nat
      BY <1>1, <1>2, <2>2, ScrollToShows DEF Sizes
    <3>. HIDE DEF s
    <3>2. scroll_pos' = [scroll_pos EXCEPT ![tab_index] = s]
      BY <1>2, <2>2 DEF TermResize, s
    <3>. QED  BY <1>2, <3>1, <3>2
  <2>. QED  BY <2>1, <2>2
<1>5. Layout'
  <2>1. ASSUME NEW t \in Tabs
        PROVE  Stack(items'[t], pos', height', pad')
    <3>1. /\ items[t] \in Seq(Items) /\ Stack(items[t], pos, height, pad)
          /\ \A x \in ToSet(items[t]) : pos'[x] = pos[x] /\ height'[x] = height[x]
      BY <1>1, Members DEF Layout
    <3>. QED  BY <1>1, <1>2, <1>3, <3>1, StackStays
  <2>. QED  BY <1>1, <1>3, <2>1 DEF Layout
<1>6. Types'
  BY <1>1, <1>3, <1>4 DEF Types, TypeOK, Menus
<1>7. FocusOnShown' /\ Unplaced' /\ FocusKept /\ FocusInView
  BY <1>1, FocusStays DEF FocusOnShown, Unplaced, FocusKept, Shown
<1>. QED  BY <1>5, <1>6, <1>7

-----------------------------------------------------------------------------
(* Keys.                                                                   *)

LEMMA UserFocusInv ==
  ASSUME TabsInv, NEW i \in ToSet(items[tab_index]), UserFocus(i)
  PROVE  TabsInv' /\ FocusInView /\ FocusKept
<1>. USE DEF TabsInv
<1>1. /\ UNCHANGED <<items, pos, height, pad, tab_index, term_height, menu, mapped, crashed>>
      /\ user' = [user EXCEPT ![tab_index] = TRUE] /\ Focus(tab_index, i)
      /\ tab_index \in Tabs
  BY DEF UserFocus, layout, Types, TypeOK
<1>2. i \in Items /\ pos' \in Sizes /\ height' \in Sizes
  BY <1>1, Members DEF Types, TypeOK, Sizes
<1>3. /\ focused' = [focused EXCEPT ![tab_index] = i] /\ FocusInView
      /\ focused' \in [Tabs -> Items \union {None}] /\ scroll_pos' \in [Tabs -> Nat]
  BY <1>1, <1>2, FocusMoves
<1>4. Types'
  BY <1>1, <1>3 DEF Types, TypeOK, Menus
<1>5. Layout' /\ Unplaced' /\ FocusKept
  BY <1>1 DEF Layout, Unplaced, FocusKept, Shown
<1>6. FocusOnShown'
  <2>1. items[tab_index] # <<>>
    BY DEF ToSet
  <2>2. \A t \in Tabs : focused'[t] = IF t = tab_index THEN i ELSE focused[t]
    BY <1>3 DEF Types, TypeOK
  <2>. QED  BY <1>1, <2>1, <2>2 DEF FocusOnShown
<1>. QED  BY <1>3, <1>4, <1>5, <1>6

LEMMA ChangeFocusInv ==
  ASSUME TabsInv, NEW direction \in {-1, 1}, ChangeFocus(direction)
  PROVE  TabsInv' /\ FocusInView /\ FocusKept
<1>. DEFINE list == items[tab_index]
            at   == PlaceOf(list, focused[tab_index])
            to   == StepFrom(at, direction, Len(list))
<1>1. tab_index \in Tabs /\ list \in Seq(Items) /\ focused[tab_index] \in ToSet(list)
  BY Members DEF TabsInv, Types, TypeOK, FocusOnShown, ChangeFocus
<1>2. at \in DOMAIN list /\ DOMAIN list = 1..Len(list) /\ Len(list) \in Nat
  BY <1>1, PlaceInList, LenProperties
<1>3. UserFocus(list[to])
  BY DEF ChangeFocus
<1>. HIDE DEF at
<1>4. to \in 1..Len(list)
  BY <1>2 DEF StepFrom
<1>. HIDE DEF to
<1>5. list[to] \in ToSet(list)
  BY <1>2, <1>4 DEF ToSet
<1>. QED  BY <1>3, <1>5, UserFocusInv

LEMMA FocusEndInv ==
  ASSUME TabsInv, FocusEnd
  PROVE  TabsInv' /\ FocusInView /\ FocusKept
<1>. DEFINE list == items[tab_index]
<1>1. list \in Seq(Items) /\ list # <<>>
  BY Members DEF TabsInv, Types, TypeOK, FocusEnd
<1>2. DOMAIN list = 1..Len(list) /\ Len(list) \in Nat /\ Len(list) # 0
  BY <1>1, LenProperties, EmptySeq
<1>3. Head(list) = list[1] /\ Last(list) = list[Len(list)]
  BY <1>1, <1>2 DEF Last
<1>4. Head(list) \in ToSet(list) /\ Last(list) \in ToSet(list)
  BY <1>2, <1>3 DEF ToSet
<1>. QED  BY <1>4, UserFocusInv DEF FocusEnd

\* The menu, the current tab and the registry do not touch the lists.
LEMMA QuietInv ==
  ASSUME TabsInv, UNCHANGED <<layout, focus, term_height>>,
         tab_index' \in Tabs, mapped' \subseteq Items, crashed' \in BOOLEAN,
         menu' # None => menu' \in Menus /\ menu'.selected < menu'.n_items
  PROVE  TabsInv' /\ FocusInView /\ FocusKept
<1>1. UNCHANGED <<items, pos, height, pad, focused, scroll_pos, user, term_height>>
  BY DEF layout, focus
<1>2. Types'
  BY <1>1 DEF TabsInv, Types, TypeOK, Menus
<1>. QED  BY <1>1, <1>2, FocusStays
          DEF TabsInv, Layout, Unplaced, FocusOnShown, FocusKept, Shown

-----------------------------------------------------------------------------
(* The theorems.                                                           *)

LEMMA InitInv ==
  ASSUME Init  PROVE  TabsInv
<1>. USE TabsAssumption
<1>1. \A t \in Tabs : items[t] = <<>> /\ items[t] \in Seq(Items) /\ DOMAIN items[t] = {}
  BY EmptySeq, LenProperties DEF Init
<1>2. Types
  <2>1. items \in [Tabs -> Seq(Items)]
    BY <1>1 DEF Init
  <2>2. \A t \in Tabs : IsInjective(items[t]) /\ ToSet(items[t]) = {}
    BY <1>1 DEF IsInjective, ToSet
  <2>3. term_height \in Nat /\ pad = term_height
    BY DEF Init
  <2>. QED  BY <2>1, <2>2, <2>3 DEF Types, TypeOK, Init
<1>3. Layout
  <2>1. \A t \in Tabs : Stack(items[t], pos, height, pad)
    BY <1>1 DEF Stack
  <2>. QED  BY <2>1 DEF Layout, Init
<1>4. Unplaced
  BY DEF Unplaced, Init
<1>5. FocusOnShown
  BY <1>1 DEF FocusOnShown, Init
<1>. QED  BY <1>2, <1>3, <1>4, <1>5 DEF TabsInv

LEMMA NextInv ==
  ASSUME TabsInv, Next
  PROVE  TabsInv' /\ FocusInView /\ FocusKept
<1>1. /\ tab_index \in Tabs /\ mapped \subseteq Items /\ crashed \in BOOLEAN
      /\ menu # None => menu \in Menus /\ menu.selected < menu.n_items
      /\ focused \in [Tabs -> Items \union {None}] /\ MaxChoices \in Nat
  BY TabsAssumption DEF TabsInv, Types, TypeOK
<1>2. ASSUME NEW i \in Items, Unmap(i)
      PROVE  TabsInv' /\ FocusInView /\ FocusKept
  BY <1>1, <1>2, QuietInv DEF Unmap
<1>3. ASSUME NEW direction \in {-1, 1}, ChangeSelection(direction)
      PROVE  TabsInv' /\ FocusInView /\ FocusKept
  <2>1. PICK n \in 2..MaxChoices, at \in Nat :
          n = menu.n_items /\ at = menu.selected /\ at < n /\ menu \in Menus
    BY <1>1, <1>3 DEF ChangeSelection, Menus
  <2>2. PICK to \in 1..n : to = StepFrom(at + 1, direction, n)
    BY <1>1, <2>1 DEF StepFrom
  <2>3. to - 1 \in Nat /\ to - 1 < n
    BY <1>1, <2>2
  <2>4. menu' = [menu EXCEPT !.selected = to - 1]
    BY <2>1, <2>2, <1>3 DEF ChangeSelection
  <2>5. menu' \in Menus /\ menu'.selected < menu'.n_items
    BY <2>1, <2>3, <2>4 DEF Menus
  <2>. QED  BY <1>1, <1>3, <2>5, QuietInv DEF ChangeSelection
<1>4. ASSUME NEW t \in Tabs, SetTab(t)
      PROVE  TabsInv' /\ FocusInView /\ FocusKept
  BY <1>1, <1>4, QuietInv DEF SetTab
<1>5. ASSUME OpenMenu
      PROVE  TabsInv' /\ FocusInView /\ FocusKept
  <2>1. PICK n \in 2..MaxChoices : \E selected \in 0..n - 1 :
          menu' = [of |-> focused[tab_index], selected |-> selected, n_items |-> n]
    BY <1>5 DEF OpenMenu
  <2>. PICK selected \in 0..n - 1 :
         menu' = [of |-> focused[tab_index], selected |-> selected, n_items |-> n]
    BY <2>1
  <2>2. focused[tab_index] \in Items /\ n \in Nat /\ selected \in Nat /\ selected < n
    BY <1>1, <1>5 DEF OpenMenu
  <2>3. menu' \in Menus /\ menu'.selected < menu'.n_items
    BY <2>1, <2>2 DEF Menus
  <2>. QED  BY <1>1, <1>5, <2>3, QuietInv DEF OpenMenu
<1>6. ASSUME CancelSelection
      PROVE  TabsInv' /\ FocusInView /\ FocusKept
  BY <1>1, <1>6, QuietInv DEF CancelSelection
<1>7. ASSUME ConfirmSelection
      PROVE  TabsInv' /\ FocusInView /\ FocusKept
  BY <1>1, <1>7, QuietInv DEF ConfirmSelection
<1>. QED
  BY <1>2, <1>3, <1>4, <1>5, <1>6, <1>7, AppearInv, ChangeHeightInv, DisappearInv,
     TermResizeInv, ChangeFocusInv, FocusEndInv DEF Next, Events, Keys

LEMMA StutterInv ==
  ASSUME TabsInv, UNCHANGED vars  PROVE  TabsInv'
BY QuietInv DEF vars, layout, focus, TabsInv, Types, TypeOK

\* The invariant behind the theorems: the items of every tab stack, also those of
\* the tabs that are not current, items that are not shown take no place, and the
\* focus is on an item of its tab (tui.c:956-983, 463-507).
THEOREM InvHolds == Spec => []TabsInv
<1>1. Init => TabsInv
  BY InitInv
<1>2. TabsInv /\ [Next]_vars => TabsInv'
  BY NextInv, StutterInv
<1>. QED  BY <1>1, <1>2, PTL DEF Spec

\* Positions, heights and scroll positions do not drop below zero, and the
\* selection stays in the menu (tui.c:449-461, menu.c).
THEOREM TypesCorrect == Spec => []TypeOK
<1>1. TabsInv => TypeOK
  BY TabsInvImplies
<1>. QED  BY <1>1, InvHolds, PTL

\* For any items, tabs and heights: the items of a tab stand one below the other
\* without gap or overlap, and the pad holds them (tui.c:956-983, 1336).
THEOREM LayoutAlwaysFits == Spec => []LayoutFits
<1>1. TabsInv => LayoutFits
  BY TabsInvImplies
<1>. QED  BY <1>1, InvHolds, PTL

\* The focused item of a tab is one of its own as long as it has any
\* (tui.c:463-507).
THEOREM FocusStaysOnShown == Spec => []FocusOnShown
<1>1. TabsInv => FocusOnShown
  BY TabsInvImplies
<1>. QED  BY <1>1, InvHolds, PTL

\* Wherever the focus goes, and for whatever reason, the item can be seen if the
\* terminal is high enough (tui.c:449-461).
THEOREM FocusComesIntoView == Spec => FocusMovesIntoView
<1>1. TabsInv /\ [Next]_vars =>
        [\A t \in Tabs : LET f == focused'[t] IN
           f \notin {focused[t], None} /\ height'[f] < term_height' =>
             InView(scroll_pos'[t], pos'[f], height'[f])]_vars
  BY NextInv DEF FocusInView
<1>. QED  BY <1>1, InvHolds, PTL DEF Spec, FocusMovesIntoView

\* New items do not take the focus from where the user has put it, and others go
\* without moving it (tui.c:1257, 1289).
THEOREM UsersFocusIsKept == Spec => UserFocusKept
<1>1. TabsInv /\ [Next]_vars =>
        [\A t \in Tabs :
           user[t] /\ focused[t] # focused'[t] /\ items[t] # items'[t]
             => focused[t] \notin ToSet(items'[t])]_vars
  BY NextInv DEF FocusKept
<1>. QED  BY <1>1, InvHolds, PTL DEF Spec, UserFocusKept
=============================================================================
