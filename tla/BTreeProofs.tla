---------------------------- MODULE BTreeProofs -----------------------------
(***************************************************************************)
(* Proofs about the B+ tree over keys of one integer column.               *)
(***************************************************************************)
EXTENDS BTree, SequenceTheorems, FiniteSetTheorems, WellFoundedInduction, TLAPS

(***************************************************************************)
(* Keys are integers of one column, there is a least one, and a node with  *)
(* one slot is not almost full.                                            *)
(***************************************************************************)
OneInteger ==
    /\ \E ty \in Integer : KeyTypes = <<ty>>
    /\ Keys \subseteq {<<i>> : i \in Int}
    /\ \E least \in Int : \A k \in Keys : least <= k[1]
    /\ SumSizes(KeyTypes) < PAGE_SIZE \div 2

K(slot) == slot.key[1]

SlotSet == [key : Bounds, val : Values \cup PageIds]

SlotsOf(node) == Range(node.values)

Sorted(node) == \A i, j \in 1..Len(node.values) :
                   i < j => K(node.values[i]) < K(node.values[j])

-----------------------------------------------------------------------------
LEMMA LeastElement ==
  ASSUME NEW S \in SUBSET Nat, S # {}
  PROVE  \E m \in S : \A n \in S : m <= n
  <1> DEFINE Upto(n) == 0..n
             T == {Upto(n) : n \in S}
             R == StrictSubsetOrdering(Nat)
  <1>1. IsWellFoundedOn(R, FiniteSubsetsOf(Nat))
    BY FS_StrictSubsetOrderingWellFounded
  <1>2. T \subseteq FiniteSubsetsOf(Nat)
    <2>1. ASSUME NEW n \in S PROVE Upto(n) \in SUBSET Nat /\ IsFiniteSet(Upto(n))
      <3>1. 0 \in Int /\ n \in Int /\ 0..n \in SUBSET Nat
        OBVIOUS
      <3> QED
        BY <3>1, FS_Interval
    <2> HIDE DEF Upto
    <2> QED
      BY <2>1 DEF FiniteSubsetsOf
  <1>3. \E x \in T : \A y \in T : ~(<<y, x>> \in R)
    <2>1. T # {}
      OBVIOUS
    <2> HIDE DEF T, R
    <2> QED
      BY <1>1, <1>2, <2>1, WFMin
  <1>4. PICK m \in S : \A n \in S : ~(<<Upto(n), Upto(m)>> \in R)
    BY <1>3
  <1>5. ASSUME NEW n \in S, n < m PROVE FALSE
    <2>1. Upto(n) \in SUBSET Nat /\ Upto(m) \in SUBSET Nat
      OBVIOUS
    <2>2. Upto(n) \subseteq Upto(m) /\ m \in Upto(m) /\ m \notin Upto(n)
      BY <1>5
    <2>3. <<Upto(n), Upto(m)>> \in R
      <3> HIDE DEF Upto
      <3> QED
        BY <2>1, <2>2 DEF StrictSubsetOrdering
    <2> QED
      BY <2>3, <1>4
  <1> QED
    BY <1>5

LEMMA MinIsLeast ==
  ASSUME NEW S \in SUBSET Nat, S # {}
  PROVE  Min(S) \in S /\ \A n \in S : Min(S) <= n
  BY LeastElement DEF Min

-----------------------------------------------------------------------------
\* A key and a bound are sequences of one integer, compared as integers.
LEMMA BoundsAreIntegers ==
  ASSUME OneInteger, NEW k \in Bounds
  PROVE  k[1] \in Int /\ k = <<k[1]>>
  <1>1. PICK ty \in Integer : KeyTypes = <<ty>>
    BY DEF OneInteger
  <1>2. CASE k \in Keys
    BY <1>2 DEF OneInteger
  <1>3. ASSUME NEW l \in Keys, k = KeyNext(KeyTypes, l) PROVE k[1] \in Int /\ k = <<k[1]>>
    <2>1. PICK i \in Int : l = <<i>>
      BY DEF OneInteger
    <2>2. NextValue(ty, i) = i + 1
      BY DEF NextValue, Integer
    <2>3. k = <<i + 1>>
      BY <1>1, <1>3, <2>1, <2>2 DEF KeyNext
    <2> QED
      BY <2>3
  <1> QED
    BY <1>2, <1>3 DEF Bounds

LEMMA LessIsLess ==
  ASSUME OneInteger, NEW k \in Bounds, NEW l \in Bounds
  PROVE  KeyLess(KeyTypes, k, l) <=> k[1] < l[1]
  <1>1. PICK ty \in Integer : KeyTypes = <<ty>>
    BY DEF OneInteger
  <1>2. DOMAIN KeyTypes = {1} /\ KeyTypes[1] = ty
    BY <1>1
  <1>3. ValueLess(ty, k[1], l[1]) <=> k[1] < l[1]
    BY DEF ValueLess, Integer
  <1> QED
    BY <1>2, <1>3 DEF KeyLess

LEMMA NextOfKey ==
  ASSUME OneInteger, NEW k \in Keys
  PROVE  /\ k \in Bounds /\ KeyNext(KeyTypes, k) \in Bounds
         /\ KeyNext(KeyTypes, k) = <<k[1] + 1>>
  <1>1. PICK ty \in Integer : KeyTypes = <<ty>>
    BY DEF OneInteger
  <1>2. PICK i \in Int : k = <<i>>
    BY DEF OneInteger
  <1>3. NextValue(ty, i) = i + 1
    BY DEF NextValue, Integer
  <1> QED
    BY <1>1, <1>2, <1>3 DEF KeyNext, Bounds

LEMMA SlotKeys ==
  ASSUME OneInteger, NEW s \in SlotSet
  PROVE  K(s) \in Int /\ s.key = <<K(s)>> /\ s.key \in Bounds /\ s = Slot(s.key, s.val)
  BY BoundsAreIntegers DEF SlotSet, K, Slot

-----------------------------------------------------------------------------
(***************************************************************************)
(* Operations of a node.                                                   *)
(***************************************************************************)
LEMMA NodeFacts ==
  ASSUME OneInteger, NEW node \in Node
  PROVE  /\ node.tys = KeyTypes /\ node.next \in PageIds \cup {None}
         /\ node.t \in {"Leaf", "Internal"}
         /\ node.values \in Seq(SlotSet) /\ Len(node.values) \in Nat
         /\ \A i \in 1..Len(node.values) : node.values[i] \in SlotSet
         /\ SlotsOf(node) = {node.values[i] : i \in 1..Len(node.values)}
         /\ SlotsOf(node) \subseteq SlotSet
  <1>1. node.values \in Seq(SlotSet)
    BY DEF Node, SlotSet
  <1> QED
    BY <1>1, LenProperties, ElementOfSeq, RangeEquality, RangeOfSeq DEF Node, SlotsOf

LEMMA SortedKeysDiffer ==
  ASSUME OneInteger, NEW node \in Node, Sorted(node),
         NEW s \in SlotsOf(node), NEW t \in SlotsOf(node), K(s) = K(t)
  PROVE  s = t
  <1>1. PICK i, j \in 1..Len(node.values) : s = node.values[i] /\ t = node.values[j]
    BY NodeFacts
  <1>2. ~(i < j) /\ ~(j < i)
    <2>1. K(s) \in Int /\ K(t) \in Int
      BY SlotKeys, NodeFacts
    <2> QED
      BY <1>1, <2>1 DEF Sorted
  <1>3. i = j
    BY <1>2, NodeFacts
  <1> QED
    BY <1>1, <1>3

\* find_child: the slot with the least bound above the key.
LEMMA FindChildSlot ==
  ASSUME OneInteger, NEW node \in Node, Sorted(node), ~IsLeaf(node), NEW key \in Bounds
  PROVE  \/ /\ FindChild(node, key) = node.next
            /\ \A s \in SlotsOf(node) : K(s) <= key[1]
         \/ \E s \in SlotsOf(node) : /\ FindChild(node, key) = s.val
                                     /\ key[1] < K(s)
                                     /\ \A t \in SlotsOf(node) : key[1] < K(t) => K(s) <= K(t)
  <1> DEFINE I == {i \in 1..Len(node.values) : KeyLess(node.tys, key, node.values[i].key)}
  <1>1. /\ node.tys = KeyTypes /\ Len(node.values) \in Nat
        /\ \A i \in 1..Len(node.values) : node.values[i] \in SlotSet
        /\ SlotsOf(node) = {node.values[i] : i \in 1..Len(node.values)}
    BY NodeFacts
  <1>2. \A i \in 1..Len(node.values) :
           /\ K(node.values[i]) \in Int
           /\ i \in I <=> key[1] < K(node.values[i])
    BY <1>1, SlotKeys, LessIsLess DEF K
  <1>3. SelectInSeq(node.values, LAMBDA s : KeyLess(node.tys, key, s.key))
           = IF I # {} THEN Min(I) ELSE 0
    BY DEF SelectInSeq
  <1>4. key[1] \in Int
    BY BoundsAreIntegers
  <1>5. CASE I = {}
    <2>1. FindChild(node, key) = node.next
      BY <1>3, <1>5 DEF FindChild
    <2>2. \A s \in SlotsOf(node) : K(s) <= key[1]
      BY <1>1, <1>2, <1>4, <1>5
    <2> QED
      BY <2>1, <2>2
  <1>6. CASE I # {}
    <2>1. PICK i \in I : i = Min(I) /\ \A j \in I : i <= j
      <3>1. I \in SUBSET Nat
        BY <1>1
      <3> HIDE DEF I
      <3> QED
        BY <1>6, <3>1, MinIsLeast
    <2>2. FindChild(node, key) = node.values[i].val
      <3>1. SelectInSeq(node.values, LAMBDA s : KeyLess(node.tys, key, s.key)) = i /\ i # 0
        BY <1>1, <1>3, <1>6, <2>1
      <3> QED
        BY <3>1 DEF FindChild
    <2>3. ASSUME NEW j \in I PROVE K(node.values[i]) <= K(node.values[j])
      <3>1. i = j \/ i < j
        BY <1>1, <2>1
      <3>2. i < j => K(node.values[i]) < K(node.values[j])
        BY <1>1 DEF Sorted
      <3> QED
        BY <1>2, <3>1, <3>2
    <2> QED
      BY <1>1, <1>2, <2>1, <2>2, <2>3
  <1> QED
    BY <1>5, <1>6

-----------------------------------------------------------------------------
\* v is s with e put in before the place i.
IsInsertedAt(s, i, e, v) ==
    /\ Len(v) = Len(s) + 1
    /\ \A j \in 1..(i - 1) : v[j] = s[j]
    /\ v[i] = e
    /\ \A j \in i..Len(s) : v[j + 1] = s[j]

LEMMA InsertAtProperties ==
  ASSUME NEW S, NEW s \in Seq(S), NEW i \in 1..Len(s), NEW e \in S
  PROVE  InsertAt(s, i, e) \in Seq(S) /\ IsInsertedAt(s, i, e, InsertAt(s, i, e))
  <1>1. Len(s) \in Nat /\ i \in Int /\ \A j \in 1..Len(s) : s[j] \in S
    BY ElementOfSeq, LenProperties
  <1>2. PICK a : a = SubSeq(s, 1, i - 1)
    OBVIOUS
  <1>3. PICK c : c = SubSeq(s, i, Len(s))
    OBVIOUS
  <1>4. PICK b : b = <<e>>
    OBVIOUS
  <1>5. /\ a \in Seq(S) /\ Len(a) = i - 1
        /\ \A j \in 1..(i - 1) : a[j] = s[j]
    <2>1. \A j \in 1..(i - 1) : s[j] \in S
      BY <1>1
    <2> QED
      BY <1>1, <1>2, <2>1, SubSeqProperties
  <1>6. /\ c \in Seq(S) /\ Len(c) = Len(s) - i + 1
        /\ \A j \in 1..(Len(s) - i + 1) : c[j] = s[i + j - 1]
    <2>1. \A j \in i..Len(s) : s[j] \in S
      BY <1>1
    <2> QED
      BY <1>1, <1>3, <2>1, SubSeqProperties
  <1>7. b \in Seq(S) /\ Len(b) = 1 /\ b[1] = e
    BY <1>4
  <1>8. PICK d : d = a \o b
    OBVIOUS
  <1>9. d \in Seq(S) /\ Len(d) = Len(a) + Len(b)
    BY <1>5, <1>7, <1>8, ConcatProperties
  <1>10. \A j \in 1..(Len(a) + Len(b)) : d[j] = IF j <= Len(a) THEN a[j] ELSE b[j - Len(a)]
    BY <1>5, <1>7, <1>8, ConcatProperties
  <1>11. Len(d) = i /\ d[i] = e /\ \A j \in 1..(i - 1) : d[j] = s[j]
    BY <1>1, <1>5, <1>7, <1>9, <1>10
  <1>12. PICK v : v = d \o c
    OBVIOUS
  <1>13. v \in Seq(S) /\ Len(v) = Len(d) + Len(c)
    BY <1>6, <1>9, <1>12, ConcatProperties
  <1>14. \A j \in 1..(Len(d) + Len(c)) : v[j] = IF j <= Len(d) THEN d[j] ELSE c[j - Len(d)]
    BY <1>6, <1>9, <1>12, ConcatProperties
  <1>15. Len(v) = Len(s) + 1 /\ v[i] = e /\ \A j \in 1..(i - 1) : v[j] = s[j]
    BY <1>1, <1>6, <1>11, <1>13, <1>14
  <1>16. ASSUME NEW j \in i..Len(s) PROVE v[j + 1] = s[j]
    <2>1. j + 1 \in 1..(Len(d) + Len(c)) /\ ~(j + 1 <= Len(d)) /\ j + 1 - Len(d) = j - i + 1
      BY <1>1, <1>6, <1>11
    <2>2. v[j + 1] = c[j - i + 1]
      BY <1>14, <2>1
    <2>3. j - i + 1 \in 1..(Len(s) - i + 1) /\ i + (j - i + 1) - 1 = j
      BY <1>1
    <2>4. c[j - i + 1] = s[i + (j - i + 1) - 1]
      BY <1>6, <2>3
    <2> QED
      BY <2>2, <2>3, <2>4
  <1>17. InsertAt(s, i, e) = v
    BY <1>2, <1>3, <1>4, <1>8, <1>12 DEF InsertAt
  <1> QED
    BY <1>13, <1>15, <1>16, <1>17 DEF IsInsertedAt

\* Where a key is or would go.
LEMMA PlaceOfKey ==
  ASSUME OneInteger, NEW node \in Node, Sorted(node), NEW key \in Bounds
  PROVE  \/ /\ PlaceOf(node, key) = 0
            /\ \A i \in 1..Len(node.values) : K(node.values[i]) < key[1]
         \/ /\ PlaceOf(node, key) \in 1..Len(node.values)
            /\ \A i \in 1..Len(node.values) :
                  (K(node.values[i]) < key[1]) <=> (i < PlaceOf(node, key))
  <1> DEFINE I == {i \in 1..Len(node.values) : ~KeyLess(node.tys, node.values[i].key, key)}
  <1>1. /\ node.tys = KeyTypes /\ Len(node.values) \in Nat
        /\ \A i \in 1..Len(node.values) : node.values[i] \in SlotSet
    BY NodeFacts
  <1>2. key[1] \in Int
    BY BoundsAreIntegers
  <1>3. \A i \in 1..Len(node.values) :
           K(node.values[i]) \in Int /\ (i \in I <=> ~(K(node.values[i]) < key[1]))
    BY <1>1, SlotKeys, LessIsLess DEF K
  <1>4. PlaceOf(node, key) = IF I # {} THEN Min(I) ELSE 0
    BY DEF PlaceOf, SelectInSeq
  <1>t. I \subseteq 1..Len(node.values)
    OBVIOUS
  <1> HIDE DEF I
  <1>5. CASE I = {}
    BY <1>3, <1>4, <1>5
  <1>6. CASE I # {}
    <2>1. PICK m \in I : m = Min(I) /\ \A j \in I : m <= j
      <3>1. I \in SUBSET Nat
        BY <1>1, <1>t
      <3> QED
        BY <1>6, <3>1, MinIsLeast
    <2>2. ASSUME NEW i \in 1..Len(node.values)
          PROVE  (K(node.values[i]) < key[1]) <=> (i < m)
      <3>1. CASE i < m
        <4>1. i \notin I
          BY <1>1, <1>t, <2>1, <3>1
        <4> QED
          BY <1>3, <3>1, <4>1
      <3>2. CASE i = m
        BY <1>1, <1>3, <1>t, <2>1, <3>2
      <3>3. CASE i > m
        <4>1. m \in 1..Len(node.values)
          BY <1>t
        <4>2. K(node.values[m]) < K(node.values[i])
          BY <3>3, <4>1 DEF Sorted
        <4>3. ~(K(node.values[m]) < key[1])
          BY <1>3, <4>1
        <4>4. ~(K(node.values[i]) < key[1])
          BY <1>2, <1>3, <4>1, <4>2, <4>3
        <4> QED
          BY <1>1, <3>3, <4>1, <4>4
      <3> QED
        BY <1>1, <1>t, <3>1, <3>2, <3>3
    <2> QED
      BY <1>1, <1>4, <1>6, <1>t, <2>1, <2>2
  <1> QED
    BY <1>5, <1>6

\* What replace makes of a node, and insert when the key is new to it.
IsReplaced(node, slot, r) ==
    /\ r \in Node /\ r.t = node.t /\ r.next = node.next
    /\ Sorted(r)
    /\ \A s : s \in SlotsOf(r) <=> s = slot \/ (s \in SlotsOf(node) /\ K(s) # K(slot))
    /\ \/ Len(r.values) = Len(node.values)
       \/ Len(r.values) = Len(node.values) + 1

\* Values of a node replaced by a longer or an equally long sorted sequence.
LEMMA WithValues ==
  ASSUME OneInteger, NEW node \in Node, NEW v \in Seq(SlotSet)
  PROVE  /\ [node EXCEPT !.values = v] \in Node
         /\ [node EXCEPT !.values = v].t = node.t
         /\ [node EXCEPT !.values = v].next = node.next
         /\ [node EXCEPT !.values = v].values = v
         /\ SlotsOf([node EXCEPT !.values = v]) = {v[i] : i \in 1..Len(v)}
  BY RangeEquality DEF Node, SlotSet, SlotsOf

LEMMA ReplaceInPlace ==
  ASSUME OneInteger, NEW node \in Node, Sorted(node), NEW slot \in SlotSet,
         NEW p \in 1..Len(node.values), node.values[p].key = slot.key
  PROVE  IsReplaced(node, slot, [node EXCEPT !.values = ReplaceAt(@, p, slot)])
  <1> DEFINE v == [node.values EXCEPT ![p] = slot]
             r == [node EXCEPT !.values = v]
  <1>1. /\ node.values \in Seq(SlotSet) /\ Len(node.values) \in Nat
        /\ SlotsOf(node) = {node.values[i] : i \in 1..Len(node.values)}
    BY NodeFacts
  <1>2. /\ v \in Seq(SlotSet) /\ Len(v) = Len(node.values)
        /\ \A j \in 1..Len(node.values) : v[j] = IF j = p THEN slot ELSE node.values[j]
    BY <1>1, ExceptSeq
  <1> HIDE DEF v
  <1>3. r \in Node /\ r.t = node.t /\ r.next = node.next /\ r.values = v
        /\ SlotsOf(r) = {v[i] : i \in 1..Len(v)}
    BY <1>2, WithValues
  <1>4. \A j \in 1..Len(v) : K(v[j]) = K(node.values[j])
    BY <1>2 DEF K
  <1>5. Sorted(r)
    BY <1>2, <1>3, <1>4 DEF Sorted
  <1>6. \A j \in 1..Len(node.values) : K(node.values[j]) = K(slot) <=> j = p
    <2>1. \A j \in 1..Len(node.values) : K(node.values[j]) \in Int
      BY NodeFacts, SlotKeys
    <2>2. K(node.values[p]) = K(slot)
      BY DEF K
    <2>3. ASSUME NEW j \in 1..Len(node.values), j # p PROVE K(node.values[j]) # K(slot)
      <3>1. j < p \/ p < j
        BY <1>1, <2>3
      <3> QED
        BY <1>1, <2>1, <2>2, <3>1 DEF Sorted
    <2> QED
      BY <2>2, <2>3
  <1>7. \A s : s \in SlotsOf(r) <=> s = slot \/ (s \in SlotsOf(node) /\ K(s) # K(slot))
    BY <1>1, <1>2, <1>3, <1>6
  <1>8. r = [node EXCEPT !.values = ReplaceAt(@, p, slot)]
    BY DEF ReplaceAt, v
  <1> HIDE DEF r
  <1> QED
    BY <1>2, <1>3, <1>5, <1>7, <1>8 DEF IsReplaced

LEMMA InsertInPlace ==
  ASSUME OneInteger, NEW node \in Node, Sorted(node), NEW slot \in SlotSet,
         NEW p \in 1..Len(node.values), node.values[p].key # slot.key,
         \A i \in 1..Len(node.values) : (K(node.values[i]) < K(slot)) <=> (i < p)
  PROVE  IsReplaced(node, slot, [node EXCEPT !.values = InsertAt(@, p, slot)])
  <1>1. PICK u : u = node.values
    OBVIOUS
  <1>2. PICK n \in Nat : n = Len(u)
    BY <1>1, NodeFacts
  <1>3. /\ u \in Seq(SlotSet)
        /\ SlotsOf(node) = {u[i] : i \in 1..n}
        /\ \A i \in 1..n : u[i] \in SlotSet /\ K(u[i]) \in Int
        /\ K(slot) \in Int
    BY <1>1, <1>2, NodeFacts, SlotKeys
  <1>4. PICK v : v = InsertAt(u, p, slot)
    OBVIOUS
  <1>5. v \in Seq(SlotSet) /\ IsInsertedAt(u, p, slot, v)
    BY <1>1, <1>3, <1>4, InsertAtProperties
  <1>6. /\ Len(v) = n + 1 /\ v[p] = slot /\ p \in 1..n
        /\ \A j \in 1..(p - 1) : v[j] = u[j]
        /\ \A j \in p..n : v[j + 1] = u[j]
    BY <1>1, <1>2, <1>5 DEF IsInsertedAt
  <1>7. PICK r : r = [node EXCEPT !.values = v]
    OBVIOUS
  <1>8. /\ r \in Node /\ r.t = node.t /\ r.next = node.next /\ r.values = v
        /\ SlotsOf(r) = {v[i] : i \in 1..(n + 1)}
    BY <1>5, <1>6, <1>7, WithValues
  <1>9. /\ \A i, j \in 1..n : i < j => K(u[i]) < K(u[j])
        /\ \A i \in 1..n : (K(u[i]) < K(slot)) <=> (i < p)
    BY <1>1, <1>2 DEF Sorted
  <1>10. \A i \in 1..n : K(u[i]) # K(slot)
    <2>1. K(u[p]) # K(slot)
      BY <1>1, <1>3, <1>6, SlotKeys
    <2>2. ASSUME NEW i \in 1..n, i # p PROVE K(u[i]) # K(slot)
      <3>1. CASE i < p
        BY <1>3, <1>9, <3>1
      <3>2. CASE p < i
        BY <1>3, <1>6, <1>9, <3>2
      <3> QED
        BY <1>6, <2>2, <3>1, <3>2
    <2> QED
      BY <2>1, <2>2
  \* Where the slots of r come from.
  <1>11. ASSUME NEW i \in 1..(n + 1)
         PROVE  \/ i < p /\ i \in 1..n /\ v[i] = u[i]
                \/ i = p /\ v[i] = slot
                \/ i > p /\ i - 1 \in p..n /\ i - 1 \in 1..n /\ v[i] = u[i - 1]
    <2>1. CASE i < p
      BY <1>6, <2>1
    <2>2. CASE i = p
      BY <1>6, <2>2
    <2>3. CASE i > p
      <3>1. i - 1 \in p..n /\ i - 1 \in 1..n /\ (i - 1) + 1 = i
        BY <1>6, <2>3
      <3> QED
        BY <1>6, <2>3, <3>1
    <2> QED
      BY <1>6, <2>1, <2>2, <2>3
  <1>12. ASSUME NEW i \in 1..(n + 1), NEW j \in 1..(n + 1), i < j
         PROVE  K(v[i]) < K(v[j])
    <2>1. CASE j < p
      BY <1>9, <1>11, <1>12, <1>6, <2>1
    <2>2. CASE j = p
      BY <1>9, <1>11, <1>12, <1>6, <2>2
    <2>3. CASE j > p /\ i = p
      BY <1>3, <1>6, <1>9, <1>10, <1>11, <2>3
    <2>4. CASE j > p /\ i < p
      <3>1. /\ v[i] = u[i] /\ i \in 1..n
            /\ v[j] = u[j - 1] /\ j - 1 \in 1..n /\ i < j - 1
        BY <1>6, <1>11, <2>4
      <3> QED
        BY <1>9, <3>1
    <2>5. CASE i > p
      <3>1. v[i] = u[i - 1] /\ v[j] = u[j - 1] /\ i - 1 < j - 1
        BY <1>6, <1>11, <1>12, <2>5
      <3> QED
        BY <1>6, <1>9, <1>11, <1>12, <2>5, <3>1
    <2> QED
      BY <1>6, <1>12, <2>1, <2>2, <2>3, <2>4, <2>5
  <1>13. Sorted(r)
    BY <1>6, <1>8, <1>12 DEF Sorted
  <1>14. ASSUME NEW s
         PROVE  s \in SlotsOf(r) <=> s = slot \/ (s \in SlotsOf(node) /\ K(s) # K(slot))
    <2>1. ASSUME NEW i \in 1..(n + 1) PROVE v[i] = slot \/ v[i] \in SlotsOf(node)
      BY <1>3, <1>11
    <2>2. ASSUME NEW i \in 1..n PROVE u[i] \in SlotsOf(r)
      <3>1. CASE i < p
        BY <1>6, <1>8, <3>1
      <3>2. CASE i >= p
        <4>1. i \in p..n /\ i + 1 \in 1..(n + 1)
          BY <1>6, <3>2
        <4> QED
          BY <1>6, <1>8, <4>1
      <3> QED
        BY <1>6, <3>1, <3>2
    <2>3. slot \in SlotsOf(r)
      BY <1>6, <1>8
    <2>4. \A t \in SlotsOf(node) : K(t) # K(slot)
      BY <1>3, <1>10
    <2>5. s \in SlotsOf(r) => s = slot \/ s \in SlotsOf(node)
      BY <1>8, <2>1
    <2>6. s \in SlotsOf(node) => s \in SlotsOf(r)
      BY <1>3, <2>2
    <2> QED
      BY <2>3, <2>4, <2>5, <2>6
  <1>15. r = [node EXCEPT !.values = InsertAt(@, p, slot)]
    BY <1>1, <1>4, <1>7
  <1> QED
    BY <1>1, <1>2, <1>6, <1>8, <1>13, <1>14, <1>15 DEF IsReplaced

LEMMA AppendInPlace ==
  ASSUME OneInteger, NEW node \in Node, Sorted(node), NEW slot \in SlotSet,
         \A i \in 1..Len(node.values) : K(node.values[i]) < K(slot)
  PROVE  IsReplaced(node, slot, [node EXCEPT !.values = Append(@, slot)])
  <1>1. PICK u : u = node.values
    OBVIOUS
  <1>2. PICK n \in Nat : n = Len(u)
    BY <1>1, NodeFacts
  <1>3. /\ u \in Seq(SlotSet)
        /\ SlotsOf(node) = {u[i] : i \in 1..n}
        /\ \A i \in 1..n : K(u[i]) \in Int
        /\ K(slot) \in Int
    BY <1>1, <1>2, NodeFacts, SlotKeys
  <1>4. PICK v : v = Append(u, slot)
    OBVIOUS
  <1>5. /\ v \in Seq(SlotSet) /\ Len(v) = n + 1
        /\ \A j \in 1..n : v[j] = u[j]
        /\ v[n + 1] = slot
    BY <1>2, <1>3, <1>4, AppendProperties
  <1>6. PICK r : r = [node EXCEPT !.values = v]
    OBVIOUS
  <1>7. /\ r \in Node /\ r.t = node.t /\ r.next = node.next /\ r.values = v
        /\ SlotsOf(r) = {v[i] : i \in 1..(n + 1)}
    BY <1>5, <1>6, WithValues
  <1>8. /\ \A i, j \in 1..n : i < j => K(u[i]) < K(u[j])
        /\ \A i \in 1..n : K(u[i]) < K(slot)
    BY <1>1, <1>2 DEF Sorted
  <1>9. ASSUME NEW i \in 1..(n + 1), NEW j \in 1..(n + 1), i < j
        PROVE  K(v[i]) < K(v[j])
    <2>1. i \in 1..n /\ (j \in 1..n \/ j = n + 1)
      BY <1>9
    <2> QED
      BY <1>5, <1>8, <1>9, <2>1
  <1>10. Sorted(r)
    BY <1>5, <1>7, <1>9 DEF Sorted
  <1>11. ASSUME NEW s
         PROVE  s \in SlotsOf(r) <=> s = slot \/ (s \in SlotsOf(node) /\ K(s) # K(slot))
    <2>1. ASSUME NEW i \in 1..(n + 1) PROVE v[i] = slot \/ v[i] \in SlotsOf(node)
      <3>1. i \in 1..n \/ i = n + 1
        OBVIOUS
      <3> QED
        BY <1>3, <1>5, <3>1
    <2>2. ASSUME NEW i \in 1..n PROVE u[i] \in SlotsOf(r)
      <3>1. i \in 1..(n + 1)
        OBVIOUS
      <3> QED
        BY <1>5, <1>7, <3>1
    <2>3. slot \in SlotsOf(r)
      BY <1>5, <1>7
    <2>4. \A t \in SlotsOf(node) : K(t) # K(slot)
      BY <1>3, <1>8
    <2>5. s \in SlotsOf(r) => s = slot \/ s \in SlotsOf(node)
      BY <1>7, <2>1
    <2>6. s \in SlotsOf(node) => s \in SlotsOf(r)
      BY <1>3, <2>2
    <2> QED
      BY <2>3, <2>4, <2>5, <2>6
  <1>12. r = [node EXCEPT !.values = Append(@, slot)]
    BY <1>1, <1>4, <1>6
  <1> QED
    BY <1>1, <1>2, <1>5, <1>7, <1>10, <1>11, <1>12 DEF IsReplaced

LEMMA ReplaceSlotResult ==
  ASSUME OneInteger, NEW node \in Node, Sorted(node), NEW slot \in SlotSet
  PROVE  IsReplaced(node, slot, ReplaceSlot(node, slot))
  <1> DEFINE p == PlaceOf(node, slot.key)
  <1>1. slot.key \in Bounds /\ slot.key[1] = K(slot)
    BY DEF SlotSet, K
  <1>2. CASE p = 0
    <2>1. \A i \in 1..Len(node.values) : K(node.values[i]) < K(slot)
      BY <1>1, <1>2, PlaceOfKey
    <2> QED
      BY <1>2, <2>1, AppendInPlace DEF ReplaceSlot
  <1>3. CASE p # 0
    <2>1. /\ p \in 1..Len(node.values)
          /\ \A i \in 1..Len(node.values) : (K(node.values[i]) < K(slot)) <=> (i < p)
      BY <1>1, <1>3, PlaceOfKey
    <2>2. CASE node.values[p].key = slot.key
      <3>1. ReplaceSlot(node, slot) = [node EXCEPT !.values = ReplaceAt(@, p, slot)]
        BY <1>3, <2>2 DEF ReplaceSlot
      <3> HIDE DEF p
      <3> QED
        BY <2>1, <2>2, <3>1, ReplaceInPlace
    <2>3. CASE node.values[p].key # slot.key
      <3>1. ReplaceSlot(node, slot) = [node EXCEPT !.values = InsertAt(@, p, slot)]
        BY <1>3, <2>3 DEF ReplaceSlot
      <3> HIDE DEF p
      <3> QED
        BY <2>1, <2>3, <3>1, InsertInPlace
    <2> QED
      BY <2>2, <2>3
  <1> QED
    BY <1>2, <1>3

\* insert is the same as long as the node has no slot with the key.
LEMMA InsertSlotResult ==
  ASSUME OneInteger, NEW node \in Node, Sorted(node), NEW slot \in SlotSet,
         \A s \in SlotsOf(node) : K(s) # K(slot)
  PROVE  IsReplaced(node, slot, InsertSlot(node, slot))
  <1> DEFINE p == PlaceOf(node, slot.key)
  <1>1. slot.key \in Bounds /\ slot.key[1] = K(slot)
    BY DEF SlotSet, K
  <1>2. CASE p = 0
    BY <1>2, ReplaceSlotResult DEF ReplaceSlot, InsertSlot
  <1>3. CASE p # 0
    <2>1. p \in 1..Len(node.values)
      BY <1>1, <1>3, PlaceOfKey
    <2>2. node.values[p].key # slot.key
      BY <2>1, NodeFacts DEF K
    <2> QED
      BY <1>3, <2>2, ReplaceSlotResult DEF ReplaceSlot, InsertSlot
  <1> QED
    BY <1>2, <1>3

-----------------------------------------------------------------------------
LEMMA PartOfNode ==
  ASSUME OneInteger, NEW node \in Node, Sorted(node),
         NEW a \in 1..(Len(node.values) + 1), NEW b \in 0..Len(node.values), a <= b + 1
  PROVE  /\ SubSeq(node.values, a, b) \in Seq(SlotSet)
         /\ Len(SubSeq(node.values, a, b)) = b - a + 1
         /\ \A r \in Node : r.values = SubSeq(node.values, a, b) =>
               Sorted(r) /\ SlotsOf(r) = {node.values[i] : i \in a..b}
  <1>1. PICK u : u = node.values
    OBVIOUS
  <1>2. PICK n \in Nat : n = Len(u)
    BY <1>1, NodeFacts
  <1>3. u \in Seq(SlotSet) /\ \A i \in 1..n : u[i] \in SlotSet
    BY <1>1, <1>2, NodeFacts
  <1>4. PICK v : v = SubSeq(u, a, b)
    OBVIOUS
  <1>5. a \in Int /\ b \in Int /\ 1 <= a /\ b <= n /\ a <= b + 1
    BY <1>1, <1>2
  <1>6. /\ v \in Seq(SlotSet) /\ Len(v) = b - a + 1
        /\ \A i \in 1..(b - a + 1) : v[i] = u[a + i - 1]
    <2>1. \A i \in a..b : u[i] \in SlotSet
      BY <1>3, <1>5
    <2>2. Len(v) = IF a <= b THEN b - a + 1 ELSE 0
      BY <1>4, <1>5, <2>1, SubSeqProperties
    <2>3. Len(v) = b - a + 1
      BY <1>5, <2>2
    <2> QED
      BY <1>4, <1>5, <2>1, <2>3, SubSeqProperties
  <1>7. ASSUME NEW r \in Node, r.values = v
        PROVE  Sorted(r) /\ SlotsOf(r) = {u[i] : i \in a..b}
    <2>1. ASSUME NEW i \in 1..Len(v), NEW j \in 1..Len(v), i < j
          PROVE  K(v[i]) < K(v[j])
      <3>1. /\ v[i] = u[a + i - 1] /\ v[j] = u[a + j - 1]
            /\ a + i - 1 \in 1..n /\ a + j - 1 \in 1..n /\ a + i - 1 < a + j - 1
        BY <1>2, <1>5, <1>6, <2>1
      <3> QED
        BY <1>1, <1>2, <3>1 DEF Sorted
    <2>2. SlotsOf(r) = {v[i] : i \in 1..Len(v)}
      BY <1>7, NodeFacts
    <2>3. ASSUME NEW i \in 1..Len(v) PROVE v[i] \in {u[j] : j \in a..b}
      <3>1. a + i - 1 \in a..b /\ v[i] = u[a + i - 1]
        BY <1>5, <1>6
      <3> QED
        BY <3>1
    <2>4. ASSUME NEW i \in a..b PROVE u[i] \in {v[j] : j \in 1..Len(v)}
      <3>1. i - a + 1 \in 1..Len(v) /\ a + (i - a + 1) - 1 = i
        BY <1>5, <1>6
      <3>2. v[i - a + 1] = u[i]
        BY <1>6, <3>1
      <3> QED
        BY <3>1, <3>2
    <2> QED
      BY <1>7, <2>1, <2>2, <2>3, <2>4 DEF Sorted
  <1> QED
    BY <1>1, <1>4, <1>6, <1>7

\* The last slot has the largest key.
LEMMA LastSlot ==
  ASSUME OneInteger, NEW node \in Node, Sorted(node), SlotsOf(node) # {}
  PROVE  /\ Len(node.values) >= 1
         /\ Last(node.values) \in SlotsOf(node)
         /\ \A s \in SlotsOf(node) : K(s) <= K(Last(node.values))
  <1>1. PICK u : u = node.values
    OBVIOUS
  <1>2. PICK n \in Nat : n = Len(u)
    BY <1>1, NodeFacts
  <1>3. /\ SlotsOf(node) = {u[i] : i \in 1..n}
        /\ \A i \in 1..n : K(u[i]) \in Int
        /\ \A i, j \in 1..n : i < j => K(u[i]) < K(u[j])
    BY <1>1, <1>2, NodeFacts, SlotKeys DEF Sorted
  <1>4. n >= 1 /\ n \in 1..n
    BY <1>3
  <1>5. Last(u) = u[n]
    BY <1>2 DEF Last
  <1>6. ASSUME NEW i \in 1..n PROVE K(u[i]) <= K(u[n])
    <2>1. i < n \/ i = n
      OBVIOUS
    <2> QED
      BY <1>3, <1>4, <2>1
  <1> QED
    BY <1>1, <1>2, <1>3, <1>4, <1>5, <1>6

\* The slot with the largest key is the last one.
LEMMA LastIs ==
  ASSUME OneInteger, NEW node \in Node, Sorted(node), NEW s \in SlotsOf(node),
         \A t \in SlotsOf(node) : K(t) <= K(s)
  PROVE  Last(node.values) = s
  <1>1. Last(node.values) \in SlotsOf(node) /\ K(s) <= K(Last(node.values))
    BY LastSlot
  <1>2. K(s) \in Int /\ K(Last(node.values)) \in Int
    BY <1>1, NodeFacts, SlotKeys
  <1>3. K(Last(node.values)) <= K(s)
    BY <1>1
  <1> QED
    BY <1>1, <1>2, <1>3, SortedKeysDiffer

\* pop_last takes the slot with the largest key.
LEMMA FrontOfNode ==
  ASSUME OneInteger, NEW node \in Node, Sorted(node), SlotsOf(node) # {}
  PROVE  LET r == [node EXCEPT !.values = Front(@)]
         IN  /\ r \in Node /\ r.t = node.t /\ r.next = node.next
             /\ Sorted(r) /\ Len(r.values) = Len(node.values) - 1
             /\ \A s : s \in SlotsOf(r) <=> s \in SlotsOf(node) /\ s # Last(node.values)
  <1>1. PICK u : u = node.values
    OBVIOUS
  <1>2. PICK n \in Nat : n = Len(u)
    BY <1>1, NodeFacts
  <1>3. n >= 1 /\ n \in 1..n
    BY <1>1, <1>2, LastSlot
  <1>m. PICK m : m = n - 1
    OBVIOUS
  <1>t. m \in 0..n /\ 1 \in 1..(n + 1) /\ 1 <= m + 1 /\ m - 1 + 1 = n - 1
    BY <1>3, <1>m
  <1>4. Front(u) \in Seq(SlotSet) /\ Len(Front(u)) = n - 1
    <2>1. SubSeq(u, 1, m) \in Seq(SlotSet) /\ Len(SubSeq(u, 1, m)) = m - 1 + 1
      BY <1>1, <1>2, <1>t, PartOfNode
    <2> QED
      BY <1>2, <1>m, <1>t, <2>1 DEF Front
  <1>q. \A q \in Node : q.values = SubSeq(u, 1, m) =>
           Sorted(q) /\ SlotsOf(q) = {u[i] : i \in 1..m}
    BY <1>1, <1>2, <1>t, PartOfNode
  <1>r. PICK r : r = [node EXCEPT !.values = Front(@)]
    OBVIOUS
  <1>5. r \in Node /\ r.t = node.t /\ r.next = node.next /\ r.values = Front(u)
    BY <1>1, <1>4, <1>r, WithValues
  <1>6. r.values = SubSeq(u, 1, m)
    BY <1>2, <1>5, <1>m DEF Front
  <1>7. Sorted(r) /\ SlotsOf(r) = {u[i] : i \in 1..(n - 1)}
    BY <1>5, <1>6, <1>m, <1>q
  <1>8. /\ SlotsOf(node) = {u[i] : i \in 1..n}
        /\ \A i, j \in 1..n : i < j => K(u[i]) < K(u[j])
        /\ \A i \in 1..n : K(u[i]) \in Int
    BY <1>1, <1>2, NodeFacts, SlotKeys DEF Sorted
  <1>9. Last(u) = u[n]
    BY <1>2 DEF Last
  <1>10. \A i \in 1..n : u[i] = u[n] <=> i = n
    <2>1. ASSUME NEW i \in 1..n, i # n PROVE u[i] # u[n]
      <3>1. K(u[i]) < K(u[n])
        BY <1>3, <1>8, <2>1
      <3> QED
        BY <1>3, <1>8, <3>1
    <2> QED
      BY <2>1
  <1>11. \A s : s \in SlotsOf(r) <=> s \in SlotsOf(node) /\ s # u[n]
    <2>1. \A i \in 1..n : i \in 1..(n - 1) \/ i = n
      OBVIOUS
    <2>2. \A i \in 1..(n - 1) : i \in 1..n /\ i # n
      OBVIOUS
    <2> QED
      BY <1>7, <1>8, <1>10, <2>1, <2>2
  <1> QED
    BY <1>1, <1>2, <1>4, <1>5, <1>7, <1>9, <1>11, <1>m, <1>r, <1>t

-----------------------------------------------------------------------------
(***************************************************************************)
(* A node is split only if it has two slots; then each half has one, and   *)
(* the keys of the lower half are below those of the upper half.           *)
(***************************************************************************)
LEMMA SumSizesOne ==
  ASSUME NEW ty \in Integer
  PROVE  SumSizes(<<ty>>) = TypeSize(ty) /\ TypeSize(ty) \in Nat \ {0}
  <1>1. TypeSize(ty) \in Nat \ {0}
    BY DEF TypeSize, Integer
  <1>2. Len(<<ty>>) = 1 /\ <<ty>>[1] = ty
    OBVIOUS
  <1> DEFINE IsSum(f) == f = [n \in 0..1 |-> IF n = 0 THEN 0 ELSE f[n - 1] + TypeSize(<<ty>>[n])]
             g == [n \in 0..1 |-> IF n = 0 THEN 0 ELSE TypeSize(ty)]
  <1>3. IsSum(g)
    <2>1. \A n \in 0..1 : g[n] = IF n = 0 THEN 0 ELSE g[n - 1] + TypeSize(<<ty>>[n])
      BY <1>1, <1>2
    <2> QED
      BY <2>1
  <1>4. PICK f : IsSum(f) /\ SumSizes(<<ty>>) = f[1]
    <2>1. SumSizes(<<ty>>) = (CHOOSE f : IsSum(f))[1]
      BY <1>2 DEF SumSizes
    <2> HIDE DEF IsSum
    <2> QED
      BY <1>3, <2>1
  <1>5. f[0] = 0 /\ f[1] = f[0] + TypeSize(ty)
    BY <1>2, <1>4
  <1> QED
    BY <1>1, <1>4, <1>5

LEMMA FullHasTwo ==
  ASSUME OneInteger, NEW node \in Node, AlmostFull(node)
  PROVE  Len(node.values) >= 2
  <1>1. PICK ty \in Integer : KeyTypes = <<ty>>
    BY DEF OneInteger
  <1>2. PICK w \in Nat \ {0} : w = SumSizes(KeyTypes)
    BY <1>1, SumSizesOne
  <1>3. PICK n \in Nat : n = Len(node.values)
    BY NodeFacts
  <1>4. PICK h : h = PAGE_SIZE \div 2
    OBVIOUS
  <1>5. h \in Int
    BY <1>4, NodeSizesAssumption
  <1>6. w < h /\ n * w >= h
    BY <1>2, <1>3, <1>4, NodeFacts DEF OneInteger, AlmostFull
  <1>7. n # 0 /\ n # 1
    BY <1>2, <1>5, <1>6
  <1>8. n >= 2
    BY <1>7
  <1> QED
    BY <1>3, <1>8

LEMMA Halves ==
  ASSUME OneInteger, NEW node \in Node, Sorted(node), Len(node.values) >= 2,
         NEW id \in PageIds
  PROVE  LET lower == LowerHalf(node, id)
             upper == UpperHalf(node)
         IN  /\ lower \in Node /\ lower.t = node.t /\ Sorted(lower) /\ SlotsOf(lower) # {}
             /\ upper \in Node /\ upper.t = node.t /\ Sorted(upper) /\ SlotsOf(upper) # {}
             /\ lower.next = IF IsLeaf(node) THEN id ELSE node.next
             /\ upper.next = IF IsLeaf(node) THEN node.next ELSE None
             /\ SlotsOf(node) = SlotsOf(lower) \cup SlotsOf(upper)
             /\ \A s \in SlotsOf(lower), t \in SlotsOf(upper) : K(s) < K(t)
  <1>1. PICK u : u = node.values
    OBVIOUS
  <1>2. PICK n \in Nat : n = Len(u)
    BY <1>1, NodeFacts
  <1>3. PICK h : h = n \div 2
    OBVIOUS
  <1>4. h \in Int /\ 1 <= h /\ h < n
    <2>1. n >= 2
      BY <1>1, <1>2
    <2>2. n \div 2 \in Int /\ 1 <= n \div 2 /\ n \div 2 < n
      BY <2>1
    <2> QED
      BY <1>3, <2>2
  <1>5. PICK lower : lower = LowerHalf(node, id)
    OBVIOUS
  <1>6. PICK upper : upper = UpperHalf(node)
    OBVIOUS
  <1>7. SubSeq(u, 1, h) \in Seq(SlotSet) /\ SubSeq(u, h + 1, n) \in Seq(SlotSet)
    BY <1>1, <1>2, <1>4, PartOfNode
  <1>8. /\ lower \in Node /\ lower.t = node.t /\ lower.values = SubSeq(u, 1, h)
        /\ lower.next = IF IsLeaf(node) THEN id ELSE node.next
    BY <1>1, <1>2, <1>3, <1>5, <1>7 DEF LowerHalf, Node, SlotSet
  <1>9. /\ upper \in Node /\ upper.t = node.t /\ upper.values = SubSeq(u, h + 1, n)
        /\ upper.next = IF IsLeaf(node) THEN node.next ELSE None
    BY <1>1, <1>2, <1>3, <1>6, <1>7 DEF UpperHalf, Node, SlotSet
  <1>10. Sorted(lower) /\ SlotsOf(lower) = {u[i] : i \in 1..h}
    BY <1>1, <1>2, <1>4, <1>8, PartOfNode
  <1>11. Sorted(upper) /\ SlotsOf(upper) = {u[i] : i \in (h + 1)..n}
    <2>1. PICK a : a = h + 1
      OBVIOUS
    <2>2. a \in 1..(n + 1) /\ n \in 0..n /\ a <= n + 1
      BY <1>4, <2>1
    <2>3. \A q \in Node : q.values = SubSeq(u, a, n) =>
             Sorted(q) /\ SlotsOf(q) = {u[i] : i \in a..n}
      BY <1>1, <1>2, <2>2, PartOfNode
    <2> QED
      BY <1>9, <2>1, <2>3
  <1>12. 1 \in 1..h /\ n \in (h + 1)..n
    BY <1>4
  <1>13. SlotsOf(lower) # {} /\ SlotsOf(upper) # {}
    BY <1>10, <1>11, <1>12
  <1>14. SlotsOf(node) = SlotsOf(lower) \cup SlotsOf(upper)
    <2>1. SlotsOf(node) = {u[i] : i \in 1..n}
      BY <1>1, <1>2, NodeFacts
    <2>2. \A i \in 1..n : i \in 1..h \/ i \in (h + 1)..n
      BY <1>4
    <2>3. \A i : i \in 1..h \/ i \in (h + 1)..n => i \in 1..n
      BY <1>4
    <2> QED
      BY <1>10, <1>11, <2>1, <2>2, <2>3
  <1>15. ASSUME NEW s \in SlotsOf(lower), NEW t \in SlotsOf(upper) PROVE K(s) < K(t)
    <2>1. PICK i \in 1..h : s = u[i]
      BY <1>10
    <2>2. PICK j \in (h + 1)..n : t = u[j]
      BY <1>11
    <2>3. i \in 1..n /\ j \in 1..n /\ i < j
      BY <1>4
    <2> QED
      BY <1>1, <1>2, <2>1, <2>2, <2>3 DEF Sorted
  <1> QED
    BY <1>5, <1>6, <1>8, <1>9, <1>10, <1>11, <1>13, <1>14, <1>15

-----------------------------------------------------------------------------
(***************************************************************************)
(* How many slots a node has.  A node that was not almost full before it   *)
(* got a slot, and half of one, are short.                                 *)
(***************************************************************************)
Short(node) == (Len(node.values) - 1) * SumSizes(KeyTypes) < PAGE_SIZE \div 2

AllShort(nd) == \A q \in PageIds : Short(nd[q])

LEMMA ProductMonotone ==
  ASSUME NEW a \in Int, NEW b \in Int, NEW w \in Nat, a <= b
  PROVE  a * w <= b * w
  <1>1. PICK d \in Nat : b = a + d
    <2>1. b - a \in Nat /\ b = a + (b - a)
      OBVIOUS
    <2> QED
      BY <2>1
  <1>2. b * w = a * w + d * w /\ d * w >= 0 /\ a * w \in Int /\ d * w \in Int
    BY <1>1
  <1> QED
    BY <1>2

\* The fixed part of a key, half a page, and what almost full means.
LEMMA KeySize ==
  ASSUME OneInteger
  PROVE  \E w \in Nat \ {0}, h \in Int :
            /\ w = SumSizes(KeyTypes) /\ h = PAGE_SIZE \div 2 /\ w < h
            /\ \A node \in Node : AlmostFull(node) <=> Len(node.values) * w >= h
            /\ \A node \in Node : Short(node) <=> (Len(node.values) - 1) * w < h
  <1>1. PICK ty \in Integer : KeyTypes = <<ty>>
    BY DEF OneInteger
  <1>2. PICK w \in Nat \ {0} : w = SumSizes(KeyTypes)
    BY <1>1, SumSizesOne
  <1>3. PICK h \in Int : h = PAGE_SIZE \div 2
    BY NodeSizesAssumption
  <1>4. w < h
    BY <1>2, <1>3 DEF OneInteger
  <1>5. ASSUME NEW node \in Node PROVE AlmostFull(node) <=> Len(node.values) * w >= h
    BY <1>2, <1>3, NodeFacts DEF AlmostFull
  <1>6. ASSUME NEW node \in Node PROVE Short(node) <=> (Len(node.values) - 1) * w < h
    BY <1>2, <1>3 DEF Short
  <1> QED
    BY <1>2, <1>3, <1>4, <1>5, <1>6

LEMMA GrowsShort ==
  ASSUME OneInteger, NEW node \in Node, ~AlmostFull(node),
         NEW r \in Node, Len(r.values) <= Len(node.values) + 1
  PROVE  Short(r)
  <1>1. PICK w \in Nat \ {0}, h \in Int :
            /\ AlmostFull(node) <=> Len(node.values) * w >= h
            /\ Short(r) <=> (Len(r.values) - 1) * w < h
    BY KeySize
  <1>2. PICK n \in Nat, m \in Nat : n = Len(node.values) /\ m = Len(r.values)
    BY NodeFacts
  <1>3. n * w < h
    <2>1. n * w \in Int /\ ~(n * w >= h)
      BY <1>1, <1>2
    <2> QED
      BY <1>1, <2>1
  <1>4. PICK l \in Int : l = m - 1
    OBVIOUS
  <1>5. l <= n
    BY <1>2, <1>4
  <1>6. l * w <= n * w
    BY <1>5, ProductMonotone
  <1>7. l * w < h
    <2>1. l * w \in Int /\ n * w \in Int
      OBVIOUS
    <2> QED
      BY <1>1, <1>3, <1>6, <2>1
  <1> QED
    BY <1>1, <1>2, <1>4, <1>7

LEMMA ShorterIsShort ==
  ASSUME OneInteger, NEW node \in Node, Short(node),
         NEW r \in Node, Len(r.values) <= Len(node.values)
  PROVE  Short(r) /\ (Len(r.values) < Len(node.values) => ~AlmostFull(r))
  <1>1. PICK w \in Nat \ {0}, h \in Int :
            /\ AlmostFull(r) <=> Len(r.values) * w >= h
            /\ Short(node) <=> (Len(node.values) - 1) * w < h
            /\ Short(r) <=> (Len(r.values) - 1) * w < h
    BY KeySize
  <1>2. PICK n \in Nat, m \in Nat : n = Len(node.values) /\ m = Len(r.values)
    BY NodeFacts
  <1>3. PICK i \in Int, j \in Int : i = n - 1 /\ j = m - 1
    OBVIOUS
  <1>4. i * w < h
    BY <1>1, <1>2, <1>3
  <1>5. j * w <= i * w
    <2>1. j <= i
      BY <1>2, <1>3
    <2> QED
      BY <2>1, ProductMonotone
  <1>6. i * w \in Int /\ j * w \in Int /\ m * w \in Int
    OBVIOUS
  <1>7. j * w < h
    BY <1>4, <1>5, <1>6
  <1>8. ASSUME m < n PROVE ~(m * w >= h)
    <2>1. m \in Int /\ m <= i
      BY <1>3, <1>8
    <2>2. m * w <= i * w
      BY <2>1, ProductMonotone
    <2> QED
      BY <1>4, <1>6, <2>2
  <1> QED
    BY <1>1, <1>2, <1>3, <1>7, <1>8

LEMMA TwoIsShort ==
  ASSUME OneInteger, NEW node \in Node, Len(node.values) <= 2
  PROVE  Short(node)
  <1>1. PICK w \in Nat \ {0}, h \in Int :
            w < h /\ (Short(node) <=> (Len(node.values) - 1) * w < h)
    BY KeySize
  <1>2. PICK i \in Int : i = Len(node.values) - 1
    BY NodeFacts
  <1>3. PICK j \in Int : j = 1
    OBVIOUS
  <1>4. i * w <= j * w
    <2>1. i <= j
      BY <1>2, <1>3, NodeFacts
    <2> QED
      BY <2>1, ProductMonotone
  <1>5. i * w \in Int /\ j * w = w
    BY <1>3
  <1>6. i * w < h
    BY <1>1, <1>4, <1>5
  <1> QED
    BY <1>1, <1>2, <1>6

\* The slots of a node are as many as its values, for no key is there twice.
LEMMA SlotsCount ==
  ASSUME OneInteger, NEW node \in Node, Sorted(node)
  PROVE  IsFiniteSet(SlotsOf(node)) /\ Cardinality(SlotsOf(node)) = Len(node.values)
  <1>u. PICK u : u = node.values
    OBVIOUS
  <1>1. PICK n \in Nat : n = Len(u)
    BY <1>u, NodeFacts
  <1>2. PICK S : S = SlotsOf(node)
    OBVIOUS
  <1>3. S = {u[i] : i \in 1..n} /\ \A i \in 1..n : K(u[i]) \in Int
    BY <1>u, <1>1, <1>2, NodeFacts, SlotKeys
  <1>4. \A i, j \in 1..n : u[i] = u[j] => i = j
    <2>1. ASSUME NEW i \in 1..n, NEW j \in 1..n, u[i] = u[j], i # j PROVE FALSE
      <3>1. i < j \/ j < i
        BY <2>1
      <3>2. K(u[i]) < K(u[j]) \/ K(u[j]) < K(u[i])
        BY <1>u, <1>1, <3>1 DEF Sorted
      <3> QED
        BY <1>3, <2>1, <3>2
    <2> QED
      BY <2>1
  <1>5. PICK f : f = [i \in 1..n |-> u[i]]
    OBVIOUS
  <1>6. f \in Surjection(1..n, S)
    BY <1>3, <1>5 DEF Surjection
  <1>7. f \in Injection(1..n, S)
    BY <1>3, <1>4, <1>5 DEF Injection, IsInjective
  <1>8. IsFiniteSet(1..n) /\ Cardinality(1..n) = n
    <2>1. 1 \in Int /\ n \in Int
      OBVIOUS
    <2>2. Cardinality(1..n) = IF 1 > n THEN 0 ELSE n - 1 + 1
      BY <2>1, FS_Interval
    <2>3. IsFiniteSet(1..n)
      BY <2>1, FS_Interval
    <2> QED
      BY <2>2, <2>3
  <1>9. IsFiniteSet(S) /\ Cardinality(S) = Cardinality(1..n)
    BY <1>6, <1>7, <1>8, FS_Surjection
  <1> QED
    BY <1>u, <1>1, <1>2, <1>8, <1>9

\* A slot is replaced by two at most.
LEMMA TwoForOne ==
  ASSUME OneInteger, NEW node \in Node, Sorted(node), NEW r \in Node, Sorted(r),
         NEW sc \in SlotsOf(node), NEW s1 \in SlotSet, NEW s2 \in SlotSet,
         \A s \in SlotsOf(r) : s = s1 \/ s = s2 \/ (s \in SlotsOf(node) /\ s # sc)
  PROVE  Len(r.values) <= Len(node.values) + 1
  <1>1. PICK S, T : S = SlotsOf(node) /\ T = SlotsOf(r)
    OBVIOUS
  <1>2. PICK n \in Nat, m \in Nat : n = Len(node.values) /\ m = Len(r.values)
    BY NodeFacts
  <1>3. /\ IsFiniteSet(S) /\ Cardinality(S) = n
        /\ IsFiniteSet(T) /\ Cardinality(T) = m
    BY <1>1, <1>2, SlotsCount
  <1>4. PICK A : A = S \ {sc}
    OBVIOUS
  <1>5. IsFiniteSet(A) /\ Cardinality(A) = n - 1
    BY <1>1, <1>3, <1>4, FS_RemoveElement
  <1>6. PICK B : B = A \cup {s1}
    OBVIOUS
  <1>7. IsFiniteSet(B) /\ (Cardinality(B) = n - 1 \/ Cardinality(B) = n)
    <2>1. IsFiniteSet(B) /\ Cardinality(B) = IF s1 \in A THEN Cardinality(A) ELSE Cardinality(A) + 1
      BY <1>5, <1>6, FS_AddElement
    <2> QED
      BY <1>5, <2>1
  <1>8. PICK C : C = B \cup {s2}
    OBVIOUS
  <1>9. IsFiniteSet(C) /\ Cardinality(C) \in Int /\ Cardinality(C) <= n + 1
    <2>1. IsFiniteSet(C) /\ Cardinality(C) = IF s2 \in B THEN Cardinality(B) ELSE Cardinality(B) + 1
      BY <1>7, <1>8, FS_AddElement
    <2> QED
      BY <1>7, <2>1
  <1>10. T \in SUBSET C
    BY <1>1, <1>4, <1>6, <1>8
  <1>11. Cardinality(T) <= Cardinality(C)
    BY <1>9, <1>10, FS_Subset
  <1> QED
    BY <1>2, <1>3, <1>9, <1>11

\* Each half of a node has fewer slots.
LEMMA HalvesShorter ==
  ASSUME OneInteger, NEW node \in Node, Len(node.values) >= 2, NEW id \in PageIds
  PROVE  /\ Len(LowerHalf(node, id).values) < Len(node.values)
         /\ Len(UpperHalf(node).values) < Len(node.values)
  <1>u. PICK u : u = node.values
    OBVIOUS
  <1>1. PICK n \in Nat : n = Len(u)
    BY <1>u, NodeFacts
  <1>2. PICK h : h = n \div 2
    OBVIOUS
  <1>3. h \in Int /\ 1 <= h /\ h < n
    <2>1. n >= 2
      BY <1>u, <1>1
    <2>2. n \div 2 \in Int /\ 1 <= n \div 2 /\ n \div 2 < n
      BY <2>1
    <2> QED
      BY <1>2, <2>2
  <1>4. LowerHalf(node, id).values = SubSeq(u, 1, h) /\ UpperHalf(node).values = SubSeq(u, h + 1, n)
    BY <1>u, <1>1, <1>2 DEF LowerHalf, UpperHalf, Node
  <1>5. \A i \in 1..n : u[i] \in SlotSet
    BY <1>u, <1>1, NodeFacts
  <1>6. Len(SubSeq(u, 1, h)) = h
    <2>1. 1 \in Int /\ h \in Int /\ \A i \in 1..h : u[i] \in SlotSet
      BY <1>3, <1>5
    <2>2. Len(SubSeq(u, 1, h)) = IF 1 <= h THEN h - 1 + 1 ELSE 0
      BY <2>1, SubSeqProperties
    <2> QED
      BY <1>3, <2>2
  <1>7. Len(SubSeq(u, h + 1, n)) = n - h
    <2>1. PICK a : a = h + 1
      OBVIOUS
    <2>2. a \in Int /\ n \in Int /\ a <= n /\ \A i \in a..n : u[i] \in SlotSet
      BY <1>3, <1>5, <2>1
    <2>3. Len(SubSeq(u, a, n)) = IF a <= n THEN n - a + 1 ELSE 0
      BY <2>2, SubSeqProperties
    <2> QED
      BY <1>3, <2>1, <2>2, <2>3
  <1> QED
    BY <1>u, <1>1, <1>3, <1>4, <1>6, <1>7

-----------------------------------------------------------------------------
\* get looks a key up in a leaf, and remove takes its slot out.
LEMMA IndexOfKey ==
  ASSUME OneInteger, NEW node \in Node, NEW key
  PROVE  \/ IndexOf(node, key) = 0 /\ \A s \in SlotsOf(node) : s.key # key
         \/ /\ IndexOf(node, key) \in 1..Len(node.values) /\ IndexOf(node, key) # 0
            /\ node.values[IndexOf(node, key)] \in SlotsOf(node)
            /\ node.values[IndexOf(node, key)].key = key
  <1> DEFINE I == {i \in 1..Len(node.values) : node.values[i].key = key}
  <1>1. /\ Len(node.values) \in Nat
        /\ SlotsOf(node) = {node.values[i] : i \in 1..Len(node.values)}
    BY NodeFacts
  <1>2. IndexOf(node, key) = IF I # {} THEN Min(I) ELSE 0
    BY DEF IndexOf, SelectInSeq
  <1>3. CASE I = {}
    BY <1>1, <1>2, <1>3
  <1>4. CASE I # {}
    <2>1. PICK i \in I : i = Min(I)
      <3>1. I \in SUBSET Nat
        BY <1>1
      <3> HIDE DEF I
      <3> QED
        BY <1>4, <3>1, MinIsLeast
    <2>2. i \in 1..Len(node.values) /\ i # 0 /\ node.values[i].key = key
      BY <1>1
    <2>3. IndexOf(node, key) = i
      BY <1>2, <1>4, <2>1
    <2> HIDE DEF I
    <2> QED
      BY <1>1, <2>2, <2>3
  <1> QED
    BY <1>3, <1>4

\* v is s, of length n, without the element at i.
IsRemovedAt(s, n, i, v) ==
    /\ Len(v) = n - 1
    /\ \A j \in 1..(i - 1) : v[j] = s[j]
    /\ \A j \in (i + 1)..n : v[j - 1] = s[j]

LEMMA RemoveAtProperties ==
  ASSUME NEW S, NEW s \in Seq(S), NEW n \in Nat, n = Len(s), NEW i \in 1..n
  PROVE  RemoveAt(s, i) \in Seq(S) /\ IsRemovedAt(s, n, i, RemoveAt(s, i))
  <1>1. \A j \in 1..n : s[j] \in S
    BY ElementOfSeq
  <1>2. PICK a : a = SubSeq(s, 1, i - 1)
    OBVIOUS
  <1>3. PICK c : c = SubSeq(s, i + 1, n)
    OBVIOUS
  <1>4. /\ a \in Seq(S) /\ Len(a) = i - 1
        /\ \A j \in 1..(i - 1) : a[j] = s[j]
    <2>1. \A j \in 1..(i - 1) : s[j] \in S
      BY <1>1
    <2> QED
      BY <1>2, <2>1, SubSeqProperties
  <1>5. /\ c \in Seq(S) /\ Len(c) = n - i
        /\ \A j \in 1..(n - i) : c[j] = s[i + j]
    <2>1. \A j \in (i + 1)..n : s[j] \in S
      BY <1>1
    <2>2. PICK m \in Int : m = i + 1
      OBVIOUS
    <2>3. /\ c \in Seq(S) /\ Len(c) = IF m <= n THEN n - m + 1 ELSE 0
          /\ \A j \in 1..(n - m + 1) : c[j] = s[m + j - 1]
      BY <1>3, <2>1, <2>2, SubSeqProperties
    <2>4. Len(c) = n - i
      BY <2>2, <2>3
    <2>5. ASSUME NEW j \in 1..(n - i) PROVE c[j] = s[i + j]
      <3>1. j \in 1..(n - m + 1) /\ m + j - 1 = i + j
        BY <2>2
      <3> QED
        BY <2>3, <3>1
    <2> QED
      BY <2>3, <2>4, <2>5
  <1>6. PICK v : v = a \o c
    OBVIOUS
  <1>7. v \in Seq(S) /\ Len(v) = Len(a) + Len(c)
    BY <1>4, <1>5, <1>6, ConcatProperties
  <1>8. \A j \in 1..(Len(a) + Len(c)) : v[j] = IF j <= Len(a) THEN a[j] ELSE c[j - Len(a)]
    BY <1>4, <1>5, <1>6, ConcatProperties
  <1>9. Len(v) = n - 1 /\ \A j \in 1..(i - 1) : v[j] = s[j]
    <2>1. Len(v) = n - 1
      BY <1>4, <1>5, <1>7
    <2>2. ASSUME NEW j \in 1..(i - 1) PROVE v[j] = s[j]
      <3>1. j \in 1..(Len(a) + Len(c)) /\ j <= Len(a)
        BY <1>4, <1>5
      <3> QED
        BY <1>4, <1>8, <3>1
    <2> QED
      BY <2>1, <2>2
  <1>10. ASSUME NEW j \in (i + 1)..n PROVE v[j - 1] = s[j]
    <2>1. /\ j - 1 \in 1..(Len(a) + Len(c)) /\ ~(j - 1 <= Len(a))
          /\ j - 1 - Len(a) = j - i /\ j - i \in 1..(n - i) /\ i + (j - i) = j
      BY <1>4, <1>5
    <2>2. v[j - 1] = c[j - i]
      BY <1>8, <2>1
    <2>3. c[j - i] = s[i + (j - i)]
      BY <1>5, <2>1
    <2> QED
      BY <2>1, <2>2, <2>3
  <1>11. RemoveAt(s, i) = v
    BY <1>2, <1>3, <1>6 DEF RemoveAt
  <1> QED
    BY <1>7, <1>9, <1>10, <1>11 DEF IsRemovedAt

LEMMA RemoveKeyResult ==
  ASSUME OneInteger, NEW node \in Node, Sorted(node), NEW key \in Bounds,
         IndexOf(node, key) # 0
  PROVE  LET r == RemoveKey(node, key)
         IN  /\ r \in Node /\ r.t = node.t /\ r.next = node.next /\ Sorted(r)
             /\ Len(r.values) <= Len(node.values)
             /\ \A s : s \in SlotsOf(r) <=> s \in SlotsOf(node) /\ s.key # key
  <1>1. PICK u : u = node.values
    OBVIOUS
  <1>2. PICK n \in Nat : n = Len(u)
    BY <1>1, NodeFacts
  <1>3. PICK i \in 1..n : i = IndexOf(node, key) /\ u[i].key = key
    BY <1>1, <1>2, IndexOfKey
  <1>4. /\ u \in Seq(SlotSet)
        /\ SlotsOf(node) = {u[j] : j \in 1..n}
        /\ \A j \in 1..n : u[j] \in SlotSet /\ K(u[j]) \in Int
        /\ \A j, l \in 1..n : j < l => K(u[j]) < K(u[l])
    BY <1>1, <1>2, NodeFacts, SlotKeys DEF Sorted
  <1>5. PICK v : v = RemoveAt(u, i)
    OBVIOUS
  <1>6. /\ v \in Seq(SlotSet) /\ Len(v) = n - 1
        /\ \A j \in 1..(i - 1) : v[j] = u[j]
        /\ \A j \in (i + 1)..n : v[j - 1] = u[j]
    <2>1. v \in Seq(SlotSet) /\ IsRemovedAt(u, n, i, v)
      BY <1>2, <1>4, <1>5, RemoveAtProperties
    <2> QED
      BY <2>1 DEF IsRemovedAt
  <1>7. PICK r : r = [node EXCEPT !.values = v]
    OBVIOUS
  <1>8. /\ r \in Node /\ r.t = node.t /\ r.next = node.next /\ r.values = v
        /\ SlotsOf(r) = {v[j] : j \in 1..(n - 1)}
    BY <1>6, <1>7, WithValues
  <1>9. ASSUME NEW j \in 1..(n - 1)
        PROVE  \/ j < i /\ j \in 1..n /\ v[j] = u[j]
               \/ j >= i /\ j + 1 \in 1..n /\ v[j] = u[j + 1]
    <2>1. CASE j < i
      BY <1>6, <2>1
    <2>2. CASE j >= i
      <3>1. j + 1 \in (i + 1)..n /\ (j + 1) - 1 = j /\ j + 1 \in 1..n
        BY <2>2
      <3> QED
        BY <1>6, <2>2, <3>1
    <2> QED
      BY <2>1, <2>2
  <1>10. ASSUME NEW j \in 1..(n - 1), NEW l \in 1..(n - 1), j < l
         PROVE  K(v[j]) < K(v[l])
    <2>1. CASE l < i
      BY <1>4, <1>9, <1>10, <2>1
    <2>2. CASE l >= i /\ j < i
      <3>1. v[j] = u[j] /\ v[l] = u[l + 1] /\ j \in 1..n /\ l + 1 \in 1..n /\ j < l + 1
        BY <1>9, <1>10, <2>2
      <3> QED
        BY <1>4, <3>1
    <2>3. CASE j >= i
      <3>1. /\ v[j] = u[j + 1] /\ v[l] = u[l + 1]
            /\ j + 1 \in 1..n /\ l + 1 \in 1..n /\ j + 1 < l + 1
        BY <1>9, <1>10, <2>3
      <3> QED
        BY <1>4, <3>1
    <2> QED
      BY <1>10, <2>1, <2>2, <2>3
  <1>11. Sorted(r)
    BY <1>6, <1>8, <1>10 DEF Sorted
  <1>12. \A j \in 1..n : u[j].key = key <=> j = i
    <2>1. ASSUME NEW j \in 1..n, j # i PROVE u[j].key # key
      <3>1. K(u[j]) # K(u[i])
        <4>1. j < i \/ i < j
          BY <2>1
        <4> QED
          BY <1>4, <4>1
      <3> QED
        BY <1>3, <3>1 DEF K
    <2> QED
      BY <1>3, <2>1
  <1>13. ASSUME NEW s PROVE s \in SlotsOf(r) <=> s \in SlotsOf(node) /\ s.key # key
    <2>1. ASSUME NEW j \in 1..(n - 1) PROVE v[j] \in SlotsOf(node) /\ v[j].key # key
      <3>1. CASE j < i
        <4>1. v[j] = u[j] /\ j \in 1..n /\ j # i
          BY <1>9, <3>1
        <4> QED
          BY <1>4, <1>12, <4>1
      <3>2. CASE j >= i
        <4>1. v[j] = u[j + 1] /\ j + 1 \in 1..n /\ j + 1 # i
          BY <1>9, <3>2
        <4> QED
          BY <1>4, <1>12, <4>1
      <3> QED
        BY <3>1, <3>2
    <2>2. ASSUME NEW j \in 1..n, j # i PROVE u[j] \in SlotsOf(r)
      <3>1. CASE j < i
        <4>1. j \in 1..(i - 1) /\ j \in 1..(n - 1)
          BY <3>1
        <4> QED
          BY <1>6, <1>8, <4>1
      <3>2. CASE j > i
        <4>1. j \in (i + 1)..n /\ j - 1 \in 1..(n - 1)
          BY <3>2
        <4> QED
          BY <1>6, <1>8, <4>1
      <3> QED
        BY <2>2, <3>1, <3>2
    <2>3. s \in SlotsOf(r) => s \in SlotsOf(node) /\ s.key # key
      BY <1>8, <2>1
    <2>4. s \in SlotsOf(node) /\ s.key # key => s \in SlotsOf(r)
      BY <1>4, <1>12, <2>2
    <2> QED
      BY <2>3, <2>4
  <1>14. RemoveKey(node, key) = r
    BY <1>1, <1>3, <1>5, <1>7 DEF RemoveKey
  <1> QED
    BY <1>1, <1>2, <1>6, <1>8, <1>11, <1>13, <1>14

-----------------------------------------------------------------------------
(***************************************************************************)
(* A forest F: pages, each with a level and a range [lo, hi) of keys.      *)
(* Level 0 is the leaves; the pages of level top have no parents.          *)
(***************************************************************************)
ForestTyped(F, top) ==
    /\ F.pages \subseteq PageIds
    /\ F.lv \in [F.pages -> 0..top]
    /\ F.lo \in [F.pages -> Int]
    /\ F.hi \in [F.pages -> Int]

\* The ranges of a level do not overlap.
Apart(F) ==
    /\ \A p \in F.pages : F.lo[p] < F.hi[p]
    /\ \A p, q \in F.pages :
          p # q /\ F.lv[p] = F.lv[q] => F.hi[p] <= F.lo[q] \/ F.hi[q] <= F.lo[p]

\* A leaf has keys of its range.
LeafOK(F, nd, p) ==
    /\ nd[p].t = "Leaf" /\ Sorted(nd[p])
    /\ \A s \in SlotsOf(nd[p]) : s.key \in Keys /\ F.lo[p] <= K(s) /\ K(s) < F.hi[p]

\* The children of an internal node divide its range at their bounds.
ChildOK(F, S, p, s) ==
    /\ s.val \in F.pages /\ F.lv[s.val] + 1 = F.lv[p]
    /\ F.hi[s.val] = K(s) /\ K(s) <= F.hi[p]
    /\ F.lo[p] <= F.lo[s.val]
    /\ F.lo[s.val] = F.lo[p] \/ \E t \in S : K(t) = F.lo[s.val]
    /\ \A t \in S : K(t) < K(s) => K(t) <= F.lo[s.val]

InnerOK(F, nd, p) ==
    /\ nd[p].t = "Internal" /\ nd[p].next = None /\ Sorted(nd[p])
    /\ \A s \in SlotsOf(nd[p]) : ChildOK(F, SlotsOf(nd[p]), p, s)
    /\ \E s \in SlotsOf(nd[p]) : K(s) = F.hi[p]

HasParent(F, nd, q) ==
    \E p \in F.pages : /\ F.lv[p] = F.lv[q] + 1
                       /\ \E s \in SlotsOf(nd[p]) : s.val = q

\* next leads to the leaf with the next range, None from the last one.
Linked(F, nd, p) ==
    \/ /\ nd[p].next = None
       /\ \A q \in F.pages : F.lv[q] = 0 => F.lo[q] <= F.lo[p]
    \/ /\ nd[p].next \in F.pages /\ F.lv[nd[p].next] = 0
       /\ F.lo[p] < F.lo[nd[p].next]
       /\ \A q \in F.pages : F.lv[q] = 0 /\ F.lo[p] < F.lo[q] => F.lo[nd[p].next] <= F.lo[q]

Forest(F, nd, top) ==
    /\ ForestTyped(F, top)
    /\ Apart(F)
    /\ \A p \in F.pages : F.lv[p] = 0 => LeafOK(F, nd, p) /\ Linked(F, nd, p)
    /\ \A p \in F.pages : F.lv[p] > 0 => InnerOK(F, nd, p)
    /\ \A q \in F.pages : F.lv[q] < top => HasParent(F, nd, q)

\* The range of a leaf ends behind its last key, until keys are deleted.
Tight(F, nd) ==
    \A p \in F.pages : F.lv[p] = 0 => \E s \in SlotsOf(nd[p]) : K(s) + 1 = F.hi[p]

\* s is in a leaf.
InLeaves(F, nd, s) == \E p \in F.pages : F.lv[p] = 0 /\ s \in SlotsOf(nd[p])

LEMMA SameNodesSameForest ==
  ASSUME NEW F, NEW nd, NEW nd2, NEW top, \A q \in F.pages : nd2[q] = nd[q],
         Forest(F, nd, top), Tight(F, nd)
  PROVE  /\ Forest(F, nd2, top) /\ Tight(F, nd2)
         /\ \A s : InLeaves(F, nd2, s) <=> InLeaves(F, nd, s)
  <1>1. \A q \in F.pages : LeafOK(F, nd, q) => LeafOK(F, nd2, q)
    BY DEF LeafOK
  <1>2. \A q \in F.pages : Linked(F, nd, q) => Linked(F, nd2, q)
    BY DEF Linked
  <1>3. \A q \in F.pages : InnerOK(F, nd, q) => InnerOK(F, nd2, q)
    BY DEF InnerOK
  <1>4. \A q \in F.pages : HasParent(F, nd, q) => HasParent(F, nd2, q)
    BY DEF HasParent
  <1>5. Forest(F, nd2, top)
    BY <1>1, <1>2, <1>3, <1>4 DEF Forest
  <1>6. Tight(F, nd2)
    BY DEF Tight
  <1>7. \A s : InLeaves(F, nd2, s) <=> InLeaves(F, nd, s)
    BY DEF InLeaves
  <1> QED
    BY <1>5, <1>6, <1>7

\* The levels of a forest below the top.
LowerLevels(F, L) ==
    LET P == {q \in F.pages : F.lv[q] < L}
    IN  [pages |-> P, lv |-> [q \in P |-> F.lv[q]],
         lo |-> [q \in P |-> F.lo[q]], hi |-> [q \in P |-> F.hi[q]]]

LEMMA LowerForest ==
  ASSUME NEW F, NEW nd, NEW L \in Nat, L > 0, Forest(F, nd, L), Tight(F, nd)
  PROVE  LET E == LowerLevels(F, L)
         IN  /\ Forest(E, nd, L - 1) /\ Tight(E, nd)
             /\ E.pages = {q \in F.pages : F.lv[q] < L}
             /\ \A q \in E.pages : E.lv[q] = F.lv[q] /\ E.lo[q] = F.lo[q] /\ E.hi[q] = F.hi[q]
             /\ \A s : InLeaves(E, nd, s) <=> InLeaves(F, nd, s)
  <1>1. PICK E : E = LowerLevels(F, L)
    OBVIOUS
  <1>2. /\ E.pages = {q \in F.pages : F.lv[q] < L}
        /\ E.lv = [q \in E.pages |-> F.lv[q]]
        /\ E.lo = [q \in E.pages |-> F.lo[q]]
        /\ E.hi = [q \in E.pages |-> F.hi[q]]
    BY <1>1 DEF LowerLevels
  <1>3. \A q \in E.pages : E.lv[q] = F.lv[q] /\ E.lo[q] = F.lo[q] /\ E.hi[q] = F.hi[q]
    BY <1>2
  <1>4. ForestTyped(F, L)
    BY DEF Forest
  <1>5. \A q \in F.pages : F.lv[q] \in Nat /\ F.lv[q] <= L /\ F.lo[q] \in Int /\ F.hi[q] \in Int
    BY <1>4 DEF ForestTyped
  <1>6. ForestTyped(E, L - 1)
    <2>1. \A q \in E.pages : F.lv[q] \in 0..(L - 1)
      BY <1>2, <1>5
    <2> QED
      BY <1>2, <1>4, <1>5, <2>1 DEF ForestTyped
  <1>7. Apart(E)
    BY <1>2, <1>3 DEF Apart, Forest
  <1>8. \A q \in F.pages : F.lv[q] = 0 => q \in E.pages
    BY <1>2
  <1>9. ASSUME NEW p \in E.pages, E.lv[p] = 0 PROVE LeafOK(E, nd, p) /\ Linked(E, nd, p)
    <2>1. p \in F.pages /\ F.lv[p] = 0 /\ LeafOK(F, nd, p) /\ Linked(F, nd, p)
      BY <1>2, <1>3, <1>9 DEF Forest
    <2>2. LeafOK(E, nd, p)
      BY <1>3, <2>1 DEF LeafOK
    <2>3. \A q \in E.pages : q \in F.pages
      BY <1>2
    <2>4. Linked(E, nd, p)
      BY <1>3, <1>8, <2>1, <2>3 DEF Linked
    <2> QED
      BY <2>2, <2>4
  <1>10. ASSUME NEW p \in E.pages, E.lv[p] > 0 PROVE InnerOK(E, nd, p)
    <2>1. p \in F.pages /\ F.lv[p] > 0 /\ F.lv[p] < L /\ InnerOK(F, nd, p)
      BY <1>2, <1>3, <1>10 DEF Forest
    <2>2. ASSUME NEW s \in SlotsOf(nd[p]) PROVE ChildOK(E, SlotsOf(nd[p]), p, s)
      <3>1. ChildOK(F, SlotsOf(nd[p]), p, s)
        BY <2>1 DEF InnerOK
      <3>2. s.val \in E.pages
        BY <1>2, <1>5, <2>1, <3>1 DEF ChildOK
      <3> QED
        BY <1>3, <3>1, <3>2 DEF ChildOK
    <2> QED
      BY <1>3, <2>1, <2>2 DEF InnerOK
  <1>11. ASSUME NEW q \in E.pages, E.lv[q] < L - 1 PROVE HasParent(E, nd, q)
    <2>1. q \in F.pages /\ F.lv[q] < L - 1 /\ F.lv[q] \in Nat
      BY <1>2, <1>3, <1>5, <1>11
    <2>2. HasParent(F, nd, q)
      BY <2>1 DEF Forest
    <2>3. PICK p \in F.pages : F.lv[p] = F.lv[q] + 1 /\ \E s \in SlotsOf(nd[p]) : s.val = q
      BY <2>2 DEF HasParent
    <2>4. p \in E.pages
      BY <1>2, <2>1, <2>3
    <2> QED
      BY <1>3, <2>3, <2>4 DEF HasParent
  <1>12. Forest(E, nd, L - 1)
    BY <1>6, <1>7, <1>9, <1>10, <1>11 DEF Forest
  <1>13. Tight(E, nd)
    BY <1>2, <1>3 DEF Tight
  <1>14. \A s : InLeaves(E, nd, s) <=> InLeaves(F, nd, s)
    BY <1>2, <1>3, <1>8 DEF InLeaves
  <1> QED
    BY <1>1, <1>2, <1>3, <1>12, <1>13, <1>14

-----------------------------------------------------------------------------
(***************************************************************************)
(* What an insert needs: page p of level L of the forest is on the way to  *)
(* the key, which is new and below the pages behind p.                     *)
(***************************************************************************)
Reaches(F, p, k, L) ==
    /\ p \in F.pages /\ F.lv[p] = L /\ F.lo[p] <= k
    /\ \A q \in F.pages : F.lv[q] = L /\ F.lo[p] < F.lo[q] => k < F.lo[q]

Ready(F, nd, np, p, key, L) ==
    /\ Forest(F, nd, L) /\ Tight(F, nd)
    /\ F.pages \subseteq 0..(np - 1)
    /\ Reaches(F, p, key[1], L)
    /\ \A s : InLeaves(F, nd, s) => K(s) # key[1]

\* The upper end of the range of p with k in it.
Raised(F, p, k) == IF k < F.hi[p] THEN F.hi[p] ELSE k + 1

(***************************************************************************)
(* What an insert through p makes of the forest F and the nodes nd: G has  *)
(* the pages of F, new ones from np on, and slot in a leaf.  At the top    *)
(* only the upper end of p moves.                                          *)
(***************************************************************************)
Grown(F, nd, np, G, nd2, np2, p, L, slot) ==
    /\ Forest(G, nd2, L) /\ Tight(G, nd2)
    /\ G.pages \subseteq 0..(np2 - 1)
    /\ F.pages \subseteq G.pages
    /\ \A q \in F.pages : G.lv[q] = F.lv[q]
    /\ \A q \in G.pages : q \notin F.pages => q >= np
    /\ \A s : InLeaves(G, nd2, s) <=> InLeaves(F, nd, s) \/ s = slot
    /\ \A q \in F.pages : F.lv[q] = L =>
          G.lo[q] = F.lo[q] /\ (q # p => G.hi[q] = F.hi[q])
    /\ \A q \in PageIds : q < np /\ q \notin F.pages => nd2[q] = nd[q]

\* No page is added at the top.
IntoDone(F, nd, np, p, L, key, val, st2) ==
    \E G : /\ Grown(F, nd, np, G, st2.nodes, st2.np, p, L, Slot(key, val))
           /\ \A q \in G.pages : G.lv[q] = L => q \in F.pages
           /\ G.hi[p] = Raised(F, p, key[1])

LEMMA ReadyFacts ==
  ASSUME NEW F, NEW nd, NEW np \in Nat, NEW p, NEW key, NEW L \in Nat,
         Ready(F, nd, np, p, key, L)
  PROVE  /\ p \in F.pages /\ p \in PageIds /\ F.lv[p] = L
         /\ F.pages \subseteq PageIds
         /\ \A q \in F.pages : /\ F.lv[q] \in Nat /\ F.lv[q] <= L
                               /\ F.lo[q] \in Int /\ F.hi[q] \in Int /\ F.lo[q] < F.hi[q]
                               /\ q < np
  <1>1. ForestTyped(F, L) /\ Apart(F) /\ F.pages \subseteq 0..(np - 1)
        /\ p \in F.pages /\ F.lv[p] = L
    BY DEF Ready, Reaches, Forest
  <1>2. \A q \in F.pages : q < np
    BY <1>1
  <1>3. \A q \in F.pages : F.lv[q] \in Nat /\ F.lv[q] <= L
    BY <1>1 DEF ForestTyped
  <1> QED
    BY <1>1, <1>2, <1>3 DEF ForestTyped, Apart

\* The key goes into a leaf.
LEMMA LeafInserted ==
  ASSUME OneInteger, NEW key \in Keys, NEW val \in Values,
         NEW F, NEW nd \in [PageIds -> Node], NEW np \in Nat, NEW p,
         Ready(F, nd, np, p, key, 0),
         NEW r, IsReplaced(nd[p], Slot(key, val), r),
         NEW st2, st2.nodes = [nd EXCEPT ![p] = r], st2.np = np
  PROVE  IntoDone(F, nd, np, p, 0, key, val, st2)
  <1>1. /\ p \in F.pages /\ p \in PageIds /\ F.pages \subseteq PageIds
        /\ \A q \in F.pages : /\ F.lv[q] = 0 /\ F.lo[q] \in Int /\ F.hi[q] \in Int
                              /\ F.lo[q] < F.hi[q]
    <2>1. PICK L \in Nat : L = 0
      OBVIOUS
    <2>2. Ready(F, nd, np, p, key, L)
      BY <2>1
    <2>3. /\ p \in F.pages /\ p \in PageIds /\ F.pages \subseteq PageIds
          /\ \A q \in F.pages : /\ F.lv[q] \in Nat /\ F.lv[q] <= L
                                /\ F.lo[q] \in Int /\ F.hi[q] \in Int /\ F.lo[q] < F.hi[q]
      BY <2>2, ReadyFacts
    <2> QED
      BY <2>1, <2>3
  <1>2. PICK slot : slot = Slot(key, val)
    OBVIOUS
  <1>3. PICK k \in Int : k = key[1] /\ K(slot) = k /\ slot.key = key
    BY <1>2 DEF OneInteger, Slot, K
  <1>4. PICK m : m = Raised(F, p, k)
    OBVIOUS
  <1>5. m \in Int /\ F.hi[p] <= m /\ k < m /\ (F.hi[p] <= k => m = k + 1)
        /\ (k < F.hi[p] => m = F.hi[p])
    BY <1>1, <1>3, <1>4 DEF Raised
  <1>6. F.lo[p] <= k /\ \A q \in F.pages : F.lo[p] < F.lo[q] => k < F.lo[q]
    BY <1>1, <1>3 DEF Ready, Reaches
  <1>7. PICK G : G = [pages |-> F.pages, lv |-> F.lv, lo |-> F.lo,
                      hi |-> [F.hi EXCEPT ![p] = m]]
    OBVIOUS
  <1>8. F.hi \in [F.pages -> Int] /\ F.lv \in [F.pages -> 0..0] /\ F.lo \in [F.pages -> Int]
    BY DEF Ready, Forest, ForestTyped
  <1>9. /\ G.pages = F.pages /\ G.lv = F.lv /\ G.lo = F.lo
        /\ G.hi \in [F.pages -> Int] /\ G.hi[p] = m
        /\ \A q \in F.pages : q # p => G.hi[q] = F.hi[q]
    BY <1>1, <1>5, <1>7, <1>8
  <1>10. PICK nd2 : nd2 = st2.nodes
    OBVIOUS
  <1>11. nd2[p] = r /\ \A q \in PageIds : q # p => nd2[q] = nd[q]
    BY <1>1, <1>10
  <1>12. /\ r.t = nd[p].t /\ r.next = nd[p].next /\ Sorted(r)
         /\ \A s : s \in SlotsOf(r) <=> s = slot \/ (s \in SlotsOf(nd[p]) /\ K(s) # k)
    BY <1>2, <1>3 DEF IsReplaced
  <1>13. \A q \in F.pages : LeafOK(F, nd, q) /\ Linked(F, nd, q)
    BY <1>1 DEF Ready, Forest
  <1>14. \A s \in SlotsOf(nd[p]) : K(s) # k
    BY <1>1, <1>3 DEF Ready, InLeaves
  <1>15. ForestTyped(G, 0)
    BY <1>1, <1>8, <1>9 DEF ForestTyped
  <1>16. Apart(G)
    <2>1. \A q \in F.pages : G.lo[q] < G.hi[q]
      BY <1>1, <1>5, <1>9
    <2>2. ASSUME NEW q \in F.pages, q # p PROVE G.hi[p] <= G.lo[q] \/ G.hi[q] <= G.lo[p]
      <3>1. F.hi[p] <= F.lo[q] \/ F.hi[q] <= F.lo[p]
        BY <1>1, <2>2 DEF Ready, Forest, Apart
      <3>2. CASE F.hi[p] <= F.lo[q]
        <4>1. F.lo[p] < F.lo[q]
          BY <1>1, <3>2
        <4>2. k < F.lo[q]
          BY <1>6, <4>1
        <4> QED
          BY <1>1, <1>5, <1>9, <3>2, <4>2
      <3> QED
        BY <1>9, <2>2, <3>1, <3>2
    <2>3. ASSUME NEW q \in F.pages, NEW q2 \in F.pages, q # q2, q # p, q2 # p
          PROVE  G.hi[q] <= G.lo[q2] \/ G.hi[q2] <= G.lo[q]
      BY <1>1, <1>9, <2>3 DEF Ready, Forest, Apart
    <2> QED
      BY <1>9, <2>1, <2>2, <2>3 DEF Apart
  <1>17. ASSUME NEW q \in F.pages PROVE LeafOK(G, nd2, q)
    <2>1. CASE q = p
      <3>1. \A s \in SlotsOf(nd[p]) : s.key \in Keys /\ F.lo[p] <= K(s) /\ K(s) < F.hi[p]
            /\ K(s) \in Int
        <4>1. \A s \in SlotsOf(nd[p]) : s.key \in Keys /\ F.lo[p] <= K(s) /\ K(s) < F.hi[p]
          BY <1>1, <1>13 DEF LeafOK
        <4> QED
          BY <4>1 DEF K, OneInteger
      <3>2. \A s \in SlotsOf(r) : s.key \in Keys /\ F.lo[p] <= K(s) /\ K(s) < m
        BY <1>1, <1>3, <1>5, <1>6, <1>12, <3>1
      <3> QED
        BY <1>1, <1>9, <1>11, <1>12, <1>13, <2>1, <3>2 DEF LeafOK
    <2>2. CASE q # p
      BY <1>1, <1>9, <1>11, <1>13, <2>2 DEF LeafOK
    <2> QED
      BY <2>1, <2>2
  <1>18. ASSUME NEW q \in F.pages PROVE Linked(G, nd2, q)
    <2>1. nd2[q].next = nd[q].next
      BY <1>1, <1>11, <1>12
    <2> QED
      BY <1>9, <1>13, <2>1 DEF Linked
  <1>19. Forest(G, nd2, 0)
    BY <1>1, <1>9, <1>15, <1>16, <1>17, <1>18 DEF Forest
  <1>20. Tight(G, nd2)
    <2>1. \A q \in F.pages : \E s \in SlotsOf(nd[q]) : K(s) + 1 = F.hi[q]
      BY <1>1 DEF Ready, Tight
    <2>2. \E s \in SlotsOf(nd2[p]) : K(s) + 1 = m
      <3>1. CASE F.hi[p] <= k
        BY <1>3, <1>5, <1>11, <1>12, <3>1
      <3>2. CASE k < F.hi[p]
        BY <1>1, <1>5, <1>11, <1>12, <1>14, <2>1, <3>2
      <3> QED
        BY <1>1, <1>3, <3>1, <3>2
    <2> QED
      BY <1>1, <1>9, <1>11, <2>1, <2>2 DEF Tight
  <1>21. ASSUME NEW s PROVE InLeaves(G, nd2, s) <=> InLeaves(F, nd, s) \/ s = slot
    <2>1. InLeaves(G, nd2, s) <=> \E q \in F.pages : s \in SlotsOf(nd2[q])
      BY <1>1, <1>9 DEF InLeaves
    <2>2. InLeaves(F, nd, s) <=> \E q \in F.pages : s \in SlotsOf(nd[q])
      BY <1>1 DEF InLeaves
    <2>3. s \in SlotsOf(nd2[p]) <=> s \in SlotsOf(nd[p]) \/ s = slot
      BY <1>11, <1>12, <1>14
    <2>4. \A q \in F.pages : q # p => nd2[q] = nd[q]
      BY <1>1, <1>11
    <2> QED
      BY <1>1, <2>1, <2>2, <2>3, <2>4
  <1>22. Grown(F, nd, np, G, nd2, np, p, 0, slot)
    BY <1>1, <1>9, <1>11, <1>19, <1>20, <1>21 DEF Grown, Ready
  <1> QED
    BY <1>1, <1>2, <1>3, <1>4, <1>9, <1>10, <1>22 DEF IntoDone

-----------------------------------------------------------------------------
\* A forest after page p of its top level was split at m, with n for the upper half.
IsSplitForest(F, p, n, m, G) ==
    /\ G.pages = F.pages \cup {n}
    /\ G.lv \in [G.pages -> Int] /\ G.lo \in [G.pages -> Int] /\ G.hi \in [G.pages -> Int]
    /\ G.lv[n] = F.lv[p] /\ G.lo[n] = m /\ G.hi[n] = F.hi[p] /\ G.hi[p] = m
    /\ \A q \in F.pages : /\ G.lv[q] = F.lv[q] /\ G.lo[q] = F.lo[q]
                          /\ q # p => G.hi[q] = F.hi[q]

LEMMA SplitForestExists ==
  ASSUME NEW F, NEW L \in Nat, ForestTyped(F, L), NEW p \in F.pages, NEW n, n \notin F.pages,
         NEW m \in Int
  PROVE  \E G : IsSplitForest(F, p, n, m, G)
  <1>1. PICK P : P = F.pages \cup {n}
    OBVIOUS
  <1>2. PICK G : G = [pages |-> P, lv |-> [q \in P |-> IF q = n THEN F.lv[p] ELSE F.lv[q]],
                      lo |-> [q \in P |-> IF q = n THEN m ELSE F.lo[q]],
                      hi |-> [q \in P |-> IF q = n THEN F.hi[p]
                                          ELSE IF q = p THEN m ELSE F.hi[q]]]
    OBVIOUS
  <1>3. \A q \in F.pages : F.lv[q] \in Int /\ F.lo[q] \in Int /\ F.hi[q] \in Int
    BY DEF ForestTyped
  <1>4. G.pages = P /\ p \in P /\ n \in P /\ p # n /\ \A q \in F.pages : q \in P /\ q # n
    BY <1>1, <1>2
  <1>5. \A q \in P : G.lv[q] = IF q = n THEN F.lv[p] ELSE F.lv[q]
    BY <1>2
  <1>6. \A q \in P : G.lo[q] = IF q = n THEN m ELSE F.lo[q]
    BY <1>2
  <1>7. \A q \in P : G.hi[q] = IF q = n THEN F.hi[p] ELSE IF q = p THEN m ELSE F.hi[q]
    BY <1>2
  <1>8. /\ G.lv \in [G.pages -> Int] /\ G.lo \in [G.pages -> Int] /\ G.hi \in [G.pages -> Int]
    BY <1>1, <1>2, <1>3
  <1>9. G.lv[n] = F.lv[p] /\ G.lo[n] = m /\ G.hi[n] = F.hi[p] /\ G.hi[p] = m
    BY <1>4, <1>5, <1>6, <1>7
  <1>10. \A q \in F.pages : /\ G.lv[q] = F.lv[q] /\ G.lo[q] = F.lo[q]
                            /\ q # p => G.hi[q] = F.hi[q]
    BY <1>4, <1>5, <1>6, <1>7
  <1>11. G.pages = F.pages \cup {n}
    BY <1>1, <1>4
  <1>12. IsSplitForest(F, p, n, m, G)
    BY <1>8, <1>9, <1>10, <1>11 DEF IsSplitForest
  <1> QED
    BY <1>12

\* The levels and ranges of a forest.
LEMMA ForestFacts ==
  ASSUME NEW F, NEW nd, NEW L \in Nat, Forest(F, nd, L)
  PROVE  \A q \in F.pages : /\ q \in PageIds /\ F.lv[q] \in Nat /\ F.lv[q] <= L
                            /\ F.lo[q] \in Int /\ F.hi[q] \in Int /\ F.lo[q] < F.hi[q]
  <1>1. ForestTyped(F, L) /\ Apart(F)
    BY DEF Forest
  <1>2. \A q \in F.pages : F.lv[q] \in Nat /\ F.lv[q] <= L
    BY <1>1 DEF ForestTyped
  <1> QED
    BY <1>1, <1>2 DEF ForestTyped, Apart

\* The ranges of the split.
LEMMA SplitApart ==
  ASSUME NEW F, NEW nd, NEW L \in Nat, Forest(F, nd, L), NEW p \in F.pages, F.lv[p] = L,
         NEW n \in PageIds, n \notin F.pages,
         NEW m \in Int, F.lo[p] < m, m < F.hi[p], NEW G, IsSplitForest(F, p, n, m, G)
  PROVE  ForestTyped(G, L) /\ Apart(G)
  <1>1. \A q \in F.pages : /\ q \in PageIds /\ F.lv[q] \in Nat /\ F.lv[q] <= L
                           /\ F.lo[q] \in Int /\ F.hi[q] \in Int /\ F.lo[q] < F.hi[q]
    BY ForestFacts
  <1>2. ForestTyped(G, L)
    <2>1. \A q \in G.pages : G.lv[q] \in 0..L
      BY <1>1 DEF IsSplitForest
    <2> QED
      BY <1>1, <2>1 DEF ForestTyped, IsSplitForest
  <1>3. \A q \in G.pages : G.lo[q] < G.hi[q]
    BY <1>1 DEF IsSplitForest
  <1>4. ASSUME NEW q \in F.pages, q # p, F.lv[q] = L
        PROVE  F.hi[p] <= F.lo[q] \/ F.hi[q] <= F.lo[p]
    BY <1>4 DEF Forest, Apart
  <1>5. ASSUME NEW q \in F.pages, q # p, F.lv[q] = L
        PROVE  /\ G.hi[p] <= G.lo[q] \/ G.hi[q] <= G.lo[p]
               /\ G.hi[n] <= G.lo[q] \/ G.hi[q] <= G.lo[n]
    BY <1>1, <1>4, <1>5 DEF IsSplitForest
  <1>6. ASSUME NEW q \in F.pages, NEW r \in F.pages, q # r, q # p, r # p, F.lv[q] = F.lv[r]
        PROVE  G.hi[q] <= G.lo[r] \/ G.hi[r] <= G.lo[q]
    BY <1>6 DEF IsSplitForest, Forest, Apart
  <1>7. G.hi[p] <= G.lo[n]
    BY DEF IsSplitForest
  <1>8. ASSUME NEW q \in G.pages, NEW r \in G.pages, q # r, G.lv[q] = G.lv[r]
        PROVE  G.hi[q] <= G.lo[r] \/ G.hi[r] <= G.lo[q]
    <2>1. CASE q \in F.pages /\ r \in F.pages /\ q # p /\ r # p
      BY <1>6, <1>8, <2>1 DEF IsSplitForest
    <2>2. CASE q = n
      BY <1>5, <1>7, <1>8, <2>2 DEF IsSplitForest
    <2>3. CASE r = n
      BY <1>5, <1>7, <1>8, <2>3 DEF IsSplitForest
    <2>4. CASE q = p /\ r \in F.pages
      BY <1>5, <1>8, <2>4 DEF IsSplitForest
    <2>5. CASE r = p /\ q \in F.pages
      BY <1>5, <1>8, <2>5 DEF IsSplitForest
    <2> QED
      BY <2>1, <2>2, <2>3, <2>4, <2>5 DEF IsSplitForest
  <1> QED
    BY <1>2, <1>3, <1>8 DEF Apart

\* Of the lower half's slots S1 and the upper half's slots S2, m divides the keys.
Divides(F, node, S1, S2, p, m) ==
    /\ \A s : s \in SlotsOf(node) <=> s \in S1 \/ s \in S2
    /\ \A s \in S1, t \in S2 : K(s) < K(t)
    /\ F.lo[p] < m /\ m < F.hi[p]
    /\ IF node.t = "Leaf" THEN /\ \A s \in S1 : K(s) < m
                               /\ \A s \in S2 : m <= K(s)
                               /\ \E s \in S1 : K(s) + 1 = m
       ELSE /\ \A s \in S1 : K(s) <= m
            /\ \A s \in S2 : m < K(s)
            /\ \E s \in S1 : K(s) = m

\* Where the two halves of a node meet.
LEMMA SplitPoint ==
  ASSUME OneInteger, NEW nd \in [PageIds -> Node], NEW F, NEW L \in Nat, Forest(F, nd, L),
         NEW p \in F.pages, NEW n \in PageIds, Len(nd[p].values) >= 2,
         NEW key \in Keys, \A s \in SlotsOf(nd[p]) : nd[p].t = "Leaf" => K(s) # key[1]
  PROVE  \E m \in Int :
            /\ Divides(F, nd[p], SlotsOf(LowerHalf(nd[p], n)), SlotsOf(UpperHalf(nd[p])), p, m)
            /\ GoesRight(LowerHalf(nd[p], n), key) <=> m <= key[1]
  <1>1. PICK node : node = nd[p]
    OBVIOUS
  <1>2. PICK lower : lower = LowerHalf(node, n)
    OBVIOUS
  <1>3. PICK upper : upper = UpperHalf(node)
    OBVIOUS
  <1>4. p \in PageIds /\ node \in Node
    BY <1>1, ForestFacts
  <1>5. F.lv[p] \in Nat /\ F.lo[p] \in Int /\ F.hi[p] \in Int /\ F.lo[p] < F.hi[p]
    BY ForestFacts
  <1>6. \/ F.lv[p] = 0 /\ LeafOK(F, nd, p)
        \/ F.lv[p] > 0 /\ InnerOK(F, nd, p)
    BY <1>5 DEF Forest
  <1>7. Sorted(node)
    BY <1>1, <1>6 DEF LeafOK, InnerOK
  <1>8. /\ lower \in Node /\ lower.t = node.t /\ Sorted(lower) /\ SlotsOf(lower) # {}
        /\ upper \in Node /\ SlotsOf(upper) # {}
        /\ SlotsOf(node) = SlotsOf(lower) \cup SlotsOf(upper)
        /\ \A s \in SlotsOf(lower), t \in SlotsOf(upper) : K(s) < K(t)
    BY <1>1, <1>2, <1>3, <1>4, <1>7, Halves
  <1>9. PICK l : l = Last(lower.values)
    OBVIOUS
  <1>10. l \in SlotsOf(lower) /\ \A s \in SlotsOf(lower) : K(s) <= K(l)
    BY <1>8, <1>9, LastSlot
  <1>11. \A s \in SlotsOf(lower) \cup SlotsOf(upper) : s \in SlotSet
    BY <1>8, NodeFacts
  <1>12. \A s \in SlotsOf(lower) \cup SlotsOf(upper) : K(s) \in Int
    BY <1>11, SlotKeys
  <1>13. PICK t \in SlotsOf(upper) : TRUE
    BY <1>8
  <1>14. K(l) \in Int /\ K(t) \in Int /\ K(l) < K(t)
    BY <1>8, <1>10, <1>12, <1>13
  <1>15. PICK k \in Int : k = key[1]
    BY BoundsAreIntegers DEF Bounds
  <1>16. GoesRight(lower, key) <=> ~(k < K(l))
    <2>1. lower.tys = KeyTypes /\ LastKey(lower) = l.key
      BY <1>8, <1>9 DEF Node, LastKey
    <2>2. l.key \in Bounds /\ key \in Bounds
      BY <1>10, <1>11, SlotKeys DEF Bounds
    <2>3. KeyLess(KeyTypes, key, l.key) <=> key[1] < l.key[1]
      BY <2>2, LessIsLess
    <2> QED
      BY <1>15, <2>1, <2>3 DEF GoesRight, K
  <1>17. CASE LeafOK(F, nd, p) /\ F.lv[p] = 0
    <2>1. node.t = "Leaf"
      BY <1>1, <1>17 DEF LeafOK
    <2>2. F.lo[p] <= K(l) /\ K(t) < F.hi[p] /\ K(l) # k
      BY <1>1, <1>8, <1>10, <1>13, <1>15, <1>17, <2>1 DEF LeafOK
    <2>3. PICK m \in Int : m = K(l) + 1
      BY <1>14
    <2>4. F.lo[p] < m /\ m < F.hi[p]
      BY <1>5, <1>14, <2>2, <2>3
    <2>5. \A s \in SlotsOf(lower) : K(s) < m
      BY <1>10, <1>12, <1>14, <2>3
    <2>6. \A s \in SlotsOf(upper) : m <= K(s)
      BY <1>8, <1>10, <1>12, <1>14, <2>3
    <2>7. Divides(F, node, SlotsOf(lower), SlotsOf(upper), p, m)
      BY <1>8, <1>10, <2>1, <2>3, <2>4, <2>5, <2>6 DEF Divides
    <2>8. GoesRight(lower, key) <=> m <= k
      BY <1>14, <1>15, <1>16, <2>2, <2>3
    <2> QED
      BY <1>1, <1>2, <1>3, <1>15, <2>7, <2>8
  <1>18. CASE InnerOK(F, nd, p) /\ F.lv[p] > 0
    <2>1. node.t # "Leaf" /\ l \in SlotsOf(nd[p]) /\ t \in SlotsOf(nd[p])
      BY <1>1, <1>8, <1>10, <1>13, <1>18 DEF InnerOK
    <2>2. ChildOK(F, SlotsOf(nd[p]), p, l) /\ ChildOK(F, SlotsOf(nd[p]), p, t)
      BY <1>18, <2>1 DEF InnerOK
    <2>3. l.val \in F.pages /\ F.hi[l.val] = K(l) /\ F.lo[p] <= F.lo[l.val] /\ K(t) <= F.hi[p]
      BY <2>2 DEF ChildOK
    <2>4. F.lo[l.val] < F.hi[l.val] /\ F.lo[l.val] \in Int
      BY <2>3, ForestFacts
    <2>5. F.lo[p] < K(l) /\ K(l) < F.hi[p]
      BY <1>5, <1>14, <2>3, <2>4
    <2>6. Divides(F, node, SlotsOf(lower), SlotsOf(upper), p, K(l))
      BY <1>8, <1>10, <2>1, <2>5 DEF Divides
    <2>7. GoesRight(lower, key) <=> K(l) <= k
      BY <1>14, <1>15, <1>16
    <2> QED
      BY <1>1, <1>2, <1>3, <1>14, <1>15, <2>6, <2>7
  <1> QED
    BY <1>6, <1>17, <1>18

\* The nodes after the split.
IsSplitNodes(nd, p, n, nd2) ==
    /\ nd2[p].t = nd[p].t /\ Sorted(nd2[p]) /\ nd2[n].t = nd[p].t /\ Sorted(nd2[n])
    /\ nd2[p].next = IF nd[p].t = "Leaf" THEN n ELSE nd[p].next
    /\ nd2[n].next = IF nd[p].t = "Leaf" THEN nd[p].next ELSE None
    /\ \A q \in PageIds : q # p /\ q # n => nd2[q] = nd[q]

LEMMA SplitLeaf ==
  ASSUME OneInteger, NEW F, NEW nd, NEW nd2, NEW L \in Nat, Forest(F, nd, L), Tight(F, nd), L = 0,
         NEW p \in F.pages, NEW n \in PageIds, n \notin F.pages, IsSplitNodes(nd, p, n, nd2),
         NEW m \in Int, Divides(F, nd[p], SlotsOf(nd2[p]), SlotsOf(nd2[n]), p, m),
         NEW G, IsSplitForest(F, p, n, m, G)
  PROVE  /\ Forest(G, nd2, L) /\ Tight(G, nd2)
         /\ \A s : InLeaves(G, nd2, s) <=> InLeaves(F, nd, s)
  <1>1. \A q \in F.pages : /\ q \in PageIds /\ F.lv[q] = 0 /\ F.lo[q] \in Int /\ F.hi[q] \in Int
                           /\ F.lo[q] < F.hi[q]
    <2>1. \A q \in F.pages : /\ q \in PageIds /\ F.lv[q] \in Nat /\ F.lv[q] <= L
                             /\ F.lo[q] \in Int /\ F.hi[q] \in Int /\ F.lo[q] < F.hi[q]
      BY ForestFacts
    <2> QED
      BY <2>1
  <1>2. \A q \in F.pages : LeafOK(F, nd, q) /\ Linked(F, nd, q)
    BY <1>1 DEF Forest
  <1>3. nd[p].t = "Leaf"
    BY <1>2 DEF LeafOK
  <1>4. /\ G.pages = F.pages \cup {n} /\ G.lv[n] = 0 /\ G.lo[n] = m /\ G.hi[n] = F.hi[p]
        /\ G.hi[p] = m /\ F.lo[p] < m /\ m < F.hi[p] /\ p # n
        /\ \A q \in F.pages : G.lv[q] = 0 /\ G.lo[q] = F.lo[q] /\ (q # p => G.hi[q] = F.hi[q])
    BY <1>1 DEF IsSplitForest, Divides
  <1>5. ForestTyped(G, L) /\ Apart(G)
    <2>1. F.lv[p] = L
      BY <1>1
    <2> QED
      BY <1>4, <2>1, SplitApart
  <1>6. /\ nd2[p].next = n /\ nd2[n].next = nd[p].next
        /\ \A q \in F.pages : q # p => nd2[q] = nd[q]
        /\ nd2[p].t = "Leaf" /\ nd2[n].t = "Leaf" /\ Sorted(nd2[p]) /\ Sorted(nd2[n])
    BY <1>1, <1>3 DEF IsSplitNodes
  <1>7. /\ \A s : s \in SlotsOf(nd[p]) <=> s \in SlotsOf(nd2[p]) \/ s \in SlotsOf(nd2[n])
        /\ \A s \in SlotsOf(nd2[p]) : K(s) < m
        /\ \A s \in SlotsOf(nd2[n]) : m <= K(s)
        /\ \E s \in SlotsOf(nd2[p]) : K(s) + 1 = m
    BY <1>3 DEF Divides
  <1>8. \A q \in F.pages : q # p => F.hi[p] <= F.lo[q] \/ F.hi[q] <= F.lo[p]
    BY <1>1 DEF Forest, Apart
  <1>9. ASSUME NEW q \in F.pages, F.lo[p] < F.lo[q] PROVE m < F.lo[q]
    BY <1>1, <1>4, <1>8, <1>9
  <1>10. ASSUME NEW q \in F.pages, q # p, F.lo[q] < m PROVE F.lo[q] < F.lo[p]
    BY <1>1, <1>4, <1>8, <1>10
  <1>11. ASSUME NEW q \in G.pages PROVE LeafOK(G, nd2, q)
    <2>1. CASE q = p
      BY <1>2, <1>4, <1>6, <1>7, <2>1 DEF LeafOK
    <2>2. CASE q = n
      BY <1>2, <1>4, <1>6, <1>7, <2>2 DEF LeafOK
    <2>3. CASE q \in F.pages /\ q # p
      BY <1>2, <1>4, <1>6, <2>3 DEF LeafOK
    <2> QED
      BY <1>4, <2>1, <2>2, <2>3
  <1>12. Linked(G, nd2, p)
    <2>1. \A q \in F.pages : F.lo[p] < F.lo[q] => m <= F.lo[q]
      BY <1>1, <1>9
    <2> QED
      BY <1>4, <1>6, <2>1 DEF Linked
  <1>13. Linked(G, nd2, n)
    <2>1. CASE nd[p].next = None /\ \A q \in F.pages : F.lo[q] <= F.lo[p]
      <3>1. \A q \in F.pages : F.lo[q] <= m
        BY <1>1, <1>4, <2>1
      <3> QED
        BY <1>4, <1>6, <2>1, <3>1 DEF Linked
    <2>2. CASE /\ nd[p].next \in F.pages /\ F.lo[p] < F.lo[nd[p].next]
               /\ \A q \in F.pages : F.lo[p] < F.lo[q] => F.lo[nd[p].next] <= F.lo[q]
      <3>1. PICK r \in F.pages : r = nd[p].next
        BY <2>2
      <3>2. m < F.lo[r]
        BY <1>9, <2>2, <3>1
      <3>3. \A q \in F.pages : m < F.lo[q] => F.lo[r] <= F.lo[q]
        BY <1>1, <1>4, <2>2, <3>1
      <3> QED
        BY <1>4, <1>6, <3>1, <3>2, <3>3 DEF Linked
    <2> QED
      BY <1>1, <1>2, <2>1, <2>2 DEF Linked
  <1>14. ASSUME NEW q \in F.pages, q # p PROVE Linked(G, nd2, q)
    <2>1. CASE nd[q].next = None /\ \A r \in F.pages : F.lo[r] <= F.lo[q]
      <3>1. ~(F.lo[q] < m)
        BY <1>1, <1>10, <1>14, <2>1
      <3> QED
        BY <1>1, <1>4, <1>6, <1>14, <2>1, <3>1 DEF Linked
    <2>2. CASE /\ nd[q].next \in F.pages /\ F.lo[q] < F.lo[nd[q].next]
               /\ \A r \in F.pages : F.lo[q] < F.lo[r] => F.lo[nd[q].next] <= F.lo[r]
      <3>1. PICK r \in F.pages : r = nd[q].next
        BY <2>2
      <3>2. F.lo[q] < m => F.lo[r] <= m
        BY <1>1, <1>4, <1>10, <1>14, <2>2, <3>1
      <3> QED
        BY <1>4, <1>6, <1>14, <2>2, <3>1, <3>2 DEF Linked
    <2> QED
      BY <1>1, <1>2, <2>1, <2>2 DEF Linked
  <1>15. Forest(G, nd2, L)
    BY <1>4, <1>5, <1>11, <1>12, <1>13, <1>14 DEF Forest
  <1>16. Tight(G, nd2)
    <2>1. \A q \in F.pages : \E s \in SlotsOf(nd[q]) : K(s) + 1 = F.hi[q]
      BY <1>1 DEF Tight
    <2>2. PICK s \in SlotsOf(nd[p]) : K(s) + 1 = F.hi[p]
      BY <2>1
    <2>3. s.key \in Keys
      BY <1>2, <2>2 DEF LeafOK
    <2>4. K(s) \in Int
      BY <2>3, BoundsAreIntegers DEF Bounds, K
    <2>5. s \in SlotsOf(nd2[n])
      BY <1>1, <1>4, <1>7, <2>2, <2>4
    <2> QED
      BY <1>4, <1>6, <1>7, <2>1, <2>2, <2>5 DEF Tight
  <1>17. ASSUME NEW s PROVE InLeaves(G, nd2, s) <=> InLeaves(F, nd, s)
    <2>1. InLeaves(G, nd2, s) <=> \E q \in G.pages : s \in SlotsOf(nd2[q])
      BY <1>4 DEF InLeaves
    <2>2. InLeaves(F, nd, s) <=> \E q \in F.pages : s \in SlotsOf(nd[q])
      BY <1>1 DEF InLeaves
    <2> QED
      BY <1>4, <1>6, <1>7, <2>1, <2>2
  <1> QED
    BY <1>15, <1>16, <1>17

LEMMA SplitInner ==
  ASSUME OneInteger, NEW F, NEW nd \in [PageIds -> Node], NEW nd2, NEW L \in Nat,
         Forest(F, nd, L), Tight(F, nd), L > 0,
         NEW p \in F.pages, F.lv[p] = L, NEW n \in PageIds, n \notin F.pages,
         IsSplitNodes(nd, p, n, nd2),
         NEW m \in Int, Divides(F, nd[p], SlotsOf(nd2[p]), SlotsOf(nd2[n]), p, m),
         NEW G, IsSplitForest(F, p, n, m, G)
  PROVE  /\ Forest(G, nd2, L) /\ Tight(G, nd2)
         /\ \A s : InLeaves(G, nd2, s) <=> InLeaves(F, nd, s)
  <1>1. \A q \in F.pages : /\ q \in PageIds /\ F.lv[q] \in Nat /\ F.lv[q] <= L
                           /\ F.lo[q] \in Int /\ F.hi[q] \in Int /\ F.lo[q] < F.hi[q]
    BY ForestFacts
  <1>2. \A q \in F.pages : F.lv[q] = 0 => q # p /\ LeafOK(F, nd, q) /\ Linked(F, nd, q)
    BY DEF Forest
  <1>3. \A q \in F.pages : F.lv[q] > 0 => InnerOK(F, nd, q)
    BY DEF Forest
  <1>4. nd[p].t = "Internal"
    BY <1>3 DEF InnerOK
  <1>5. /\ G.pages = F.pages \cup {n} /\ G.lv[n] = L /\ G.lo[n] = m /\ G.hi[n] = F.hi[p]
        /\ G.hi[p] = m /\ F.lo[p] < m /\ m < F.hi[p] /\ p # n
        /\ \A q \in F.pages : /\ G.lv[q] = F.lv[q] /\ G.lo[q] = F.lo[q]
                              /\ q # p => G.hi[q] = F.hi[q]
    BY DEF IsSplitForest, Divides
  <1>6. ForestTyped(G, L) /\ Apart(G)
    BY <1>5, SplitApart
  <1>7. /\ nd2[p].next = nd[p].next /\ nd2[n].next = None
        /\ \A q \in F.pages : q # p => nd2[q] = nd[q]
        /\ nd2[p].t = "Internal" /\ nd2[n].t = "Internal" /\ Sorted(nd2[p]) /\ Sorted(nd2[n])
    BY <1>1, <1>4 DEF IsSplitNodes
  <1>8. /\ \A s : s \in SlotsOf(nd[p]) <=> s \in SlotsOf(nd2[p]) \/ s \in SlotsOf(nd2[n])
        /\ \A s \in SlotsOf(nd2[p]) : K(s) <= m
        /\ \A s \in SlotsOf(nd2[n]) : m < K(s)
        /\ \E s \in SlotsOf(nd2[p]) : K(s) = m
    BY <1>4 DEF Divides
  <1>9. \A s \in SlotsOf(nd[p]) : K(s) \in Int
    <2>1. nd[p] \in Node
      BY <1>1
    <2> QED
      BY <2>1, NodeFacts, SlotKeys
  <1>10. \A s \in SlotsOf(nd[p]) :
            /\ s.val \in F.pages /\ F.lv[s.val] + 1 = L /\ s.val # p
            /\ F.hi[s.val] = K(s) /\ K(s) <= F.hi[p] /\ F.lo[p] <= F.lo[s.val]
            /\ F.lo[s.val] = F.lo[p] \/ \E t \in SlotsOf(nd[p]) : K(t) = F.lo[s.val]
            /\ \A t \in SlotsOf(nd[p]) : K(t) < K(s) => K(t) <= F.lo[s.val]
    <2>1. \A s \in SlotsOf(nd[p]) : ChildOK(F, SlotsOf(nd[p]), p, s)
      BY <1>3 DEF InnerOK
    <2>2. \A s \in SlotsOf(nd[p]) : s.val \in F.pages /\ F.lv[s.val] + 1 = L
      BY <2>1 DEF ChildOK
    <2>3. \A s \in SlotsOf(nd[p]) : s.val # p
      BY <2>2, <1>1
    <2> QED
      BY <2>1, <2>2, <2>3 DEF ChildOK
  <1>11. InnerOK(G, nd2, p)
    <2>1. ASSUME NEW s \in SlotsOf(nd2[p]) PROVE ChildOK(G, SlotsOf(nd2[p]), p, s)
      <3>1. s \in SlotsOf(nd[p]) /\ K(s) <= m
        BY <1>8
      <3>2. F.lo[s.val] < K(s) /\ F.lo[s.val] \in Int
        BY <1>1, <1>10, <3>1
      <3>3. \A t \in SlotsOf(nd[p]) : K(t) = F.lo[s.val] => t \in SlotsOf(nd2[p])
        BY <1>8, <1>9, <3>1, <3>2
      <3>4. F.lo[s.val] = F.lo[p] \/ \E t \in SlotsOf(nd2[p]) : K(t) = F.lo[s.val]
        BY <1>10, <3>1, <3>3
      <3> QED
        BY <1>5, <1>8, <1>10, <3>1, <3>4 DEF ChildOK
    <2> QED
      BY <1>3, <1>5, <1>7, <1>8, <2>1 DEF InnerOK
  <1>12. InnerOK(G, nd2, n)
    <2>1. ASSUME NEW s \in SlotsOf(nd2[n]) PROVE ChildOK(G, SlotsOf(nd2[n]), n, s)
      <3>1. s \in SlotsOf(nd[p]) /\ m < K(s)
        BY <1>8
      <3>2. m <= F.lo[s.val] /\ F.lo[s.val] \in Int
        BY <1>1, <1>8, <1>10, <3>1
      <3>3. \A t \in SlotsOf(nd[p]) :
               K(t) = F.lo[s.val] => F.lo[s.val] = m \/ t \in SlotsOf(nd2[n])
        BY <1>8, <1>9, <3>1, <3>2
      <3>4. F.lo[s.val] = m \/ \E t \in SlotsOf(nd2[n]) : K(t) = F.lo[s.val]
        BY <1>1, <1>5, <1>10, <3>1, <3>2, <3>3
      <3> QED
        BY <1>5, <1>8, <1>10, <3>1, <3>2, <3>4 DEF ChildOK
    <2>2. \E s \in SlotsOf(nd2[n]) : K(s) = F.hi[p]
      <3>1. PICK s \in SlotsOf(nd[p]) : K(s) = F.hi[p]
        BY <1>3 DEF InnerOK
      <3>2. s \in SlotsOf(nd2[n])
        BY <1>1, <1>5, <1>8, <1>9, <3>1
      <3> QED
        BY <3>1, <3>2
    <2> QED
      BY <1>5, <1>7, <2>1, <2>2 DEF InnerOK
  <1>13. ASSUME NEW q \in F.pages, q # p, F.lv[q] > 0 PROVE InnerOK(G, nd2, q)
    <2>1. InnerOK(F, nd, q) /\ nd2[q] = nd[q] /\ G.lv[q] = F.lv[q] /\ G.lo[q] = F.lo[q]
          /\ G.hi[q] = F.hi[q] /\ F.lv[q] \in Nat /\ F.lv[q] <= L
      BY <1>1, <1>3, <1>5, <1>7, <1>13
    <2>2. ASSUME NEW s \in SlotsOf(nd[q]) PROVE ChildOK(G, SlotsOf(nd[q]), q, s)
      <3>1. ChildOK(F, SlotsOf(nd[q]), q, s)
        BY <2>1 DEF InnerOK
      <3>2. s.val \in F.pages /\ s.val # p
        BY <1>1, <2>1, <3>1 DEF ChildOK
      <3> QED
        BY <1>5, <2>1, <3>1, <3>2 DEF ChildOK
    <2> QED
      BY <2>1, <2>2 DEF InnerOK
  <1>14. ASSUME NEW q \in F.pages, F.lv[q] = 0 PROVE LeafOK(G, nd2, q) /\ Linked(G, nd2, q)
    <2>1. q # p /\ LeafOK(F, nd, q) /\ Linked(F, nd, q)
      BY <1>2, <1>14
    <2>2. nd2[q] = nd[q] /\ G.lo[q] = F.lo[q] /\ G.hi[q] = F.hi[q]
      BY <1>5, <1>7, <2>1
    <2>3. LeafOK(G, nd2, q)
      BY <2>1, <2>2 DEF LeafOK
    <2>4. Linked(G, nd2, q)
      BY <1>5, <2>1, <2>2 DEF Linked
    <2> QED
      BY <2>3, <2>4
  <1>15. ASSUME NEW q \in F.pages, F.lv[q] < L PROVE HasParent(G, nd2, q)
    <2>1. HasParent(F, nd, q)
      BY <1>15 DEF Forest
    <2>2. PICK r \in F.pages : F.lv[r] = F.lv[q] + 1 /\ \E s \in SlotsOf(nd[r]) : s.val = q
      BY <2>1 DEF HasParent
    <2>3. CASE r = p
      BY <1>5, <1>8, <2>2, <2>3 DEF HasParent
    <2>4. CASE r # p
      BY <1>5, <1>7, <2>2, <2>4 DEF HasParent
    <2> QED
      BY <2>3, <2>4
  <1>16. Forest(G, nd2, L)
    BY <1>5, <1>6, <1>11, <1>12, <1>13, <1>14, <1>15 DEF Forest
  <1>17. Tight(G, nd2)
    BY <1>2, <1>5, <1>7 DEF Tight
  <1>18. \A s : InLeaves(G, nd2, s) <=> InLeaves(F, nd, s)
    BY <1>2, <1>5, <1>7 DEF InLeaves
  <1> QED
    BY <1>16, <1>17, <1>18

\* What the split of page p of the top level leaves for the insert of the key.
HalfReady(F, nd, np, p, key, L, right, nd2) ==
    \E m \in Int : \E G :
        /\ IsSplitForest(F, p, np, m, G)
        /\ F.lo[p] < m /\ m < F.hi[p]
        /\ right <=> m <= key[1]
        /\ Ready(G, nd2, np + 1, IF right THEN np ELSE p, key, L)
        /\ \A s : InLeaves(G, nd2, s) <=> InLeaves(F, nd, s)

LEMMA PageSplit ==
  ASSUME OneInteger, NEW key \in Keys, NEW F, NEW nd \in [PageIds -> Node], NEW np \in Nat, NEW p,
         NEW L \in Nat, Ready(F, nd, np, p, key, L), np \in PageIds, Len(nd[p].values) >= 2,
         NEW nd2, nd2[p] = LowerHalf(nd[p], np), nd2[np] = UpperHalf(nd[p]),
         \A q \in PageIds : q # p /\ q # np => nd2[q] = nd[q]
  PROVE  HalfReady(F, nd, np, p, key, L, GoesRight(LowerHalf(nd[p], np), key), nd2)
  <1>1. /\ p \in F.pages /\ p \in PageIds /\ F.lv[p] = L
        /\ F.pages \subseteq PageIds
        /\ \A q \in F.pages : /\ F.lv[q] \in Nat /\ F.lv[q] <= L
                              /\ F.lo[q] \in Int /\ F.hi[q] \in Int /\ F.lo[q] < F.hi[q]
                              /\ q < np
    BY ReadyFacts
  <1>2. PICK node : node = nd[p]
    OBVIOUS
  <1>3. PICK lower : lower = LowerHalf(node, np)
    OBVIOUS
  <1>4. PICK upper : upper = UpperHalf(node)
    OBVIOUS
  <1>5. node \in Node /\ nd2[p] = lower /\ nd2[np] = upper
    BY <1>1, <1>2, <1>3, <1>4
  <1>6. PICK k \in Int : k = key[1]
    BY BoundsAreIntegers DEF Bounds
  <1>7. Forest(F, nd, L) /\ Tight(F, nd) /\ np \notin F.pages
    BY <1>1 DEF Ready
  <1>8. /\ L = 0 => LeafOK(F, nd, p)
        /\ L > 0 => InnerOK(F, nd, p)
    BY <1>1, <1>7 DEF Forest
  <1>9. Sorted(node) /\ (L > 0 => node.t = "Internal" /\ node.next = None)
    BY <1>2, <1>8 DEF LeafOK, InnerOK
  <1>10. /\ lower.t = node.t /\ Sorted(lower) /\ upper.t = node.t /\ Sorted(upper)
         /\ lower.next = IF IsLeaf(node) THEN np ELSE node.next
         /\ upper.next = IF IsLeaf(node) THEN node.next ELSE None
    BY <1>2, <1>3, <1>4, <1>5, <1>9, Halves
  <1>11. IsSplitNodes(nd, p, np, nd2)
    BY <1>2, <1>5, <1>10 DEF IsSplitNodes, IsLeaf
  <1>12. \A s \in SlotsOf(nd[p]) : nd[p].t = "Leaf" => K(s) # key[1]
    BY <1>1, <1>2, <1>9 DEF Ready, InLeaves
  <1>13. PICK m \in Int : /\ Divides(F, node, SlotsOf(lower), SlotsOf(upper), p, m)
                          /\ GoesRight(lower, key) <=> m <= k
    BY <1>1, <1>2, <1>3, <1>4, <1>6, <1>7, <1>12, SplitPoint
  <1>14. Divides(F, nd[p], SlotsOf(nd2[p]), SlotsOf(nd2[np]), p, m)
    BY <1>2, <1>5, <1>13
  <1>15. PICK G : IsSplitForest(F, p, np, m, G)
    BY <1>1, <1>7, SplitForestExists DEF Forest
  <1>16. /\ Forest(G, nd2, L) /\ Tight(G, nd2)
         /\ \A s : InLeaves(G, nd2, s) <=> InLeaves(F, nd, s)
    <2>1. CASE L = 0
      BY <1>1, <1>7, <1>11, <1>14, <1>15, <2>1, SplitLeaf
    <2>2. CASE L > 0
      BY <1>1, <1>7, <1>11, <1>14, <1>15, <2>2, SplitInner
    <2> QED
      BY <2>1, <2>2
  <1>17. F.lo[p] < m /\ m < F.hi[p]
    BY <1>13 DEF Divides
  <1>18. F.lo[p] <= k /\ \A q \in F.pages : F.lv[q] = L /\ F.lo[p] < F.lo[q] => k < F.lo[q]
    BY <1>6 DEF Ready, Reaches
  <1>19. PICK t : t = IF GoesRight(lower, key) THEN np ELSE p
    OBVIOUS
  <1>20. Reaches(G, t, k, L)
    <2>1. /\ G.pages = F.pages \cup {np} /\ G.lv[np] = L /\ G.lo[np] = m
          /\ \A q \in F.pages : G.lv[q] = F.lv[q] /\ G.lo[q] = F.lo[q]
      BY <1>1, <1>15 DEF IsSplitForest
    <2>2. CASE GoesRight(lower, key)
      <3>1. t = np /\ m <= k
        BY <1>13, <1>19, <2>2
      <3>2. \A q \in F.pages : F.lv[q] = L /\ m < F.lo[q] => k < F.lo[q]
        BY <1>1, <1>17, <1>18
      <3> QED
        BY <1>1, <2>1, <3>1, <3>2 DEF Reaches
    <2>3. CASE ~GoesRight(lower, key)
      BY <1>1, <1>6, <1>13, <1>18, <1>19, <2>1, <2>3 DEF Reaches
    <2> QED
      BY <2>2, <2>3
  <1>21. G.pages \subseteq 0..((np + 1) - 1)
    BY <1>1, <1>15 DEF IsSplitForest, Ready
  <1>22. Ready(G, nd2, np + 1, t, key, L)
    <2>1. \A s : InLeaves(G, nd2, s) => K(s) # key[1]
      BY <1>16 DEF Ready
    <2> QED
      BY <1>6, <1>16, <1>20, <1>21, <2>1 DEF Ready
  <1> QED
    BY <1>2, <1>3, <1>6, <1>13, <1>15, <1>16, <1>17, <1>19, <1>22 DEF HalfReady

-----------------------------------------------------------------------------
(***************************************************************************)
(* What an insert through p leaves, with the separators for the caller if  *)
(* p was split.                                                            *)
(***************************************************************************)
NoNewTop(F, G, L) == \A q \in G.pages : G.lv[q] = L => q \in F.pages

SplitTop(F, G, p, L, n) ==
    /\ n \in G.pages /\ n \notin F.pages /\ G.lv[n] = L
    /\ \A q \in G.pages : G.lv[q] = L => q \in F.pages \/ q = n
    /\ G.hi[p] = G.lo[n]

AreSeparators(G, p, n, seps) ==
    \E s1, s2 \in SlotSet :
        /\ seps = <<s1, s2>>
        /\ s1.val = p /\ K(s1) = G.hi[p]
        /\ s2.val = n /\ K(s2) = G.hi[n]

PageDone(F, nd, np, p, L, key, val, nd2, np2, seps) ==
    \E G :
        /\ Grown(F, nd, np, G, nd2, np2, p, L, Slot(key, val))
        /\ \/ /\ seps = <<>> /\ NoNewTop(F, G, L)
              /\ G.hi[p] = Raised(F, p, key[1])
           \/ \E n : /\ SplitTop(F, G, p, L, n)
                     /\ AreSeparators(G, p, n, seps)
                     /\ G.hi[n] = Raised(F, p, key[1])

\* The last bound, or the key behind the last one, ends the range of a page.
LEMMA SeparatorOf ==
  ASSUME OneInteger, NEW G, NEW nd \in [PageIds -> Node], NEW L \in Nat, Forest(G, nd, L),
         Tight(G, nd), NEW p \in G.pages
  PROVE  /\ Separator(nd[p], p) \in SlotSet
         /\ Separator(nd[p], p).val = p /\ K(Separator(nd[p], p)) = G.hi[p]
         /\ LastKey(nd[p]) \in Bounds
         /\ nd[p].t = "Leaf" => /\ G.lv[p] = 0
                                /\ \E s \in SlotsOf(nd[p]) : s.key = LastKey(nd[p])
  <1>1. /\ p \in PageIds /\ G.lv[p] \in Nat
        /\ G.lo[p] \in Int /\ G.hi[p] \in Int /\ G.lo[p] < G.hi[p]
    BY ForestFacts
  <1>2. PICK node \in Node : node = nd[p]
    BY <1>1
  <1>3. node.tys = KeyTypes
    BY <1>2 DEF Node
  <1>4. \A s \in SlotsOf(node) : s \in SlotSet /\ K(s) \in Int
    BY NodeFacts, SlotKeys
  <1>5. CASE G.lv[p] = 0
    <2>1. LeafOK(G, nd, p)
      BY <1>5 DEF Forest
    <2>2. PICK s \in SlotsOf(node) : K(s) + 1 = G.hi[p]
      BY <1>2, <1>5 DEF Tight
    <2>3. \A t \in SlotsOf(node) : t.key \in Keys /\ K(t) < G.hi[p]
      BY <1>2, <2>1 DEF LeafOK
    <2>4. \A t \in SlotsOf(node) : K(t) <= K(s)
      BY <1>1, <1>4, <2>2, <2>3
    <2>5. Sorted(node) /\ node.t = "Leaf"
      BY <1>2, <2>1 DEF LeafOK
    <2>6. Last(node.values) = s
      BY <2>4, <2>5, LastIs
    <2>7. s.key \in Keys
      BY <2>3
    <2>8. KeyNext(KeyTypes, s.key) \in Bounds /\ KeyNext(KeyTypes, s.key) = <<s.key[1] + 1>>
      BY <2>7, NextOfKey
    <2>9. Separator(node, p) = Slot(KeyNext(KeyTypes, s.key), p)
      BY <1>3, <2>5, <2>6 DEF Separator, IsLeaf, LastKey
    <2>10. Separator(node, p).key[1] = s.key[1] + 1
      BY <2>8, <2>9 DEF Slot
    <2> QED
      BY <1>1, <1>2, <1>5, <2>2, <2>6, <2>7, <2>8, <2>9, <2>10
      DEF Slot, SlotSet, LastKey, K, Bounds
  <1>6. CASE G.lv[p] > 0
    <2>1. InnerOK(G, nd, p)
      BY <1>6 DEF Forest
    <2>2. PICK s \in SlotsOf(node) : K(s) = G.hi[p]
      BY <1>2, <2>1 DEF InnerOK
    <2>3. \A t \in SlotsOf(node) : K(t) <= K(s)
      BY <1>2, <2>1, <2>2 DEF InnerOK, ChildOK
    <2>4. Sorted(node) /\ node.t = "Internal"
      BY <1>2, <2>1 DEF InnerOK
    <2>5. Last(node.values) = s
      BY <2>3, <2>4, LastIs
    <2>6. s.key \in Bounds
      BY <1>4 DEF SlotSet
    <2>7. Separator(node, p) = Slot(s.key, p)
      BY <2>4, <2>5 DEF Separator, IsLeaf, LastKey
    <2> QED
      BY <1>1, <1>2, <2>2, <2>4, <2>5, <2>6, <2>7 DEF Slot, SlotSet, LastKey, K
  <1> QED
    BY <1>1, <1>5, <1>6

\* The key is in one half: the page and the new one are done.
LEMMA SplitDone ==
  ASSUME OneInteger, NEW key \in Keys, NEW val \in Values,
         NEW F, NEW nd, NEW np \in Nat, NEW p, NEW L \in Nat, Ready(F, nd, np, p, key, L),
         np \in PageIds,
         NEW m \in Int, F.lo[p] < m, m < F.hi[p], NEW G0, IsSplitForest(F, p, np, m, G0),
         NEW nd1, \A q \in PageIds : q # p /\ q # np => nd1[q] = nd[q],
         \A s : InLeaves(G0, nd1, s) <=> InLeaves(F, nd, s),
         NEW t, t = (IF m <= key[1] THEN np ELSE p),
         NEW st2, st2.nodes \in [PageIds -> Node], st2.np \in Nat,
         IntoDone(G0, nd1, np + 1, t, L, key, val, st2)
  PROVE  PageDone(F, nd, np, p, L, key, val, st2.nodes, st2.np,
                  <<Separator(st2.nodes[p], p), Separator(st2.nodes[np], np)>>)
  <1>1. /\ p \in F.pages /\ p \in PageIds /\ F.lv[p] = L
        /\ F.pages \subseteq PageIds
        /\ \A q \in F.pages : /\ F.lv[q] \in Nat /\ F.lv[q] <= L
                              /\ F.lo[q] \in Int /\ F.hi[q] \in Int /\ F.lo[q] < F.hi[q]
                              /\ q < np
    BY ReadyFacts
  <1>2. PICK nd2 \in [PageIds -> Node] : nd2 = st2.nodes
    OBVIOUS
  <1>3. PICK np2 \in Nat : np2 = st2.np
    OBVIOUS
  <1>4. PICK k \in Int : k = key[1]
    BY BoundsAreIntegers DEF Bounds
  <1>5. PICK slot : slot = Slot(key, val)
    OBVIOUS
  <1>6. PICK G : /\ Grown(G0, nd1, np + 1, G, nd2, np2, t, L, slot)
                 /\ \A q \in G.pages : G.lv[q] = L => q \in G0.pages
                 /\ G.hi[t] = Raised(G0, t, k)
    BY <1>2, <1>3, <1>4, <1>5 DEF IntoDone
  <1>7. /\ G0.pages = F.pages \cup {np} /\ G0.lv[np] = L /\ G0.lo[np] = m /\ G0.hi[np] = F.hi[p]
        /\ G0.hi[p] = m /\ np \notin F.pages /\ p # np
        /\ \A q \in F.pages : /\ G0.lv[q] = F.lv[q] /\ G0.lo[q] = F.lo[q]
                              /\ q # p => G0.hi[q] = F.hi[q]
    BY <1>1 DEF IsSplitForest
  <1>8. /\ Forest(G, nd2, L) /\ Tight(G, nd2)
        /\ G.pages \subseteq 0..(np2 - 1)
        /\ G0.pages \subseteq G.pages
        /\ \A q \in G0.pages : G.lv[q] = G0.lv[q]
        /\ \A q \in G.pages : q \notin G0.pages => q >= np + 1
        /\ \A s : InLeaves(G, nd2, s) <=> InLeaves(G0, nd1, s) \/ s = slot
        /\ \A q \in G0.pages : G0.lv[q] = L =>
              G.lo[q] = G0.lo[q] /\ (q # t => G.hi[q] = G0.hi[q])
        /\ \A q \in PageIds : q < np + 1 /\ q \notin G0.pages => nd2[q] = nd1[q]
    BY <1>6 DEF Grown
  <1>9. Grown(F, nd, np, G, nd2, np2, p, L, slot)
    <2>1. F.pages \subseteq G.pages /\ \A q \in F.pages : G.lv[q] = F.lv[q]
      BY <1>7, <1>8
    <2>2. \A q \in G.pages : q \notin F.pages => q >= np
      <3>1. \A q \in G.pages : q \in Nat
        BY <1>8
      <3> QED
        BY <1>7, <1>8, <3>1
    <2>3. \A s : InLeaves(G, nd2, s) <=> InLeaves(F, nd, s) \/ s = slot
      BY <1>8
    <2>4. t = np \/ t = p
      OBVIOUS
    <2>5. \A q \in F.pages : F.lv[q] = L =>
             G.lo[q] = F.lo[q] /\ (q # p => G.hi[q] = F.hi[q])
      BY <1>7, <1>8, <2>4
    <2>6. ASSUME NEW q \in PageIds, q < np, q \notin F.pages PROVE nd2[q] = nd[q]
      <3>1. q \in Nat
        BY BTreeAssumption
      <3>2. q < np + 1 /\ q # np /\ q # p
        BY <1>1, <2>6, <3>1
      <3> QED
        BY <1>7, <1>8, <2>6, <3>2
    <2> QED
      BY <1>8, <2>1, <2>2, <2>3, <2>5, <2>6 DEF Grown
  <1>10. p \in G.pages /\ np \in G.pages /\ G.lv[np] = L /\ G.lo[np] = m
    BY <1>1, <1>7, <1>8
  <1>11. G.hi[p] = m /\ G.hi[np] = Raised(F, p, k)
    <2>1. CASE m <= k
      <3>1. t = np
        BY <1>4, <2>1
      <3>2. G.hi[p] = m
        BY <1>1, <1>7, <1>8, <3>1
      <3> QED
        BY <1>6, <1>7, <3>1, <3>2 DEF Raised
    <2>2. CASE ~(m <= k)
      <3>1. t = p
        BY <1>4, <2>2
      <3>2. G.hi[np] = F.hi[p]
        BY <1>1, <1>7, <1>8, <3>1
      <3>3. k < m /\ k < F.hi[p]
        BY <1>1, <1>4, <2>2
      <3> QED
        BY <1>6, <1>7, <3>1, <3>2, <3>3 DEF Raised
    <2> QED
      BY <2>1, <2>2
  <1>12. SplitTop(F, G, p, L, np)
    BY <1>6, <1>7, <1>10, <1>11 DEF SplitTop
  <1>13. PICK s1 : s1 = Separator(nd2[p], p)
    OBVIOUS
  <1>14. PICK s2 : s2 = Separator(nd2[np], np)
    OBVIOUS
  <1>15. s1 \in SlotSet /\ s1.val = p /\ K(s1) = G.hi[p]
    BY <1>8, <1>10, <1>13, SeparatorOf
  <1>16. s2 \in SlotSet /\ s2.val = np /\ K(s2) = G.hi[np]
    BY <1>8, <1>10, <1>14, SeparatorOf
  <1>17. AreSeparators(G, p, np, <<s1, s2>>)
    BY <1>15, <1>16 DEF AreSeparators
  <1> QED
    BY <1>2, <1>3, <1>4, <1>5, <1>9, <1>11, <1>12, <1>13, <1>14, <1>17 DEF PageDone

-----------------------------------------------------------------------------
(***************************************************************************)
(* The child that the key goes to, behind slot sc; the bound of the last   *)
(* child, and the range of p, are raised to hold the key.                  *)
(***************************************************************************)
RaisedTo(F, p, sc, k, M, hp) ==
    \/ k < K(sc) /\ M = K(sc) /\ hp = F.hi[p]
    \/ K(sc) = F.hi[p] /\ F.hi[p] <= k /\ M = k + 1 /\ hp = k + 1

IsBumped(F, node, p, k, sc, sb, B) ==
    /\ sc \in SlotsOf(node) /\ sb \in SlotSet /\ sb.val = sc.val
    /\ B \in Node /\ B.t = "Internal" /\ B.next = None /\ Sorted(B)
    /\ \A s : s \in SlotsOf(B) <=> s = sb \/ (s \in SlotsOf(node) /\ s # sc)
    /\ RaisedTo(F, p, sc, k, K(sb), Raised(F, p, k))
    /\ F.lo[sc.val] <= k

\* The slots of an internal node of a forest.
LEMMA InnerFacts ==
  ASSUME OneInteger, NEW F, NEW nd \in [PageIds -> Node], NEW L \in Nat, Forest(F, nd, L),
         NEW p \in F.pages, F.lv[p] > 0
  PROVE  /\ nd[p] \in Node /\ nd[p].t = "Internal" /\ nd[p].next = None /\ Sorted(nd[p])
         /\ \E s \in SlotsOf(nd[p]) : K(s) = F.hi[p]
         /\ \A s \in SlotsOf(nd[p]) :
               /\ s \in SlotSet /\ K(s) \in Int
               /\ s.val \in F.pages /\ F.lv[s.val] + 1 = F.lv[p]
               /\ F.hi[s.val] = K(s) /\ K(s) <= F.hi[p] /\ F.lo[p] <= F.lo[s.val]
               /\ F.lo[s.val] \in Int /\ F.lo[s.val] < K(s)
               /\ F.lo[s.val] = F.lo[p] \/ \E t \in SlotsOf(nd[p]) : K(t) = F.lo[s.val]
               /\ \A t \in SlotsOf(nd[p]) : K(t) < K(s) => K(t) <= F.lo[s.val]
  <1>1. \A q \in F.pages : q \in PageIds /\ F.lo[q] \in Int /\ F.hi[q] \in Int /\ F.lo[q] < F.hi[q]
    BY ForestFacts
  <1>2. InnerOK(F, nd, p)
    BY DEF Forest
  <1>3. nd[p] \in Node
    BY <1>1
  <1>4. \A s \in SlotsOf(nd[p]) : s \in SlotSet /\ K(s) \in Int
    BY <1>3, NodeFacts, SlotKeys
  <1>5. \A s \in SlotsOf(nd[p]) : ChildOK(F, SlotsOf(nd[p]), p, s)
    BY <1>2 DEF InnerOK
  <1>6. \A s \in SlotsOf(nd[p]) :
               /\ s.val \in F.pages /\ F.lv[s.val] + 1 = F.lv[p]
               /\ F.hi[s.val] = K(s) /\ K(s) <= F.hi[p] /\ F.lo[p] <= F.lo[s.val]
               /\ F.lo[s.val] = F.lo[p] \/ \E t \in SlotsOf(nd[p]) : K(t) = F.lo[s.val]
               /\ \A t \in SlotsOf(nd[p]) : K(t) < K(s) => K(t) <= F.lo[s.val]
    BY <1>5 DEF ChildOK
  <1>7. \A s \in SlotsOf(nd[p]) : F.lo[s.val] \in Int /\ F.lo[s.val] < K(s)
    BY <1>1, <1>6
  <1> QED
    BY <1>2, <1>3, <1>4, <1>6, <1>7 DEF InnerOK

LEMMA BumpedChild ==
  ASSUME OneInteger, NEW key \in Keys, NEW F, NEW nd \in [PageIds -> Node], NEW np \in Nat, NEW p,
         NEW L \in Nat, Ready(F, nd, np, p, key, L), L > 0
  PROVE  \E sc, sb : /\ IsBumped(F, nd[p], p, key[1], sc, sb, Bumped(nd[p], key))
                     /\ FindChild(Bumped(nd[p], key), key) = sc.val
  <1>1. /\ p \in F.pages /\ p \in PageIds /\ F.lv[p] = L
        /\ F.lo[p] \in Int /\ F.hi[p] \in Int /\ F.lo[p] < F.hi[p]
    BY ReadyFacts
  <1>2. PICK node \in Node : node = nd[p]
    BY <1>1
  <1>3. PICK k \in Int : k = key[1]
    BY BoundsAreIntegers DEF Bounds
  <1>4. PICK S : S = SlotsOf(node)
    OBVIOUS
  <1>5. /\ node.t = "Internal" /\ node.next = None /\ Sorted(node)
        /\ \E s \in S : K(s) = F.hi[p]
        /\ \A s \in S : /\ s \in SlotSet /\ K(s) \in Int
                        /\ s.val \in F.pages /\ F.hi[s.val] = K(s) /\ K(s) <= F.hi[p]
                        /\ F.lo[s.val] \in Int /\ F.lo[s.val] < K(s)
                        /\ F.lo[s.val] = F.lo[p] \/ \E t \in S : K(t) = F.lo[s.val]
    BY <1>1, <1>2, <1>4, InnerFacts DEF Ready
  <1>6. F.lo[p] <= k /\ key \in Bounds
    BY <1>3 DEF Ready, Reaches, Bounds
  <1>7. ASSUME NEW s \in S, \A t \in S : K(t) < K(s) => K(t) <= k
        PROVE  F.lo[s.val] <= k
    BY <1>5, <1>6, <1>7
  <1>8. \A s \in S : s.val \in PageIds /\ s.val # None
    <2>1. F.pages \subseteq PageIds
      BY ReadyFacts
    <2>2. \A q \in PageIds : q # None
      BY BTreeAssumption DEF None
    <2> QED
      BY <1>5, <2>1, <2>2
  <1>9. CASE AboveAll(node, key)
    <2>1. \A s \in S : K(s) <= k
      BY <1>3, <1>4, <1>5, <1>6, <1>8, <1>9, FindChildSlot DEF AboveAll, IsLeaf
    <2>2. PICK sc : sc = Last(node.values)
      OBVIOUS
    <2>3. sc \in S /\ \A s \in S : K(s) <= K(sc)
      BY <1>4, <1>5, <2>2, LastSlot
    <2>4. K(sc) = F.hi[p] /\ K(sc) <= k
      BY <1>1, <1>5, <2>1, <2>3
    <2>5. PICK front : front = [node EXCEPT !.values = Front(@)]
      OBVIOUS
    <2>6. /\ front \in Node /\ front.t = node.t /\ front.next = node.next
          /\ Sorted(front)
          /\ \A s : s \in SlotsOf(front) <=> s \in S /\ s # sc
      BY <1>4, <1>5, <2>2, <2>5, FrontOfNode
    <2>7. KeyNext(KeyTypes, key) \in Bounds /\ KeyNext(KeyTypes, key) = <<k + 1>>
      BY <1>3, NextOfKey
    <2>8. PICK sb : sb = Slot(KeyNext(KeyTypes, key), sc.val)
      OBVIOUS
    <2>9. sb \in SlotSet /\ sb.val = sc.val /\ K(sb) = k + 1
      BY <1>8, <2>3, <2>7, <2>8 DEF Slot, SlotSet, K
    <2>10. \A s \in SlotsOf(front) : K(s) # K(sb)
      BY <1>3, <1>5, <2>1, <2>6, <2>9
    <2>11. PICK B : B = InsertSlot(front, sb)
      OBVIOUS
    <2>12. IsReplaced(front, sb, B)
      BY <2>6, <2>9, <2>10, <2>11, InsertSlotResult
    <2>13. Bumped(node, key) = B
      BY <1>9, <2>2, <2>5, <2>8, <2>11 DEF Bumped, Node
    <2>14. /\ B \in Node /\ B.t = "Internal" /\ B.next = None /\ Sorted(B)
           /\ \A s : s \in SlotsOf(B) <=> s = sb \/ (s \in S /\ s # sc)
      BY <1>5, <2>6, <2>10, <2>12 DEF IsReplaced
    <2>15. RaisedTo(F, p, sc, k, K(sb), Raised(F, p, k))
      BY <1>1, <1>3, <2>4, <2>9 DEF RaisedTo, Raised
    <2>16. F.lo[sc.val] <= k
      BY <1>7, <2>1, <2>3
    <2>17. IsBumped(F, node, p, k, sc, sb, B)
      BY <1>4, <2>3, <2>9, <2>14, <2>15, <2>16 DEF IsBumped
    <2>18. FindChild(B, key) = sc.val
      <3>1. \A s \in SlotsOf(B) : k < K(s) => s = sb
        BY <1>3, <1>5, <2>1, <2>14
      <3>2. sb \in SlotsOf(B) /\ ~(K(sb) <= k)
        BY <1>3, <2>9, <2>14
      <3> QED
        BY <1>3, <1>6, <2>9, <2>14, <3>1, <3>2, FindChildSlot DEF IsLeaf
    <2> QED
      BY <1>2, <1>3, <2>13, <2>17, <2>18
  <1>10. CASE ~AboveAll(node, key)
    <2>1. Bumped(node, key) = node
      BY <1>10 DEF Bumped
    <2>2. PICK sc \in S : /\ FindChild(node, key) = sc.val /\ k < K(sc)
                          /\ \A t \in S : k < K(t) => K(sc) <= K(t)
      BY <1>3, <1>4, <1>5, <1>6, <1>10, FindChildSlot DEF AboveAll, IsLeaf
    <2>3. \A t \in S : K(t) < K(sc) => K(t) <= k
      BY <1>3, <1>5, <2>2
    <2>4. F.lo[sc.val] <= k
      BY <1>7, <2>2, <2>3
    <2>5. k < F.hi[p]
      BY <1>1, <1>3, <1>5, <2>2
    <2>6. RaisedTo(F, p, sc, k, K(sc), Raised(F, p, k))
      BY <2>2, <2>5 DEF RaisedTo, Raised
    <2>7. IsBumped(F, node, p, k, sc, sc, node)
      BY <1>4, <1>5, <2>2, <2>4, <2>6 DEF IsBumped
    <2> QED
      BY <1>2, <1>3, <2>1, <2>2, <2>7
  <1> QED
    BY <1>9, <1>10

\* The child is on the way to the key.
LEMMA ChildReady ==
  ASSUME OneInteger, NEW key \in Keys, NEW F, NEW nd \in [PageIds -> Node], NEW np \in Nat, NEW p,
         NEW L \in Nat, Ready(F, nd, np, p, key, L), L > 0,
         NEW sc, NEW sb, NEW B, IsBumped(F, nd[p], p, key[1], sc, sb, B)
  PROVE  Ready(LowerLevels(F, L), nd, np, sc.val, key, L - 1)
  <1>1. /\ p \in F.pages /\ p \in PageIds /\ F.lv[p] = L
        /\ \A q \in F.pages : /\ F.lv[q] \in Nat /\ F.lv[q] <= L
                              /\ F.lo[q] \in Int /\ F.hi[q] \in Int /\ F.lo[q] < F.hi[q]
                              /\ q < np
    BY ReadyFacts
  <1>2. Forest(F, nd, L) /\ Tight(F, nd)
    BY DEF Ready
  <1>3. PICK E : E = LowerLevels(F, L)
    OBVIOUS
  <1>4. /\ Forest(E, nd, L - 1) /\ Tight(E, nd)
        /\ E.pages = {q \in F.pages : F.lv[q] < L}
        /\ \A q \in E.pages : E.lv[q] = F.lv[q] /\ E.lo[q] = F.lo[q] /\ E.hi[q] = F.hi[q]
        /\ \A s : InLeaves(E, nd, s) <=> InLeaves(F, nd, s)
    BY <1>2, <1>3, LowerForest
  <1>5. PICK k \in Int : k = key[1]
    BY BoundsAreIntegers DEF Bounds
  <1>6. F.lo[p] <= k /\ \A q \in F.pages : F.lv[q] = L /\ F.lo[p] < F.lo[q] => k < F.lo[q]
    BY <1>5 DEF Ready, Reaches
  <1>7. PICK c : c = sc.val
    OBVIOUS
  <1>8. sc \in SlotsOf(nd[p]) /\ F.lo[c] <= k
        /\ (k < K(sc) \/ (K(sc) = F.hi[p] /\ F.hi[p] <= k))
    BY <1>5, <1>7 DEF IsBumped, RaisedTo
  <1>9. /\ c \in F.pages /\ F.lv[c] + 1 = L /\ F.hi[c] = K(sc) /\ K(sc) <= F.hi[p]
        /\ F.lo[p] <= F.lo[c]
    BY <1>1, <1>2, <1>7, <1>8, InnerFacts
  <1>10. c \in E.pages /\ E.lv[c] = L - 1 /\ E.lo[c] = F.lo[c]
    BY <1>1, <1>4, <1>9
  <1>11. ASSUME NEW q \in E.pages, E.lv[q] = L - 1, E.lo[c] < E.lo[q] PROVE k < E.lo[q]
    <2>1. q \in F.pages /\ F.lv[q] + 1 = L /\ F.lo[c] < F.lo[q] /\ E.lo[q] = F.lo[q]
      BY <1>4, <1>10, <1>11
    <2>2. F.hi[c] <= F.lo[q]
      BY <1>1, <1>2, <1>9, <2>1 DEF Forest, Apart
    <2>3. HasParent(F, nd, q)
      BY <1>1, <1>2, <2>1 DEF Forest
    <2>4. PICK r \in F.pages : F.lv[r] = L /\ \E s \in SlotsOf(nd[r]) : s.val = q
      BY <2>1, <2>3 DEF HasParent
    <2>5. PICK s \in SlotsOf(nd[r]) : s.val = q
      BY <2>4
    <2>6. F.hi[q] <= F.hi[r] /\ F.lo[r] <= F.lo[q]
      BY <1>2, <2>4, <2>5, InnerFacts
    <2>7. CASE r = p
      BY <1>1, <1>5, <1>8, <1>9, <2>1, <2>2, <2>6, <2>7
    <2>8. CASE r # p
      <3>1. F.hi[p] <= F.lo[r] \/ F.hi[r] <= F.lo[p]
        BY <1>1, <1>2, <2>4, <2>8 DEF Forest, Apart
      <3>2. ~(F.hi[r] <= F.lo[p])
        BY <1>1, <1>9, <2>1, <2>6
      <3>3. F.lo[p] < F.lo[r]
        BY <1>1, <3>1, <3>2
      <3>4. k < F.lo[r]
        BY <1>6, <2>4, <3>3
      <3> QED
        BY <1>1, <1>5, <2>1, <2>6, <3>4
    <2> QED
      BY <2>7, <2>8
  <1>12. Reaches(E, c, k, L - 1)
    BY <1>8, <1>10, <1>11 DEF Reaches
  <1>13. E.pages \subseteq 0..(np - 1)
    BY <1>4 DEF Ready
  <1>14. \A s : InLeaves(E, nd, s) => K(s) # key[1]
    BY <1>4 DEF Ready
  <1>15. Ready(E, nd, np, c, key, L - 1)
    BY <1>4, <1>5, <1>12, <1>13, <1>14 DEF Ready
  <1> QED
    BY <1>3, <1>7, <1>15

-----------------------------------------------------------------------------
(***************************************************************************)
(* The child c was done and its level of the forest, G, has CH instead of  *)
(* c: itself and perhaps a new page.  They divide the range from the lower *)
(* end of c to M.                                                          *)
(***************************************************************************)
Instead(E, G, c, l) == {q \in G.pages : G.lv[q] = l /\ (q = c \/ q \notin E.pages)}

Tiles(F, G, c, CH, M) ==
    /\ \A q \in CH : F.lo[c] <= G.lo[q] /\ G.hi[q] <= M
    /\ \A q \in CH : G.lo[q] = F.lo[c] \/ \E r \in CH : G.hi[r] = G.lo[q]
    /\ \E q \in CH : G.hi[q] = M

\* The slots S2 of p have CH where sc was among S.
Grafted(G, S, sc, CH, S2) ==
    /\ \A s \in S2 : (s \in S /\ s # sc) \/ (s.val \in CH /\ K(s) = G.hi[s.val])
    /\ \A s \in S : s # sc => s \in S2
    /\ \A q \in CH : \E s \in S2 : s.val = q /\ K(s) = G.hi[q]

\* The pages of G below the top level of F, whose page p has its end at hp now.
IsGraft(F, G, p, L, hp, H) ==
    /\ H.pages = G.pages \cup {q \in F.pages : F.lv[q] = L}
    /\ H.lv \in [H.pages -> Int] /\ H.lo \in [H.pages -> Int] /\ H.hi \in [H.pages -> Int]
    /\ \A q \in G.pages : H.lv[q] = G.lv[q] /\ H.lo[q] = G.lo[q] /\ H.hi[q] = G.hi[q]
    /\ \A q \in F.pages : F.lv[q] = L =>
          /\ H.lv[q] = L /\ H.lo[q] = F.lo[q]
          /\ q # p => H.hi[q] = F.hi[q]
    /\ H.hi[p] = hp

LEMMA GraftExists ==
  ASSUME NEW F, NEW G, NEW p \in F.pages, NEW L \in Nat, NEW hp \in Int, F.lv[p] = L,
         \A q \in F.pages : F.lo[q] \in Int /\ F.hi[q] \in Int,
         \A q \in G.pages : G.lv[q] \in Int /\ G.lo[q] \in Int /\ G.hi[q] \in Int,
         \A q \in F.pages : F.lv[q] = L => q \notin G.pages
  PROVE  \E H : IsGraft(F, G, p, L, hp, H)
  <1>1. PICK T : T = {q \in F.pages : F.lv[q] = L}
    OBVIOUS
  <1>2. PICK P : P = G.pages \cup T
    OBVIOUS
  <1>3. PICK H : H = [pages |-> P, lv |-> [q \in P |-> IF q \in T THEN L ELSE G.lv[q]],
                      lo |-> [q \in P |-> IF q \in T THEN F.lo[q] ELSE G.lo[q]],
                      hi |-> [q \in P |-> IF q = p THEN hp
                                          ELSE IF q \in T THEN F.hi[q] ELSE G.hi[q]]]
    OBVIOUS
  <1>4. p \in T /\ \A q \in T : q \in F.pages /\ q \notin G.pages /\ q \in P
    BY <1>1, <1>2
  <1>5. \A q \in P : H.lv[q] = IF q \in T THEN L ELSE G.lv[q]
    BY <1>3
  <1>6. \A q \in P : H.lo[q] = IF q \in T THEN F.lo[q] ELSE G.lo[q]
    BY <1>3
  <1>7. \A q \in P : H.hi[q] = IF q = p THEN hp ELSE IF q \in T THEN F.hi[q] ELSE G.hi[q]
    BY <1>3
  <1>8. \A q \in P : q \notin T => q \in G.pages
    BY <1>2
  <1>9. \A q \in P : H.lv[q] \in Int /\ H.lo[q] \in Int /\ H.hi[q] \in Int
    BY <1>4, <1>5, <1>6, <1>7, <1>8
  <1>10. H.pages = P /\ H.lv \in [P -> Int] /\ H.lo \in [P -> Int] /\ H.hi \in [P -> Int]
    BY <1>3, <1>9
  <1>11. \A q \in G.pages : H.lv[q] = G.lv[q] /\ H.lo[q] = G.lo[q] /\ H.hi[q] = G.hi[q]
    BY <1>2, <1>4, <1>5, <1>6, <1>7
  <1>12. \A q \in F.pages : F.lv[q] = L =>
          /\ H.lv[q] = L /\ H.lo[q] = F.lo[q]
          /\ q # p => H.hi[q] = F.hi[q]
    BY <1>1, <1>4, <1>5, <1>6, <1>7
  <1>13. H.hi[p] = hp
    BY <1>4, <1>7
  <1>14. IsGraft(F, G, p, L, hp, H)
    BY <1>1, <1>2, <1>10, <1>11, <1>12, <1>13 DEF IsGraft
  <1> QED
    BY <1>14

(***************************************************************************)
(* The situation of the graft: p's child c was done, giving G and nd2, and *)
(* p has the slots with CH then, giving nd3.                               *)
(***************************************************************************)
GraftAt(F, nd, np, p, L, sc, k, M, hp, slot, G, nd2, np2, nd3) ==
    /\ Forest(F, nd, L) /\ Tight(F, nd) /\ F.pages \subseteq 0..(np - 1) /\ L > 0
    /\ Reaches(F, p, k, L)
    /\ sc \in SlotsOf(nd[p]) /\ RaisedTo(F, p, sc, k, M, hp)
    /\ Grown(LowerLevels(F, L), nd, np, G, nd2, np2, sc.val, L - 1, slot)
    /\ Tiles(F, G, sc.val, Instead(LowerLevels(F, L), G, sc.val, L - 1), M)
    /\ nd3[p].t = "Internal" /\ nd3[p].next = None /\ Sorted(nd3[p])
    /\ Grafted(G, SlotsOf(nd[p]), sc, Instead(LowerLevels(F, L), G, sc.val, L - 1),
               SlotsOf(nd3[p]))
    /\ Len(nd3[p].values) <= Len(nd[p].values) + 1
    /\ \A q \in PageIds : q # p => nd3[q] = nd2[q]

\* What the lemmas below use of it.
GraftFacts(F, nd, np, p, L, sc, k, M, hp, slot, G, nd2, np2, nd3) ==
    LET c  == sc.val
        CH == Instead(LowerLevels(F, L), G, c, L - 1)
    IN  /\ Forest(F, nd, L)
        /\ \A q \in F.pages : /\ q \in PageIds /\ F.lv[q] \in Nat /\ F.lv[q] <= L
                              /\ F.lo[q] \in Int /\ F.hi[q] \in Int /\ F.lo[q] < F.hi[q]
                              /\ q \in Nat /\ q < np
        /\ p \in F.pages /\ F.lv[p] = L
        /\ F.lo[p] <= k /\ \A q \in F.pages : F.lv[q] = L /\ F.lo[p] < F.lo[q] => k < F.lo[q]
        /\ M \in Int /\ hp \in Int /\ K(sc) <= M /\ F.hi[p] <= hp /\ M <= hp
        /\ \/ M = K(sc) /\ hp = F.hi[p]
           \/ K(sc) = F.hi[p] /\ hp = M
        /\ \A q \in F.pages : F.lv[q] = L /\ F.hi[p] <= F.lo[q] => hp <= F.lo[q]
        /\ Forest(G, nd2, L - 1) /\ Tight(G, nd2)
        /\ \A q \in G.pages : /\ q \in PageIds /\ G.lv[q] \in Nat /\ G.lv[q] < L
                              /\ G.lo[q] \in Int /\ G.hi[q] \in Int /\ G.lo[q] < G.hi[q]
                              /\ nd3[q] = nd2[q] /\ q \in 0..(np2 - 1)
                              /\ (q \notin F.pages => q >= np)
        /\ \A q \in F.pages : F.lv[q] = L => q \notin G.pages
        /\ \A q \in F.pages : F.lv[q] = L /\ q # p => nd3[q] = nd[q]
        /\ \A q \in F.pages : F.lv[q] < L => q \in G.pages /\ G.lv[q] = F.lv[q]
        /\ \A q \in F.pages : F.lv[q] + 1 = L /\ q # c =>
              q \notin CH /\ G.lo[q] = F.lo[q] /\ G.hi[q] = F.hi[q]
        /\ \A q \in G.pages : G.lv[q] + 1 = L => q \in CH \/ (q \in F.pages /\ F.lv[q] + 1 = L /\ q # c)
        /\ \A q \in CH : q \in G.pages /\ G.lv[q] + 1 = L
        /\ \A s : InLeaves(G, nd2, s) <=> InLeaves(F, nd, s) \/ s = slot
        /\ \A q \in PageIds : q < np /\ q \notin F.pages => nd3[q] = nd[q]

LEMMA GraftFactsHold ==
  ASSUME OneInteger, NEW F, NEW nd \in [PageIds -> Node], NEW np \in Nat, NEW p, NEW L \in Nat,
         NEW sc, NEW k \in Int, NEW M, NEW hp, NEW slot, NEW G, NEW nd2, NEW np2 \in Nat, NEW nd3,
         np <= np2,
         GraftAt(F, nd, np, p, L, sc, k, M, hp, slot, G, nd2, np2, nd3)
  PROVE  GraftFacts(F, nd, np, p, L, sc, k, M, hp, slot, G, nd2, np2, nd3)
  <1>1. Forest(F, nd, L) /\ Tight(F, nd) /\ L > 0 /\ p \in F.pages /\ F.lv[p] = L
        /\ F.lo[p] <= k /\ \A q \in F.pages : F.lv[q] = L /\ F.lo[p] < F.lo[q] => k < F.lo[q]
    BY DEF GraftAt, Reaches
  <1>2. \A q \in F.pages : /\ q \in PageIds /\ F.lv[q] \in Nat /\ F.lv[q] <= L
                           /\ F.lo[q] \in Int /\ F.hi[q] \in Int /\ F.lo[q] < F.hi[q]
    BY <1>1, ForestFacts
  <1>3. \A q \in F.pages : q \in Nat /\ q < np
    BY DEF GraftAt
  <1>4. PICK E : E = LowerLevels(F, L)
    OBVIOUS
  <1>5. /\ Forest(E, nd, L - 1) /\ Tight(E, nd)
        /\ E.pages = {q \in F.pages : F.lv[q] < L}
        /\ \A q \in E.pages : E.lv[q] = F.lv[q] /\ E.lo[q] = F.lo[q] /\ E.hi[q] = F.hi[q]
        /\ \A s : InLeaves(E, nd, s) <=> InLeaves(F, nd, s)
    BY <1>1, <1>4, LowerForest
  <1>6. PICK c : c = sc.val
    OBVIOUS
  <1>7. PICK CH : CH = Instead(E, G, c, L - 1)
    OBVIOUS
  <1>8. K(sc) \in Int /\ K(sc) <= F.hi[p]
    BY <1>1, InnerFacts DEF GraftAt
  <1>9. /\ M \in Int /\ hp \in Int /\ K(sc) <= M /\ F.hi[p] <= hp /\ M <= hp
        /\ \/ M = K(sc) /\ hp = F.hi[p]
           \/ K(sc) = F.hi[p] /\ hp = M
        /\ hp = F.hi[p] \/ hp = k + 1
    <2>1. RaisedTo(F, p, sc, k, M, hp)
      BY DEF GraftAt
    <2> QED
      BY <1>1, <1>2, <1>8, <2>1 DEF RaisedTo
  <1>10. \A q \in F.pages : F.lv[q] = L /\ F.hi[p] <= F.lo[q] => hp <= F.lo[q]
    BY <1>1, <1>2, <1>9
  <1>11. Grown(E, nd, np, G, nd2, np2, c, L - 1, slot)
    BY <1>4, <1>6 DEF GraftAt
  <1>12. PICK l \in Nat : l = L - 1
    BY <1>1
  <1>13. Forest(G, nd2, l) /\ Tight(G, nd2)
    BY <1>11, <1>12 DEF Grown
  <1>14. \A q \in G.pages : /\ q \in PageIds /\ G.lv[q] \in Nat /\ G.lv[q] <= l
                            /\ G.lo[q] \in Int /\ G.hi[q] \in Int /\ G.lo[q] < G.hi[q]
    BY <1>13, ForestFacts
  <1>15. /\ \A q \in G.pages : q \in 0..(np2 - 1)
         /\ \A q \in E.pages : q \in G.pages /\ G.lv[q] = E.lv[q]
         /\ \A q \in G.pages : q \notin E.pages => q >= np
         /\ \A s : InLeaves(G, nd2, s) <=> InLeaves(E, nd, s) \/ s = slot
         /\ \A q \in E.pages : E.lv[q] = l =>
              G.lo[q] = E.lo[q] /\ (q # c => G.hi[q] = E.hi[q])
         /\ \A q \in PageIds : q < np /\ q \notin E.pages => nd2[q] = nd[q]
    BY <1>11, <1>12 DEF Grown
  <1>16. \A q \in F.pages : F.lv[q] = L => q \notin E.pages /\ q \notin G.pages
    BY <1>2, <1>3, <1>5, <1>15
  <1>17. \A q \in G.pages : nd3[q] = nd2[q] /\ (q \notin F.pages => q >= np)
    BY <1>1, <1>5, <1>14, <1>15, <1>16 DEF GraftAt
  <1>18. \A q \in F.pages : F.lv[q] = L /\ q # p => nd3[q] = nd[q]
    BY <1>2, <1>3, <1>15, <1>16 DEF GraftAt
  <1>19. \A q \in F.pages : F.lv[q] < L => q \in G.pages /\ G.lv[q] = F.lv[q]
    BY <1>5, <1>15
  <1>20. \A q \in F.pages : F.lv[q] + 1 = L => q \in E.pages /\ E.lv[q] = l
    BY <1>2, <1>5, <1>12
  <1>21. \A q \in F.pages : F.lv[q] + 1 = L /\ q # c =>
              q \notin CH /\ G.lo[q] = F.lo[q] /\ G.hi[q] = F.hi[q]
    BY <1>5, <1>7, <1>15, <1>20 DEF Instead
  <1>22. \A q \in G.pages : G.lv[q] + 1 = L =>
            q \in CH \/ (q \in F.pages /\ F.lv[q] + 1 = L /\ q # c)
    BY <1>5, <1>7, <1>12, <1>14, <1>15 DEF Instead
  <1>23. \A q \in CH : q \in G.pages /\ G.lv[q] + 1 = L
    BY <1>7 DEF Instead
  <1>24. \A q \in PageIds : q < np /\ q \notin F.pages => nd3[q] = nd[q]
    BY <1>1, <1>5, <1>15 DEF GraftAt
  <1>25. \A q \in G.pages : G.lv[q] < L
    BY <1>12, <1>14
  <1>26. \A s : InLeaves(G, nd2, s) <=> InLeaves(F, nd, s) \/ s = slot
    BY <1>5, <1>15
  <1> QED
    BY <1>1, <1>2, <1>3, <1>4, <1>6, <1>7, <1>9, <1>10, <1>12, <1>13, <1>14, <1>15, <1>16, <1>17,
       <1>18, <1>19, <1>21, <1>22, <1>23, <1>24, <1>25, <1>26 DEF GraftFacts

LEMMA GraftApart ==
  ASSUME OneInteger, NEW F, NEW nd, NEW np, NEW p, NEW L \in Nat, NEW sc, NEW k, NEW M, NEW hp,
         NEW slot, NEW G, NEW nd2, NEW np2, NEW nd3,
         GraftFacts(F, nd, np, p, L, sc, k, M, hp, slot, G, nd2, np2, nd3),
         NEW H, IsGraft(F, G, p, L, hp, H)
  PROVE  ForestTyped(H, L) /\ Apart(H)
  <1>1. /\ \A q \in F.pages : /\ q \in PageIds
                              /\ F.lo[q] \in Int /\ F.hi[q] \in Int /\ F.lo[q] < F.hi[q]
        /\ p \in F.pages /\ F.lv[p] = L /\ hp \in Int /\ F.hi[p] <= hp
        /\ \A q \in F.pages : F.lv[q] = L /\ F.hi[p] <= F.lo[q] => hp <= F.lo[q]
        /\ \A q \in G.pages : /\ q \in PageIds /\ G.lv[q] \in Nat /\ G.lv[q] < L
                              /\ G.lo[q] \in Int /\ G.hi[q] \in Int /\ G.lo[q] < G.hi[q]
        /\ Apart(F) /\ Apart(G)
    BY DEF GraftFacts, Forest
  <1>2. /\ \A q \in H.pages : q \in G.pages \/ (q \in F.pages /\ F.lv[q] = L)
        /\ H.lv \in [H.pages -> Int] /\ H.lo \in [H.pages -> Int] /\ H.hi \in [H.pages -> Int]
        /\ \A q \in G.pages : H.lv[q] = G.lv[q] /\ H.lo[q] = G.lo[q] /\ H.hi[q] = G.hi[q]
        /\ \A q \in F.pages : F.lv[q] = L =>
              /\ H.lv[q] = L /\ H.lo[q] = F.lo[q]
              /\ q # p => H.hi[q] = F.hi[q]
        /\ H.hi[p] = hp
    BY DEF IsGraft
  <1>3. ForestTyped(H, L)
    <2>1. \A q \in H.pages : H.lv[q] \in 0..L /\ q \in PageIds
      BY <1>1, <1>2
    <2> QED
      BY <1>2, <2>1 DEF ForestTyped
  <1>4. \A q \in H.pages : H.lo[q] < H.hi[q]
    BY <1>1, <1>2
  <1>5. ASSUME NEW q \in F.pages, F.lv[q] = L, NEW r \in F.pages, F.lv[r] = L, q # r
        PROVE  H.hi[q] <= H.lo[r] \/ H.hi[r] <= H.lo[q]
    <2>1. F.hi[q] <= F.lo[r] \/ F.hi[r] <= F.lo[q]
      BY <1>1, <1>5 DEF Apart
    <2>2. CASE q = p
      BY <1>1, <1>2, <1>5, <2>1, <2>2
    <2>3. CASE r = p
      BY <1>1, <1>2, <1>5, <2>1, <2>3
    <2>4. CASE q # p /\ r # p
      BY <1>2, <1>5, <2>1, <2>4
    <2> QED
      BY <2>2, <2>3, <2>4
  <1>6. ASSUME NEW q \in H.pages, NEW r \in H.pages, q # r, H.lv[q] = H.lv[r]
        PROVE  H.hi[q] <= H.lo[r] \/ H.hi[r] <= H.lo[q]
    <2>1. CASE q \in G.pages /\ r \in G.pages
      BY <1>1, <1>2, <1>6, <2>1 DEF Apart
    <2>2. CASE q \in F.pages /\ F.lv[q] = L
      <3>1. r \notin G.pages
        BY <1>1, <1>2, <1>6, <2>2
      <3> QED
        BY <1>2, <1>5, <1>6, <2>2, <3>1
    <2>3. CASE r \in F.pages /\ F.lv[r] = L
      <3>1. q \notin G.pages
        BY <1>1, <1>2, <1>6, <2>3
      <3> QED
        BY <1>2, <1>5, <1>6, <2>3, <3>1
    <2> QED
      BY <1>2, <2>1, <2>2, <2>3
  <1> QED
    BY <1>3, <1>4, <1>6 DEF Apart

\* The other pages of the level have their children still.
LEMMA GraftOthers ==
  ASSUME OneInteger, NEW F, NEW nd \in [PageIds -> Node], NEW np, NEW p, NEW L \in Nat, L > 0,
         NEW sc, NEW k,
         NEW M, NEW hp, NEW slot, NEW G, NEW nd2, NEW np2, NEW nd3,
         GraftFacts(F, nd, np, p, L, sc, k, M, hp, slot, G, nd2, np2, nd3),
         sc \in SlotsOf(nd[p]),
         NEW H, IsGraft(F, G, p, L, hp, H), NEW q \in F.pages, F.lv[q] = L, q # p
  PROVE  /\ InnerOK(H, nd3, q)
         /\ \A s \in SlotsOf(nd[q]) : s.val # sc.val
  <1>1. /\ Forest(F, nd, L) /\ p \in F.pages /\ F.lv[p] = L
        /\ \A r \in F.pages : /\ F.lv[r] \in Nat
                              /\ F.lo[r] \in Int /\ F.hi[r] \in Int /\ F.lo[r] < F.hi[r]
        /\ nd3[q] = nd[q]
        /\ \A r \in F.pages : F.lv[r] < L => r \in G.pages /\ G.lv[r] = F.lv[r]
        /\ \A r \in F.pages : F.lv[r] + 1 = L /\ r # sc.val =>
              G.lo[r] = F.lo[r] /\ G.hi[r] = F.hi[r]
    BY DEF GraftFacts
  <1>2. /\ H.pages = G.pages \cup {r \in F.pages : F.lv[r] = L}
        /\ \A r \in G.pages : H.lv[r] = G.lv[r] /\ H.lo[r] = G.lo[r] /\ H.hi[r] = G.hi[r]
        /\ H.lv[q] = L /\ H.lo[q] = F.lo[q] /\ H.hi[q] = F.hi[q]
    BY DEF IsGraft
  <1>3. /\ sc.val \in F.pages /\ F.hi[sc.val] = K(sc) /\ K(sc) <= F.hi[p]
        /\ F.lo[p] <= F.lo[sc.val]
    BY <1>1, InnerFacts
  <1>4. InnerOK(F, nd, q)
    BY <1>1 DEF Forest
  <1>5. F.hi[p] <= F.lo[q] \/ F.hi[q] <= F.lo[p]
    BY <1>1 DEF Forest, Apart
  <1>6. ASSUME NEW s \in SlotsOf(nd[q])
        PROVE  s.val # sc.val /\ ChildOK(H, SlotsOf(nd[q]), q, s)
    <2>1. ChildOK(F, SlotsOf(nd[q]), q, s)
      BY <1>4 DEF InnerOK
    <2>2. s.val \in F.pages /\ F.lv[s.val] + 1 = L
      BY <2>1 DEF ChildOK
    <2>3. s.val # sc.val
      <3>1. F.hi[s.val] <= F.hi[q] /\ F.lo[q] <= F.lo[s.val]
        BY <1>1, <2>1 DEF ChildOK
      <3> QED
        BY <1>1, <1>3, <1>5, <2>2, <3>1
    <2>4. s.val \in G.pages /\ G.lv[s.val] = F.lv[s.val]
      BY <1>1, <2>2
    <2>5. G.lo[s.val] = F.lo[s.val] /\ G.hi[s.val] = F.hi[s.val]
      BY <1>1, <2>2, <2>3
    <2>6. s.val \in H.pages
      BY <1>2, <2>4
    <2>7. H.lv[s.val] = F.lv[s.val] /\ H.lo[s.val] = F.lo[s.val] /\ H.hi[s.val] = F.hi[s.val]
      BY <1>2, <2>4, <2>5
    <2>8. ChildOK(H, SlotsOf(nd[q]), q, s)
      BY <1>2, <2>1, <2>6, <2>7 DEF ChildOK
    <2> QED
      BY <2>3, <2>8
  <1>7. InnerOK(H, nd3, q)
    <2>1. PICK node : node = nd[q]
      OBVIOUS
    <2>2. /\ node.t = "Internal" /\ node.next = None /\ Sorted(node)
          /\ \E s \in SlotsOf(node) : K(s) = F.hi[q]
      BY <1>4, <2>1 DEF InnerOK
    <2>3. \A s \in SlotsOf(node) : ChildOK(H, SlotsOf(node), q, s)
      BY <1>6, <2>1
    <2>4. nd3[q] = node /\ H.hi[q] = F.hi[q]
      BY <1>1, <1>2, <2>1
    <2> QED
      BY <2>2, <2>3, <2>4 DEF InnerOK
  <1> QED
    BY <1>6, <1>7

\* p has CH instead of c.
LEMMA GraftPage ==
  ASSUME OneInteger, NEW F, NEW nd \in [PageIds -> Node], NEW np, NEW p, NEW L \in Nat, L > 0,
         NEW sc, NEW k,
         NEW M, NEW hp, NEW slot, NEW G, NEW nd2, NEW np2, NEW nd3,
         GraftFacts(F, nd, np, p, L, sc, k, M, hp, slot, G, nd2, np2, nd3),
         GraftAt(F, nd, np, p, L, sc, k, M, hp, slot, G, nd2, np2, nd3),
         NEW H, IsGraft(F, G, p, L, hp, H)
  PROVE  InnerOK(H, nd3, p)
  <1>1. PICK c : c = sc.val
    OBVIOUS
  <1>2. PICK CH : CH = Instead(LowerLevels(F, L), G, c, L - 1)
    OBVIOUS
  <1>3. PICK S : S = SlotsOf(nd[p])
    OBVIOUS
  <1>4. PICK S2 : S2 = SlotsOf(nd3[p])
    OBVIOUS
  <1>5. /\ Forest(F, nd, L) /\ p \in F.pages /\ F.lv[p] = L
        /\ F.lo[p] \in Int /\ F.hi[p] \in Int
        /\ M \in Int /\ hp \in Int /\ K(sc) <= M /\ F.hi[p] <= hp /\ M <= hp
        /\ \/ M = K(sc) /\ hp = F.hi[p]
           \/ K(sc) = F.hi[p] /\ hp = M
        /\ \A q \in G.pages : G.lo[q] \in Int /\ G.hi[q] \in Int /\ G.lo[q] < G.hi[q]
        /\ \A q \in F.pages : F.lv[q] < L => q \in G.pages /\ G.lv[q] = F.lv[q]
        /\ \A q \in F.pages : F.lv[q] + 1 = L /\ q # c =>
              G.lo[q] = F.lo[q] /\ G.hi[q] = F.hi[q]
        /\ \A q \in CH : q \in G.pages /\ G.lv[q] + 1 = L
        /\ Apart(G)
    BY <1>1, <1>2 DEF GraftFacts, Forest
  <1>6. /\ H.pages = G.pages \cup {r \in F.pages : F.lv[r] = L}
        /\ \A r \in G.pages : H.lv[r] = G.lv[r] /\ H.lo[r] = G.lo[r] /\ H.hi[r] = G.hi[r]
        /\ H.lv[p] = L /\ H.lo[p] = F.lo[p] /\ H.hi[p] = hp
    BY <1>5 DEF IsGraft
  <1>7. /\ \A q \in CH : F.lo[c] <= G.lo[q] /\ G.hi[q] <= M
        /\ \A q \in CH : G.lo[q] = F.lo[c] \/ \E r \in CH : G.hi[r] = G.lo[q]
        /\ \E q \in CH : G.hi[q] = M
    BY <1>1, <1>2 DEF GraftAt, Tiles
  <1>8. /\ \A s \in S2 : (s \in S /\ s # sc) \/ (s.val \in CH /\ K(s) = G.hi[s.val])
        /\ \A s \in S : s # sc => s \in S2
        /\ \A q \in CH : \E s \in S2 : s.val = q /\ K(s) = G.hi[q]
    BY <1>1, <1>2, <1>3, <1>4 DEF GraftAt, Grafted
  <1>9. /\ \E s \in S : K(s) = F.hi[p]
        /\ \A s \in S : /\ s \in SlotSet /\ K(s) \in Int
                        /\ s.val \in F.pages /\ F.lv[s.val] + 1 = L
                        /\ F.hi[s.val] = K(s) /\ K(s) <= F.hi[p] /\ F.lo[p] <= F.lo[s.val]
                        /\ F.lo[s.val] \in Int /\ F.lo[s.val] < K(s)
                        /\ F.lo[s.val] = F.lo[p] \/ \E t \in S : K(t) = F.lo[s.val]
                        /\ \A t \in S : K(t) < K(s) => K(t) <= F.lo[s.val]
    BY <1>3, <1>5, InnerFacts
  <1>10. sc \in S
    BY <1>3 DEF GraftAt
  <1>11. \A s \in S : s # sc => K(s) # K(sc)
    <2>1. Sorted(nd[p]) /\ nd[p] \in Node
      BY <1>5, InnerFacts
    <2> QED
      BY <1>3, <1>10, <2>1, SortedKeysDiffer
  <1>12. \A s \in S : s # sc => s.val # c
    BY <1>1, <1>9, <1>10, <1>11
  <1>13. \A s \in S : s # sc => /\ s.val \in G.pages /\ G.lv[s.val] + 1 = L
                                /\ G.lo[s.val] = F.lo[s.val] /\ G.hi[s.val] = F.hi[s.val]
    <2>1. \A s \in S : s.val \in G.pages /\ G.lv[s.val] = F.lv[s.val]
      <3>1. \A s \in S : F.lv[s.val] < L
        <4>1. \A q \in F.pages : F.lv[q] \in Nat
          BY DEF GraftFacts
        <4> QED
          BY <1>9, <4>1
      <3> QED
        BY <1>5, <1>9, <3>1
    <2> QED
      BY <1>5, <1>9, <1>12, <2>1
  \* A bound above that of c is above M; one below it is not above c.
  <1>14. \A s \in S : s # sc /\ ~(K(s) < K(sc)) => M <= F.lo[s.val] /\ M < K(s)
    <2>1. \A s \in S : s # sc /\ ~(K(s) < K(sc)) => K(sc) < K(s)
      BY <1>9, <1>10, <1>11
    <2> QED
      BY <1>5, <1>9, <1>10, <2>1
  <1>15. \A s \in S : K(s) < K(sc) => K(s) <= F.lo[c]
    BY <1>1, <1>9, <1>10
  <1>16. c \in F.pages /\ F.lo[c] \in Int /\ F.lo[p] <= F.lo[c] /\ F.lo[c] < K(sc)
         /\ (F.lo[c] = F.lo[p] \/ \E t \in S : K(t) = F.lo[c])
    BY <1>1, <1>9, <1>10
  <1>17. PICK top \in CH : G.hi[top] = M
    BY <1>7
  <1>18. PICK st \in S2 : K(st) = M
    BY <1>8, <1>17
  <1>19. ASSUME NEW s \in S, s # sc PROVE ChildOK(H, S2, p, s)
    <2>1. F.lo[s.val] = F.lo[p] \/ \E t \in S2 : K(t) = F.lo[s.val]
      <3>1. ASSUME NEW t \in S, K(t) = F.lo[s.val], t = sc
            PROVE  K(st) = F.lo[s.val]
        <4>1. K(sc) < K(s)
          BY <1>9, <3>1
        <4>2. M <= F.lo[s.val]
          BY <1>9, <1>10, <1>14, <1>19, <4>1
        <4> QED
          BY <1>5, <1>9, <1>10, <1>18, <3>1, <4>2
      <3> QED
        BY <1>8, <1>9, <1>19, <3>1
    <2>2. ASSUME NEW t \in S2, K(t) < K(s) PROVE K(t) <= F.lo[s.val]
      <3>1. CASE t \in S
        BY <1>9, <1>19, <2>2, <3>1
      <3>2. CASE t.val \in CH /\ K(t) = G.hi[t.val]
        <4>1. F.lo[c] < K(t) /\ K(t) <= M /\ K(t) \in Int
          BY <1>5, <1>7, <1>16, <3>2
        <4>2. ~(K(s) < K(sc))
          BY <1>9, <1>15, <1>16, <1>19, <2>2, <4>1
        <4>3. M <= F.lo[s.val]
          BY <1>14, <1>19, <4>2
        <4> QED
          BY <1>5, <1>9, <1>19, <4>1, <4>3
      <3> QED
        BY <1>8, <2>2, <3>1, <3>2
    <2>3. s.val \in H.pages /\ H.lv[s.val] + 1 = H.lv[p]
      BY <1>6, <1>13, <1>19
    <2>4. H.lo[s.val] = F.lo[s.val] /\ H.hi[s.val] = K(s)
      BY <1>6, <1>9, <1>13, <1>19
    <2>5. K(s) <= H.hi[p]
      BY <1>5, <1>6, <1>9, <1>19
    <2> QED
      BY <1>6, <1>9, <1>19, <2>1, <2>2, <2>3, <2>4, <2>5 DEF ChildOK
  <1>20. ASSUME NEW s \in S2, s.val \in CH, K(s) = G.hi[s.val] PROVE ChildOK(H, S2, p, s)
    <2>1. PICK q \in CH : q = s.val
      BY <1>20
    <2>2. q \in G.pages /\ G.lv[q] + 1 = L /\ G.lo[q] \in Int /\ G.hi[q] \in Int
          /\ F.lo[c] <= G.lo[q] /\ G.lo[q] < G.hi[q] /\ G.hi[q] <= M /\ K(s) = G.hi[q]
      BY <1>5, <1>7, <1>20, <2>1
    <2>3. G.lo[q] = F.lo[p] \/ \E t \in S2 : K(t) = G.lo[q]
      <3>1. CASE G.lo[q] = F.lo[c]
        <4>1. \A t \in S : K(t) = F.lo[c] => t # sc
          BY <1>16
        <4> QED
          BY <1>8, <1>16, <3>1, <4>1
      <3>2. CASE \E r \in CH : G.hi[r] = G.lo[q]
        BY <1>8, <3>2
      <3> QED
        BY <1>7, <3>1, <3>2
    <2>4. ASSUME NEW t \in S2, K(t) < K(s) PROVE K(t) <= G.lo[q]
      <3>1. CASE t \in S /\ t # sc
        <4>1. CASE K(t) < K(sc)
          BY <1>9, <1>15, <1>16, <2>2, <3>1, <4>1
        <4>2. CASE ~(K(t) < K(sc))
          BY <1>5, <1>9, <1>14, <2>2, <2>4, <3>1, <4>2
        <4> QED
          BY <4>1, <4>2
      <3>2. CASE t.val \in CH /\ K(t) = G.hi[t.val]
        <4>1. PICK r \in CH : r = t.val
          BY <3>2
        <4>2. r \in G.pages /\ G.lv[r] + 1 = L /\ G.lo[r] \in Int /\ G.hi[r] \in Int
              /\ G.lo[r] < G.hi[r] /\ K(t) = G.hi[r]
          BY <1>5, <3>2, <4>1
        <4>3. r # q /\ G.hi[r] < G.hi[q]
          BY <2>2, <2>4, <4>2
        <4>4. G.lv[r] = G.lv[q]
          <5>1. \A x \in G.pages : G.lv[x] \in Nat
            BY DEF GraftFacts
          <5> QED
            BY <2>2, <4>2, <5>1
        <4>5. G.hi[r] <= G.lo[q] \/ G.hi[q] <= G.lo[r]
          BY <1>5, <2>2, <4>2, <4>3, <4>4 DEF Apart
        <4> QED
          BY <2>2, <4>2, <4>3, <4>5
      <3> QED
        BY <1>8, <2>4, <3>1, <3>2
    <2>5. q \in H.pages /\ H.lv[q] + 1 = H.lv[p] /\ H.lo[q] = G.lo[q] /\ H.hi[q] = K(s)
      BY <1>6, <2>2
    <2>6. K(s) <= H.hi[p] /\ F.lo[p] <= G.lo[q]
      BY <1>5, <1>6, <1>16, <2>2
    <2> QED
      BY <1>6, <2>1, <2>3, <2>4, <2>5, <2>6 DEF ChildOK
  <1>21. \A s \in S2 : ChildOK(H, S2, p, s)
    BY <1>8, <1>19, <1>20
  <1>22. \E s \in S2 : K(s) = hp
    <2>1. CASE M = K(sc) /\ hp = F.hi[p]
      BY <1>8, <1>9, <1>18, <2>1
    <2>2. CASE hp = M
      BY <1>18, <2>2
    <2> QED
      BY <1>5, <2>1, <2>2
  <1> QED
    BY <1>4, <1>6, <1>21, <1>22 DEF InnerOK, GraftAt

LEMMA GraftForest ==
  ASSUME OneInteger, NEW F, NEW nd \in [PageIds -> Node], NEW np \in Nat, NEW p, NEW L \in Nat,
         NEW sc, NEW k \in Int, NEW M, NEW hp, NEW slot, NEW G, NEW nd2, NEW np2 \in Nat, NEW nd3,
         np <= np2,
         GraftAt(F, nd, np, p, L, sc, k, M, hp, slot, G, nd2, np2, nd3)
  PROVE  \E H : /\ Grown(F, nd, np, H, nd3, np2, p, L, slot)
                /\ NoNewTop(F, H, L) /\ H.hi[p] = hp
  <1>1. GraftFacts(F, nd, np, p, L, sc, k, M, hp, slot, G, nd2, np2, nd3)
    BY GraftFactsHold
  <1>2. PICK c : c = sc.val
    OBVIOUS
  <1>3. PICK CH : CH = Instead(LowerLevels(F, L), G, c, L - 1)
    OBVIOUS
  <1>4. L > 0 /\ sc \in SlotsOf(nd[p])
    BY DEF GraftAt
  <1>5. /\ \A q \in F.pages : /\ q \in PageIds /\ F.lv[q] \in Nat /\ F.lv[q] <= L
                              /\ F.lo[q] \in Int /\ F.hi[q] \in Int /\ F.lo[q] < F.hi[q]
                              /\ q \in Nat /\ q < np
        /\ p \in F.pages /\ F.lv[p] = L /\ hp \in Int
        /\ Forest(F, nd, L) /\ Forest(G, nd2, L - 1) /\ Tight(G, nd2)
        /\ \A q \in G.pages : /\ q \in PageIds /\ G.lv[q] \in Nat /\ G.lv[q] < L
                              /\ G.lo[q] \in Int /\ G.hi[q] \in Int /\ G.lo[q] < G.hi[q]
                              /\ nd3[q] = nd2[q] /\ q \in 0..(np2 - 1)
                              /\ (q \notin F.pages => q >= np)
    BY <1>1 DEF GraftFacts
  <1>6. /\ \A q \in F.pages : F.lv[q] = L => q \notin G.pages
        /\ \A q \in F.pages : F.lv[q] = L /\ q # p => nd3[q] = nd[q]
        /\ \A q \in F.pages : F.lv[q] < L => q \in G.pages /\ G.lv[q] = F.lv[q]
        /\ \A q \in G.pages : G.lv[q] + 1 = L =>
              q \in CH \/ (q \in F.pages /\ F.lv[q] + 1 = L /\ q # c)
        /\ \A s : InLeaves(G, nd2, s) <=> InLeaves(F, nd, s) \/ s = slot
        /\ \A q \in PageIds : q < np /\ q \notin F.pages => nd3[q] = nd[q]
    BY <1>1, <1>2, <1>3 DEF GraftFacts
  <1>7. PICK H : IsGraft(F, G, p, L, hp, H)
    <2>1. \A q \in F.pages : F.lo[q] \in Int /\ F.hi[q] \in Int
      BY <1>5
    <2>2. \A q \in G.pages : G.lv[q] \in Int /\ G.lo[q] \in Int /\ G.hi[q] \in Int
      BY <1>5
    <2> QED
      BY <1>5, <1>6, <2>1, <2>2, GraftExists
  <1>8. ForestTyped(H, L) /\ Apart(H)
    BY <1>1, <1>7, GraftApart
  <1>9. InnerOK(H, nd3, p)
    BY <1>1, <1>4, <1>7, GraftPage
  <1>10. \A q \in F.pages : F.lv[q] = L /\ q # p =>
            InnerOK(H, nd3, q) /\ \A s \in SlotsOf(nd[q]) : s.val # c
    BY <1>1, <1>2, <1>4, <1>7, GraftOthers
  <1>11. /\ \A q \in H.pages : q \in G.pages \/ (q \in F.pages /\ F.lv[q] = L)
         /\ \A q \in G.pages : q \in H.pages
         /\ \A q \in G.pages : H.lv[q] = G.lv[q] /\ H.lo[q] = G.lo[q] /\ H.hi[q] = G.hi[q]
         /\ \A q \in F.pages : F.lv[q] = L =>
               /\ q \in H.pages /\ H.lv[q] = L /\ H.lo[q] = F.lo[q]
               /\ q # p => H.hi[q] = F.hi[q]
         /\ H.hi[p] = hp
    BY <1>7 DEF IsGraft
  <1>12. \A q \in H.pages : H.lv[q] = 0 => q \in G.pages /\ G.lv[q] = 0
    BY <1>4, <1>11
  <1>13. ASSUME NEW q \in H.pages, H.lv[q] = 0 PROVE LeafOK(H, nd3, q) /\ Linked(H, nd3, q)
    <2>1. q \in G.pages /\ G.lv[q] = 0 /\ nd3[q] = nd2[q] /\ H.lo[q] = G.lo[q]
          /\ H.hi[q] = G.hi[q]
      BY <1>5, <1>11, <1>12, <1>13
    <2>2. LeafOK(G, nd2, q) /\ Linked(G, nd2, q)
      BY <1>5, <2>1 DEF Forest
    <2>3. LeafOK(H, nd3, q)
      BY <2>1, <2>2 DEF LeafOK
    <2>4. Linked(H, nd3, q)
      BY <1>11, <1>12, <2>1, <2>2 DEF Linked
    <2> QED
      BY <2>3, <2>4
  <1>14. ASSUME NEW q \in G.pages, G.lv[q] > 0 PROVE InnerOK(H, nd3, q)
    <2>1. /\ nd3[q] = nd2[q] /\ H.lv[q] = G.lv[q] /\ H.lo[q] = G.lo[q] /\ H.hi[q] = G.hi[q]
          /\ InnerOK(G, nd2, q)
      BY <1>5, <1>11, <1>14 DEF Forest
    <2>2. ASSUME NEW s \in SlotsOf(nd2[q]) PROVE ChildOK(H, SlotsOf(nd2[q]), q, s)
      <3>1. ChildOK(G, SlotsOf(nd2[q]), q, s)
        BY <2>1 DEF InnerOK
      <3>2. s.val \in G.pages
        BY <3>1 DEF ChildOK
      <3> QED
        BY <1>11, <2>1, <3>1, <3>2 DEF ChildOK
    <2> QED
      BY <2>1, <2>2 DEF InnerOK
  <1>15. ASSUME NEW q \in H.pages, H.lv[q] > 0 PROVE InnerOK(H, nd3, q)
    BY <1>9, <1>10, <1>11, <1>14, <1>15
  <1>16. ASSUME NEW q \in H.pages, H.lv[q] < L PROVE HasParent(H, nd3, q)
    <2>1. q \in G.pages /\ G.lv[q] < L /\ H.lv[q] = G.lv[q] /\ G.lv[q] \in Nat
      BY <1>5, <1>11, <1>16
    <2>2. CASE G.lv[q] < L - 1
      <3>1. HasParent(G, nd2, q)
        BY <1>5, <2>1, <2>2 DEF Forest
      <3>2. PICK r \in G.pages : G.lv[r] = G.lv[q] + 1 /\ \E s \in SlotsOf(nd2[r]) : s.val = q
        BY <3>1 DEF HasParent
      <3> QED
        BY <1>5, <1>11, <2>1, <3>2 DEF HasParent
    <2>3. CASE G.lv[q] + 1 = L
      <3>1. \A s \in SlotsOf(nd[p]) : s # sc => s \in SlotsOf(nd3[p])
        BY DEF GraftAt, Grafted
      <3>2. \A x \in CH : \E s \in SlotsOf(nd3[p]) : s.val = x
        BY <1>2, <1>3 DEF GraftAt, Grafted
      <3>3. CASE q \in CH
        BY <1>5, <1>11, <2>1, <2>3, <3>2, <3>3 DEF HasParent
      <3>4. CASE q \in F.pages /\ F.lv[q] + 1 = L /\ q # c
        <4>1. F.lv[q] < L
          BY <1>5, <3>4
        <4>2. HasParent(F, nd, q)
          BY <1>5, <3>4, <4>1 DEF Forest
        <4>3. PICK r \in F.pages : F.lv[r] = L /\ \E s \in SlotsOf(nd[r]) : s.val = q
          BY <3>4, <4>2 DEF HasParent
        <4>4. \E s \in SlotsOf(nd3[r]) : s.val = q
          <5>1. PICK s \in SlotsOf(nd[r]) : s.val = q
            BY <4>3
          <5>2. CASE r = p
            BY <1>2, <3>1, <3>4, <5>1, <5>2
          <5>3. CASE r # p
            BY <1>6, <4>3, <5>1, <5>3
          <5> QED
            BY <5>2, <5>3
        <4> QED
          BY <1>11, <2>1, <2>3, <4>3, <4>4 DEF HasParent
      <3> QED
        BY <1>6, <2>1, <2>3, <3>3, <3>4
    <2> QED
      BY <2>1, <2>2, <2>3
  <1>17. Forest(H, nd3, L)
    BY <1>8, <1>13, <1>15, <1>16 DEF Forest
  <1>18. Tight(H, nd3)
    <2>1. \A q \in G.pages : G.lv[q] = 0 => \E s \in SlotsOf(nd2[q]) : K(s) + 1 = G.hi[q]
      BY <1>5 DEF Tight
    <2> QED
      BY <1>5, <1>11, <1>12, <2>1 DEF Tight
  <1>19. ASSUME NEW s PROVE InLeaves(H, nd3, s) <=> InLeaves(F, nd, s) \/ s = slot
    <2>1. InLeaves(H, nd3, s) <=> InLeaves(G, nd2, s)
      BY <1>5, <1>11, <1>12 DEF InLeaves
    <2> QED
      BY <1>6, <2>1
  <1>20. H.pages \subseteq 0..(np2 - 1)
    <2>1. \A q \in F.pages : q \in 0..(np2 - 1)
      BY <1>5
    <2> QED
      BY <1>5, <1>11, <2>1
  <1>21. \A q \in F.pages : q \in H.pages /\ H.lv[q] = F.lv[q]
    BY <1>5, <1>6, <1>11
  <1>22. \A q \in H.pages : q \notin F.pages => q >= np
    BY <1>5, <1>11
  <1>23. Grown(F, nd, np, H, nd3, np2, p, L, slot)
    BY <1>6, <1>11, <1>17, <1>18, <1>19, <1>20, <1>21, <1>22 DEF Grown
  <1>24. NoNewTop(F, H, L)
    BY <1>5, <1>11 DEF NoNewTop
  <1> QED
    BY <1>11, <1>23, <1>24

-----------------------------------------------------------------------------
\* The pages that c left and their slots.
LEMMA ChildDone ==
  ASSUME OneInteger, NEW key \in Keys, NEW val \in Values,
         NEW F, NEW nd \in [PageIds -> Node], NEW np \in Nat, NEW p, NEW L \in Nat,
         Ready(F, nd, np, p, key, L), L > 0,
         NEW sc, NEW sb, NEW B, IsBumped(F, nd[p], p, key[1], sc, sb, B),
         NEW nd2, NEW np2 \in Nat, np <= np2, NEW seps,
         PageDone(LowerLevels(F, L), nd, np, sc.val, L - 1, key, val, nd2, np2, seps),
         NEW nd3, nd3[p] = Replaced(B, seps), \A q \in PageIds : q # p => nd3[q] = nd2[q]
  PROVE  \E G : GraftAt(F, nd, np, p, L, sc, key[1], K(sb), Raised(F, p, key[1]),
                        Slot(key, val), G, nd2, np2, nd3)
  <1>1. /\ p \in F.pages /\ F.lv[p] = L
        /\ \A q \in F.pages : /\ F.lv[q] \in Nat /\ F.lv[q] <= L
                              /\ F.lo[q] \in Int /\ F.hi[q] \in Int /\ F.lo[q] < F.hi[q]
                              /\ q < np
    <2>1. Forest(F, nd, L) /\ F.pages \subseteq 0..(np - 1) /\ p \in F.pages /\ F.lv[p] = L
      BY DEF Ready, Reaches
    <2>2. \A q \in F.pages : q < np
      BY <2>1
    <2>3. \A q \in F.pages : /\ F.lv[q] \in Nat /\ F.lv[q] <= L
                             /\ F.lo[q] \in Int /\ F.hi[q] \in Int /\ F.lo[q] < F.hi[q]
      BY <2>1, ForestFacts
    <2> QED
      BY <2>1, <2>2, <2>3
  <1>2. /\ Forest(F, nd, L) /\ Tight(F, nd) /\ F.pages \subseteq 0..(np - 1)
        /\ Reaches(F, p, key[1], L)
    BY DEF Ready
  <1>3. PICK E : E = LowerLevels(F, L)
    OBVIOUS
  <1>4. /\ E.pages = {q \in F.pages : F.lv[q] < L}
        /\ \A q \in E.pages : E.lv[q] = F.lv[q] /\ E.lo[q] = F.lo[q] /\ E.hi[q] = F.hi[q]
    BY <1>2, <1>3, LowerForest
  <1>5. PICK k \in Int : k = key[1]
    BY BoundsAreIntegers DEF Bounds
  <1>6. PICK c : c = sc.val
    OBVIOUS
  <1>7. PICK S : S = SlotsOf(nd[p])
    OBVIOUS
  <1>8. /\ sc \in S /\ sb \in SlotSet /\ sb.val = c
        /\ B \in Node /\ B.t = "Internal" /\ B.next = None /\ Sorted(B)
        /\ \A s : s \in SlotsOf(B) <=> s = sb \/ (s \in S /\ s # sc)
        /\ RaisedTo(F, p, sc, k, K(sb), Raised(F, p, k))
    BY <1>5, <1>6, <1>7 DEF IsBumped
  <1>a. nd[p] \in Node /\ Sorted(nd[p])
    BY <1>1, <1>2, InnerFacts
  <1>9. \A s \in S : /\ s \in SlotSet /\ K(s) \in Int
                     /\ s.val \in F.pages /\ F.lv[s.val] + 1 = L
                     /\ F.hi[s.val] = K(s) /\ K(s) <= F.hi[p]
                     /\ F.lo[s.val] \in Int /\ F.lo[s.val] < K(s)
                     /\ \A t \in S : K(t) < K(s) => K(t) <= F.lo[s.val]
    BY <1>1, <1>2, <1>7, InnerFacts
  <1>10. c \in F.pages /\ F.lv[c] + 1 = L /\ F.hi[c] = K(sc) /\ F.lo[c] \in Int /\ F.lo[c] < K(sc)
         /\ K(sc) \in Int
    BY <1>6, <1>8, <1>9
  <1>11. c \in E.pages /\ E.lv[c] = L - 1 /\ E.lo[c] = F.lo[c] /\ E.hi[c] = K(sc)
    BY <1>1, <1>4, <1>10
  <1>12. PICK M \in Int : M = K(sb) /\ M = Raised(E, c, k) /\ F.lo[c] < M
    <2>1. K(sb) \in Int /\ F.hi[p] \in Int
      BY <1>1, <1>8, SlotKeys
    <2> QED
      BY <1>5, <1>8, <1>10, <1>11, <2>1 DEF RaisedTo, Raised
  <1>13. PICK slot : slot = Slot(key, val)
    OBVIOUS
  <1>14. PICK l \in Nat : l = L - 1
    OBVIOUS
  <1>15. PICK G : /\ Grown(E, nd, np, G, nd2, np2, c, l, slot)
                  /\ \/ /\ seps = <<>> /\ NoNewTop(E, G, l)
                        /\ G.hi[c] = Raised(E, c, k)
                     \/ \E n : /\ SplitTop(E, G, c, l, n)
                               /\ AreSeparators(G, c, n, seps)
                               /\ G.hi[n] = Raised(E, c, k)
    BY <1>3, <1>5, <1>6, <1>13, <1>14 DEF PageDone
  <1>16. /\ Forest(G, nd2, l) /\ c \in G.pages /\ G.lv[c] = l /\ G.lo[c] = F.lo[c]
    BY <1>11, <1>14, <1>15 DEF Grown
  <1>17. \A q \in G.pages : G.lv[q] \in Nat /\ G.lo[q] \in Int /\ G.hi[q] \in Int
                            /\ G.lo[q] < G.hi[q]
    BY <1>16, ForestFacts
  <1>18. PICK CH : CH = Instead(E, G, c, l)
    OBVIOUS
  <1>19. PICK R : R = Replaced(B, seps)
    OBVIOUS
  <1>20. \A s \in S : s # sc => K(s) # M
    <2>1. \A s \in SlotsOf(B) : K(s) = K(sb) => s = sb
      BY <1>8, SortedKeysDiffer
    <2>2. \A s \in S : s # sc => s \in SlotsOf(B)
      BY <1>8
    <2>3. \A s \in S : s.val = c => s = sc
      <3>1. Sorted(nd[p]) /\ nd[p] \in Node
        BY <1>1, <1>2, InnerFacts
      <3>2. \A s \in S : s.val = c => K(s) = K(sc)
        BY <1>9, <1>10
      <3> QED
        BY <1>7, <1>8, <3>1, <3>2, SortedKeysDiffer
    <2> QED
      BY <1>8, <1>12, <2>1, <2>2, <2>3
  <1>21. \A s \in S : s # sc => K(s) <= F.lo[c] \/ M < K(s)
    <2>1. \A s \in S : s # sc => K(s) # K(sc)
      <3>1. Sorted(nd[p]) /\ nd[p] \in Node
        BY <1>1, <1>2, InnerFacts
      <3> QED
        BY <1>7, <1>8, <3>1, SortedKeysDiffer
    <2>2. \A s \in S : K(s) < K(sc) => K(s) <= F.lo[c]
      BY <1>6, <1>8, <1>9
    <2>3. \A s \in S : K(sc) < K(s) => M = K(sc)
      BY <1>1, <1>8, <1>9, <1>10, <1>12 DEF RaisedTo
    <2> QED
      BY <1>9, <1>10, <1>12, <2>1, <2>2, <2>3
  <1>22. CASE seps = <<>> /\ NoNewTop(E, G, l) /\ G.hi[c] = M
    <2>1. CH = {c}
      <3>1. \A q \in CH : q = c
        BY <1>18, <1>22 DEF Instead, NoNewTop
      <3>2. c \in CH
        BY <1>16, <1>18 DEF Instead
      <3> QED
        BY <3>1, <3>2
    <2>2. Tiles(F, G, c, CH, M)
      BY <1>10, <1>12, <1>16, <1>22, <2>1 DEF Tiles
    <2>3. R = B
      BY <1>19, <1>22 DEF Replaced
    <2>4. Grafted(G, S, sc, CH, SlotsOf(R))
      BY <1>8, <1>12, <1>22, <2>1, <2>3 DEF Grafted
    <2>5. R.t = "Internal" /\ R.next = None /\ Sorted(R)
      BY <1>8, <2>3
    <2>a. Len(R.values) <= Len(nd[p].values) + 1
      <3>1. \A s \in SlotsOf(R) : s = sb \/ (s \in SlotsOf(nd[p]) /\ s # sc)
        BY <1>7, <1>8, <2>3
      <3>2. R \in Node
        BY <1>8, <2>3
      <3> QED
        BY <1>7, <1>8, <1>a, <2>5, <3>1, <3>2, TwoForOne
    <2>6. GraftAt(F, nd, np, p, L, sc, k, M, Raised(F, p, k), slot, G, nd2, np2, nd3)
      BY <1>2, <1>3, <1>5, <1>6, <1>7, <1>8, <1>12, <1>14, <1>15, <1>18, <1>19, <2>2, <2>4, <2>5, <2>a
      DEF GraftAt
    <2> QED
      BY <1>5, <1>12, <1>13, <2>6
  <1>23. ASSUME NEW n, SplitTop(E, G, c, l, n), AreSeparators(G, c, n, seps), G.hi[n] = M
         PROVE  \E GG : GraftAt(F, nd, np, p, L, sc, k, M, Raised(F, p, k), slot, GG, nd2, np2, nd3)
    <2>1. /\ n \in G.pages /\ n \notin E.pages /\ G.lv[n] = l /\ n # c
          /\ \A q \in G.pages : G.lv[q] = l => q \in E.pages \/ q = n
          /\ G.hi[c] = G.lo[n]
      BY <1>11, <1>23 DEF SplitTop
    <2>2. CH = {c, n}
      <3>1. \A q \in CH : q = c \/ q = n
        BY <1>18, <2>1 DEF Instead
      <3>2. c \in CH /\ n \in CH
        BY <1>16, <1>18, <2>1 DEF Instead
      <3> QED
        BY <3>1, <3>2
    <2>3. F.lo[c] < G.hi[c] /\ G.hi[c] < M /\ G.hi[c] \in Int
      BY <1>16, <1>17, <1>23, <2>1
    <2>4. Tiles(F, G, c, CH, M)
      BY <1>10, <1>12, <1>16, <1>23, <2>1, <2>2, <2>3 DEF Tiles
    <2>5. PICK s1, s2 \in SlotSet : /\ seps = <<s1, s2>>
                                    /\ s1.val = c /\ K(s1) = G.hi[c]
                                    /\ s2.val = n /\ K(s2) = G.hi[n]
      BY <1>23 DEF AreSeparators
    <2>6. PICK B1 : B1 = ReplaceSlot(B, s1)
      OBVIOUS
    <2>7. IsReplaced(B, s1, B1)
      BY <1>8, <2>6, ReplaceSlotResult
    <2>8. B1 \in Node /\ Sorted(B1)
      BY <2>7 DEF IsReplaced
    <2>9. R = ReplaceSlot(B1, s2)
      BY <1>19, <2>5, <2>6 DEF Replaced
    <2>10. IsReplaced(B1, s2, R)
      BY <2>8, <2>9, ReplaceSlotResult
    <2>11. R.t = "Internal" /\ R.next = None /\ Sorted(R)
      BY <1>8, <2>7, <2>10 DEF IsReplaced
    <2>12. \A s \in S : s # sc => K(s) # K(s1)
      BY <1>9, <1>10, <1>12, <1>21, <2>3, <2>5
    <2>13. K(s1) # K(s2) /\ K(s2) = M /\ K(s2) = K(sb)
      BY <1>12, <1>23, <2>3, <2>5
    <2>14. \A s : s \in SlotsOf(B1) <=> s = s1 \/ s = sb \/ (s \in S /\ s # sc)
      BY <1>8, <2>7, <2>12, <2>13 DEF IsReplaced
    <2>15. \A s : s \in SlotsOf(R) <=> s = s1 \/ s = s2 \/ (s \in S /\ s # sc)
      BY <1>12, <1>20, <2>10, <2>13, <2>14 DEF IsReplaced
    <2>16. Grafted(G, S, sc, CH, SlotsOf(R))
      BY <2>2, <2>5, <2>15 DEF Grafted
    <2>a. Len(R.values) <= Len(nd[p].values) + 1
      <3>1. \A s \in SlotsOf(R) : s = s1 \/ s = s2 \/ (s \in SlotsOf(nd[p]) /\ s # sc)
        BY <1>7, <2>15
      <3>2. R \in Node
        BY <2>10 DEF IsReplaced
      <3> QED
        BY <1>7, <1>8, <1>a, <2>5, <2>11, <3>1, <3>2, TwoForOne
    <2>17. GraftAt(F, nd, np, p, L, sc, k, M, Raised(F, p, k), slot, G, nd2, np2, nd3)
      BY <1>2, <1>3, <1>5, <1>6, <1>7, <1>8, <1>12, <1>14, <1>15, <1>18, <1>19, <2>4, <2>11, <2>16, <2>a
      DEF GraftAt
    <2> QED
      BY <2>17
  <1> QED
    BY <1>5, <1>12, <1>13, <1>15, <1>22, <1>23

-----------------------------------------------------------------------------
(***************************************************************************)
(* The function below of InsertBelow.                                      *)
(***************************************************************************)
Args == [st : InProgress, p : PageIds]

NoneBelow == [x \in Args |-> [st |-> Fail(x.st), seps |-> <<>>]]

OneMore(below, key, val) == [x \in Args |-> InsertPage(below, x.st, x.p, key, val)]

IsBelow(f, m, key, val) ==
    f = [n \in 0..m |-> IF n = 0 THEN NoneBelow ELSE OneMore(f[n - 1], key, val)]

LEMMA BelowExists ==
  ASSUME NEW key, NEW val
  PROVE  \A m \in Nat : \E f : IsBelow(f, m, key, val)
  <1> DEFINE Missing == {m \in Nat : ~\E f : IsBelow(f, m, key, val)}
  <1>1. ASSUME NEW m \in Missing, \A n \in Missing : m <= n PROVE FALSE
    <2>1. CASE m = 0
      <3>1. PICK f : f = [n \in 0..m |-> NoneBelow]
        OBVIOUS
      <3>2. \A n \in 0..m : n = 0
        BY <2>1
      <3>3. IsBelow(f, m, key, val)
        BY <3>1, <3>2 DEF IsBelow
      <3> QED
        BY <3>3
    <2>2. CASE m # 0
      <3>1. PICK l \in Nat : l = m - 1
        BY <2>2
      <3>2. l \notin Missing
        BY <1>1, <3>1
      <3>3. PICK f : IsBelow(f, l, key, val)
        BY <3>2
      <3>4. \A n \in 0..l : f[n] = IF n = 0 THEN NoneBelow ELSE OneMore(f[n - 1], key, val)
        BY <3>3 DEF IsBelow
      <3>5. PICK g : g = [n \in 0..m |-> IF n = m THEN OneMore(f[l], key, val) ELSE f[n]]
        OBVIOUS
      <3>6. g[m] = OneMore(f[l], key, val) /\ \A n \in 0..l : g[n] = f[n]
        BY <3>1, <3>5
      <3>7. \A n \in 0..m : n # 0 => n - 1 \in 0..l
        BY <3>1
      <3>8. ASSUME NEW n \in 0..m
            PROVE  g[n] = IF n = 0 THEN NoneBelow ELSE OneMore(g[n - 1], key, val)
        <4>1. CASE n = m
          BY <2>2, <3>1, <3>6, <4>1
        <4>2. CASE n # m
          <5>1. n \in 0..l /\ g[n] = f[n]
            BY <3>1, <3>6, <4>2
          <5>2. n # 0 => g[n - 1] = f[n - 1]
            BY <3>6, <3>7
          <5> QED
            BY <3>4, <5>1, <5>2
        <4> QED
          BY <4>1, <4>2
      <3>9. IsBelow(g, m, key, val)
        BY <3>5, <3>8 DEF IsBelow
      <3> QED
        BY <3>9
    <2> QED
      BY <2>1, <2>2
  <1>2. Missing = {}
    <2>1. Missing \in SUBSET Nat
      OBVIOUS
    <2> HIDE DEF Missing
    <2> QED
      BY <1>1, <2>1, LeastElement
  <1> QED
    BY <1>2

LEMMA InsertBelowIs ==
  ASSUME NEW key, NEW val, NEW st, NEW p
  PROVE  \E f : /\ IsBelow(f, MaxCalls, key, val)
                /\ InsertBelow(st, p, key, val) = f[MaxCalls][[st |-> st, p |-> p]]
  <1>1. PICK f : f = CHOOSE g : IsBelow(g, MaxCalls, key, val)
    OBVIOUS
  <1>2. IsBelow(f, MaxCalls, key, val)
    <2>1. MaxCalls \in Nat
      BY BTreeAssumption
    <2> QED
      BY <1>1, <2>1, BelowExists
  <1>3. InsertBelow(st, p, key, val) = f[MaxCalls][[st |-> st, p |-> p]]
    BY <1>1 DEF InsertBelow, IsBelow, NoneBelow, OneMore, Args
  <1> QED
    BY <1>2, <1>3

-----------------------------------------------------------------------------
(***************************************************************************)
(* Steps of an insert in progress.                                         *)
(***************************************************************************)
LEMMA ProgressFacts ==
  ASSUME NEW st \in InProgress
  PROVE  /\ st.nodes \in [PageIds -> Node] /\ st.np \in Nat /\ st.calls \in Nat
         /\ st.calls <= MaxCalls /\ st.upper \in BOOLEAN
         /\ st.end \in {"ok", "error", "panicked"}
  <1>1. MaxCalls \in Nat
    BY BTreeAssumption
  <1> QED
    BY <1>1 DEF InProgress

LEMMA StoreFacts ==
  ASSUME NEW st \in InProgress, NEW p \in PageIds, NEW node \in Node
  PROVE  /\ Store(st, p, node) \in InProgress
         /\ Store(st, p, node).nodes = [st.nodes EXCEPT ![p] = node]
         /\ Store(st, p, node).np = st.np /\ Store(st, p, node).calls = st.calls
         /\ Store(st, p, node).upper = st.upper /\ Store(st, p, node).end = st.end
  BY DEF Store, InProgress

LEMMA EndFacts ==
  ASSUME NEW st \in InProgress
  PROVE  /\ Fail(st) \in InProgress /\ Fail(st).nodes = st.nodes /\ Fail(st).np = st.np
         /\ Fail(st).upper = st.upper /\ Fail(st).end = "error"
         /\ Panic(st) \in InProgress /\ Panic(st).nodes = st.nodes /\ Panic(st).np = st.np
         /\ Panic(st).upper = st.upper /\ Panic(st).end = "panicked"
  BY DEF Fail, Panic, InProgress

LEMMA FetchFacts ==
  ASSUME NEW st \in InProgress, Going(st)
  PROVE  /\ FetchPage(st) \in InProgress /\ FetchPage(st).nodes = st.nodes
         /\ FetchPage(st).np = st.np /\ FetchPage(st).upper = st.upper
         /\ IF st.calls = 0 THEN FetchPage(st).end = "error"
            ELSE FetchPage(st).end = "ok" /\ FetchPage(st).calls = st.calls - 1
  <1>1. CASE st.calls = 0
    <2>1. FetchPage(st) = Fail(st)
      BY <1>1 DEF FetchPage
    <2> QED
      BY <1>1, <2>1, EndFacts
  <1>2. CASE st.calls # 0
    <2>1. PICK c : c = st.calls - 1
      OBVIOUS
    <2>2. c \in 0..MaxCalls
      BY <1>2, <2>1, ProgressFacts, BTreeAssumption
    <2>3. FetchPage(st) = [st EXCEPT !.calls = c]
      BY <1>2, <2>1 DEF FetchPage
    <2> QED
      BY <1>2, <2>1, <2>2, <2>3 DEF InProgress, Going
  <1> QED
    BY <1>1, <1>2

LEMMA NewPageFacts ==
  ASSUME NEW st \in InProgress, Going(st)
  PROVE  /\ NewPage(st) \in InProgress /\ NewPage(st).nodes = st.nodes
         /\ NewPage(st).np = st.np + 1 /\ NewPage(st).upper = st.upper
         /\ IF st.calls = 0 THEN NewPage(st).end = "error"
            ELSE NewPage(st).end = "ok" /\ NewPage(st).calls = st.calls - 1
  <1>1. PICK f \in InProgress : f = FetchPage(st)
    BY FetchFacts
  <1>2. /\ f.nodes = st.nodes /\ f.np = st.np /\ f.upper = st.upper
        /\ IF st.calls = 0 THEN f.end = "error"
           ELSE f.end = "ok" /\ f.calls = st.calls - 1
    BY <1>1, FetchFacts
  <1>3. NewPage(st) = [f EXCEPT !.np = @ + 1]
    BY <1>1 DEF NewPage
  <1> QED
    BY <1>2, <1>3 DEF InProgress

-----------------------------------------------------------------------------
(***************************************************************************)
(* What _insert does for page p of level L of a forest F.                  *)
(***************************************************************************)
\* The cache has the pages that may be taken.
Room(st) == \A q \in Nat : st.np <= q /\ q < st.np + st.calls => q \in PageIds

AtLargest(F, nd, key) ==
    \/ key[1] = MaxOf(KeyTypes[1])
    \/ \E s : InLeaves(F, nd, s) /\ s.key[1] = MaxOf(KeyTypes[1])

Moves(st, st2) ==
    /\ st2 \in InProgress
    /\ st.np <= st2.np
    /\ Going(st2) => st2.np + st2.calls <= st.np + st.calls
    /\ st.upper => st2.upper

\* An error before it was at an upper half leaves the nodes as they were.
ErrorKeeps(st, st2) ==
    st2.end = "error" => st2.upper \/ \A q \in PageIds : q < st.np => st2.nodes[q] = st.nodes[q]

InsertContract(F, st, p, key, val, L, r) ==
    /\ Moves(st, r.st)
    /\ ErrorKeeps(st, r.st)
    /\ r.st.end = "panicked" => AtLargest(F, st.nodes, key)
    /\ IF Going(r.st)
       THEN PageDone(F, st.nodes, st.np, p, L, key, val, r.st.nodes, r.st.np, r.seps)
       ELSE r.seps = <<>>
    /\ AllShort(st.nodes) => AllShort(r.st.nodes)

BelowOK(below, n, key, val) ==
    \A st \in InProgress, p \in PageIds, L \in Nat : \A F :
        Going(st) /\ st.calls < n /\ Room(st) /\ Ready(F, st.nodes, st.np, p, key, L)
            => InsertContract(F, st, p, key, val, L, below[[st |-> st, p |-> p]])

\* nd has the node that the key is to go into as page p.
IntoContract(F, nd, st, p, key, val, L, st2) ==
    /\ Moves(st, st2)
    /\ ErrorKeeps(st, st2)
    /\ st2.end = "panicked" => AtLargest(F, nd, key)
    /\ Going(st2) => IntoDone(F, nd, st.np, p, L, key, val, st2)
    /\ AllShort(st.nodes) /\ ~AlmostFull(nd[p]) => AllShort(st2.nodes)

\* The node of a page that is not in the forest plays no part.
LEMMA ReadyElsewhere ==
  ASSUME NEW E, NEW nd, NEW nd0, NEW np \in Nat, NEW c, NEW key, NEW l,
         Ready(E, nd, np, c, key, l), \A q \in E.pages : nd0[q] = nd[q]
  PROVE  /\ Ready(E, nd0, np, c, key, l)
         /\ \A s : InLeaves(E, nd0, s) <=> InLeaves(E, nd, s)
  <1>1. Forest(E, nd, l) /\ Tight(E, nd)
    BY DEF Ready
  <1>2. /\ Forest(E, nd0, l) /\ Tight(E, nd0)
        /\ \A s : InLeaves(E, nd0, s) <=> InLeaves(E, nd, s)
    BY <1>1, SameNodesSameForest
  <1> QED
    BY <1>2 DEF Ready

ElsewhereThan(E, p, np, nd, nd0, nd2b, nd2) ==
    /\ p \in PageIds /\ p < np /\ p \notin E.pages /\ nd2b[p] = nd[p]
    /\ \A q \in PageIds : q # p => nd[q] = nd0[q] /\ nd2b[q] = nd2[q]

LEMMA PageDoneElsewhere ==
  ASSUME NEW E, NEW nd, NEW nd0, NEW np \in Nat, NEW c, NEW key, NEW val, NEW l,
         NEW nd2, NEW np2, NEW seps,
         PageDone(E, nd0, np, c, l, key, val, nd2, np2, seps),
         \A s : InLeaves(E, nd0, s) <=> InLeaves(E, nd, s),
         NEW p, NEW nd2b, ElsewhereThan(E, p, np, nd, nd0, nd2b, nd2)
  PROVE  PageDone(E, nd, np, c, l, key, val, nd2b, np2, seps)
  <1>0. /\ p \in PageIds /\ p < np /\ p \notin E.pages /\ nd2b[p] = nd[p]
        /\ \A q \in PageIds : q # p => nd[q] = nd0[q] /\ nd2b[q] = nd2[q]
    BY DEF ElsewhereThan
  <1>1. PICK slot : slot = Slot(key, val)
    OBVIOUS
  <1>2. PICK G :
        /\ Grown(E, nd0, np, G, nd2, np2, c, l, slot)
        /\ \/ /\ seps = <<>> /\ NoNewTop(E, G, l)
              /\ G.hi[c] = Raised(E, c, key[1])
           \/ \E n : /\ SplitTop(E, G, c, l, n)
                     /\ AreSeparators(G, c, n, seps)
                     /\ G.hi[n] = Raised(E, c, key[1])
    BY <1>1 DEF PageDone
  <1>3. Forest(G, nd2, l) /\ Tight(G, nd2) /\ \A q \in G.pages : q \in PageIds /\ q # p
    <2>1. Forest(G, nd2, l) /\ Tight(G, nd2) /\ \A q \in G.pages : q \notin E.pages => q >= np
      BY <1>2 DEF Grown
    <2>2. \A q \in G.pages : q \in PageIds
      BY <2>1 DEF Forest, ForestTyped
    <2>3. p \in Nat
      BY <1>0, BTreeAssumption
    <2> QED
      BY <1>0, <2>1, <2>2, <2>3
  <1>4. \A q \in G.pages : nd2b[q] = nd2[q]
    BY <1>0, <1>3
  <1>5. /\ Forest(G, nd2b, l) /\ Tight(G, nd2b)
        /\ \A s : InLeaves(G, nd2b, s) <=> InLeaves(G, nd2, s)
    BY <1>3, <1>4, SameNodesSameForest
  <1>6. \A s : InLeaves(G, nd2b, s) <=> InLeaves(E, nd, s) \/ s = slot
    BY <1>2, <1>5 DEF Grown
  <1>7. \A q \in PageIds : q < np /\ q \notin E.pages => nd2b[q] = nd[q]
    <2>1. \A q \in PageIds : q < np /\ q \notin E.pages => nd2[q] = nd0[q]
      BY <1>2 DEF Grown
    <2> QED
      BY <1>0, <2>1
  <1>8. Grown(E, nd, np, G, nd2b, np2, c, l, slot)
    BY <1>2, <1>5, <1>6, <1>7 DEF Grown
  <1> QED
    BY <1>1, <1>2, <1>8 DEF PageDone

LEMMA ReplacedTyped ==
  ASSUME OneInteger, NEW B \in Node, Sorted(B), NEW seps,
         seps = <<>> \/ \E s1, s2 \in SlotSet : seps = <<s1, s2>>
  PROVE  Replaced(B, seps) \in Node
  <1>1. CASE seps = <<>>
    BY <1>1 DEF Replaced
  <1>2. CASE \E s1, s2 \in SlotSet : seps = <<s1, s2>>
    <2>1. PICK s1, s2 \in SlotSet : seps = <<s1, s2>>
      BY <1>2
    <2>2. PICK B1 : B1 = ReplaceSlot(B, s1)
      OBVIOUS
    <2>3. B1 \in Node /\ Sorted(B1)
      BY <2>2, ReplaceSlotResult DEF IsReplaced
    <2>4. Replaced(B, seps) = ReplaceSlot(B1, s2)
      BY <2>1, <2>2 DEF Replaced
    <2> QED
      BY <2>3, <2>4, ReplaceSlotResult DEF IsReplaced
  <1> QED
    BY <1>1, <1>2

\* A child of page p is done.
LEMMA ChildInserted ==
  ASSUME OneInteger, NEW key \in Keys, NEW val \in Values, NEW n \in Nat, NEW below,
         BelowOK(below, n, key, val),
         NEW st \in InProgress, Going(st), st.calls <= n, Room(st),
         NEW F, NEW nd \in [PageIds -> Node], NEW p \in PageIds, NEW L \in Nat,
         \A q \in PageIds : q # p => nd[q] = st.nodes[q],
         Ready(F, nd, st.np, p, key, L), L > 0
  PROVE  IntoContract(F, nd, st, p, key, val, L,
                      InsertChild(below, st, p, Bumped(nd[p], key), key))
  <1>1. PICK np \in Nat : np = st.np
    BY ProgressFacts
  <1>2. /\ p \in F.pages /\ F.lv[p] = L /\ p < np
        /\ \A q \in F.pages : F.lv[q] \in Nat /\ q \in PageIds
    <2>1. /\ Forest(F, nd, L) /\ F.pages \subseteq 0..(np - 1) /\ p \in F.pages
          /\ F.lv[p] = L
      BY <1>1 DEF Ready, Reaches
    <2>2. p < np
      BY <2>1
    <2> QED
      BY <2>1, <2>2, ForestFacts
  <1>3. PICK B : B = Bumped(nd[p], key)
    OBVIOUS
  <1>4. PICK sc, sb : IsBumped(F, nd[p], p, key[1], sc, sb, B) /\ FindChild(B, key) = sc.val
    BY <1>1, <1>3, BumpedChild
  <1>5. PICK c : c = sc.val
    OBVIOUS
  <1>6. B \in Node /\ Sorted(B)
    BY <1>4 DEF IsBumped
  <1>7. PICK E : E = LowerLevels(F, L)
    OBVIOUS
  <1>8. PICK l \in Nat : l = L - 1
    OBVIOUS
  <1>9. Ready(E, nd, np, c, key, l)
    BY <1>1, <1>4, <1>5, <1>7, <1>8, ChildReady
  <1>10. PICK s1 : s1 = FetchPage(st)
    OBVIOUS
  <1>11. /\ s1 \in InProgress /\ s1.nodes = st.nodes /\ s1.np = np /\ s1.upper = st.upper
         /\ IF st.calls = 0 THEN s1.end = "error"
            ELSE s1.end = "ok" /\ s1.calls = st.calls - 1
    BY <1>1, <1>10, FetchFacts
  <1>12. PICK r : r = InsertFetched(below, s1, c)
    OBVIOUS
  <1>13. InsertChild(below, st, p, B, key) = WithSeparators(r, p, B)
    BY <1>4, <1>5, <1>10, <1>12 DEF InsertChild
  <1>14. CASE st.calls = 0
    <2>1. ~Going(s1) /\ r = [st |-> s1, seps |-> <<>>]
      BY <1>11, <1>12, <1>14 DEF InsertFetched, Going
    <2>2. WithSeparators(r, p, B) = s1
      BY <2>1 DEF WithSeparators
    <2>3. IntoContract(F, nd, st, p, key, val, L, s1)
      BY <1>1, <1>11, <1>14 DEF IntoContract, Moves, ErrorKeeps, Going
    <2> QED
      BY <1>3, <1>13, <2>2, <2>3
  <1>15. CASE st.calls # 0
    <2>1. /\ Going(s1) /\ s1.calls = st.calls - 1 /\ st.calls \in Nat
          /\ r = below[[st |-> s1, p |-> c]]
      BY <1>11, <1>12, <1>15, ProgressFacts DEF InsertFetched, Going
    <2>2. \A q \in E.pages : q \in F.pages /\ q # p
      BY <1>2, <1>7 DEF LowerLevels
    <2>3. /\ Ready(E, st.nodes, np, c, key, l)
          /\ \A s : InLeaves(E, st.nodes, s) <=> InLeaves(E, nd, s)
      BY <1>2, <1>9, <2>2, ReadyElsewhere
    <2>4. c \in PageIds
      BY <1>9, ReadyFacts
    <2>5. Room(s1)
      BY <1>1, <1>11, <2>1 DEF Room
    <2>6. InsertContract(E, s1, c, key, val, l, r)
      BY <1>8, <1>11, <2>1, <2>3, <2>4, <2>5 DEF BelowOK
    <2>7. PICK s2 : s2 = r.st
      OBVIOUS
    <2>8. /\ s2 \in InProgress /\ np <= s2.np /\ (st.upper => s2.upper)
          /\ Going(s2) => s2.np + s2.calls <= np + (st.calls - 1)
          /\ s2.end = "error" => s2.upper \/ \A q \in PageIds : q < np => s2.nodes[q] = st.nodes[q]
          /\ s2.end = "panicked" => AtLargest(E, st.nodes, key)
          /\ AllShort(st.nodes) => AllShort(s2.nodes)
      BY <1>11, <2>1, <2>6, <2>7 DEF InsertContract, Moves, ErrorKeeps
    <2>9. AtLargest(E, st.nodes, key) => AtLargest(F, nd, key)
      <3>1. \A s : InLeaves(E, nd, s) <=> InLeaves(F, nd, s)
        BY <1>1, <1>7, LowerForest DEF Ready
      <3> QED
        BY <2>3, <3>1 DEF AtLargest
    <2>10. CASE ~Going(s2)
      <3>1. WithSeparators(r, p, B) = s2
        BY <2>7, <2>10 DEF WithSeparators
      <3>2. IntoContract(F, nd, st, p, key, val, L, s2)
        BY <1>1, <2>8, <2>9, <2>10 DEF IntoContract, Moves, ErrorKeeps
      <3> QED
        BY <1>3, <1>13, <3>1, <3>2
    <2>11. CASE Going(s2)
      <3>1. PageDone(E, st.nodes, np, c, l, key, val, s2.nodes, s2.np, r.seps)
        BY <1>11, <2>6, <2>7, <2>11 DEF InsertContract
      <3>2. s2.nodes \in [PageIds -> Node] /\ s2.np \in Nat /\ s2.calls \in Nat
        BY <2>8, ProgressFacts
      <3>3. r.seps = <<>> \/ \E a, b \in SlotSet : r.seps = <<a, b>>
        BY <3>1 DEF PageDone, AreSeparators
      <3>4. PICK R \in Node : R = Replaced(B, r.seps)
        BY <1>6, <3>3, ReplacedTyped
      <3>5. PICK s3 : s3 = Store(s2, p, R)
        OBVIOUS
      <3>6. /\ s3 \in InProgress /\ s3.nodes = [s2.nodes EXCEPT ![p] = R]
            /\ s3.np = s2.np /\ s3.calls = s2.calls /\ s3.upper = s2.upper /\ s3.end = s2.end
        BY <2>8, <3>4, <3>5, StoreFacts
      <3>7. WithSeparators(r, p, B) = s3
        BY <2>7, <2>11, <3>4, <3>5 DEF WithSeparators
      <3>8. PICK nd2b : nd2b = [s2.nodes EXCEPT ![p] = nd[p]]
        OBVIOUS
      <3>9. nd2b[p] = nd[p] /\ \A q \in PageIds : q # p => nd2b[q] = s2.nodes[q]
        BY <3>2, <3>8
      <3>10. PageDone(E, nd, np, c, l, key, val, nd2b, s2.np, r.seps)
        <4>1. PICK nd0 : nd0 = st.nodes
          OBVIOUS
        <4>2. PICK nd2 : nd2 = s2.nodes
          OBVIOUS
        <4>3. PICK np2 : np2 = s2.np
          OBVIOUS
        <4>4. PICK seps : seps = r.seps
          OBVIOUS
        <4>5. PageDone(E, nd0, np, c, l, key, val, nd2, np2, seps)
          BY <3>1, <4>1, <4>2, <4>3, <4>4
        <4>6. ElsewhereThan(E, p, np, nd, nd0, nd2b, nd2)
          BY <1>2, <2>2, <3>9, <4>1, <4>2 DEF ElsewhereThan
        <4>7. \A s : InLeaves(E, nd0, s) <=> InLeaves(E, nd, s)
          BY <2>3, <4>1
        <4>8. PageDone(E, nd, np, c, l, key, val, nd2b, np2, seps)
          BY <4>5, <4>6, <4>7, PageDoneElsewhere
        <4> QED
          BY <4>3, <4>4, <4>8
      <3>11. s3.nodes[p] = R /\ \A q \in PageIds : q # p => s3.nodes[q] = nd2b[q]
        BY <3>2, <3>6, <3>9
      <3>12. PICK nd3 : nd3 = s3.nodes
        OBVIOUS
      <3>13. PICK np2 \in Nat : np2 = s2.np
        BY <3>2
      <3>14. PICK slot : slot = Slot(key, val)
        OBVIOUS
      <3>15. PICK k \in Int : k = key[1]
        BY BoundsAreIntegers DEF Bounds
      <3>16. \E G : GraftAt(F, nd, np, p, L, sc, k, K(sb), Raised(F, p, k), slot, G, nd2b, np2, nd3)
        <4>1. np <= np2
          BY <2>8, <3>13
        <4>2. nd3[p] = Replaced(B, r.seps) /\ \A q \in PageIds : q # p => nd3[q] = nd2b[q]
          BY <3>4, <3>11, <3>12
        <4>3. PageDone(LowerLevels(F, L), nd, np, sc.val, L - 1, key, val, nd2b, np2, r.seps)
          BY <1>5, <1>7, <1>8, <3>10, <3>13
        <4> QED
          BY <1>1, <1>4, <3>14, <3>15, <4>1, <4>2, <4>3, ChildDone
      <3>17. \E H : /\ Grown(F, nd, np, H, nd3, np2, p, L, slot)
                    /\ NoNewTop(F, H, L) /\ H.hi[p] = Raised(F, p, k)
        <4>1. np <= np2
          BY <2>8, <3>13
        <4> QED
          BY <3>16, <4>1, GraftForest
      <3>18. IntoDone(F, nd, np, p, L, key, val, s3)
        BY <3>6, <3>12, <3>13, <3>14, <3>15, <3>17 DEF IntoDone, NoNewTop
      <3>20. AllShort(st.nodes) /\ ~AlmostFull(nd[p]) => AllShort(s3.nodes)
        <4>1. ASSUME AllShort(st.nodes), ~AlmostFull(nd[p]), NEW q \in PageIds
              PROVE  Short(s3.nodes[q])
          <5>1. CASE q = p
            <6>1. PICK node \in Node : node = nd[p]
              OBVIOUS
            <6>2. s3.nodes[q] = R /\ Len(nd3[p].values) <= Len(node.values) + 1
              BY <3>11, <3>16, <5>1, <6>1 DEF GraftAt
            <6>3. nd3[p] = R
              BY <3>11, <3>12
            <6> QED
              BY <3>4, <4>1, <6>1, <6>2, <6>3, GrowsShort
          <5>2. CASE q # p
            <6>1. s3.nodes[q] = s2.nodes[q]
              BY <3>9, <3>11, <5>2
            <6> QED
              BY <2>8, <4>1, <6>1 DEF AllShort
          <5> QED
            BY <5>1, <5>2
        <4> QED
          BY <4>1 DEF AllShort
      <3>19. IntoContract(F, nd, st, p, key, val, L, s3)
        BY <1>1, <2>1, <2>8, <2>11, <3>2, <3>6, <3>18, <3>20
        DEF IntoContract, Moves, ErrorKeeps, Going
      <3> QED
        BY <1>3, <1>13, <3>7, <3>19
    <2> QED
      BY <2>10, <2>11
  <1> QED
    BY <1>14, <1>15

LEMMA InsertIntoOK ==
  ASSUME OneInteger, NEW key \in Keys, NEW val \in Values, NEW n \in Nat, NEW below,
         BelowOK(below, n, key, val),
         NEW st \in InProgress, Going(st), st.calls <= n, Room(st),
         NEW F, NEW nd \in [PageIds -> Node], NEW p \in PageIds, NEW L \in Nat,
         \A q \in PageIds : q # p => nd[q] = st.nodes[q],
         Ready(F, nd, st.np, p, key, L)
  PROVE  IntoContract(F, nd, st, p, key, val, L, InsertInto(below, st, p, nd[p], key, val))
  <1>1. PICK np \in Nat : np = st.np
    BY ProgressFacts
  <1>2. PICK node \in Node : node = nd[p]
    OBVIOUS
  <1>3. PICK s2 : s2 = InsertInto(below, st, p, node, key, val)
    OBVIOUS
  <1>4. Forest(F, nd, L) /\ p \in F.pages /\ F.lv[p] = L
    BY DEF Ready, Reaches
  <1>5. CASE IsLeaf(node)
    <2>1. L = 0
      <3>1. ~(L > 0)
        BY <1>2, <1>4, <1>5 DEF Forest, InnerOK, IsLeaf
      <3> QED
        BY <3>1
    <2>2. PICK slot : slot = Slot(key, val)
      OBVIOUS
    <2>3. slot \in SlotSet
      BY <2>2 DEF Slot, SlotSet, Bounds
    <2>4. Sorted(node)
      BY <1>2, <1>4, <2>1 DEF Forest, LeafOK
    <2>5. PICK r : r = ReplaceSlot(node, slot)
      OBVIOUS
    <2>6. IsReplaced(node, slot, r)
      BY <2>3, <2>4, <2>5, ReplaceSlotResult
    <2>7. r \in Node
      BY <2>6 DEF IsReplaced
    <2>8. s2 = Store(st, p, r)
      BY <1>3, <1>5, <2>2, <2>5 DEF InsertInto
    <2>9. /\ s2 \in InProgress /\ s2.nodes = [st.nodes EXCEPT ![p] = r]
          /\ s2.np = st.np /\ s2.calls = st.calls /\ s2.upper = st.upper /\ s2.end = st.end
      BY <2>7, <2>8, StoreFacts
    <2>10. s2.nodes = [nd EXCEPT ![p] = r]
      <3>1. s2.nodes \in [PageIds -> Node] /\ st.nodes \in [PageIds -> Node]
        BY <2>9, ProgressFacts
      <3>2. \A q \in PageIds : s2.nodes[q] = [nd EXCEPT ![p] = r][q]
        BY <2>9, <3>1
      <3>3. [nd EXCEPT ![p] = r] \in [PageIds -> Node]
        BY <2>7
      <3> QED
        BY <3>1, <3>2, <3>3
    <2>11. IntoDone(F, nd, np, p, 0, key, val, s2)
      <3>1. Ready(F, nd, np, p, key, 0)
        BY <1>1, <2>1
      <3>2. IsReplaced(nd[p], Slot(key, val), r)
        BY <1>2, <2>2, <2>6
      <3> QED
        BY <1>1, <2>9, <2>10, <3>1, <3>2, LeafInserted
    <2>13. ASSUME AllShort(st.nodes), ~AlmostFull(nd[p]) PROVE AllShort(s2.nodes)
      <3>1. Len(r.values) <= Len(node.values) + 1
        <4>1. Len(node.values) \in Nat
          BY NodeFacts
        <4>2. Len(r.values) = Len(node.values) \/ Len(r.values) = Len(node.values) + 1
          BY <2>6 DEF IsReplaced
        <4> QED
          BY <4>1, <4>2
      <3>2. Short(r)
        BY <1>2, <2>7, <2>13, <3>1, GrowsShort
      <3>3. \A q \in PageIds : s2.nodes[q] = IF q = p THEN r ELSE st.nodes[q]
        BY <2>9, ProgressFacts
      <3> QED
        BY <2>13, <3>2, <3>3 DEF AllShort
    <2>12. IntoContract(F, nd, st, p, key, val, L, s2)
      BY <1>1, <2>1, <2>9, <2>11, <2>13, ProgressFacts
      DEF IntoContract, Moves, ErrorKeeps, Going
    <2> QED
      BY <1>2, <1>3, <2>12
  <1>6. CASE ~IsLeaf(node) /\ AboveAll(node, key) /\ NextPanics(node.tys[1], key[1])
    <2>1. s2 = Panic(st)
      BY <1>3, <1>6 DEF InsertInto
    <2>2. key[1] = MaxOf(KeyTypes[1])
      <3>1. PICK ty \in Integer : KeyTypes = <<ty>>
        BY DEF OneInteger
      <3>2. node.tys = KeyTypes
        BY DEF Node
      <3> QED
        BY <1>6, <3>1, <3>2 DEF NextPanics, Integer
    <2>3. IntoContract(F, nd, st, p, key, val, L, s2)
      BY <2>1, <2>2, EndFacts, ProgressFacts DEF IntoContract, Moves, ErrorKeeps, Going, AtLargest
    <2> QED
      BY <1>2, <1>3, <2>3
  <1>7. CASE ~IsLeaf(node) /\ ~(AboveAll(node, key) /\ NextPanics(node.tys[1], key[1]))
    <2>1. s2 = InsertChild(below, st, p, Bumped(node, key), key)
      BY <1>3, <1>7 DEF InsertInto
    <2>2. L > 0
      <3>1. L # 0
        BY <1>2, <1>4, <1>7 DEF Forest, LeafOK, IsLeaf
      <3> QED
        BY <3>1
    <2> QED
      BY <1>2, <1>3, <2>1, <2>2, ChildInserted
  <1> QED
    BY <1>5, <1>6, <1>7

-----------------------------------------------------------------------------
\* The key went into one half of the page that was split.
LEMMA HalvesJoined ==
  ASSUME OneInteger, NEW key \in Keys, NEW val \in Values, NEW F, NEW nd, NEW np \in Nat, NEW p,
         NEW L \in Nat, Ready(F, nd, np, p, key, L), np \in PageIds,
         NEW nd1, \A q \in PageIds : q # p /\ q # np => nd1[q] = nd[q],
         NEW m \in Int, F.lo[p] < m, m < F.hi[p], NEW G0, IsSplitForest(F, p, np, m, G0),
         \A s : InLeaves(G0, nd1, s) <=> InLeaves(F, nd, s),
         NEW t, t = (IF m <= key[1] THEN np ELSE p),
         NEW st3 \in InProgress, Going(st3), IntoDone(G0, nd1, np + 1, t, L, key, val, st3)
  PROVE  LET r == Separated(st3, p, np)
         IN  \/ r = [st |-> Panic(st3), seps |-> <<>>] /\ AtLargest(F, nd, key)
             \/ /\ r.st = st3
                /\ PageDone(F, nd, np, p, L, key, val, st3.nodes, st3.np, r.seps)
  <1>1. st3.nodes \in [PageIds -> Node] /\ st3.np \in Nat
    BY ProgressFacts
  <1>2. PICK nd2 \in [PageIds -> Node] : nd2 = st3.nodes
    BY <1>1
  <1>3. PageDone(F, nd, np, p, L, key, val, st3.nodes, st3.np,
                 <<Separator(st3.nodes[p], p), Separator(st3.nodes[np], np)>>)
    BY <1>1, SplitDone
  <1>4. CASE ~SeparatorPanics(st3.nodes[p]) /\ ~SeparatorPanics(st3.nodes[np])
    <2>1. PICK seps : seps = <<Separator(st3.nodes[p], p), Separator(st3.nodes[np], np)>>
      OBVIOUS
    <2>2. Separated(st3, p, np) = [st |-> st3, seps |-> seps]
      BY <1>4, <2>1 DEF Separated
    <2> QED
      BY <1>3, <2>1, <2>2
  <1>5. ASSUME NEW q, q = p \/ q = np, SeparatorPanics(nd2[q]) PROVE AtLargest(F, nd, key)
    <2>1. PICK slot : slot = Slot(key, val)
      OBVIOUS
    <2>2. PICK G : Grown(G0, nd1, np + 1, G, nd2, st3.np, t, L, slot)
      BY <1>2, <2>1 DEF IntoDone
    <2>3. Forest(G, nd2, L) /\ Tight(G, nd2) /\ q \in G.pages
      <3>1. p \in F.pages
        BY DEF Ready, Reaches
      <3> QED
        BY <1>5, <2>2, <3>1 DEF Grown, IsSplitForest
    <2>4. nd2[q].t = "Leaf" /\ NextPanics(nd2[q].tys[1], LastKey(nd2[q])[1])
      BY <1>5 DEF SeparatorPanics, IsLeaf
    <2>5. PICK s : s \in SlotsOf(nd2[q]) /\ s.key = LastKey(nd2[q]) /\ G.lv[q] = 0
      BY <2>3, <2>4, SeparatorOf
    <2>6. s.key[1] = MaxOf(KeyTypes[1])
      <3>1. PICK ty \in Integer : KeyTypes = <<ty>>
        BY DEF OneInteger
      <3>2. q \in PageIds
        BY <2>3 DEF Forest, ForestTyped
      <3>3. nd2[q].tys = KeyTypes
        BY <3>2 DEF Node
      <3> QED
        BY <2>4, <2>5, <3>1, <3>3 DEF NextPanics, Integer
    <2>7. InLeaves(G, nd2, s)
      BY <2>3, <2>5 DEF InLeaves
    <2>8. InLeaves(F, nd, s) \/ s = slot
      BY <2>2, <2>7 DEF Grown
    <2>9. s = slot => s.key = key
      BY <2>1 DEF Slot
    <2> QED
      BY <2>6, <2>8, <2>9 DEF AtLargest
  <1>6. CASE SeparatorPanics(st3.nodes[p]) \/ SeparatorPanics(st3.nodes[np])
    <2>1. AtLargest(F, nd, key)
      BY <1>2, <1>5, <1>6
    <2>2. Separated(st3, p, np) = [st |-> Panic(st3), seps |-> <<>>]
      BY <1>6 DEF Separated
    <2> QED
      BY <2>1, <2>2
  <1> QED
    BY <1>4, <1>6

LEMMA SplitOK ==
  ASSUME OneInteger, NEW key \in Keys, NEW val \in Values, NEW n \in Nat, NEW below,
         BelowOK(below, n, key, val),
         NEW st \in InProgress, Going(st), st.calls <= n, Room(st),
         NEW F, NEW p \in PageIds, NEW L \in Nat,
         Ready(F, st.nodes, st.np, p, key, L), Len(st.nodes[p].values) >= 2
  PROVE  InsertContract(F, st, p, key, val, L,
                        InsertSplit(below, NewPage(st), p, st.np, key, val))
  <1>1. PICK np \in Nat : np = st.np
    BY ProgressFacts
  <1>2. PICK nd \in [PageIds -> Node] : nd = st.nodes
    BY ProgressFacts
  <1>3. PICK s1 : s1 = NewPage(st)
    OBVIOUS
  <1>4. /\ s1 \in InProgress /\ s1.nodes = nd /\ s1.np = np + 1 /\ s1.upper = st.upper
        /\ IF st.calls = 0 THEN s1.end = "error"
           ELSE s1.end = "ok" /\ s1.calls = st.calls - 1
    BY <1>1, <1>2, <1>3, NewPageFacts
  <1>5. PICK r : r = InsertSplit(below, s1, p, np, key, val)
    OBVIOUS
  <1>6. st.calls \in Nat
    BY ProgressFacts
  <1>7. CASE st.calls = 0
    <2>1. r = [st |-> s1, seps |-> <<>>] /\ ~Going(s1)
      BY <1>4, <1>5, <1>7 DEF InsertSplit, Going
    <2>2. InsertContract(F, st, p, key, val, L, r)
      BY <1>1, <1>2, <1>4, <1>7, <2>1 DEF InsertContract, Moves, ErrorKeeps, Going
    <2> QED
      BY <1>1, <1>3, <1>5, <2>2
  <1>8. CASE st.calls # 0
    <2>1. np \in PageIds
      BY <1>1, <1>6, <1>8 DEF Room
    <2>2. Going(s1) /\ s1.calls = st.calls - 1
      BY <1>4, <1>8 DEF Going
    <2>3. Ready(F, nd, np, p, key, L)
      BY <1>1, <1>2
    <2>4. p \in F.pages /\ p # np /\ Forest(F, nd, L)
      BY <2>3 DEF Ready, Reaches
    <2>5. Sorted(nd[p])
      <3>1. F.lv[p] \in Nat
        BY <2>4, ForestFacts
      <3>2. F.lv[p] = 0 \/ F.lv[p] > 0
        BY <3>1
      <3> QED
        BY <2>4, <3>2 DEF Forest, LeafOK, InnerOK
    <2>6. PICK lower : lower = LowerHalf(nd[p], np)
      OBVIOUS
    <2>7. PICK upper : upper = UpperHalf(nd[p])
      OBVIOUS
    <2>8. lower \in Node /\ upper \in Node
      BY <1>2, <2>1, <2>5, <2>6, <2>7, Halves
    <2>9. PICK right \in BOOLEAN : right = GoesRight(lower, key)
      BY DEF GoesRight
    <2>10. PICK done : done = IF right THEN [page |-> p, node |-> lower]
                              ELSE [page |-> np, node |-> upper]
      OBVIOUS
    <2>11. PICK todo : todo = IF right THEN [page |-> np, node |-> upper]
                              ELSE [page |-> p, node |-> lower]
      OBVIOUS
    <2>12. PICK s2 : s2 = [Store(s1, done.page, done.node) EXCEPT !.upper = @ \/ right]
      OBVIOUS
    <2>13. PICK nd1 : nd1 = [nd EXCEPT ![p] = lower, ![np] = upper]
      OBVIOUS
    <2>14. /\ s2 \in InProgress /\ s2.np = np + 1 /\ s2.calls = st.calls - 1
           /\ s2.end = "ok" /\ (right => s2.upper) /\ (st.upper => s2.upper)
           /\ nd1 \in [PageIds -> Node]
           /\ nd1[todo.page] = todo.node
           /\ \A q \in PageIds : q # todo.page => nd1[q] = s2.nodes[q]
           /\ ~right => \A q \in PageIds : q # np => s2.nodes[q] = nd[q]
           /\ \A q \in PageIds : q # done.page => s2.nodes[q] = nd[q]
           /\ s2.nodes[done.page] = done.node
      <3>1. /\ nd1 \in [PageIds -> Node] /\ nd1[p] = lower /\ nd1[np] = upper
            /\ \A q \in PageIds : q # p /\ q # np => nd1[q] = nd[q]
        BY <2>1, <2>4, <2>8, <2>13
      <3>2. CASE right
        <4>1. PICK s : s = Store(s1, p, lower)
          OBVIOUS
        <4>2. /\ s \in InProgress /\ s.nodes = [nd EXCEPT ![p] = lower]
              /\ s.np = np + 1 /\ s.calls = st.calls - 1 /\ s.end = "ok"
          <5>1. s1 \in InProgress
            BY <1>4
          <5>2. /\ s \in InProgress /\ s.nodes = [s1.nodes EXCEPT ![p] = lower]
                /\ s.np = s1.np /\ s.calls = s1.calls /\ s.end = s1.end
            BY <2>8, <4>1, <5>1, StoreFacts
          <5> QED
            BY <1>4, <2>2, <5>2 DEF Going
        <4>3. done.page = p /\ done.node = lower /\ todo.page = np /\ todo.node = upper
          BY <2>10, <2>11, <3>2
        <4>4. s2 = [s EXCEPT !.upper = @ \/ right]
          BY <2>12, <4>1, <4>3
        <4>5. /\ s2 \in InProgress /\ s2.nodes = s.nodes /\ s2.np = s.np
              /\ s2.calls = s.calls /\ s2.end = s.end /\ s2.upper
          BY <3>2, <4>2, <4>4 DEF InProgress
        <4>6. \A q \in PageIds : q # np => nd1[q] = s2.nodes[q]
          BY <2>1, <3>1, <4>2, <4>5
        <4>7. s2.nodes[p] = lower /\ \A q \in PageIds : q # p => s2.nodes[q] = nd[q]
          BY <4>2, <4>5
        <4> QED
          BY <3>1, <3>2, <4>2, <4>3, <4>5, <4>6, <4>7
      <3>3. CASE ~right
        <4>1. PICK s : s = Store(s1, np, upper)
          OBVIOUS
        <4>2. /\ s \in InProgress /\ s.nodes = [nd EXCEPT ![np] = upper] /\ s.upper = st.upper
              /\ s.np = np + 1 /\ s.calls = st.calls - 1 /\ s.end = "ok"
          <5>1. s1 \in InProgress
            BY <1>4
          <5>2. /\ s \in InProgress /\ s.nodes = [s1.nodes EXCEPT ![np] = upper]
                /\ s.np = s1.np /\ s.calls = s1.calls /\ s.end = s1.end
                /\ s.upper = s1.upper
            BY <2>1, <2>8, <4>1, <5>1, StoreFacts
          <5> QED
            BY <1>4, <2>2, <5>2 DEF Going
        <4>3. done.page = np /\ done.node = upper /\ todo.page = p /\ todo.node = lower
          BY <2>10, <2>11, <3>3
        <4>4. s2 = [s EXCEPT !.upper = @ \/ right]
          BY <2>12, <4>1, <4>3
        <4>5. /\ s2 \in InProgress /\ s2.nodes = s.nodes /\ s2.np = s.np
              /\ s2.calls = s.calls /\ s2.end = s.end /\ s2.upper = s.upper
          BY <3>3, <4>2, <4>4 DEF InProgress
        <4>6. \A q \in PageIds : q # np => s2.nodes[q] = nd[q]
          BY <2>1, <4>2, <4>5
        <4>7. \A q \in PageIds : q # p => nd1[q] = s2.nodes[q]
          BY <2>1, <3>1, <4>2, <4>5
        <4>8. s2.nodes[np] = upper
          BY <2>1, <4>2, <4>5
        <4> QED
          BY <3>1, <3>3, <4>2, <4>3, <4>5, <4>6, <4>7, <4>8
      <3> QED
        BY <3>2, <3>3
    <2>15. nd1[p] = lower /\ nd1[np] = upper
           /\ \A q \in PageIds : q # p /\ q # np => nd1[q] = nd[q]
      BY <2>1, <2>4, <2>13
    <2>16. PICK t : t = todo.page
      OBVIOUS
    <2>17. t = (IF right THEN np ELSE p) /\ t \in PageIds
      BY <2>1, <2>11, <2>16
    <2>18. HalfReady(F, nd, np, p, key, L, right, nd1)
      <3>1. Len(nd[p].values) >= 2 /\ nd1[p] = LowerHalf(nd[p], np) /\ nd1[np] = UpperHalf(nd[p])
        BY <1>2, <2>6, <2>7, <2>15
      <3>2. HalfReady(F, nd, np, p, key, L, GoesRight(LowerHalf(nd[p], np), key), nd1)
        BY <2>1, <2>3, <2>15, <3>1, PageSplit
      <3> QED
        BY <2>6, <2>9, <3>2
    <2>m. PICK m \in Int : \E G0 :
              /\ IsSplitForest(F, p, np, m, G0)
              /\ F.lo[p] < m /\ m < F.hi[p]
              /\ right <=> m <= key[1]
              /\ Ready(G0, nd1, np + 1, t, key, L)
              /\ \A s : InLeaves(G0, nd1, s) <=> InLeaves(F, nd, s)
      BY <2>17, <2>18 DEF HalfReady
    <2>19. PICK G0 :
              /\ IsSplitForest(F, p, np, m, G0)
              /\ F.lo[p] < m /\ m < F.hi[p]
              /\ right <=> m <= key[1]
              /\ Ready(G0, nd1, np + 1, t, key, L)
              /\ \A s : InLeaves(G0, nd1, s) <=> InLeaves(F, nd, s)
      BY <2>m
    <2>h. ASSUME AllShort(nd) PROVE AllShort(s2.nodes) /\ ~AlmostFull(nd1[t])
      <3>1. PICK node \in Node : node = nd[p] /\ Short(node) /\ Len(node.values) >= 2
        BY <1>2, <2>h DEF AllShort
      <3>2. /\ Len(lower.values) < Len(node.values)
            /\ Len(upper.values) < Len(node.values)
        BY <2>1, <2>6, <2>7, <3>1, HalvesShorter
      <3>3. ASSUME NEW half \in Node, Len(half.values) < Len(node.values)
            PROVE  Short(half) /\ ~AlmostFull(half)
        <4>1. Len(half.values) <= Len(node.values)
          BY <3>3, NodeFacts
        <4> QED
          BY <3>1, <3>3, <4>1, ShorterIsShort
      <3>4. Short(lower) /\ ~AlmostFull(lower) /\ Short(upper) /\ ~AlmostFull(upper)
        BY <2>8, <3>2, <3>3
      <3>5. done.node \in {lower, upper} /\ todo.node \in {lower, upper}
        BY <2>10, <2>11
      <3>6. nd1[t] = todo.node
        BY <2>14, <2>16
      <3>7. \A q \in PageIds : s2.nodes[q] = done.node \/ s2.nodes[q] = nd[q]
        BY <2>14
      <3> QED
        BY <2>h, <3>4, <3>5, <3>6, <3>7 DEF AllShort
    <2>20. PICK s3 : s3 = InsertInto(below, s2, t, nd1[t], key, val)
      OBVIOUS
    <2>21. IntoContract(G0, nd1, s2, t, key, val, L, s3)
      <3>1. Room(s2)
        <4>1. PICK c \in Nat : c = st.calls
          BY <1>6
        <4>2. s2.np = np + 1 /\ s2.calls = c - 1
          BY <2>14, <4>1
        <4>3. \A q \in Nat : np <= q /\ q < np + c => q \in PageIds
          BY <1>1, <4>1 DEF Room
        <4>4. \A q \in Nat : np + 1 <= q /\ q < (np + 1) + (c - 1) => q \in PageIds
          BY <4>3
        <4> QED
          BY <4>2, <4>4 DEF Room
      <3>2. Going(s2) /\ s2.calls <= n
        BY <1>6, <2>14 DEF Going
      <3>3. Ready(G0, nd1, s2.np, t, key, L)
        BY <2>14, <2>19
      <3>4. /\ s2 \in InProgress /\ nd1 \in [PageIds -> Node] /\ t \in PageIds
            /\ \A q \in PageIds : q # t => nd1[q] = s2.nodes[q]
        BY <2>14, <2>16, <2>17
      <3>5. IntoContract(G0, nd1, s2, t, key, val, L, InsertInto(below, s2, t, nd1[t], key, val))
        BY <3>1, <3>2, <3>3, <3>4, InsertIntoOK
      <3> QED
        BY <2>20, <3>5
    <2>22. s3 = InsertHalf(below, s1, [page |-> p, node |-> lower], [page |-> np, node |-> upper],
                           right, key, val)
      BY <2>10, <2>11, <2>12, <2>14, <2>16, <2>20 DEF InsertHalf
    <2>23. r = Separated(s3, p, np)
      BY <1>4, <1>5, <2>2, <2>6, <2>7, <2>9, <2>22 DEF InsertSplit
    <2>24. /\ s3 \in InProgress /\ np + 1 <= s3.np /\ s3.np \in Nat
           /\ Going(s3) => s3.np + s3.calls <= (np + 1) + (st.calls - 1)
           /\ s2.upper => s3.upper
           /\ s3.end = "error" =>
                 s3.upper \/ \A q \in PageIds : q < np + 1 => s3.nodes[q] = s2.nodes[q]
           /\ s3.end = "panicked" => AtLargest(G0, nd1, key)
           /\ Going(s3) => IntoDone(G0, nd1, np + 1, t, L, key, val, s3)
           /\ AllShort(nd) => AllShort(s3.nodes)
      BY <2>14, <2>21, <2>h, ProgressFacts DEF IntoContract, Moves, ErrorKeeps
    <2>25. np <= s3.np /\ (st.upper => s3.upper) /\ s3.calls \in Nat
           /\ (Going(s3) => s3.np + s3.calls <= np + st.calls)
      <3>1. s3.calls \in Nat
        BY <2>24, ProgressFacts
      <3>2. st.upper => s3.upper
        BY <2>14, <2>24
      <3>3. PICK c \in Nat, c3 \in Nat, np3 \in Nat : c = st.calls /\ c3 = s3.calls /\ np3 = s3.np
        BY <1>6, <2>24, <3>1
      <3>4. np + 1 <= np3 /\ (Going(s3) => np3 + c3 <= (np + 1) + (c - 1))
        BY <2>24, <3>3
      <3>5. np <= np3 /\ (Going(s3) => np3 + c3 <= np + c)
        BY <3>4
      <3> QED
        BY <3>1, <3>2, <3>3, <3>5
    <2>26. CASE ~Going(s3)
      <3>1. r = [st |-> s3, seps |-> <<>>]
        BY <2>23, <2>26 DEF Separated
      <3>2. s3.end = "error" => s3.upper \/ \A q \in PageIds : q < np => s3.nodes[q] = nd[q]
        <4>1. ASSUME s3.end = "error", ~s3.upper, NEW q \in PageIds, q < np
              PROVE  s3.nodes[q] = nd[q]
          <5>1. q \in Nat
            BY BTreeAssumption
          <5>2. q < np + 1 /\ q # np /\ ~right
            BY <2>14, <2>24, <4>1, <5>1
          <5> QED
            BY <2>14, <2>24, <4>1, <5>2
        <4> QED
          BY <4>1
      <3>3. AtLargest(G0, nd1, key) => AtLargest(F, nd, key)
        BY <2>19 DEF AtLargest
      <3>4. InsertContract(F, st, p, key, val, L, r)
        BY <1>1, <1>2, <2>24, <2>25, <2>26, <3>1, <3>2, <3>3
        DEF InsertContract, Moves, ErrorKeeps
      <3> QED
        BY <1>1, <1>3, <1>5, <3>4
    <2>27. CASE Going(s3)
      <3>1. t = (IF m <= key[1] THEN np ELSE p)
        BY <2>17, <2>19
      <3>2. \/ r = [st |-> Panic(s3), seps |-> <<>>] /\ AtLargest(F, nd, key)
            \/ /\ r.st = s3
               /\ PageDone(F, nd, np, p, L, key, val, s3.nodes, s3.np, r.seps)
        <4>1. LET x == Separated(s3, p, np)
              IN  \/ x = [st |-> Panic(s3), seps |-> <<>>] /\ AtLargest(F, nd, key)
                  \/ /\ x.st = s3
                     /\ PageDone(F, nd, np, p, L, key, val, s3.nodes, s3.np, x.seps)
          <5>1. IntoDone(G0, nd1, np + 1, t, L, key, val, s3)
            BY <2>24, <2>27
          <5> QED
            BY <2>1, <2>3, <2>15, <2>19, <2>24, <2>27, <3>1, <5>1, HalvesJoined
        <4> QED
          BY <2>23, <4>1
      <3>3. CASE r = [st |-> Panic(s3), seps |-> <<>>] /\ AtLargest(F, nd, key)
        <4>1. PICK s4 : s4 = Panic(s3)
          OBVIOUS
        <4>2. /\ s4 \in InProgress /\ s4.np = s3.np /\ s4.upper = s3.upper
              /\ s4.end = "panicked" /\ s4.nodes = s3.nodes
          BY <2>24, <4>1, EndFacts
        <4>3. InsertContract(F, st, p, key, val, L, r)
          BY <1>1, <1>2, <2>24, <2>25, <3>3, <4>1, <4>2 DEF InsertContract, Moves, ErrorKeeps, Going
        <4> QED
          BY <1>1, <1>3, <1>5, <4>3
      <3>4. CASE /\ r.st = s3
                 /\ PageDone(F, nd, np, p, L, key, val, s3.nodes, s3.np, r.seps)
        <4>1. InsertContract(F, st, p, key, val, L, r)
          BY <1>1, <1>2, <2>24, <2>25, <2>27, <3>4 DEF InsertContract, Moves, ErrorKeeps, Going
        <4> QED
          BY <1>1, <1>3, <1>5, <4>1
      <3> QED
        BY <3>2, <3>3, <3>4
    <2> QED
      BY <2>26, <2>27
  <1> QED
    BY <1>7, <1>8

LEMMA InsertPageOK ==
  ASSUME OneInteger, NEW key \in Keys, NEW val \in Values, NEW n \in Nat, NEW below,
         BelowOK(below, n, key, val),
         NEW st \in InProgress, Going(st), st.calls <= n, Room(st),
         NEW F, NEW p \in PageIds, NEW L \in Nat,
         Ready(F, st.nodes, st.np, p, key, L)
  PROVE  InsertContract(F, st, p, key, val, L, InsertPage(below, st, p, key, val))
  <1>1. PICK nd \in [PageIds -> Node] : nd = st.nodes
    BY ProgressFacts
  <1>2. CASE AlmostFull(nd[p])
    <2>1. Len(nd[p].values) >= 2
      BY <1>2, FullHasTwo
    <2>2. InsertPage(below, st, p, key, val) = InsertSplit(below, NewPage(st), p, st.np, key, val)
      BY <1>1, <1>2 DEF InsertPage
    <2> QED
      BY <1>1, <2>1, <2>2, SplitOK
  <1>3. CASE ~AlmostFull(nd[p])
    <2>1. PICK s2 : s2 = InsertInto(below, st, p, nd[p], key, val)
      OBVIOUS
    <2>2. PICK r : r = [st |-> s2, seps |-> <<>>]
      OBVIOUS
    <2>3. InsertPage(below, st, p, key, val) = r
      BY <1>1, <1>3, <2>1, <2>2 DEF InsertPage
    <2>4. IntoContract(F, nd, st, p, key, val, L, s2)
      BY <1>1, <2>1, InsertIntoOK
    <2>5. r.st = s2 /\ r.seps = <<>>
      BY <2>2
    <2>6. Going(s2) => PageDone(F, nd, st.np, p, L, key, val, s2.nodes, s2.np, <<>>)
      BY <2>4 DEF IntoContract, IntoDone, PageDone, NoNewTop
    <2>7. InsertContract(F, st, p, key, val, L, r)
      BY <1>1, <1>3, <2>4, <2>5, <2>6 DEF InsertContract, IntoContract
    <2> QED
      BY <2>3, <2>7
  <1> QED
    BY <1>2, <1>3

LEMMA BelowIsOK ==
  ASSUME OneInteger, NEW key \in Keys, NEW val \in Values, NEW m \in Nat, NEW f,
         IsBelow(f, m, key, val)
  PROVE  \A n \in 0..m : BelowOK(f[n], n, key, val)
  <1> DEFINE Wrong == {n \in Nat : n <= m /\ ~BelowOK(f[n], n, key, val)}
  <1>1. \A n \in 0..m : f[n] = IF n = 0 THEN NoneBelow ELSE OneMore(f[n - 1], key, val)
    BY DEF IsBelow
  <1>2. ASSUME NEW n \in Wrong, \A i \in Wrong : n <= i PROVE FALSE
    <2>1. n \in 0..m /\ ~BelowOK(f[n], n, key, val)
      OBVIOUS
    <2>2. CASE n = 0
      <3>1. \A st \in InProgress : ~(st.calls < n)
        BY <2>2, ProgressFacts
      <3> QED
        BY <2>1, <3>1 DEF BelowOK
    <2>3. CASE n # 0
      <3>1. PICK l \in Nat : l = n - 1
        BY <2>1, <2>3
      <3>2. BelowOK(f[l], l, key, val)
        BY <1>2, <2>1, <3>1
      <3>3. f[n] = OneMore(f[l], key, val)
        BY <1>1, <2>1, <2>3, <3>1
      <3>4. ASSUME NEW st \in InProgress, NEW p \in PageIds, NEW L \in Nat, NEW F,
                   Going(st), st.calls < n, Room(st), Ready(F, st.nodes, st.np, p, key, L)
            PROVE  InsertContract(F, st, p, key, val, L, f[n][[st |-> st, p |-> p]])
        <4>1. PICK x : x = [st |-> st, p |-> p]
          OBVIOUS
        <4>2. x \in Args /\ x.st = st /\ x.p = p
          BY <4>1 DEF Args
        <4>3. f[n][x] = InsertPage(f[l], st, p, key, val)
          BY <3>3, <4>2 DEF OneMore
        <4>4. st.calls <= l
          BY <2>1, <3>1, <3>4, ProgressFacts
        <4>5. PICK below : below = f[l]
          OBVIOUS
        <4>6. InsertContract(F, st, p, key, val, L, InsertPage(below, st, p, key, val))
          BY <3>2, <3>4, <4>4, <4>5, InsertPageOK
        <4> QED
          BY <4>1, <4>3, <4>5, <4>6
      <3>5. BelowOK(f[n], n, key, val)
        BY <3>4 DEF BelowOK
      <3> QED
        BY <2>1, <3>5
    <2> QED
      BY <2>2, <2>3
  <1>3. Wrong = {}
    <2>1. Wrong \in SUBSET Nat
      OBVIOUS
    <2> HIDE DEF Wrong
    <2> QED
      BY <1>2, <2>1, LeastElement
  <1> QED
    BY <1>3

\* _insert at any page of a forest, with fewer calls of the page cache than the bound.
LEMMA InsertBelowOK ==
  ASSUME OneInteger, NEW key \in Keys, NEW val \in Values,
         NEW st \in InProgress, Going(st), st.calls < MaxCalls, Room(st),
         NEW F, NEW p \in PageIds, NEW L \in Nat, Ready(F, st.nodes, st.np, p, key, L)
  PROVE  InsertContract(F, st, p, key, val, L, InsertBelow(st, p, key, val))
  <1>1. PICK f : /\ IsBelow(f, MaxCalls, key, val)
                 /\ InsertBelow(st, p, key, val) = f[MaxCalls][[st |-> st, p |-> p]]
    BY InsertBelowIs
  <1>2. MaxCalls \in Nat
    BY BTreeAssumption
  <1>3. BelowOK(f[MaxCalls], MaxCalls, key, val)
    BY <1>1, <1>2, BelowIsOK
  <1> QED
    BY <1>1, <1>3 DEF BelowOK

-----------------------------------------------------------------------------
(***************************************************************************)
(* A tree: a forest with the root as the only page of its top level.       *)
(***************************************************************************)
IsTree(F, H, rt, nd, np) ==
    /\ Forest(F, nd, H)
    /\ F.pages \subseteq 0..(np - 1)
    /\ H < np
    /\ rt \in F.pages
    /\ \A q \in F.pages : F.lv[q] = H <=> q = rt
    /\ \A k \in Keys : F.lo[rt] <= k[1]

\* The leaves have the pairs of a map.
HasMap(F, nd, mp) ==
    /\ \A s : InLeaves(F, nd, s) =>
          s.key \in Keys /\ mp[s.key] # Absent /\ s = Slot(s.key, mp[s.key])
    /\ \A k \in Keys : mp[k] # Absent => InLeaves(F, nd, Slot(k, mp[k]))

\* The nodes hold the map, tightly as long as nothing was deleted.
Holds(rt, nd, np, mp, tight) ==
    IF rt = None THEN \A k \in Keys : mp[k] = Absent
    ELSE \E F : \E H \in Nat : /\ IsTree(F, H, rt, nd, np)
                               /\ HasMap(F, nd, mp)
                               /\ tight => Tight(F, nd)

LEMMA TreeReady ==
  ASSUME OneInteger, NEW key \in Keys, NEW F, NEW H \in Nat, NEW rt, NEW nd, NEW np \in Nat,
         IsTree(F, H, rt, nd, np), Tight(F, nd), NEW mp, HasMap(F, nd, mp), mp[key] = Absent
  PROVE  Ready(F, nd, np, rt, key, H)
  <1>1. \A s : InLeaves(F, nd, s) => K(s) # key[1]
    <2>1. ASSUME NEW s, InLeaves(F, nd, s), K(s) = key[1] PROVE FALSE
      <3>1. s.key \in Keys /\ mp[s.key] # Absent
        BY <2>1 DEF HasMap
      <3>2. s.key \in Bounds /\ key \in Bounds
        BY <3>1 DEF Bounds
      <3>3. s.key = key
        BY <2>1, <3>2, BoundsAreIntegers DEF K
      <3> QED
        BY <3>1, <3>3
    <2> QED
      BY <2>1
  <1>2. F.lo[rt] \in Int
    BY ForestFacts DEF IsTree
  <1>3. Reaches(F, rt, key[1], H)
    BY <1>2 DEF IsTree, Reaches
  <1> QED
    BY <1>1, <1>3 DEF IsTree, Ready

\* The leaves with the new pair have the map with the new pair.
LEMMA MapWith ==
  ASSUME OneInteger, NEW key \in Keys, NEW val \in Values, NEW F, NEW nd, NEW G, NEW nd2,
         NEW mp \in [Keys -> Values \cup {Absent}], HasMap(F, nd, mp), mp[key] = Absent,
         \A s : InLeaves(G, nd2, s) <=> InLeaves(F, nd, s) \/ s = Slot(key, val)
  PROVE  HasMap(G, nd2, [mp EXCEPT ![key] = val])
  <1>1. PICK mp2 : mp2 = [mp EXCEPT ![key] = val]
    OBVIOUS
  <1>2. mp2[key] = val /\ \A k \in Keys : k # key => mp2[k] = mp[k]
    BY <1>1
  <1>3. val # Absent
    BY BTreeAssumption
  <1>4. PICK slot : slot = Slot(key, val)
    OBVIOUS
  <1>5. slot.key = key
    BY <1>4 DEF Slot
  <1>6. ASSUME NEW s, InLeaves(G, nd2, s)
        PROVE  s.key \in Keys /\ mp2[s.key] # Absent /\ s = Slot(s.key, mp2[s.key])
    <2>1. CASE s = slot
      BY <1>2, <1>3, <1>4, <1>5, <2>1
    <2>2. CASE InLeaves(F, nd, s)
      <3>1. s.key \in Keys /\ mp[s.key] # Absent /\ s = Slot(s.key, mp[s.key])
        BY <2>2 DEF HasMap
      <3>2. s.key # key
        BY <3>1
      <3> QED
        BY <1>2, <3>1, <3>2
    <2> QED
      BY <1>4, <1>6, <2>1, <2>2
  <1>7. ASSUME NEW k \in Keys, mp2[k] # Absent PROVE InLeaves(G, nd2, Slot(k, mp2[k]))
    <2>1. CASE k = key
      BY <1>2, <2>1
    <2>2. CASE k # key
      BY <1>2, <1>7, <2>2 DEF HasMap
    <2> QED
      BY <2>1, <2>2
  <1> QED
    BY <1>1, <1>6, <1>7 DEF HasMap

LEMMA EmptyNode ==
  ASSUME OneInteger, NEW t \in {"Leaf", "Internal"}
  PROVE  LET node == NewNode(t, KeyTypes)
         IN  /\ node \in Node /\ node.t = t /\ node.next = None /\ Len(node.values) = 0
             /\ Sorted(node) /\ SlotsOf(node) = {}
  <1>1. PICK node : node = NewNode(t, KeyTypes)
    OBVIOUS
  <1>2. node.t = t /\ node.next = None /\ node.values = <<>> /\ node.tys = KeyTypes
    BY <1>1 DEF NewNode
  <1>3. Len(<<>>) = 0 /\ Range(<<>>) = {} /\ <<>> \in Seq(SlotSet)
    BY DEF Range
  <1>4. node \in Node
    BY <1>1, <1>3 DEF NewNode, Node, SlotSet
  <1>5. Sorted(node)
    BY <1>2, <1>3 DEF Sorted
  <1> QED
    BY <1>1, <1>2, <1>3, <1>4, <1>5 DEF SlotsOf

\* A new root over the two pages of the top level.
IsRaisedForest(G, t, p, n, H, F) ==
    /\ F.pages = G.pages \cup {t}
    /\ F.lv \in [F.pages -> Int] /\ F.lo \in [F.pages -> Int] /\ F.hi \in [F.pages -> Int]
    /\ F.lv[t] = H + 1 /\ F.lo[t] = G.lo[p] /\ F.hi[t] = G.hi[n]
    /\ \A q \in G.pages : F.lv[q] = G.lv[q] /\ F.lo[q] = G.lo[q] /\ F.hi[q] = G.hi[q]

LEMMA RaisedForestExists ==
  ASSUME NEW G, NEW nd, NEW H \in Nat, Forest(G, nd, H), NEW p \in G.pages, NEW n \in G.pages,
         NEW t, t \notin G.pages
  PROVE  \E F : IsRaisedForest(G, t, p, n, H, F)
  <1>1. PICK P : P = G.pages \cup {t}
    OBVIOUS
  <1>2. PICK F : F = [pages |-> P, lv |-> [q \in P |-> IF q = t THEN H + 1 ELSE G.lv[q]],
                      lo |-> [q \in P |-> IF q = t THEN G.lo[p] ELSE G.lo[q]],
                      hi |-> [q \in P |-> IF q = t THEN G.hi[n] ELSE G.hi[q]]]
    OBVIOUS
  <1>3. \A q \in G.pages : G.lv[q] \in Int /\ G.lo[q] \in Int /\ G.hi[q] \in Int
    BY ForestFacts
  <1>4. F.pages = P /\ t \in P /\ \A q \in G.pages : q \in P /\ q # t
    BY <1>1, <1>2
  <1>5. \A q \in P : F.lv[q] = IF q = t THEN H + 1 ELSE G.lv[q]
    BY <1>2
  <1>6. \A q \in P : F.lo[q] = IF q = t THEN G.lo[p] ELSE G.lo[q]
    BY <1>2
  <1>7. \A q \in P : F.hi[q] = IF q = t THEN G.hi[n] ELSE G.hi[q]
    BY <1>2
  <1>8. \A q \in P : F.lv[q] \in Int /\ F.lo[q] \in Int /\ F.hi[q] \in Int
    BY <1>1, <1>3, <1>5, <1>6, <1>7
  <1>9. F.lv \in [F.pages -> Int] /\ F.lo \in [F.pages -> Int] /\ F.hi \in [F.pages -> Int]
    BY <1>2, <1>4, <1>8
  <1>10. F.pages = G.pages \cup {t}
    BY <1>1, <1>4
  <1>11. IsRaisedForest(G, t, p, n, H, F)
    BY <1>4, <1>5, <1>6, <1>7, <1>9, <1>10 DEF IsRaisedForest
  <1> QED
    BY <1>11

LEMMA RootRaised ==
  ASSUME OneInteger, NEW G, NEW nd, NEW H \in Nat, Forest(G, nd, H), Tight(G, nd),
         NEW p \in G.pages, G.lv[p] = H, NEW n \in G.pages, G.lv[n] = H,
         \A q \in G.pages : G.lv[q] = H => q = p \/ q = n, G.hi[p] = G.lo[n],
         NEW t \in PageIds, t \notin G.pages,
         NEW nd2, \A q \in G.pages : nd2[q] = nd[q],
         nd2[t].t = "Internal", nd2[t].next = None, Sorted(nd2[t]),
         NEW s1, NEW s2, \A s : s \in SlotsOf(nd2[t]) <=> s = s1 \/ s = s2,
         s1.val = p, K(s1) = G.hi[p], s2.val = n, K(s2) = G.hi[n],
         NEW F, IsRaisedForest(G, t, p, n, H, F)
  PROVE  /\ Forest(F, nd2, H + 1) /\ Tight(F, nd2)
         /\ \A s : InLeaves(F, nd2, s) <=> InLeaves(G, nd, s)
  <1>1. \A q \in G.pages : /\ q \in PageIds /\ G.lv[q] \in Nat /\ G.lv[q] <= H
                           /\ G.lo[q] \in Int /\ G.hi[q] \in Int /\ G.lo[q] < G.hi[q]
    BY ForestFacts
  <1>2. /\ F.pages = G.pages \cup {t}
        /\ F.lv \in [F.pages -> Int] /\ F.lo \in [F.pages -> Int] /\ F.hi \in [F.pages -> Int]
        /\ F.lv[t] = H + 1 /\ F.lo[t] = G.lo[p] /\ F.hi[t] = G.hi[n]
        /\ \A q \in G.pages : F.lv[q] = G.lv[q] /\ F.lo[q] = G.lo[q] /\ F.hi[q] = G.hi[q]
    BY DEF IsRaisedForest
  <1>3. /\ Forest(G, nd2, H) /\ Tight(G, nd2)
        /\ \A s : InLeaves(G, nd2, s) <=> InLeaves(G, nd, s)
    BY SameNodesSameForest
  <1>4. ForestTyped(F, H + 1)
    <2>1. \A q \in F.pages : q \in PageIds /\ F.lv[q] \in 0..(H + 1)
      BY <1>1, <1>2
    <2> QED
      BY <1>2, <2>1 DEF ForestTyped
  <1>5. Apart(F)
    <2>1. \A q \in F.pages : F.lo[q] < F.hi[q]
      BY <1>1, <1>2
    <2>2. \A q \in G.pages : F.lv[q] # F.lv[t]
      BY <1>1, <1>2
    <2>3. \A q, r \in G.pages : q # r /\ G.lv[q] = G.lv[r] => G.hi[q] <= G.lo[r] \/ G.hi[r] <= G.lo[q]
      BY DEF Forest, Apart
    <2> QED
      BY <1>2, <2>1, <2>2, <2>3 DEF Apart
  <1>6. ASSUME NEW q \in F.pages, F.lv[q] = 0 PROVE LeafOK(F, nd2, q) /\ Linked(F, nd2, q)
    <2>1. q \in G.pages /\ G.lv[q] = 0
      BY <1>2, <1>6
    <2>2. LeafOK(G, nd2, q) /\ Linked(G, nd2, q)
      BY <1>3, <2>1 DEF Forest
    <2>3. LeafOK(F, nd2, q)
      BY <1>2, <2>1, <2>2 DEF LeafOK
    <2>4. \A r \in F.pages : F.lv[r] = 0 => r \in G.pages
      BY <1>2
    <2>5. Linked(F, nd2, q)
      BY <1>2, <2>1, <2>2, <2>4 DEF Linked
    <2> QED
      BY <2>3, <2>5
  <1>7. ASSUME NEW q \in G.pages, G.lv[q] > 0 PROVE InnerOK(F, nd2, q)
    <2>1. InnerOK(G, nd2, q)
      BY <1>3, <1>7 DEF Forest
    <2>2. ASSUME NEW s \in SlotsOf(nd2[q]) PROVE ChildOK(F, SlotsOf(nd2[q]), q, s)
      <3>1. ChildOK(G, SlotsOf(nd2[q]), q, s)
        BY <2>1 DEF InnerOK
      <3>2. s.val \in G.pages
        BY <3>1 DEF ChildOK
      <3> QED
        BY <1>2, <3>1, <3>2 DEF ChildOK
    <2> QED
      BY <1>2, <2>1, <2>2 DEF InnerOK
  <1>8. InnerOK(F, nd2, t)
    <2>1. PICK S : S = SlotsOf(nd2[t])
      OBVIOUS
    <2>2. \A s : s \in S <=> s = s1 \/ s = s2
      BY <2>1
    <2>3. K(s1) < K(s2) /\ K(s1) \in Int /\ K(s2) \in Int
      BY <1>1
    <2>4. ChildOK(F, S, t, s1)
      BY <1>1, <1>2, <2>2, <2>3 DEF ChildOK
    <2>5. ChildOK(F, S, t, s2)
      BY <1>1, <1>2, <2>2, <2>3 DEF ChildOK
    <2>6. \A s \in S : ChildOK(F, S, t, s)
      BY <2>2, <2>4, <2>5
    <2>7. \E s \in S : K(s) = F.hi[t]
      BY <1>2, <2>2
    <2> QED
      BY <2>1, <2>6, <2>7 DEF InnerOK
  <1>9. ASSUME NEW q \in F.pages, F.lv[q] < H + 1 PROVE HasParent(F, nd2, q)
    <2>1. q \in G.pages /\ F.lv[q] = G.lv[q] /\ G.lv[q] \in Nat /\ G.lv[q] <= H
      BY <1>1, <1>2, <1>9
    <2>2. CASE G.lv[q] = H
      BY <1>2, <2>1, <2>2 DEF HasParent
    <2>3. CASE G.lv[q] < H
      <3>1. HasParent(G, nd2, q)
        BY <1>3, <2>1, <2>3 DEF Forest
      <3> QED
        BY <1>2, <2>1, <3>1 DEF HasParent
    <2> QED
      BY <2>1, <2>2, <2>3
  <1>10. Forest(F, nd2, H + 1)
    <2>1. \A q \in F.pages : F.lv[q] > 0 => InnerOK(F, nd2, q)
      BY <1>2, <1>7, <1>8
    <2> QED
      BY <1>4, <1>5, <1>6, <1>9, <2>1 DEF Forest
  <1>11. Tight(F, nd2)
    BY <1>2, <1>3 DEF Tight
  <1>12. \A s : InLeaves(F, nd2, s) <=> InLeaves(G, nd, s)
    <2>1. \A s : InLeaves(F, nd2, s) <=> InLeaves(G, nd2, s)
      BY <1>2 DEF InLeaves
    <2> QED
      BY <1>3, <2>1
  <1> QED
    BY <1>10, <1>11, <1>12

-----------------------------------------------------------------------------
(***************************************************************************)
(* A whole insert of a new key.                                            *)
(***************************************************************************)
HasLargest(mp) == \E k \in Keys : mp[k] # Absent /\ k[1] = MaxOf(KeyTypes[1])

InsertDone(rt, nd, np, mp, key, val, r) ==
    /\ r.st \in InProgress /\ np <= r.st.np
    /\ r.root \in PageIds \cup {None}
    /\ Going(r.st) => Holds(r.root, r.st.nodes, r.st.np, [mp EXCEPT ![key] = val], TRUE)
    /\ r.st.end = "error" /\ ~r.st.upper => Holds(r.root, r.st.nodes, r.st.np, mp, TRUE)
    /\ r.st.end = "panicked" => HasLargest([mp EXCEPT ![key] = val])
    /\ AllShort(nd) => AllShort(r.st.nodes)

LEMMA LargestOfMap ==
  ASSUME OneInteger, NEW key \in Keys, NEW val \in Values, NEW F, NEW nd,
         NEW mp \in [Keys -> Values \cup {Absent}], HasMap(F, nd, mp), AtLargest(F, nd, key)
  PROVE  HasLargest([mp EXCEPT ![key] = val])
  <1>1. PICK mp2 : mp2 = [mp EXCEPT ![key] = val]
    OBVIOUS
  <1>2. mp2[key] = val /\ \A k \in Keys : k # key => mp2[k] = mp[k]
    BY <1>1
  <1>3. val # Absent
    BY BTreeAssumption
  <1>4. CASE key[1] = MaxOf(KeyTypes[1])
    BY <1>1, <1>2, <1>3, <1>4 DEF HasLargest
  <1>5. CASE \E s : InLeaves(F, nd, s) /\ s.key[1] = MaxOf(KeyTypes[1])
    <2>1. PICK s : InLeaves(F, nd, s) /\ s.key[1] = MaxOf(KeyTypes[1])
      BY <1>5
    <2>2. s.key \in Keys /\ mp[s.key] # Absent
      BY <2>1 DEF HasMap
    <2>3. mp2[s.key] # Absent
      BY <1>2, <1>3, <2>2
    <2> QED
      BY <1>1, <2>1, <2>2, <2>3 DEF HasLargest
  <1> QED
    BY <1>4, <1>5 DEF AtLargest

\* The nodes of an error before it was at an upper half still hold the tree.
LEMMA SameTree ==
  ASSUME NEW rt \in PageIds, NEW nd, NEW np \in Nat, NEW mp, Holds(rt, nd, np, mp, TRUE),
         NEW nd2, \A q \in PageIds : q < np => nd2[q] = nd[q],
         NEW np2 \in Nat, np <= np2
  PROVE  Holds(rt, nd2, np2, mp, TRUE)
  <1>1. rt # None
    BY BTreeAssumption DEF None
  <1>2. PICK F : \E H \in Nat : IsTree(F, H, rt, nd, np) /\ HasMap(F, nd, mp) /\ Tight(F, nd)
    BY <1>1 DEF Holds
  <1>3. PICK H \in Nat : IsTree(F, H, rt, nd, np) /\ HasMap(F, nd, mp) /\ Tight(F, nd)
    BY <1>2
  <1>4. Forest(F, nd, H) /\ F.pages \subseteq 0..(np - 1) /\ H < np
    BY <1>3 DEF IsTree
  <1>5. \A q \in F.pages : q \in PageIds /\ q < np
    BY <1>4, ForestFacts
  <1>6. \A q \in F.pages : nd2[q] = nd[q]
    BY <1>5
  <1>7. /\ Forest(F, nd2, H) /\ Tight(F, nd2)
        /\ \A s : InLeaves(F, nd2, s) <=> InLeaves(F, nd, s)
    BY <1>3, <1>4, <1>6, SameNodesSameForest
  <1>8. F.pages \subseteq 0..(np2 - 1) /\ H < np2
    BY <1>4
  <1>9. IsTree(F, H, rt, nd2, np2)
    BY <1>3, <1>7, <1>8 DEF IsTree
  <1>10. HasMap(F, nd2, mp)
    BY <1>3, <1>7 DEF HasMap
  <1> QED
    BY <1>1, <1>7, <1>9, <1>10 DEF Holds

\* insert() into an empty node, twice.
LEMMA NodeOfTwo ==
  ASSUME OneInteger, NEW s1 \in SlotSet, NEW s2 \in SlotSet, K(s1) < K(s2)
  PROVE  LET node == InsertSlot(InsertSlot(NewNode("Internal", KeyTypes), s1), s2)
         IN  /\ node \in Node /\ node.t = "Internal" /\ node.next = None /\ Sorted(node)
             /\ \A s : s \in SlotsOf(node) <=> s = s1 \/ s = s2
             /\ Len(node.values) <= 2
  <1>1. PICK e : e = NewNode("Internal", KeyTypes)
    OBVIOUS
  <1>2. /\ e \in Node /\ e.t = "Internal" /\ e.next = None /\ Sorted(e) /\ SlotsOf(e) = {}
        /\ Len(e.values) = 0
    <2>1. PICK t \in {"Leaf", "Internal"} : t = "Internal"
      OBVIOUS
    <2> QED
      BY <1>1, <2>1, EmptyNode
  <1>3. PICK b : b = InsertSlot(e, s1)
    OBVIOUS
  <1>4. IsReplaced(e, s1, b)
    BY <1>2, <1>3, InsertSlotResult
  <1>5. b \in Node /\ Sorted(b) /\ \A s : s \in SlotsOf(b) <=> s = s1
    BY <1>2, <1>4 DEF IsReplaced
  <1>6. PICK d : d = InsertSlot(b, s2)
    OBVIOUS
  <1>7. K(s1) \in Int /\ K(s2) \in Int
    BY SlotKeys
  <1>8. IsReplaced(b, s2, d)
    BY <1>5, <1>6, <1>7, InsertSlotResult
  <1>9. \A s : s \in SlotsOf(d) <=> s = s1 \/ s = s2
    BY <1>5, <1>7, <1>8 DEF IsReplaced
  <1>10. d \in Node /\ d.t = "Internal" /\ d.next = None /\ Sorted(d)
    BY <1>2, <1>4, <1>8 DEF IsReplaced
  <1>11. Len(d.values) <= 2
    <2>1. Len(b.values) = 0 \/ Len(b.values) = 1
      BY <1>2, <1>4 DEF IsReplaced
    <2>2. Len(d.values) = Len(b.values) \/ Len(d.values) = Len(b.values) + 1
      BY <1>8 DEF IsReplaced
    <2>3. PICK i \in Nat, j \in Nat : i = Len(b.values) /\ j = Len(d.values)
      BY <1>5, <1>10, NodeFacts
    <2>4. (i = 0 \/ i = 1) /\ (j = i \/ j = i + 1)
      BY <2>1, <2>2, <2>3
    <2>5. j <= 2
      BY <2>4
    <2> QED
      BY <2>3, <2>5
  <1> QED
    BY <1>1, <1>3, <1>6, <1>9, <1>10, <1>11

IsNodeOfTwo(node, s1, s2) ==
    /\ node \in Node /\ node.t = "Internal" /\ node.next = None /\ Sorted(node)
    /\ \A s : s \in SlotsOf(node) <=> s = s1 \/ s = s2

IsNodeOver(node, G, p, n) ==
    \E s1, s2 \in SlotSet : /\ s1.val = p /\ K(s1) = G.hi[p]
                            /\ s2.val = n /\ K(s2) = G.hi[n]
                            /\ IsNodeOfTwo(node, s1, s2)

\* A forest with two pages at its top.
TwoTops(G, H, p, n) ==
    /\ p \in G.pages /\ G.lv[p] = H /\ n \in G.pages /\ G.lv[n] = H
    /\ \A q \in G.pages : G.lv[q] = H => q = p \/ q = n
    /\ G.hi[p] = G.lo[n]
    /\ \A k \in Keys : G.lo[p] <= k[1]

\* The two halves of the old root under a new one, in the next page.
LEMMA NewRootOver ==
  ASSUME OneInteger, NEW G, NEW nd, NEW H \in Nat, NEW np \in Nat,
         Forest(G, nd, H), Tight(G, nd), G.pages \subseteq 0..(np - 1), H < np,
         NEW rt, NEW n, TwoTops(G, H, rt, n),
         np \in PageIds, NEW np2 \in Nat, np2 = np + 1, NEW mp, HasMap(G, nd, mp),
         NEW nd2, IsNodeOver(nd2[np], G, rt, n), \A q \in G.pages : nd2[q] = nd[q]
  PROVE  Holds(np, nd2, np2, mp, TRUE)
  <1>1. PICK t \in PageIds : t = np
    OBVIOUS
  <1>2. /\ t \notin G.pages /\ t # None /\ t \in 0..np
    BY <1>1, BTreeAssumption DEF None
  <1>3. PICK s1, s2 \in SlotSet : /\ s1.val = rt /\ K(s1) = G.hi[rt]
                                  /\ s2.val = n /\ K(s2) = G.hi[n]
                                  /\ IsNodeOfTwo(nd2[t], s1, s2)
    BY <1>1 DEF IsNodeOver
  <1>4. PICK F : IsRaisedForest(G, t, rt, n, H, F)
    BY <1>2, RaisedForestExists DEF TwoTops
  <1>a. /\ nd2[t].t = "Internal" /\ nd2[t].next = None /\ Sorted(nd2[t])
        /\ \A s : s \in SlotsOf(nd2[t]) <=> s = s1 \/ s = s2
    BY <1>3 DEF IsNodeOfTwo
  <1>b. /\ rt \in G.pages /\ G.lv[rt] = H /\ n \in G.pages /\ G.lv[n] = H
        /\ \A q \in G.pages : G.lv[q] = H => q = rt \/ q = n
        /\ G.hi[rt] = G.lo[n]
    BY DEF TwoTops
  <1>5. /\ Forest(F, nd2, H + 1) /\ Tight(F, nd2)
        /\ \A s : InLeaves(F, nd2, s) <=> InLeaves(G, nd, s)
    <2>1. PICK nd3 : nd3 = nd2
      OBVIOUS
    <2>2. /\ nd3[t].t = "Internal" /\ nd3[t].next = None /\ Sorted(nd3[t])
          /\ \A s : s \in SlotsOf(nd3[t]) <=> s = s1 \/ s = s2
          /\ \A q \in G.pages : nd3[q] = nd[q]
      BY <1>a, <2>1
    <2>3. /\ Forest(F, nd3, H + 1) /\ Tight(F, nd3)
          /\ \A s : InLeaves(F, nd3, s) <=> InLeaves(G, nd, s)
      BY <1>2, <1>3, <1>4, <1>b, <2>2, RootRaised
    <2> QED
      BY <2>1, <2>3
  <1>6. PICK H2 \in Nat : H2 = H + 1
    OBVIOUS
  <1>7. /\ F.pages = G.pages \cup {t} /\ F.lv[t] = H2 /\ F.lo[t] = G.lo[rt]
        /\ \A q \in G.pages : F.lv[q] = G.lv[q]
    BY <1>4, <1>6 DEF IsRaisedForest
  <1>8. \A q \in G.pages : G.lv[q] # H2
    BY <1>6, ForestFacts
  <1>9. F.pages \subseteq 0..np /\ H2 < np + 1
    BY <1>2, <1>6, <1>7
  <1>10. \A q \in F.pages : F.lv[q] = H2 <=> q = t
    BY <1>2, <1>7, <1>8
  <1>12. F.pages \subseteq 0..(np2 - 1) /\ H2 < np2
    BY <1>9
  <1>13. IsTree(F, H2, t, nd2, np2)
    BY <1>5, <1>6, <1>7, <1>10, <1>12 DEF IsTree, TwoTops
  <1>14. HasMap(F, nd2, mp)
    BY <1>5 DEF HasMap
  <1> QED
    BY <1>1, <1>2, <1>5, <1>13, <1>14 DEF Holds

LEMMA TreeInserted ==
  ASSUME OneInteger, NEW key \in Keys, NEW val \in Values,
         NEW mp \in [Keys -> Values \cup {Absent}], mp[key] = Absent, root \in PageIds,
         NEW st \in InProgress, Going(st), st.calls < MaxCalls, Room(st),
         Holds(root, st.nodes, st.np, mp, TRUE)
  PROVE  InsertDone(root, st.nodes, st.np, mp, key, val, WithRoot(InsertBelow(st, Top, key, val)))
  <1>1. PICK rt \in PageIds : rt = root
    OBVIOUS
  <1>2. rt # None /\ Top = rt
    BY <1>1, BTreeAssumption DEF None, Top
  <1>3. PICK nd \in [PageIds -> Node], np \in Nat : nd = st.nodes /\ np = st.np
    BY ProgressFacts
  <1>4. PICK F : \E H \in Nat : IsTree(F, H, rt, nd, np) /\ HasMap(F, nd, mp) /\ Tight(F, nd)
    BY <1>1, <1>2, <1>3 DEF Holds
  <1>5. PICK H \in Nat : IsTree(F, H, rt, nd, np) /\ HasMap(F, nd, mp) /\ Tight(F, nd)
    BY <1>4
  <1>6. Ready(F, nd, np, rt, key, H)
    BY <1>5, TreeReady
  <1>7. PICK r : r = InsertBelow(st, rt, key, val)
    OBVIOUS
  <1>8. InsertContract(F, st, rt, key, val, H, r)
    BY <1>3, <1>6, <1>7, InsertBelowOK
  <1>9. PICK sr : sr = r.st
    OBVIOUS
  <1>10. /\ sr \in InProgress /\ np <= sr.np
         /\ Going(sr) => sr.np + sr.calls <= np + st.calls
         /\ sr.end = "error" => sr.upper \/ \A q \in PageIds : q < np => sr.nodes[q] = nd[q]
         /\ sr.end = "panicked" => AtLargest(F, nd, key)
         /\ AllShort(nd) => AllShort(sr.nodes)
    BY <1>3, <1>8, <1>9 DEF InsertContract, Moves, ErrorKeeps
  <1>11. PICK nd2 \in [PageIds -> Node], np2 \in Nat : nd2 = sr.nodes /\ np2 = sr.np
    BY <1>10, ProgressFacts
  <1>12. PICK w : w = WithRoot(r)
    OBVIOUS
  <1>13. PICK mp2 : mp2 = [mp EXCEPT ![key] = val]
    OBVIOUS
  <1>14. CASE ~Going(sr)
    <2>1. w = [st |-> sr, root |-> rt]
      BY <1>2, <1>8, <1>9, <1>12, <1>14 DEF InsertContract, WithRoot
    <2>2. w.st = sr /\ w.root = rt
      BY <2>1
    <2>3. ASSUME sr.end = "error", ~sr.upper PROVE Holds(rt, nd2, np2, mp, TRUE)
      <3>1. \A q \in PageIds : q < np => nd2[q] = nd[q]
        BY <1>10, <1>11, <2>3
      <3>2. Holds(rt, nd, np, mp, TRUE) /\ np <= np2
        BY <1>1, <1>3, <1>10, <1>11
      <3> QED
        BY <3>1, <3>2, SameTree
    <2>4. sr.end = "panicked" => HasLargest(mp2)
      BY <1>5, <1>10, <1>13, LargestOfMap
    <2>5. InsertDone(rt, nd, np, mp, key, val, w)
      BY <1>10, <1>11, <1>13, <1>14, <2>2, <2>3, <2>4 DEF InsertDone
    <2> QED
      BY <1>1, <1>2, <1>3, <1>7, <1>12, <2>5
  <1>15. ASSUME Going(sr) PROVE InsertDone(rt, nd, np, mp, key, val, w)
    <2>1. PageDone(F, nd, np, rt, H, key, val, nd2, np2, r.seps)
      BY <1>3, <1>8, <1>9, <1>11, <1>15 DEF InsertContract
    <2>2. PICK G :
            /\ Grown(F, nd, np, G, nd2, np2, rt, H, Slot(key, val))
            /\ \/ r.seps = <<>> /\ NoNewTop(F, G, H)
               \/ \E n : SplitTop(F, G, rt, H, n) /\ AreSeparators(G, rt, n, r.seps)
      BY <2>1 DEF PageDone
    <2>3. /\ Forest(G, nd2, H) /\ Tight(G, nd2) /\ G.pages \subseteq 0..(np2 - 1)
          /\ F.pages \subseteq G.pages /\ \A q \in F.pages : G.lv[q] = F.lv[q]
          /\ \A s : InLeaves(G, nd2, s) <=> InLeaves(F, nd, s) \/ s = Slot(key, val)
          /\ \A q \in F.pages : F.lv[q] = H => G.lo[q] = F.lo[q]
      BY <2>2 DEF Grown
    <2>4. HasMap(G, nd2, mp2)
      BY <1>5, <1>13, <2>3, MapWith
    <2>5. /\ rt \in F.pages /\ rt \in G.pages /\ F.lv[rt] = H /\ G.lv[rt] = H
          /\ \A q \in F.pages : F.lv[q] = H <=> q = rt
          /\ H < np /\ H < np2 /\ \A k \in Keys : G.lo[rt] <= k[1]
      BY <1>5, <1>10, <1>11, <2>3 DEF IsTree
    <2>6. CASE r.seps = <<>> /\ NoNewTop(F, G, H)
      <3>1. w = [st |-> sr, root |-> rt]
        BY <1>2, <1>9, <1>12, <2>6 DEF WithRoot
      <3>2. w.st = sr /\ w.root = rt
        BY <3>1
      <3>3. \A q \in G.pages : G.lv[q] = H <=> q = rt
        BY <2>3, <2>5, <2>6 DEF NoNewTop
      <3>4. IsTree(G, H, rt, nd2, np2)
        BY <2>3, <2>5, <3>3 DEF IsTree
      <3>5. Holds(rt, nd2, np2, mp2, TRUE)
        BY <1>2, <2>3, <2>4, <3>4 DEF Holds
      <3> QED
        BY <1>10, <1>11, <1>13, <1>15, <3>2, <3>5 DEF InsertDone, Going
    <2>7. ASSUME NEW n, SplitTop(F, G, rt, H, n), AreSeparators(G, rt, n, r.seps)
          PROVE  InsertDone(rt, nd, np, mp, key, val, w)
      <3>1. /\ n \in G.pages /\ n \notin F.pages /\ G.lv[n] = H /\ G.hi[rt] = G.lo[n]
            /\ \A q \in G.pages : G.lv[q] = H => q \in F.pages \/ q = n
        BY <2>7 DEF SplitTop
      <3>2. PICK s1, s2 \in SlotSet : /\ r.seps = <<s1, s2>>
                                      /\ s1.val = rt /\ K(s1) = G.hi[rt]
                                      /\ s2.val = n /\ K(s2) = G.hi[n]
        BY <2>7 DEF AreSeparators
      <3>3. r.seps # <<>> /\ r.seps[1] = s1 /\ r.seps[2] = s2
        BY <3>2
      <3>4. PICK u0 : u0 = NewPage(sr)
        OBVIOUS
      <3>5. /\ u0 \in InProgress /\ u0.nodes = nd2 /\ u0.np = np2 + 1
            /\ IF sr.calls = 0 THEN u0.end = "error" ELSE u0.end = "ok"
        BY <1>10, <1>11, <1>15, <3>4, NewPageFacts
      <3>6. PICK u : u = [u0 EXCEPT !.upper = TRUE]
        OBVIOUS
      <3>7. u \in InProgress /\ u.nodes = nd2 /\ u.np = np2 + 1 /\ u.end = u0.end /\ u.upper = TRUE
        BY <3>5, <3>6 DEF InProgress
      <3>8. w = NewRoot(u, np2, r.seps)
        BY <1>9, <1>11, <1>12, <3>3, <3>4, <3>6 DEF WithRoot
      <3>9. CASE sr.calls = 0
        <4>1. ~Going(u) /\ u.end = "error"
          BY <3>5, <3>7, <3>9 DEF Going
        <4>2. w = [st |-> u, root |-> rt]
          BY <1>2, <3>8, <4>1 DEF NewRoot
        <4>3. w.st = u /\ w.root = rt
          BY <4>2
        <4>4. np <= u.np
          BY <1>10, <1>11, <3>7
        <4> QED
          BY <1>10, <1>11, <3>7, <4>1, <4>3, <4>4 DEF InsertDone, Going
      <3>10. CASE sr.calls # 0
        <4>1. Going(u)
          BY <3>5, <3>7, <3>10 DEF Going
        <4>2. PICK node : node = InsertSlot(InsertSlot(NewNode("Internal", KeyTypes), s1), s2)
          OBVIOUS
        <4>3. w = [st |-> Store(u, np2, node), root |-> np2]
          BY <3>3, <3>8, <4>1, <4>2 DEF NewRoot
        <4>4. K(s1) < K(s2)
          BY <2>3, <3>1, <3>2, ForestFacts
        <4>5. /\ node \in Node /\ node.t = "Internal" /\ node.next = None /\ Sorted(node)
              /\ \A s : s \in SlotsOf(node) <=> s = s1 \/ s = s2
              /\ Len(node.values) <= 2
          BY <4>2, <4>4, NodeOfTwo
        <4>6. np2 \in PageIds
          <5>1. sr.calls \in Nat /\ st.calls \in Nat
            BY <1>10, ProgressFacts
          <5>2. np <= np2 /\ np2 < np + st.calls
            BY <1>10, <1>11, <1>15, <3>10, <5>1
          <5> QED
            BY <1>3, <5>2 DEF Room
        <4>7. PICK v : v = Store(u, np2, node)
          OBVIOUS
        <4>8. /\ v \in InProgress /\ v.nodes = [nd2 EXCEPT ![np2] = node]
              /\ v.np = np2 + 1 /\ v.end = "ok"
          <5>1. node \in Node /\ u.end = "ok"
            BY <4>1, <4>5 DEF Going
          <5>2. v \in InProgress /\ v.nodes = [u.nodes EXCEPT ![np2] = node]
                /\ v.np = u.np /\ v.end = u.end
            <6>1. PICK t \in PageIds : t = np2
              BY <4>6
            <6>2. PICK node2 \in Node : node2 = node
              BY <5>1
            <6>3. u \in InProgress /\ v = Store(u, t, node2)
              BY <3>7, <4>7, <6>1, <6>2
            <6>4. /\ v \in InProgress /\ v.nodes = [u.nodes EXCEPT ![t] = node2]
                  /\ v.np = u.np /\ v.end = u.end
              BY <6>3, StoreFacts
            <6> QED
              BY <6>1, <6>2, <6>4
          <5> QED
            BY <3>7, <5>1, <5>2
        <4>9. TwoTops(G, H, rt, n) /\ IsNodeOfTwo(node, s1, s2)
          BY <2>3, <2>5, <3>1, <4>5 DEF TwoTops, IsNodeOfTwo
        <4>10. PICK nd3 : nd3 = [nd2 EXCEPT ![np2] = node]
          OBVIOUS
        <4>a. PICK np3 \in Nat : np3 = np2 + 1
          OBVIOUS
        <4>11. Holds(np2, nd3, np3, mp2, TRUE)
          <5>1. nd3[np2] = node
            BY <4>6, <4>10
          <5>2. \A q \in G.pages : nd3[q] = nd2[q]
            BY <2>3, <4>6, <4>10
          <5>3. IsNodeOver(nd3[np2], G, rt, n)
            BY <3>2, <4>9, <5>1 DEF IsNodeOver
          <5> QED
            BY <2>3, <2>4, <2>5, <4>6, <4>9, <4>a, <5>2, <5>3, NewRootOver
        <4>12. w.st = v /\ w.root = np2
          BY <4>3, <4>7
        <4>13. np <= v.np
          BY <1>10, <1>11, <4>8
        <4>14. AllShort(nd) => AllShort(v.nodes)
          <5>1. Short(node)
            BY <4>5, TwoIsShort
          <5>2. \A q \in PageIds : v.nodes[q] = IF q = np2 THEN node ELSE sr.nodes[q]
            BY <1>11, <4>8
          <5> QED
            BY <1>10, <5>1, <5>2 DEF AllShort
        <4> QED
          BY <1>13, <4>6, <4>8, <4>10, <4>11, <4>12, <4>13, <4>14, <4>a DEF InsertDone, Going
      <3> QED
        BY <3>9, <3>10
    <2> QED
      BY <2>2, <2>6, <2>7
  <1> QED
    BY <1>1, <1>2, <1>3, <1>7, <1>12, <1>14, <1>15

\* A tree of one leaf with one pair.
LEMMA OneLeaf ==
  ASSUME OneInteger, NEW key \in Keys, NEW val \in Values,
         NEW mp \in [Keys -> Values \cup {Absent}], \A k \in Keys : mp[k] = Absent,
         NEW nd, NEW t \in PageIds, nd[t].t = "Leaf", nd[t].next = None, Sorted(nd[t]),
         \A s : s \in SlotsOf(nd[t]) <=> s = Slot(key, val), NEW np \in Nat, np = t + 1
  PROVE  Holds(t, nd, np, [mp EXCEPT ![key] = val], TRUE)
  <1>1. PICK least \in Int : \A k \in Keys : least <= k[1]
    BY DEF OneInteger
  <1>2. PICK i \in Int : i = key[1]
    <2>1. key \in Bounds
      BY DEF Bounds
    <2> QED
      BY <2>1, BoundsAreIntegers
  <1>3. PICK slot : slot = Slot(key, val)
    OBVIOUS
  <1>4. slot.key = key /\ slot.val = val /\ K(slot) = i
    BY <1>2, <1>3 DEF Slot, K
  <1>5. PICK F : F = [pages |-> {t}, lv |-> [q \in {t} |-> 0], lo |-> [q \in {t} |-> least],
                      hi |-> [q \in {t} |-> i + 1]]
    OBVIOUS
  <1>6. PICK H \in Nat : H = 0
    OBVIOUS
  <1>7. /\ F.pages = {t} /\ F.lv[t] = H /\ F.lo[t] = least /\ F.hi[t] = i + 1
        /\ ForestTyped(F, H)
    BY <1>5, <1>6 DEF ForestTyped
  <1>8. least <= i
    BY <1>1, <1>2
  <1>9. LeafOK(F, nd, t) /\ Linked(F, nd, t)
    BY <1>3, <1>4, <1>7, <1>8 DEF LeafOK, Linked
  <1>10. Apart(F)
    BY <1>7, <1>8 DEF Apart
  <1>11. Forest(F, nd, H)
    BY <1>6, <1>7, <1>9, <1>10 DEF Forest
  <1>12. Tight(F, nd)
    BY <1>3, <1>4, <1>7 DEF Tight
  <1>13. \A s : InLeaves(F, nd, s) <=> s = slot
    BY <1>3, <1>6, <1>7 DEF InLeaves
  <1>14. IsTree(F, H, t, nd, np)
    <2>1. F.pages \subseteq 0..(np - 1) /\ H < np
      BY <1>6, <1>7, BTreeAssumption
    <2> QED
      BY <1>1, <1>7, <1>11, <2>1 DEF IsTree
  <1>15. PICK mp2 : mp2 = [mp EXCEPT ![key] = val]
    OBVIOUS
  <1>16. mp2[key] = val /\ \A k \in Keys : k # key => mp2[k] = Absent
    BY <1>15
  <1>17. HasMap(F, nd, mp2)
    BY <1>3, <1>4, <1>13, <1>16, BTreeAssumption DEF HasMap
  <1>18. t # None
    BY BTreeAssumption DEF None
  <1> QED
    BY <1>12, <1>14, <1>15, <1>17, <1>18 DEF Holds

\* The variables of a tree that is filled.
Filled ==
    /\ nodes \in [PageIds -> Node] /\ next_page_id \in Nat
    /\ root \in PageIds \cup {None}
    /\ map \in [Keys -> Values \cup {Absent}]
    /\ Holds(root, nodes, next_page_id, map, TRUE)

LEMMA ProgressIs ==
  ASSUME Filled, NEW n \in 0..MaxCalls, RoomToInsert
  PROVE  /\ Progress(n) \in InProgress /\ Going(Progress(n)) /\ Room(Progress(n))
         /\ Progress(n).nodes = nodes /\ Progress(n).np = next_page_id
         /\ Progress(n).calls = n /\ Progress(n).upper = FALSE
  <1>1. MaxCalls \in Nat
    BY BTreeAssumption
  <1>2. PICK st : st = Progress(n)
    OBVIOUS
  <1>3. /\ st.nodes = nodes /\ st.np = next_page_id /\ st.calls = n
        /\ st.upper = FALSE /\ st.end = "ok"
    BY <1>2 DEF Progress
  <1>4. st \in InProgress
    BY <1>2 DEF Progress, InProgress, Filled
  <1>5. \A q \in Nat : next_page_id <= q /\ q < next_page_id + n => q \in PageIds
    BY <1>1 DEF RoomToInsert, Filled
  <1> QED
    BY <1>2, <1>3, <1>4, <1>5 DEF Going, Room

LEMMA FirstInserted ==
  ASSUME OneInteger, NEW key \in Keys, NEW val \in Values, NEW n \in 0..MaxCalls,
         Filled, RoomToInsert, root = None
  PROVE  InsertDone(root, nodes, next_page_id, map, key, val,
                    Inserted(RootPage(Progress(n)), key, val))
  <1>1. PICK st : st = Progress(n)
    OBVIOUS
  <1>2. /\ st \in InProgress /\ Going(st) /\ st.nodes = nodes /\ st.np = next_page_id
        /\ st.calls = n
    BY <1>1, ProgressIs
  <1>3. PICK np \in Nat : np = next_page_id
    BY DEF Filled
  <1>4. PICK s1 : s1 = NewPage(st)
    OBVIOUS
  <1>5. /\ s1 \in InProgress /\ s1.nodes = nodes /\ s1.np = np + 1
        /\ IF n = 0 THEN s1.end = "error" ELSE s1.end = "ok"
    BY <1>2, <1>3, <1>4, NewPageFacts
  <1>6. \A k \in Keys : map[k] = Absent
    BY DEF Filled, Holds
  <1>7. PICK w : w = Inserted(RootPage(st), key, val)
    OBVIOUS
  <1>8. CASE n = 0
    <2>1. RootPage(st) = s1 /\ s1.end = "error" /\ ~Going(s1)
      BY <1>4, <1>5, <1>8 DEF RootPage, Going
    <2>2. w = [st |-> s1, root |-> root]
      BY <1>7, <2>1 DEF Inserted
    <2>3. w.st = s1 /\ w.root = root
      BY <2>2
    <2>4. Holds(root, s1.nodes, s1.np, map, TRUE)
      BY <1>6 DEF Holds
    <2>5. InsertDone(root, nodes, np, map, key, val, w)
      <3>1. w.st.end = "error" /\ ~Going(w.st) /\ w.root \in PageIds \cup {None}
        BY <2>1, <2>3
      <3>2. w.st \in InProgress /\ np <= w.st.np
        BY <1>5, <2>3
      <3>3. Holds(w.root, w.st.nodes, w.st.np, map, TRUE)
        BY <2>3, <2>4
      <3>4. w.st.nodes = nodes
        BY <1>5, <2>3
      <3> QED
        BY <3>1, <3>2, <3>3, <3>4 DEF InsertDone
    <2> QED
      BY <1>1, <1>3, <1>7, <2>5
  <1>9. CASE n # 0
    <2>1. MaxCalls \in Nat /\ MaxCalls # 0
      BY <1>9, BTreeAssumption
    <2>2. PICK t \in PageIds : t = np
      BY <1>3, <2>1 DEF RoomToInsert
    <2>3. PICK leaf : leaf = NewNode("Leaf", KeyTypes)
      OBVIOUS
    <2>4. /\ leaf \in Node /\ leaf.t = "Leaf" /\ leaf.next = None /\ Len(leaf.values) = 0
          /\ Sorted(leaf) /\ SlotsOf(leaf) = {}
      <3>1. PICK ty \in {"Leaf", "Internal"} : ty = "Leaf"
        OBVIOUS
      <3> QED
        BY <2>3, <3>1, EmptyNode
    <2>5. PICK s2 : s2 = Store(s1, t, leaf)
      OBVIOUS
    <2>6. /\ s2 \in InProgress /\ s2.nodes = [nodes EXCEPT ![t] = leaf]
          /\ s2.np = np + 1 /\ s2.end = "ok"
      <3>1. /\ s2 \in InProgress /\ s2.nodes = [s1.nodes EXCEPT ![t] = leaf]
            /\ s2.np = s1.np /\ s2.end = s1.end
        BY <1>5, <2>4, <2>5, StoreFacts
      <3> QED
        BY <1>5, <1>9, <3>1
    <2>7. RootPage(st) = s2 /\ Going(s2) /\ Top = t
      BY <1>3, <1>4, <1>5, <1>9, <2>2, <2>3, <2>5, <2>6 DEF RootPage, Going, Top
    <2>8. w = WithRoot(InsertBelow(s2, t, key, val))
      BY <1>7, <2>7 DEF Inserted
    <2>9. PICK f : /\ IsBelow(f, MaxCalls, key, val)
                   /\ InsertBelow(s2, t, key, val) = f[MaxCalls][[st |-> s2, p |-> t]]
      BY InsertBelowIs
    <2>10. PICK below : below = f[MaxCalls - 1]
      OBVIOUS
    <2>11. InsertBelow(s2, t, key, val) = InsertPage(below, s2, t, key, val)
      <3>1. f[MaxCalls] = OneMore(below, key, val)
        BY <2>1, <2>9, <2>10 DEF IsBelow
      <3>2. PICK x : x = [st |-> s2, p |-> t]
        OBVIOUS
      <3>3. x \in Args /\ x.st = s2 /\ x.p = t
        BY <2>6, <3>2 DEF Args
      <3> QED
        BY <2>9, <3>1, <3>2, <3>3 DEF OneMore
    <2>12. s2.nodes[t] = leaf
      BY <2>6 DEF Filled
    <2>13. ~AlmostFull(s2.nodes[t])
      BY <2>4, <2>12, FullHasTwo
    <2>14. PICK slot \in SlotSet : slot = Slot(key, val)
      BY DEF Slot, SlotSet, Bounds
    <2>15. PICK node : node = ReplaceSlot(leaf, slot)
      OBVIOUS
    <2>16. IsReplaced(leaf, slot, node)
      BY <2>4, <2>14, <2>15, ReplaceSlotResult
    <2>17. PICK s3 : s3 = Store(s2, t, node)
      OBVIOUS
    <2>18. InsertPage(below, s2, t, key, val) = [st |-> s3, seps |-> <<>>]
      BY <2>4, <2>12, <2>13, <2>14, <2>15, <2>17 DEF InsertPage, InsertInto, IsLeaf
    <2>19. w = [st |-> s3, root |-> t]
      BY <2>7, <2>8, <2>11, <2>18 DEF WithRoot
    <2>20. w.st = s3 /\ w.root = t
      BY <2>19
    <2>21. node \in Node
      BY <2>16 DEF IsReplaced
    <2>22. PICK nd : nd = [s2.nodes EXCEPT ![t] = node]
      OBVIOUS
    <2>23. s3 \in InProgress /\ s3.nodes = nd /\ s3.np = np + 1 /\ s3.end = "ok"
      <3>1. /\ s3 \in InProgress /\ s3.nodes = [s2.nodes EXCEPT ![t] = node]
            /\ s3.np = s2.np /\ s3.end = s2.end
        <4>1. PICK node2 \in Node : node2 = node
          BY <2>21
        <4>2. s3 = Store(s2, t, node2) /\ s2 \in InProgress
          BY <2>6, <2>17, <4>1
        <4>3. /\ s3 \in InProgress /\ s3.nodes = [s2.nodes EXCEPT ![t] = node2]
              /\ s3.np = s2.np /\ s3.end = s2.end
          BY <4>2, StoreFacts
        <4> QED
          BY <4>1, <4>3
      <3> QED
        BY <2>6, <2>22, <3>1
    <2>24. nd[t] = node
      BY <2>6, <2>22, ProgressFacts
    <2>25. /\ nd[t].t = "Leaf" /\ nd[t].next = None /\ Sorted(nd[t])
           /\ \A s : s \in SlotsOf(nd[t]) <=> s = Slot(key, val)
      BY <2>4, <2>14, <2>16, <2>24 DEF IsReplaced
    <2>26. PICK np2 \in Nat : np2 = t + 1
      BY <2>2
    <2>27. PICK mp \in [Keys -> Values \cup {Absent}] : mp = map
      BY DEF Filled
    <2>28. Holds(t, nd, np2, [mp EXCEPT ![key] = val], TRUE)
      BY <1>6, <2>25, <2>26, <2>27, OneLeaf
    <2>29. InsertDone(root, nodes, np, mp, key, val, w)
      <3>1. w.st.end = "ok" /\ w.root \in PageIds \cup {None}
        BY <2>20, <2>23
      <3>2. w.st \in InProgress /\ np <= w.st.np
        BY <2>20, <2>23
      <3>3. Holds(w.root, w.st.nodes, w.st.np, [mp EXCEPT ![key] = val], TRUE)
        BY <2>2, <2>20, <2>23, <2>26, <2>28
      <3>4. AllShort(nodes) => AllShort(w.st.nodes)
        <4>1. Len(node.values) <= 2
          <5>1. Len(node.values) = Len(leaf.values) \/ Len(node.values) = Len(leaf.values) + 1
            BY <2>16 DEF IsReplaced
          <5> QED
            BY <2>4, <2>21, <5>1, NodeFacts
        <4>2. Short(node)
          BY <2>21, <4>1, TwoIsShort
        <4>3. \A q \in PageIds : nd[q] = IF q = t THEN node ELSE nodes[q]
          BY <2>6, <2>22 DEF Filled
        <4> QED
          BY <2>20, <2>23, <4>2, <4>3 DEF AllShort
      <3> QED
        BY <3>1, <3>2, <3>3, <3>4 DEF InsertDone
    <2> QED
      BY <1>1, <1>3, <1>7, <2>27, <2>29
  <1> QED
    BY <1>8, <1>9

\* insert() of a new key, of which the first n calls of the page cache succeed.
LEMMA InsertedOK ==
  ASSUME OneInteger, NEW key \in Keys, NEW val \in Values, NEW n \in 0..MaxCalls,
         Filled, RoomToInsert, map[key] = Absent
  PROVE  InsertDone(root, nodes, next_page_id, map, key, val,
                    Inserted(RootPage(Progress(n)), key, val))
  <1>1. CASE root = None
    BY <1>1, FirstInserted
  <1>2. CASE root # None
    <2>1. PICK st : st = Progress(n)
      OBVIOUS
    <2>2. /\ st \in InProgress /\ Going(st) /\ Room(st) /\ st.nodes = nodes
          /\ st.np = next_page_id /\ st.calls = n /\ st.upper = FALSE
      BY <2>1, ProgressIs
    <2>3. PICK np \in Nat, mp \in [Keys -> Values \cup {Absent}] : np = next_page_id /\ mp = map
      BY DEF Filled
    <2>4. PICK s1 : s1 = FetchPage(st)
      OBVIOUS
    <2>5. /\ s1 \in InProgress /\ s1.nodes = nodes /\ s1.np = np
          /\ IF n = 0 THEN s1.end = "error" ELSE s1.end = "ok" /\ s1.calls = n - 1
      BY <2>2, <2>3, <2>4, FetchFacts
    <2>6. PICK w : w = Inserted(s1, key, val)
      OBVIOUS
    <2>7. RootPage(st) = s1
      BY <1>2, <2>4 DEF RootPage
    <2>8. root \in PageIds /\ Holds(root, nodes, np, mp, TRUE)
      BY <1>2, <2>3 DEF Filled
    <2>9. CASE n = 0
      <3>1. w = [st |-> s1, root |-> root] /\ s1.end = "error"
        BY <2>5, <2>6, <2>9 DEF Inserted, Going
      <3>2. w.st = s1 /\ w.root = root
        BY <3>1
      <3>3. InsertDone(root, nodes, np, mp, key, val, w)
        <4>1. w.st.end = "error" /\ ~Going(w.st) /\ w.root \in PageIds \cup {None}
          BY <2>8, <3>1, <3>2 DEF Going
        <4>2. w.st \in InProgress /\ np <= w.st.np
          BY <2>5, <3>2
        <4>3. Holds(w.root, w.st.nodes, w.st.np, mp, TRUE)
          BY <2>5, <2>8, <3>2
        <4>4. w.st.nodes = nodes
          BY <2>5, <3>2
        <4> QED
          BY <4>1, <4>2, <4>3, <4>4 DEF InsertDone
      <3> QED
        BY <2>1, <2>3, <2>6, <2>7, <3>3
    <2>10. CASE n # 0
      <3>1. Going(s1)
        BY <2>5, <2>10 DEF Going
      <3>2. w = WithRoot(InsertBelow(s1, Top, key, val))
        BY <2>6, <3>1 DEF Inserted
      <3>3. MaxCalls \in Nat
        BY BTreeAssumption
      <3>4. s1.calls < MaxCalls /\ Room(s1)
        BY <2>2, <2>3, <2>5, <2>10, <3>3 DEF Room
      <3>5. InsertDone(root, s1.nodes, s1.np, mp, key, val, w)
        BY <2>3, <2>5, <2>8, <3>1, <3>2, <3>4, TreeInserted
      <3> QED
        BY <2>1, <2>3, <2>5, <2>6, <2>7, <3>5
    <2> QED
      BY <2>9, <2>10
  <1> QED
    BY <1>1, <1>2

-----------------------------------------------------------------------------
(***************************************************************************)
(* The function down of Descend.                                           *)
(***************************************************************************)
NoneDown == [q \in PageIds |-> q]

OneDown(down, nd, key) ==
    [q \in PageIds |-> IF FindChild(nd[q], key) = None THEN q ELSE down[FindChild(nd[q], key)]]

IsDown(f, m, nd, key) ==
    f = [n \in 0..m |-> IF n = 0 THEN NoneDown ELSE OneDown(f[n - 1], nd, key)]

LEMMA DownExists ==
  ASSUME NEW nd, NEW key
  PROVE  \A m \in Nat : \E f : IsDown(f, m, nd, key)
  <1> DEFINE Missing == {m \in Nat : ~\E f : IsDown(f, m, nd, key)}
  <1>1. ASSUME NEW m \in Missing, \A n \in Missing : m <= n PROVE FALSE
    <2>1. CASE m = 0
      <3>1. PICK f : f = [n \in 0..m |-> NoneDown]
        OBVIOUS
      <3>2. \A n \in 0..m : n = 0
        BY <2>1
      <3>3. IsDown(f, m, nd, key)
        BY <3>1, <3>2 DEF IsDown
      <3> QED
        BY <3>3
    <2>2. CASE m # 0
      <3>1. PICK l \in Nat : l = m - 1
        BY <2>2
      <3>2. l \notin Missing
        BY <1>1, <3>1
      <3>3. PICK f : IsDown(f, l, nd, key)
        BY <3>2
      <3>4. \A n \in 0..l : f[n] = IF n = 0 THEN NoneDown ELSE OneDown(f[n - 1], nd, key)
        BY <3>3 DEF IsDown
      <3>5. PICK g : g = [n \in 0..m |-> IF n = m THEN OneDown(f[l], nd, key) ELSE f[n]]
        OBVIOUS
      <3>6. g[m] = OneDown(f[l], nd, key) /\ \A n \in 0..l : g[n] = f[n]
        BY <3>1, <3>5
      <3>7. \A n \in 0..m : n # 0 => n - 1 \in 0..l
        BY <3>1
      <3>8. ASSUME NEW n \in 0..m
            PROVE  g[n] = IF n = 0 THEN NoneDown ELSE OneDown(g[n - 1], nd, key)
        <4>1. CASE n = m
          BY <2>2, <3>1, <3>6, <4>1
        <4>2. CASE n # m
          <5>1. n \in 0..l /\ g[n] = f[n]
            BY <3>1, <3>6, <4>2
          <5>2. n # 0 => g[n - 1] = f[n - 1]
            BY <3>6, <3>7
          <5> QED
            BY <3>4, <5>1, <5>2
        <4> QED
          BY <4>1, <4>2
      <3>9. IsDown(g, m, nd, key)
        BY <3>5, <3>8 DEF IsDown
      <3> QED
        BY <3>9
    <2> QED
      BY <2>1, <2>2
  <1>2. Missing = {}
    <2>1. Missing \in SUBSET Nat
      OBVIOUS
    <2> HIDE DEF Missing
    <2> QED
      BY <1>1, <2>1, LeastElement
  <1> QED
    BY <1>2

LEMMA DescendIs ==
  ASSUME next_page_id \in Nat, NEW p, NEW key
  PROVE  \E f : IsDown(f, next_page_id, nodes, key) /\ Descend(p, key) = f[next_page_id][p]
  <1>1. PICK f : f = CHOOSE g : IsDown(g, next_page_id, nodes, key)
    OBVIOUS
  <1>2. IsDown(f, next_page_id, nodes, key)
    BY <1>1, DownExists
  <1>3. Descend(p, key) = f[next_page_id][p]
    BY <1>1 DEF Descend, IsDown, NoneDown, OneDown
  <1> QED
    BY <1>2, <1>3

-----------------------------------------------------------------------------
(***************************************************************************)
(* The way down from a page of a forest.                                   *)
(***************************************************************************)
\* x is where the way from q ends: at the leaf for k, or where k is above all.
IsEnd(F, q, k, x) ==
    /\ x \in F.pages /\ F.lo[x] <= k
    /\ F.lv[x] > 0 => F.hi[x] <= k
    /\ k < F.hi[q] => k < F.hi[x]

EndsAtLevel(F, f, m, k, L) ==
    \A n \in 0..m : \A q \in F.pages :
        L <= n /\ F.lv[q] = L /\ F.lo[q] <= k => IsEnd(F, q, k, f[n][q])

\* One step down.
LEMMA ChildFor ==
  ASSUME OneInteger, NEW F, NEW nd \in [PageIds -> Node], NEW H \in Nat, Forest(F, nd, H),
         NEW q \in F.pages, NEW key \in Keys, F.lo[q] <= key[1]
  PROVE  IF F.lv[q] > 0 /\ key[1] < F.hi[q]
         THEN LET c == FindChild(nd[q], key)
              IN  /\ c \in F.pages /\ c # None /\ F.lv[c] + 1 = F.lv[q]
                  /\ F.lo[c] <= key[1] /\ key[1] < F.hi[c]
         ELSE FindChild(nd[q], key) = None
  <1>1. key \in Bounds
    BY DEF Bounds
  <1>2. PICK k \in Int : k = key[1]
    BY <1>1, BoundsAreIntegers
  <1>3. /\ q \in PageIds /\ F.lv[q] \in Nat /\ F.lo[q] \in Int /\ F.hi[q] \in Int
        /\ F.pages \subseteq PageIds
    BY ForestFacts DEF Forest, ForestTyped
  <1>4. PICK node \in Node : node = nd[q]
    BY <1>3
  <1>5. CASE F.lv[q] = 0
    <2>1. IsLeaf(node)
      BY <1>4, <1>5 DEF Forest, LeafOK, IsLeaf
    <2>2. FindChild(node, key) = None
      BY <2>1 DEF FindChild
    <2> QED
      BY <1>4, <1>5, <2>2
  <1>6. CASE F.lv[q] > 0
    <2>1. PICK S : S = SlotsOf(node)
      OBVIOUS
    <2>2. /\ ~IsLeaf(node) /\ node.next = None /\ Sorted(node)
          /\ \A s \in S : ChildOK(F, S, q, s)
          /\ \E s \in S : K(s) = F.hi[q]
      BY <1>4, <1>6, <2>1 DEF Forest, InnerOK, IsLeaf
    <2>3. \/ FindChild(node, key) = None /\ \A s \in S : K(s) <= k
          \/ \E s \in S : /\ FindChild(node, key) = s.val /\ k < K(s)
                          /\ \A t \in S : k < K(t) => K(s) <= K(t)
      BY <1>1, <1>2, <2>1, <2>2, FindChildSlot
    <2>4. CASE FindChild(node, key) = None /\ \A s \in S : K(s) <= k
      <3>1. ~(k < F.hi[q])
        BY <1>3, <2>2, <2>4
      <3> QED
        BY <1>2, <1>4, <2>4, <3>1
    <2>5. ASSUME NEW s \in S, FindChild(node, key) = s.val, k < K(s),
                 \A t \in S : k < K(t) => K(s) <= K(t)
          PROVE  /\ s.val \in F.pages /\ s.val # None /\ F.lv[s.val] + 1 = F.lv[q]
                 /\ F.lo[s.val] <= k /\ k < F.hi[s.val] /\ k < F.hi[q]
      <3>1. ChildOK(F, S, q, s)
        BY <2>2
      <3>2. /\ s.val \in F.pages /\ F.lv[s.val] + 1 = F.lv[q]
            /\ F.hi[s.val] = K(s) /\ K(s) <= F.hi[q]
        BY <3>1 DEF ChildOK
      <3>3. F.lo[s.val] \in Int /\ F.hi[s.val] \in Int /\ F.lo[s.val] < F.hi[s.val]
        BY <3>2, ForestFacts
      <3>4. F.lo[s.val] <= k
        <4>1. CASE F.lo[s.val] = F.lo[q]
          BY <1>2, <4>1
        <4>2. ASSUME NEW t \in S, K(t) = F.lo[s.val] PROVE F.lo[s.val] <= k
          BY <2>5, <3>2, <3>3, <4>2
        <4> QED
          BY <3>1, <4>1, <4>2 DEF ChildOK
      <3>5. s.val # None
        BY <1>3, <3>2, BTreeAssumption DEF None
      <3> QED
        BY <1>3, <2>5, <3>2, <3>3, <3>4, <3>5
    <2> QED
      BY <1>2, <1>4, <1>6, <2>3, <2>4, <2>5
  <1> QED
    BY <1>3, <1>5, <1>6

LEMMA EndsAtLevels ==
  ASSUME OneInteger, NEW F, NEW nd \in [PageIds -> Node], NEW H \in Nat, Forest(F, nd, H),
         NEW key \in Keys, NEW m \in Nat, NEW f, IsDown(f, m, nd, key)
  PROVE  \A L \in Nat : EndsAtLevel(F, f, m, key[1], L)
  <1> DEFINE Wrong == {L \in Nat : ~EndsAtLevel(F, f, m, key[1], L)}
  <1>1. PICK k \in Int : k = key[1]
    <2>1. key \in Bounds
      BY DEF Bounds
    <2> QED
      BY <2>1, BoundsAreIntegers
  <1>2. \A n \in 0..m : f[n] = IF n = 0 THEN NoneDown ELSE OneDown(f[n - 1], nd, key)
    BY DEF IsDown
  <1>3. ASSUME NEW L \in Wrong, \A l \in Wrong : L <= l PROVE FALSE
    <2>1. L \in Nat /\ ~EndsAtLevel(F, f, m, key[1], L)
      OBVIOUS
    <2>2. PICK n \in 0..m, q \in F.pages :
             L <= n /\ F.lv[q] = L /\ F.lo[q] <= k /\ ~IsEnd(F, q, k, f[n][q])
      BY <1>1, <2>1 DEF EndsAtLevel
    <2>3. PICK c : c = FindChild(nd[q], key)
      OBVIOUS
    <2>4. q \in PageIds /\ F.lv[q] \in Nat /\ F.lo[q] \in Int /\ F.hi[q] \in Int
      BY ForestFacts
    <2>5. IF L > 0 /\ k < F.hi[q]
          THEN /\ c \in F.pages /\ c # None /\ F.lv[c] + 1 = L
               /\ F.lo[c] <= k /\ k < F.hi[c]
          ELSE c = None
      BY <1>1, <2>2, <2>3, ChildFor
    <2>6. f[n][q] = IF n = 0 \/ c = None THEN q ELSE f[n - 1][c]
      <3>1. CASE n = 0
        BY <1>2, <2>4, <3>1 DEF NoneDown
      <3>2. CASE n # 0
        <4>1. f[n] = OneDown(f[n - 1], nd, key)
          BY <1>2, <3>2
        <4> QED
          BY <2>3, <2>4, <3>2, <4>1 DEF OneDown
      <3> QED
        BY <3>1, <3>2
    <2>7. CASE c = None
      <3>1. f[n][q] = q
        BY <2>6, <2>7
      <3>2. L > 0 => F.hi[q] <= k
        BY <2>4, <2>5, <2>7
      <3> QED
        BY <2>2, <3>1, <3>2 DEF IsEnd
    <2>8. CASE c # None
      <3>1. L > 0 /\ n # 0
        BY <2>1, <2>2, <2>5, <2>8
      <3>2. PICK l \in Nat : l = L - 1
        BY <2>1, <3>1
      <3>3. EndsAtLevel(F, f, m, k, l)
        BY <1>1, <1>3, <3>2
      <3>4. PICK i \in 0..m : i = n - 1
        BY <3>1
      <3>5. l <= i /\ F.lv[c] = l /\ c \in F.pages /\ F.lo[c] <= k /\ k < F.hi[c]
        <4>1. c \in F.pages /\ F.lv[c] + 1 = L /\ F.lo[c] <= k /\ k < F.hi[c]
          BY <2>5, <2>8
        <4>2. F.lv[c] \in Nat
          BY <4>1, ForestFacts
        <4> QED
          BY <2>1, <2>2, <3>1, <3>2, <3>4, <4>1, <4>2
      <3>6. IsEnd(F, c, k, f[i][c])
        BY <3>3, <3>5 DEF EndsAtLevel
      <3>7. f[n][q] = f[i][c]
        BY <2>6, <2>8, <3>1, <3>4
      <3>8. IsEnd(F, q, k, f[n][q])
        BY <3>5, <3>6, <3>7 DEF IsEnd
      <3> QED
        BY <2>2, <3>8
    <2> QED
      BY <2>7, <2>8
  <1>4. Wrong = {}
    <2>1. Wrong \in SUBSET Nat
      OBVIOUS
    <2> HIDE DEF Wrong
    <2> QED
      BY <1>3, <2>1, LeastElement
  <1> QED
    BY <1>4

\* No page of a tree reaches above the root.
LEMMA BelowRoot ==
  ASSUME OneInteger, NEW F, NEW H \in Nat, NEW rt, NEW nd, NEW np \in Nat,
         IsTree(F, H, rt, nd, np)
  PROVE  \A q \in F.pages : F.hi[q] <= F.hi[rt]
  <1>1. Forest(F, nd, H) /\ rt \in F.pages /\ \A q \in F.pages : F.lv[q] = H <=> q = rt
    BY DEF IsTree
  <1>2. \A q \in F.pages : /\ F.lv[q] \in Nat /\ F.lv[q] <= H /\ F.hi[q] \in Int
                           /\ H - F.lv[q] \in Nat
    <2>1. \A q \in F.pages : F.lv[q] \in Nat /\ F.lv[q] <= H /\ F.hi[q] \in Int
      BY <1>1, ForestFacts
    <2> QED
      BY <2>1
  <1> DEFINE Above == {q \in F.pages : ~(F.hi[q] <= F.hi[rt])}
             Depths == {H - F.lv[q] : q \in Above}
  <1>3. ASSUME NEW q \in Above, \A r \in Above : H - F.lv[q] <= H - F.lv[r] PROVE FALSE
    <2>1. q \in F.pages /\ ~(F.hi[q] <= F.hi[rt])
      OBVIOUS
    <2>2. q # rt
      BY <1>1, <1>2, <2>1
    <2>3. F.lv[q] < H
      BY <1>1, <1>2, <2>1, <2>2
    <2>4. PICK p \in F.pages : F.lv[p] = F.lv[q] + 1 /\ \E s \in SlotsOf(nd[p]) : s.val = q
      BY <1>1, <2>1, <2>3 DEF Forest, HasParent
    <2>5. PICK s \in SlotsOf(nd[p]) : s.val = q
      BY <2>4
    <2>6. ChildOK(F, SlotsOf(nd[p]), p, s)
      <3>1. F.lv[p] > 0
        BY <1>2, <2>1, <2>4
      <3>2. InnerOK(F, nd, p)
        BY <1>1, <3>1 DEF Forest
      <3> QED
        BY <3>2 DEF InnerOK
    <2>7. F.hi[q] <= F.hi[p]
      BY <2>5, <2>6 DEF ChildOK
    <2>8. p \notin Above
      BY <1>2, <1>3, <2>1, <2>4
    <2> QED
      BY <1>1, <1>2, <2>1, <2>7, <2>8
  <1>4. Above = {}
    <2>1. Depths \in SUBSET Nat
      BY <1>2
    <2>2. ASSUME Depths # {} PROVE FALSE
      <3>1. PICK d \in Depths : \A e \in Depths : d <= e
        <4> HIDE DEF Depths
        <4> QED
          BY <2>1, <2>2, LeastElement
      <3>2. PICK q \in Above : d = H - F.lv[q]
        OBVIOUS
      <3>3. \A r \in Above : H - F.lv[r] \in Depths
        OBVIOUS
      <3>4. \A r \in Above : H - F.lv[q] <= H - F.lv[r]
        BY <3>1, <3>2, <3>3
      <3> QED
        BY <1>3, <3>4
    <2> QED
      BY <2>2
  <1> QED
    BY <1>4

\* The variables of a tree that was not damaged.
Sound ==
    /\ nodes \in [PageIds -> Node] /\ next_page_id \in Nat
    /\ root \in PageIds \cup {None}
    /\ map \in [Keys -> Values \cup {Absent}]
    /\ Holds(root, nodes, next_page_id, map, FALSE)

\* get and delete end at a page of the tree.
LEMMA DescendEnds ==
  ASSUME OneInteger, NEW key \in Keys, next_page_id \in Nat, nodes \in [PageIds -> Node],
         NEW F, NEW H \in Nat, IsTree(F, H, root, nodes, next_page_id)
  PROVE  IsEnd(F, root, key[1], Descend(root, key))
  <1>1. PICK x : x = Descend(root, key)
    OBVIOUS
  <1>2. PICK np \in Nat : np = next_page_id
    OBVIOUS
  <1>3. PICK nd \in [PageIds -> Node] : nd = nodes
    OBVIOUS
  <1>4. PICK k \in Int : k = key[1]
    <2>1. key \in Bounds
      BY DEF Bounds
    <2> QED
      BY <2>1, BoundsAreIntegers
  <1>5. PICK rt : rt = root
    OBVIOUS
  <1>6. /\ Forest(F, nd, H) /\ rt \in F.pages /\ F.lv[rt] = H
        /\ H < np /\ F.lo[rt] <= k
    BY <1>2, <1>3, <1>4, <1>5 DEF IsTree
  <1>7. PICK f : IsDown(f, np, nd, key) /\ x = f[np][rt]
    BY <1>1, <1>2, <1>3, <1>5, DescendIs
  <1>8. EndsAtLevel(F, f, np, k, H)
    BY <1>4, <1>6, <1>7, EndsAtLevels
  <1>9. IsEnd(F, rt, k, x)
    BY <1>6, <1>7, <1>8 DEF EndsAtLevel
  <1> QED
    BY <1>1, <1>4, <1>5, <1>9

\* They end at the leaf of the key if there is one.
LEMMA DescendFinds ==
  ASSUME OneInteger, NEW key \in Keys, next_page_id \in Nat, nodes \in [PageIds -> Node],
         NEW F, NEW H \in Nat, IsTree(F, H, root, nodes, next_page_id)
  PROVE  LET x == Descend(root, key)
         IN  /\ x \in F.pages /\ x \in PageIds
             /\ IsLeaf(nodes[x]) <=> F.lv[x] = 0
             /\ \A y \in F.pages : F.lv[y] = 0 /\ F.lo[y] <= key[1] /\ key[1] < F.hi[y] => x = y
  <1>1. PICK x : x = Descend(root, key)
    OBVIOUS
  <1>2. PICK np \in Nat : np = next_page_id
    OBVIOUS
  <1>3. PICK nd \in [PageIds -> Node] : nd = nodes
    OBVIOUS
  <1>4. PICK k \in Int : k = key[1]
    <2>1. key \in Bounds
      BY DEF Bounds
    <2> QED
      BY <2>1, BoundsAreIntegers
  <1>5. PICK rt : rt = root
    OBVIOUS
  <1>6. IsTree(F, H, rt, nd, np) /\ Forest(F, nd, H) /\ rt \in F.pages
    BY <1>2, <1>3, <1>5 DEF IsTree
  <1>9. IsEnd(F, rt, k, x)
    BY <1>1, <1>4, <1>5, DescendEnds
  <1>10. /\ x \in F.pages /\ x \in PageIds /\ F.lv[x] \in Nat
         /\ F.lo[x] \in Int /\ F.hi[x] \in Int
    BY <1>6, <1>9, ForestFacts DEF IsEnd
  <1>11. IsLeaf(nd[x]) <=> F.lv[x] = 0
    BY <1>6, <1>10 DEF Forest, LeafOK, InnerOK, IsLeaf
  <1>12. ASSUME NEW y \in F.pages, F.lv[y] = 0, F.lo[y] <= k, k < F.hi[y] PROVE x = y
    <2>1. F.hi[y] <= F.hi[rt] /\ F.hi[rt] \in Int /\ F.lo[y] \in Int /\ F.hi[y] \in Int
      BY <1>6, BelowRoot, ForestFacts
    <2>2. k < F.hi[rt]
      BY <1>12, <2>1
    <2>3. k < F.hi[x] /\ F.lo[x] <= k /\ F.lv[x] = 0
      BY <1>9, <1>10, <2>2 DEF IsEnd
    <2>4. ~(F.hi[x] <= F.lo[y]) /\ ~(F.hi[y] <= F.lo[x])
      BY <1>10, <1>12, <2>1, <2>3
    <2> QED
      BY <1>6, <1>10, <1>12, <2>3, <2>4 DEF Forest, Apart
  <1> QED
    BY <1>1, <1>3, <1>4, <1>10, <1>11, <1>12

\* get() finds what the map has.
LEMMA SoundGet ==
  ASSUME OneInteger, Sound, NEW key \in Keys
  PROVE  Get(key) = map[key]
  <1>1. CASE root = None
    BY <1>1 DEF Sound, Holds, Get
  <1>2. CASE root # None
    <2>1. PICK F : \E H \in Nat : IsTree(F, H, root, nodes, next_page_id) /\ HasMap(F, nodes, map)
      BY <1>2 DEF Sound, Holds
    <2>2. PICK H \in Nat : IsTree(F, H, root, nodes, next_page_id) /\ HasMap(F, nodes, map)
      BY <2>1
    <2>3. PICK x : x = Descend(root, key)
      OBVIOUS
    <2>4. /\ x \in F.pages /\ x \in PageIds
          /\ IsLeaf(nodes[x]) <=> F.lv[x] = 0
          /\ \A y \in F.pages : F.lv[y] = 0 /\ F.lo[y] <= key[1] /\ key[1] < F.hi[y] => x = y
      BY <2>2, <2>3, DescendFinds DEF Sound
    <2>5. PICK node \in Node : node = nodes[x]
      BY <2>4 DEF Sound
    <2>6. PICK i : i = IndexOf(node, key)
      OBVIOUS
    <2>7. \/ i = 0 /\ \A s \in SlotsOf(node) : s.key # key
          \/ i # 0 /\ node.values[i] \in SlotsOf(node) /\ node.values[i].key = key
      BY <2>6, IndexOfKey
    <2>8. Get(key) = IF IsLeaf(node) /\ i # 0 THEN node.values[i].val ELSE Absent
      BY <1>2, <2>3, <2>5, <2>6 DEF Get, InLeaf
    <2>9. CASE IsLeaf(node) /\ i # 0
      <3>1. PICK s \in SlotsOf(node) : s = node.values[i] /\ s.key = key
        BY <2>7, <2>9
      <3>2. InLeaves(F, nodes, s)
        BY <2>4, <2>5, <2>9 DEF InLeaves
      <3>3. s = Slot(key, map[key])
        BY <2>2, <3>1, <3>2 DEF HasMap
      <3> QED
        BY <2>8, <2>9, <3>1, <3>3 DEF Slot
    <2>10. CASE ~(IsLeaf(node) /\ i # 0)
      <3>1. ASSUME map[key] # Absent PROVE FALSE
        <4>1. PICK s : s = Slot(key, map[key])
          OBVIOUS
        <4>2. InLeaves(F, nodes, s) /\ s.key = key
          BY <2>2, <3>1, <4>1 DEF HasMap, Slot
        <4>3. PICK y \in F.pages : F.lv[y] = 0 /\ s \in SlotsOf(nodes[y])
          BY <4>2 DEF InLeaves
        <4>4. F.lo[y] <= key[1] /\ key[1] < F.hi[y]
          BY <2>2, <4>2, <4>3 DEF IsTree, Forest, LeafOK, K
        <4>5. x = y
          BY <2>4, <4>3, <4>4
        <4> QED
          BY <2>4, <2>5, <2>7, <2>10, <4>2, <4>3, <4>5
      <3> QED
        BY <2>8, <2>10, <3>1
    <2> QED
      BY <2>9, <2>10
  <1> QED
    BY <1>1, <1>2

-----------------------------------------------------------------------------
(***************************************************************************)
(* delete() takes a pair out of its leaf; the ranges stay.                 *)
(***************************************************************************)
IsWithout(node, key, r) ==
    /\ r \in Node /\ r.t = node.t /\ r.next = node.next /\ Sorted(r)
    /\ \A s : s \in SlotsOf(r) <=> s \in SlotsOf(node) /\ s.key # key

LEMMA KeyRemoved ==
  ASSUME OneInteger, NEW F, NEW nd, NEW H \in Nat, Forest(F, nd, H), NEW key \in Keys,
         NEW p \in F.pages, F.lv[p] = 0, F.lo[p] <= key[1], key[1] < F.hi[p],
         NEW nd2, IsWithout(nd[p], key, nd2[p]), \A q \in F.pages : q # p => nd2[q] = nd[q]
  PROVE  /\ Forest(F, nd2, H)
         /\ \A s : InLeaves(F, nd2, s) <=> InLeaves(F, nd, s) /\ s.key # key
  <1>1. /\ nd2[p].t = nd[p].t /\ nd2[p].next = nd[p].next /\ Sorted(nd2[p])
        /\ \A s : s \in SlotsOf(nd2[p]) <=> s \in SlotsOf(nd[p]) /\ s.key # key
    BY DEF IsWithout
  <1>2. \A q \in F.pages : /\ F.lv[q] \in Nat /\ F.lo[q] \in Int /\ F.hi[q] \in Int
                           /\ F.lo[q] < F.hi[q]
    BY ForestFacts
  <1>3. key[1] \in Int
    <2>1. key \in Bounds
      BY DEF Bounds
    <2> QED
      BY <2>1, BoundsAreIntegers
  <1>4. ASSUME NEW q \in F.pages, F.lv[q] = 0 PROVE LeafOK(F, nd2, q) /\ Linked(F, nd2, q)
    <2>1. LeafOK(F, nd, q) /\ Linked(F, nd, q)
      BY <1>4 DEF Forest
    <2>2. nd2[q].next = nd[q].next
      BY <1>1
    <2>3. Linked(F, nd2, q)
      BY <2>1, <2>2 DEF Linked
    <2>4. LeafOK(F, nd2, q)
      <3>1. CASE q = p
        BY <1>1, <2>1, <3>1 DEF LeafOK
      <3>2. CASE q # p
        BY <2>1, <3>2 DEF LeafOK
      <3> QED
        BY <3>1, <3>2
    <2> QED
      BY <2>3, <2>4
  <1>5. ASSUME NEW q \in F.pages, F.lv[q] > 0 PROVE nd2[q] = nd[q] /\ InnerOK(F, nd2, q)
    <2>1. q # p
      BY <1>5
    <2>2. InnerOK(F, nd, q)
      BY <1>5 DEF Forest
    <2> QED
      BY <2>1, <2>2 DEF InnerOK
  <1>6. ASSUME NEW q \in F.pages, F.lv[q] < H PROVE HasParent(F, nd2, q)
    <2>1. HasParent(F, nd, q)
      BY <1>6 DEF Forest
    <2>2. PICK u \in F.pages : F.lv[u] = F.lv[q] + 1 /\ \E s \in SlotsOf(nd[u]) : s.val = q
      BY <2>1 DEF HasParent
    <2>3. nd2[u] = nd[u]
      BY <1>2, <1>5, <2>2
    <2> QED
      BY <2>2, <2>3 DEF HasParent
  <1>7. Forest(F, nd2, H)
    BY <1>4, <1>5, <1>6 DEF Forest
  <1>8. ASSUME NEW q \in F.pages, F.lv[q] = 0, q # p, NEW s \in SlotsOf(nd[q]), s.key = key
        PROVE  FALSE
    <2>1. F.lo[q] <= key[1] /\ key[1] < F.hi[q]
      BY <1>8 DEF Forest, LeafOK, K
    <2>2. F.hi[p] <= F.lo[q] \/ F.hi[q] <= F.lo[p]
      BY <1>8 DEF Forest, Apart
    <2> QED
      BY <1>2, <1>3, <2>1, <2>2
  <1>9. ASSUME NEW s PROVE InLeaves(F, nd2, s) <=> InLeaves(F, nd, s) /\ s.key # key
    <2>1. ASSUME InLeaves(F, nd2, s) PROVE InLeaves(F, nd, s) /\ s.key # key
      <3>1. PICK q \in F.pages : F.lv[q] = 0 /\ s \in SlotsOf(nd2[q])
        BY <2>1 DEF InLeaves
      <3>2. s \in SlotsOf(nd[q]) /\ s.key # key
        BY <1>1, <1>8, <3>1
      <3> QED
        BY <3>1, <3>2 DEF InLeaves
    <2>2. ASSUME InLeaves(F, nd, s), s.key # key PROVE InLeaves(F, nd2, s)
      <3>1. PICK q \in F.pages : F.lv[q] = 0 /\ s \in SlotsOf(nd[q])
        BY <2>2 DEF InLeaves
      <3>2. s \in SlotsOf(nd2[q])
        BY <1>1, <2>2, <3>1
      <3> QED
        BY <3>1, <3>2 DEF InLeaves
    <2> QED
      BY <2>1, <2>2
  <1> QED
    BY <1>7, <1>9

\* The tree after a delete holds the map without the key.
LEMMA DeleteKeeps ==
  ASSUME OneInteger, NEW key \in Keys, next_page_id \in Nat, nodes \in [PageIds -> Node],
         NEW p, p = Descend(root, key), InLeaf(p, key),
         NEW nd2, nd2 = [nodes EXCEPT ![p] = RemoveKey(@, key)],
         map \in [Keys -> Values \cup {Absent}], NEW mp2, mp2 = [map EXCEPT ![key] = Absent],
         NEW F, NEW H \in Nat, IsTree(F, H, root, nodes, next_page_id), HasMap(F, nodes, map)
  PROVE  /\ nd2 \in [PageIds -> Node]
         /\ IsTree(F, H, root, nd2, next_page_id) /\ HasMap(F, nd2, mp2)
  <1>1. /\ p \in F.pages /\ p \in PageIds
        /\ IsLeaf(nodes[p]) <=> F.lv[p] = 0
    BY DescendFinds
  <1>2. F.lv[p] = 0 /\ IndexOf(nodes[p], key) # 0
    BY <1>1 DEF InLeaf
  <1>3. PICK node \in Node : node = nodes[p]
    BY <1>1
  <1>4. Forest(F, nodes, H)
    BY DEF IsTree
  <1>5. LeafOK(F, nodes, p)
    BY <1>1, <1>2, <1>4 DEF Forest
  <1>6. key \in Bounds
    BY DEF Bounds
  <1>7. IsWithout(node, key, RemoveKey(node, key))
    BY <1>2, <1>3, <1>5, <1>6, RemoveKeyResult DEF LeafOK, IsWithout
  <1>8. PICK r \in Node : r = RemoveKey(node, key)
    BY <1>7 DEF IsWithout
  <1>9. nd2 \in [PageIds -> Node] /\ nd2[p] = r /\ \A q \in PageIds : q # p => nd2[q] = nodes[q]
    BY <1>1, <1>3, <1>8
  <1>10. \E s \in SlotsOf(node) : s.key = key
    BY <1>2, <1>3, IndexOfKey
  <1>11. F.lo[p] <= key[1] /\ key[1] < F.hi[p]
    BY <1>3, <1>5, <1>10 DEF LeafOK, K
  <1>12. \A q \in F.pages : q # p => nd2[q] = nodes[q]
    BY <1>4, <1>9, ForestFacts
  <1>13. IsWithout(nodes[p], key, nd2[p])
    BY <1>3, <1>7, <1>8, <1>9
  <1>14. /\ Forest(F, nd2, H)
         /\ \A s : InLeaves(F, nd2, s) <=> InLeaves(F, nodes, s) /\ s.key # key
    <2>1. PICK nd, nd3 : nd = nodes /\ nd3 = nd2
      OBVIOUS
    <2>2. /\ Forest(F, nd, H) /\ IsWithout(nd[p], key, nd3[p])
          /\ \A q \in F.pages : q # p => nd3[q] = nd[q]
      BY <1>4, <1>12, <1>13, <2>1
    <2>3. /\ Forest(F, nd3, H)
          /\ \A s : InLeaves(F, nd3, s) <=> InLeaves(F, nd, s) /\ s.key # key
      BY <1>1, <1>2, <1>11, <2>2, KeyRemoved
    <2> QED
      BY <2>1, <2>3
  <1>15. IsTree(F, H, root, nd2, next_page_id)
    BY <1>14 DEF IsTree
  <1>16. mp2[key] = Absent /\ \A k \in Keys : k # key => mp2[k] = map[k]
    OBVIOUS
  <1>17. HasMap(F, nd2, mp2)
    <2>1. ASSUME NEW s, InLeaves(F, nd2, s)
          PROVE  s.key \in Keys /\ mp2[s.key] # Absent /\ s = Slot(s.key, mp2[s.key])
      <3>1. InLeaves(F, nodes, s) /\ s.key # key
        BY <1>14, <2>1
      <3>2. s.key \in Keys /\ map[s.key] # Absent /\ s = Slot(s.key, map[s.key])
        BY <3>1 DEF HasMap
      <3> QED
        BY <1>16, <3>1, <3>2
    <2>2. ASSUME NEW k \in Keys, mp2[k] # Absent PROVE InLeaves(F, nd2, Slot(k, mp2[k]))
      <3>1. k # key /\ mp2[k] = map[k]
        BY <1>16, <2>2
      <3>2. PICK s : s = Slot(k, map[k])
        OBVIOUS
      <3>3. InLeaves(F, nodes, s) /\ s.key = k
        BY <2>2, <3>1, <3>2 DEF HasMap, Slot
      <3> QED
        BY <1>14, <3>1, <3>2, <3>3
    <2> QED
      BY <2>1, <2>2 DEF HasMap
  <1> QED
    BY <1>9, <1>15, <1>17

-----------------------------------------------------------------------------
(***************************************************************************)
(* A scan, latch by latch.                                                 *)
(***************************************************************************)
SortedPairs(u) ==
    /\ u \in Seq(SlotSet)
    /\ \A i, j \in 1..Len(u) : i < j => K(u[i]) < K(u[j])

LEMMA SortedJoined ==
  ASSUME OneInteger, NEW u, NEW v, SortedPairs(u), SortedPairs(v),
         \A s \in Range(u) : \A t \in Range(v) : K(s) < K(t)
  PROVE  SortedPairs(u \o v) /\ \A s : s \in Range(u \o v) <=> s \in Range(u) \/ s \in Range(v)
  <1>1. u \in Seq(SlotSet) /\ v \in Seq(SlotSet)
    BY DEF SortedPairs
  <1>2. PICK m, n \in Nat : m = Len(u) /\ n = Len(v)
    BY <1>1, LenProperties
  <1>3. PICK w : w = u \o v
    OBVIOUS
  <1>4. /\ w \in Seq(SlotSet) /\ Len(w) = m + n
        /\ \A i \in 1..(m + n) : w[i] = IF i <= m THEN u[i] ELSE v[i - m]
    BY <1>1, <1>2, <1>3, ConcatProperties
  <1>5. Range(u) = {u[i] : i \in 1..m} /\ Range(v) = {v[i] : i \in 1..n}
    BY <1>1, <1>2, RangeEquality
  <1>6. Range(w) = {w[i] : i \in 1..(m + n)}
    BY <1>4, RangeEquality
  <1>7. /\ \A i, j \in 1..m : i < j => K(u[i]) < K(u[j])
        /\ \A i, j \in 1..n : i < j => K(v[i]) < K(v[j])
    BY <1>2 DEF SortedPairs
  <1>8. ASSUME NEW i \in 1..(m + n), NEW j \in 1..(m + n), i < j PROVE K(w[i]) < K(w[j])
    <2>1. CASE j <= m
      BY <1>4, <1>7, <1>8, <2>1
    <2>2. CASE i <= m /\ ~(j <= m)
      <3>1. w[i] = u[i] /\ u[i] \in Range(u)
        BY <1>4, <1>5, <2>2
      <3>2. PICK l \in 1..n : l = j - m
        BY <2>2
      <3>3. w[j] = v[l] /\ v[l] \in Range(v)
        BY <1>4, <1>5, <2>2, <3>2
      <3> QED
        BY <3>1, <3>3
    <2>3. CASE ~(i <= m)
      <3>1. PICK a, b \in 1..n : a = i - m /\ b = j - m
        BY <1>8, <2>3
      <3>2. w[i] = v[a] /\ w[j] = v[b] /\ a < b
        BY <1>4, <1>8, <2>3, <3>1
      <3> QED
        BY <1>7, <3>2
    <2> QED
      BY <2>1, <2>2, <2>3
  <1>9. ASSUME NEW s PROVE s \in Range(w) <=> s \in Range(u) \/ s \in Range(v)
    <2>1. ASSUME s \in Range(w) PROVE s \in Range(u) \/ s \in Range(v)
      <3>1. PICK i \in 1..(m + n) : s = w[i]
        BY <1>6, <2>1
      <3>2. CASE i <= m
        BY <1>4, <1>5, <3>1, <3>2
      <3>3. CASE ~(i <= m)
        <4>1. PICK l \in 1..n : l = i - m
          BY <3>3
        <4> QED
          BY <1>4, <1>5, <3>1, <3>3, <4>1
      <3> QED
        BY <3>2, <3>3
    <2>2. ASSUME s \in Range(u) PROVE s \in Range(w)
      <3>1. PICK i \in 1..m : s = u[i]
        BY <1>5, <2>2
      <3>2. i \in 1..(m + n) /\ w[i] = s
        BY <1>4, <3>1
      <3> QED
        BY <1>6, <3>2
    <2>3. ASSUME s \in Range(v) PROVE s \in Range(w)
      <3>1. PICK i \in 1..n : s = v[i]
        BY <1>5, <2>3
      <3>2. PICK j \in 1..(m + n) : j = i + m
        OBVIOUS
      <3>3. w[j] = s
        BY <1>4, <3>1, <3>2
      <3> QED
        BY <1>6, <3>2, <3>3
    <2> QED
      BY <2>1, <2>2, <2>3
  <1>10. SortedPairs(w)
    BY <1>4, <1>8 DEF SortedPairs
  <1> QED
    BY <1>3, <1>9, <1>10

\* The slots of a node in order.
LEMMA SortedSlots ==
  ASSUME OneInteger, NEW node \in Node, Sorted(node)
  PROVE  SortedPairs(node.values) /\ Range(node.values) = SlotsOf(node)
  BY NodeFacts DEF Sorted, SortedPairs, SlotsOf

\* The first slot of an internal node leads to a child with the same lower end.
LEMMA FirstChild ==
  ASSUME OneInteger, NEW F, NEW nd \in [PageIds -> Node], NEW H \in Nat, Forest(F, nd, H),
         NEW q \in F.pages, F.lv[q] > 0
  PROVE  LET c == Head(nd[q].values).val
         IN  c \in F.pages /\ F.lv[c] + 1 = F.lv[q] /\ F.lo[c] = F.lo[q]
  <1>1. q \in PageIds /\ F.lo[q] \in Int
    BY ForestFacts
  <1>2. PICK node \in Node : node = nd[q]
    BY <1>1
  <1>3. PICK S : S = SlotsOf(node)
    OBVIOUS
  <1>4. Sorted(node) /\ (\A s \in S : ChildOK(F, S, q, s)) /\ \E s \in S : K(s) = F.hi[q]
    BY <1>2, <1>3 DEF Forest, InnerOK
  <1>5. PICK m \in Nat : /\ m = Len(node.values) /\ node.values \in Seq(SlotSet)
                         /\ S = {node.values[i] : i \in 1..m}
                         /\ \A i \in 1..m : node.values[i] \in SlotSet
    BY <1>3, NodeFacts
  <1>6. m >= 1
    BY <1>4, <1>5
  <1>7. PICK s \in S : s = node.values[1] /\ s = Head(node.values)
    BY <1>5, <1>6
  <1>8. \A t \in S : K(s) <= K(t)
    <2>1. ASSUME NEW t \in S PROVE K(s) <= K(t)
      <3>1. PICK i \in 1..m : t = node.values[i]
        BY <1>5
      <3>2. K(s) \in Int /\ K(t) \in Int
        BY <1>5, SlotKeys
      <3>3. i = 1 \/ K(s) < K(t)
        BY <1>4, <1>5, <1>6, <1>7, <3>1 DEF Sorted
      <3> QED
        BY <1>7, <3>1, <3>2, <3>3
    <2> QED
      BY <2>1
  <1>9. ChildOK(F, S, q, s)
    BY <1>4
  <1>10. PICK c : c = s.val
    OBVIOUS
  <1>11. c \in F.pages /\ F.lv[c] + 1 = F.lv[q] /\ F.hi[c] = K(s)
    BY <1>9, <1>10 DEF ChildOK
  <1>12. F.lo[c] < F.hi[c] /\ F.lo[c] \in Int /\ F.hi[c] \in Int
    BY <1>11, ForestFacts
  <1>13. ASSUME NEW t \in S, K(t) = F.lo[c] PROVE FALSE
    BY <1>8, <1>11, <1>12, <1>13
  <1>14. F.lo[c] = F.lo[q]
    BY <1>9, <1>10, <1>13 DEF ChildOK
  <1> QED
    BY <1>2, <1>7, <1>10, <1>11, <1>14

\* Pairs behind a leaf are in the leaves behind it, from the next one on.
LEMMA BehindLeaf ==
  ASSUME OneInteger, NEW F, NEW nd \in [PageIds -> Node], NEW H \in Nat, Forest(F, nd, H),
         NEW q \in F.pages, F.lv[q] = 0
  PROVE  /\ nd[q].next = None =>
               \A s : InLeaves(F, nd, s) /\ F.lo[q] <= K(s) => s \in SlotsOf(nd[q])
         /\ nd[q].next # None =>
               /\ nd[q].next \in F.pages /\ F.lv[nd[q].next] = 0
               /\ F.lo[q] < F.lo[nd[q].next] /\ F.hi[q] <= F.lo[nd[q].next]
               /\ \A s : InLeaves(F, nd, s) /\ F.lo[q] <= K(s) /\ K(s) < F.lo[nd[q].next]
                             => s \in SlotsOf(nd[q])
  <1>1. \A y \in F.pages : /\ y \in PageIds /\ F.lo[y] \in Int /\ F.hi[y] \in Int
                           /\ F.lo[y] < F.hi[y]
    BY ForestFacts
  <1>2. Linked(F, nd, q)
    BY DEF Forest
  <1>3. \A x, y \in F.pages :
           x # y /\ F.lv[x] = F.lv[y] => F.hi[x] <= F.lo[y] \/ F.hi[y] <= F.lo[x]
    BY DEF Forest, Apart
  <1>4. ASSUME NEW y \in F.pages, F.lv[y] = 0, NEW s \in SlotsOf(nd[y]), F.lo[q] <= K(s),
               F.lo[y] <= F.lo[q]
        PROVE  y = q
    <2>1. F.lo[y] <= K(s) /\ K(s) < F.hi[y] /\ K(s) \in Int
      <3>1. LeafOK(F, nd, y)
        BY <1>4 DEF Forest
      <3>2. K(s) \in Int
        BY <1>1, <1>4, NodeFacts, SlotKeys
      <3> QED
        BY <1>4, <3>1, <3>2 DEF LeafOK
    <2>2. ~(F.hi[y] <= F.lo[q]) /\ ~(F.hi[q] <= F.lo[y])
      BY <1>1, <1>4, <2>1
    <2> QED
      BY <1>3, <1>4, <2>2
  <1>5. CASE nd[q].next = None
    <2>1. \A y \in F.pages : F.lv[y] = 0 => F.lo[y] <= F.lo[q]
      <3>1. None \notin F.pages
        BY <1>1, BTreeAssumption DEF None
      <3> QED
        BY <1>2, <1>5, <3>1 DEF Linked
    <2>2. ASSUME NEW s, InLeaves(F, nd, s), F.lo[q] <= K(s) PROVE s \in SlotsOf(nd[q])
      <3>1. PICK y \in F.pages : F.lv[y] = 0 /\ s \in SlotsOf(nd[y])
        BY <2>2 DEF InLeaves
      <3> QED
        BY <1>4, <2>1, <2>2, <3>1
    <2> QED
      BY <1>5, <2>2
  <1>6. CASE nd[q].next # None
    <2>1. PICK x : x = nd[q].next
      OBVIOUS
    <2>2. /\ x \in F.pages /\ F.lv[x] = 0 /\ F.lo[q] < F.lo[x]
          /\ \A y \in F.pages : F.lv[y] = 0 /\ F.lo[q] < F.lo[y] => F.lo[x] <= F.lo[y]
      BY <1>2, <1>6, <2>1 DEF Linked
    <2>3. F.hi[q] <= F.lo[x]
      <3>1. x # q /\ ~(F.hi[x] <= F.lo[q])
        BY <1>1, <2>2
      <3> QED
        BY <1>3, <2>2, <3>1
    <2>4. ASSUME NEW s, InLeaves(F, nd, s), F.lo[q] <= K(s), K(s) < F.lo[x]
          PROVE  s \in SlotsOf(nd[q])
      <3>1. PICK y \in F.pages : F.lv[y] = 0 /\ s \in SlotsOf(nd[y])
        BY <2>4 DEF InLeaves
      <3>2. F.lo[y] <= K(s) /\ K(s) \in Int
        <4>1. LeafOK(F, nd, y)
          BY <3>1 DEF Forest
        <4>2. K(s) \in Int
          BY <1>1, <3>1, NodeFacts, SlotKeys
        <4> QED
          BY <3>1, <4>1, <4>2 DEF LeafOK
      <3>3. F.lo[y] <= F.lo[q]
        BY <1>1, <2>2, <2>4, <3>1, <3>2
      <3> QED
        BY <1>4, <2>4, <3>1, <3>3
    <2> QED
      BY <1>6, <2>1, <2>2, <2>3, <2>4
  <1> QED
    BY <1>5, <1>6

ScanSet == [page : PageIds \cup {None}, acc : Seq(SlotSet), had : SUBSET Keys]

\* A scan at a page has the pairs below its range.
OnTheWay(F, sc, mp) ==
    /\ sc.page \in F.pages
    /\ SortedPairs(sc.acc)
    /\ \A s \in Range(sc.acc) : s.key \in sc.had /\ K(s) < F.lo[sc.page]
    /\ \A k \in Keys : mp[k] # Absent =>
          k \in sc.had /\ (k[1] < F.lo[sc.page] => \E s \in Range(sc.acc) : s.key = k)

\* A scan that went through all leaves.
Returned(sc, mp) ==
    /\ SortedPairs(sc.acc)
    /\ \A s \in Range(sc.acc) : s.key \in sc.had
    /\ \A k \in Keys : mp[k] # Absent => \E s \in Range(sc.acc) : s.key = k

LEMMA ScanHopDown ==
  ASSUME OneInteger, NEW F, NEW nd \in [PageIds -> Node], NEW H \in Nat, Forest(F, nd, H),
         NEW sc \in ScanSet, NEW mp, OnTheWay(F, sc, mp), ~IsLeaf(nd[sc.page]),
         NEW sc2, sc2 = [sc EXCEPT !.page = Head(nd[sc.page].values).val]
  PROVE  sc2 \in ScanSet /\ sc2.page \in F.pages /\ OnTheWay(F, sc2, mp)
  <1>1. PICK q \in F.pages : q = sc.page
    BY DEF OnTheWay
  <1>2. q \in PageIds /\ F.lv[q] \in Nat
    BY ForestFacts
  <1>3. F.lv[q] > 0
    BY <1>1, <1>2 DEF Forest, LeafOK, IsLeaf
  <1>4. PICK c : c = Head(nd[q].values).val
    OBVIOUS
  <1>5. c \in F.pages /\ F.lo[c] = F.lo[q]
    BY <1>3, <1>4, FirstChild
  <1>6. c \in PageIds
    BY <1>5, ForestFacts
  <1>7. sc2 \in ScanSet /\ sc2.page = c /\ sc2.acc = sc.acc /\ sc2.had = sc.had
    BY <1>1, <1>4, <1>6 DEF ScanSet
  <1> QED
    BY <1>1, <1>5, <1>7 DEF OnTheWay

LEMMA ScanHopNext ==
  ASSUME OneInteger, NEW F, NEW nd \in [PageIds -> Node], NEW H \in Nat, Forest(F, nd, H),
         NEW sc \in ScanSet, NEW mp, HasMap(F, nd, mp), OnTheWay(F, sc, mp), IsLeaf(nd[sc.page]),
         NEW sc2, sc2 = [sc EXCEPT !.acc = @ \o nd[sc.page].values, !.page = nd[sc.page].next]
  PROVE  /\ sc2 \in ScanSet
         /\ sc2.page = None => Returned(sc2, mp)
         /\ sc2.page # None => OnTheWay(F, sc2, mp)
  <1>1. PICK q \in F.pages : q = sc.page
    BY DEF OnTheWay
  <1>2. q \in PageIds /\ F.lv[q] \in Nat /\ F.lo[q] \in Int /\ F.hi[q] \in Int
    BY ForestFacts
  <1>3. F.lv[q] = 0
    BY <1>1, <1>2 DEF Forest, InnerOK, IsLeaf
  <1>4. PICK node \in Node : node = nd[q]
    BY <1>2
  <1>5. LeafOK(F, nd, q)
    BY <1>3 DEF Forest
  <1>6. PICK u, v : u = sc.acc /\ v = node.values
    OBVIOUS
  <1>7. SortedPairs(v) /\ Range(v) = SlotsOf(node)
    BY <1>4, <1>5, <1>6, SortedSlots DEF LeafOK
  <1>8. SortedPairs(u)
    BY <1>6 DEF OnTheWay
  <1>9. /\ \A s \in Range(v) : /\ s.key \in Keys /\ F.lo[q] <= K(s) /\ K(s) < F.hi[q]
                               /\ K(s) \in Int
        /\ \A s \in Range(u) : s.key \in sc.had /\ K(s) < F.lo[q] /\ K(s) \in Int
    <2>1. Range(v) \subseteq SlotSet
      BY <1>7, NodeFacts
    <2>2. Range(u) \subseteq SlotSet
      BY <1>8, RangeOfSeq DEF SortedPairs
    <2> QED
      BY <1>1, <1>4, <1>5, <1>6, <1>7, <2>1, <2>2, SlotKeys DEF LeafOK, OnTheWay
  <1>10. PICK w : w = u \o v
    OBVIOUS
  <1>11. SortedPairs(w) /\ \A s : s \in Range(w) <=> s \in Range(u) \/ s \in Range(v)
    <2>1. \A s \in Range(u) : \A t \in Range(v) : K(s) < K(t)
      BY <1>2, <1>9
    <2> QED
      BY <1>7, <1>8, <1>10, <2>1, SortedJoined
  <1>12. PICK x : x = node.next
    OBVIOUS
  <1>13. x \in PageIds \cup {None} /\ w \in Seq(SlotSet)
    BY <1>11, <1>12, NodeFacts DEF SortedPairs
  <1>14. sc2 \in ScanSet /\ sc2.page = x /\ sc2.acc = w /\ sc2.had = sc.had
    BY <1>1, <1>4, <1>6, <1>10, <1>12, <1>13 DEF ScanSet
  <1>15. \A s \in Range(v) : s.key \in sc.had
    <2>1. ASSUME NEW s \in Range(v) PROVE s.key \in sc.had
      <3>1. InLeaves(F, nd, s)
        BY <1>3, <1>4, <1>7 DEF InLeaves
      <3> QED
        BY <3>1 DEF HasMap, OnTheWay
    <2> QED
      BY <2>1
  <1>16. \A s \in Range(w) : s.key \in sc.had
    BY <1>9, <1>11, <1>15
  <1>17. ASSUME NEW k \in Keys, mp[k] # Absent
         PROVE  /\ k \in sc.had
                /\ x = None \/ k[1] < F.lo[x] => \E s \in Range(w) : s.key = k
    <2>1. k \in sc.had /\ (k[1] < F.lo[q] => \E s \in Range(u) : s.key = k)
      BY <1>1, <1>6, <1>17 DEF OnTheWay
    <2>2. PICK s : s = Slot(k, mp[k])
      OBVIOUS
    <2>3. InLeaves(F, nd, s) /\ s.key = k /\ K(s) = k[1]
      BY <1>17, <2>2 DEF HasMap, Slot, K
    <2>4. k[1] \in Int
      <3>1. k \in Bounds
        BY DEF Bounds
      <3> QED
        BY <3>1, BoundsAreIntegers
    <2>5. CASE k[1] < F.lo[q]
      BY <1>11, <2>1, <2>5
    <2>6. CASE F.lo[q] <= k[1]
      <3>1. x = None \/ k[1] < F.lo[x] => s \in SlotsOf(node)
        BY <1>3, <1>4, <1>12, <2>3, <2>6, BehindLeaf
      <3> QED
        BY <1>7, <1>11, <2>1, <2>3, <3>1
    <2> QED
      BY <1>2, <2>4, <2>5, <2>6
  <1>18. CASE x = None
    BY <1>11, <1>14, <1>16, <1>17, <1>18 DEF Returned
  <1>19. CASE x # None
    <2>1. x \in F.pages /\ F.lo[q] < F.lo[x] /\ F.hi[q] <= F.lo[x]
      BY <1>3, <1>4, <1>12, <1>19, BehindLeaf
    <2>2. F.lo[x] \in Int
      BY <2>1, ForestFacts
    <2>3. \A s \in Range(w) : K(s) < F.lo[x]
      BY <1>2, <1>9, <1>11, <2>1, <2>2
    <2>4. OnTheWay(F, sc2, mp)
      BY <1>11, <1>14, <1>16, <1>17, <2>1, <2>3 DEF OnTheWay
    <2> QED
      BY <1>14, <1>19, <2>4
  <1> QED
    BY <1>18, <1>19

ScanInv ==
    /\ scan \in ScanSet
    /\ scan.page # None =>
          /\ root # None
          /\ \E F : \E H \in Nat : /\ IsTree(F, H, root, nodes, next_page_id)
                                   /\ HasMap(F, nodes, map)
                                   /\ OnTheWay(F, scan, map)
    /\ scan.page = None /\ scan # NoScan => Returned(scan, map)

-----------------------------------------------------------------------------
(***************************************************************************)
(* The inductive invariant: as long as no insert failed at an upper half   *)
(* or panicked, the nodes are a tree that holds the map.                   *)
(***************************************************************************)
TreeInv ==
    /\ status \in {"ok", "torn", "panicked"} /\ deletes \in BOOLEAN
    /\ status = "ok" => Sound /\ ScanInv /\ (~deletes => Filled)
    /\ status = "panicked" => HasLargest(map) \/ Oversized(nodes)

LEMMA InitTreeInv ==
  ASSUME OneInteger, Init
  PROVE  TreeInv
  <1>1. nodes \in [PageIds -> Node]
    <2>1. PICK t \in {"Leaf", "Internal"} : t = "Leaf"
      OBVIOUS
    <2>2. NewNode(t, KeyTypes) \in Node
      BY EmptyNode
    <2> QED
      BY <2>1, <2>2 DEF Init
  <1>2. /\ next_page_id \in Nat /\ root = None /\ map \in [Keys -> Values \cup {Absent}]
        /\ \A k \in Keys : map[k] = Absent
    BY DEF Init
  <1>3. Sound /\ Filled
    BY <1>1, <1>2 DEF Sound, Filled, Holds
  <1>4. scan = NoScan /\ NoScan \in ScanSet /\ NoScan.page = None
    <2>1. <<>> \in Seq(SlotSet)
      OBVIOUS
    <2> QED
      BY <2>1 DEF Init, NoScan, ScanSet
  <1>5. ScanInv
    BY <1>4 DEF ScanInv
  <1> QED
    BY <1>3, <1>5 DEF TreeInv, Init

LEMMA HoldsLoosely ==
  ASSUME NEW rt, NEW nd, NEW np, NEW mp, Holds(rt, nd, np, mp, TRUE)
  PROVE  Holds(rt, nd, np, mp, FALSE)
  BY DEF Holds

LEMMA NoScanFacts == NoScan \in ScanSet /\ NoScan.page = None
  <1>1. <<>> \in Seq(SlotSet)
    OBVIOUS
  <1> QED
    BY <1>1 DEF NoScan, ScanSet

LEMMA InsertStep ==
  ASSUME OneInteger, TreeInv, NEW key \in Keys, NEW val \in Values, Filling, InsertNew(key, val)
  PROVE  TreeInv'
  <1>1. PICK r : r = Inserted(RootPage(Progress(MaxCalls)), key, val)
    OBVIOUS
  <1>2. /\ RoomToInsert /\ map[key] = Absent /\ scan = NoScan /\ status = "ok" /\ ~deletes
        /\ r.st.end # "error" /\ Become(r) /\ map' = [map EXCEPT ![key] = val]
        /\ UNCHANGED <<deletes, scan>>
    BY <1>1 DEF InsertNew, Insert, InsertOk, Filling
  <1>3. Filled /\ map \in [Keys -> Values \cup {Absent}]
    BY <1>2 DEF TreeInv, Filled
  <1>4. InsertDone(root, nodes, next_page_id, map, key, val, r)
    <2>1. PICK n \in 0..MaxCalls : n = MaxCalls
      BY BTreeAssumption
    <2>2. r = Inserted(RootPage(Progress(n)), key, val)
      BY <1>1, <2>1
    <2> QED
      BY <1>2, <1>3, <2>2, InsertedOK
  <1>5. /\ r.st \in InProgress /\ r.root \in PageIds \cup {None}
        /\ Going(r.st) => Holds(r.root, r.st.nodes, r.st.np, map', TRUE)
        /\ r.st.end = "panicked" => HasLargest(map')
    BY <1>2, <1>4 DEF InsertDone
  <1>6. /\ nodes' = r.st.nodes /\ next_page_id' = r.st.np /\ root' = r.root
        /\ status' = Left(r.st)
    BY <1>2 DEF Become
  <1>7. /\ nodes' \in [PageIds -> Node] /\ next_page_id' \in Nat
        /\ r.st.end \in {"ok", "panicked"}
    BY <1>2, <1>5, <1>6, ProgressFacts
  <1>8. map' \in [Keys -> Values \cup {Absent}]
    BY <1>2, <1>3
  <1>9. CASE r.st.end = "ok" /\ ~Oversized(r.st.nodes)
    <2>1. status' = "ok"
      BY <1>2, <1>6, <1>9 DEF Left
    <2>2. Holds(root', nodes', next_page_id', map', TRUE)
      BY <1>5, <1>6, <1>9 DEF Going
    <2>3. Holds(root', nodes', next_page_id', map', FALSE)
      BY <2>2, HoldsLoosely
    <2>4. Filled' /\ Sound'
      BY <1>5, <1>6, <1>7, <1>8, <2>2, <2>3 DEF Filled, Sound
    <2>5. ScanInv'
      <3>1. scan' = NoScan
        BY <1>2
      <3> QED
        BY <3>1, NoScanFacts DEF ScanInv
    <2> QED
      BY <1>2, <2>1, <2>4, <2>5 DEF TreeInv
  <1>10. CASE r.st.end = "panicked"
    <2>1. status' = "panicked"
      BY <1>6, <1>10 DEF Left
    <2> QED
      BY <1>2, <1>5, <1>10, <2>1 DEF TreeInv
  <1>11. CASE Oversized(r.st.nodes)
    <2>1. status' = "panicked" /\ Oversized(nodes')
      BY <1>6, <1>11 DEF Left
    <2> QED
      BY <1>2, <2>1 DEF TreeInv
  <1> QED
    BY <1>7, <1>9, <1>10, <1>11

LEMMA InsertFailsStep ==
  ASSUME OneInteger, TreeInv, NEW key \in Keys, NEW val \in Values, NEW n \in 0..(MaxCalls - 1),
         Filling, InsertNewFails(key, val, n)
  PROVE  TreeInv'
  <1>1. PICK r : r = Inserted(RootPage(Progress(n)), key, val)
    OBVIOUS
  <1>2. /\ RoomToInsert /\ map[key] = Absent /\ scan = NoScan /\ status = "ok" /\ ~deletes
        /\ r.st.end = "error" /\ Become(r) /\ UNCHANGED <<map, deletes, scan>>
    BY <1>1 DEF InsertNewFails, InsertFails, InsertErr, Filling
  <1>3. Filled /\ map \in [Keys -> Values \cup {Absent}]
    BY <1>2 DEF TreeInv, Filled
  <1>4. InsertDone(root, nodes, next_page_id, map, key, val, r)
    <2>1. n \in 0..MaxCalls
      BY BTreeAssumption
    <2> QED
      BY <1>1, <1>2, <1>3, <2>1, InsertedOK
  <1>5. /\ r.st \in InProgress /\ r.root \in PageIds \cup {None}
        /\ ~r.st.upper => Holds(r.root, r.st.nodes, r.st.np, map, TRUE)
    BY <1>2, <1>4 DEF InsertDone
  <1>6. /\ nodes' = r.st.nodes /\ next_page_id' = r.st.np /\ root' = r.root
        /\ status' = IF Oversized(r.st.nodes) THEN "panicked"
                     ELSE IF r.st.upper THEN "torn" ELSE "ok"
    BY <1>2 DEF Become, Left
  <1>7. nodes' \in [PageIds -> Node] /\ next_page_id' \in Nat /\ map' \in [Keys -> Values \cup {Absent}]
    BY <1>2, <1>3, <1>5, <1>6, ProgressFacts
  <1>8. CASE ~Oversized(r.st.nodes) /\ r.st.upper
    BY <1>2, <1>6, <1>8 DEF TreeInv
  <1>9. CASE ~Oversized(r.st.nodes) /\ ~r.st.upper
    <2>1. Holds(root', nodes', next_page_id', map', TRUE)
      BY <1>2, <1>5, <1>6, <1>9
    <2>2. Holds(root', nodes', next_page_id', map', FALSE)
      BY <2>1, HoldsLoosely
    <2>3. Filled' /\ Sound'
      BY <1>5, <1>6, <1>7, <2>1, <2>2 DEF Filled, Sound
    <2>4. ScanInv'
      <3>1. scan' = NoScan
        BY <1>2
      <3> QED
        BY <3>1, NoScanFacts DEF ScanInv
    <2> QED
      BY <1>2, <1>6, <1>9, <2>3, <2>4 DEF TreeInv
  <1>10. CASE Oversized(r.st.nodes)
    <2>1. status' = "panicked" /\ Oversized(nodes')
      BY <1>6, <1>10
    <2> QED
      BY <1>2, <2>1 DEF TreeInv
  <1> QED
    BY <1>8, <1>9, <1>10

LEMMA DeleteStep ==
  ASSUME OneInteger, TreeInv, NEW key \in Keys, Delete(key)
  PROVE  TreeInv'
  <1>1. /\ root # None /\ status # "panicked" /\ map' = [map EXCEPT ![key] = Absent]
        /\ deletes' = TRUE /\ UNCHANGED <<root, next_page_id, status, scan>>
    BY DEF Delete
  <1>2. PICK p : /\ p = Descend(root, key) /\ InLeaf(p, key)
                 /\ nodes' = [nodes EXCEPT ![p] = RemoveKey(@, key)]
    BY DEF Delete
  <1>3. CASE status = "ok"
    <2>1. /\ nodes \in [PageIds -> Node] /\ next_page_id \in Nat /\ root \in PageIds \cup {None}
          /\ map \in [Keys -> Values \cup {Absent}]
          /\ Holds(root, nodes, next_page_id, map, FALSE) /\ ScanInv
      BY <1>3 DEF TreeInv, Sound
    <2>2. PICK nd2, mp2 : nd2 = nodes' /\ mp2 = map'
      OBVIOUS
    <2>3. \A F : \A H \in Nat :
             IsTree(F, H, root, nodes, next_page_id) /\ HasMap(F, nodes, map) =>
                /\ nd2 \in [PageIds -> Node]
                /\ IsTree(F, H, root, nd2, next_page_id) /\ HasMap(F, nd2, mp2)
      <3>1. nd2 = [nodes EXCEPT ![p] = RemoveKey(@, key)] /\ mp2 = [map EXCEPT ![key] = Absent]
        BY <1>1, <1>2, <2>2
      <3>2. ASSUME NEW F, NEW H \in Nat, IsTree(F, H, root, nodes, next_page_id),
                   HasMap(F, nodes, map)
            PROVE  /\ nd2 \in [PageIds -> Node]
                   /\ IsTree(F, H, root, nd2, next_page_id) /\ HasMap(F, nd2, mp2)
        BY <1>2, <2>1, <3>1, <3>2, DeleteKeeps
      <3> QED
        BY <3>2
    <2>4. PICK F : \E H \in Nat : IsTree(F, H, root, nodes, next_page_id) /\ HasMap(F, nodes, map)
      BY <1>1, <2>1 DEF Holds
    <2>5. nd2 \in [PageIds -> Node] /\ Holds(root, nd2, next_page_id, mp2, FALSE)
      BY <1>1, <2>3, <2>4 DEF Holds
    <2>6. mp2 \in [Keys -> Values \cup {Absent}]
      BY <1>1, <2>1, <2>2
    <2>7. Sound'
      BY <1>1, <2>1, <2>2, <2>5, <2>6 DEF Sound
    <2>8. \A k \in Keys : mp2[k] # Absent => map[k] # Absent
      BY <1>1, <2>1, <2>2
    <2>9. ASSUME NEW E, NEW H \in Nat, IsTree(E, H, root, nodes, next_page_id),
                 HasMap(E, nodes, map), OnTheWay(E, scan, map)
          PROVE  /\ IsTree(E, H, root, nd2, next_page_id) /\ HasMap(E, nd2, mp2)
                 /\ OnTheWay(E, scan, mp2)
      BY <2>3, <2>8, <2>9 DEF OnTheWay
    <2>10. Returned(scan, map) => Returned(scan, mp2)
      BY <2>8 DEF Returned
    <2>11. ScanInv'
      <3>1. scan' \in ScanSet
        BY <1>1, <2>1 DEF ScanInv
      <3>2. scan.page # None =>
               \E E : \E H \in Nat : /\ IsTree(E, H, root, nd2, next_page_id)
                                     /\ HasMap(E, nd2, mp2) /\ OnTheWay(E, scan, mp2)
        BY <2>1, <2>9 DEF ScanInv
      <3>3. scan.page = None /\ scan # NoScan => Returned(scan, mp2)
        BY <2>1, <2>10 DEF ScanInv
      <3> QED
        BY <1>1, <2>2, <3>1, <3>2, <3>3 DEF ScanInv
    <2> QED
      BY <1>1, <1>3, <2>7, <2>11 DEF TreeInv
  <1>4. CASE status # "ok"
    BY <1>1, <1>4 DEF TreeInv
  <1> QED
    BY <1>3, <1>4

LEMMA ScanBeginStep ==
  ASSUME OneInteger, TreeInv, ~deletes, ScanBegin
  PROVE  TreeInv'
  <1>1. /\ root # None /\ status # "panicked"
        /\ scan' = [page |-> root, acc |-> <<>>, had |-> Present]
        /\ UNCHANGED <<nodes, root, next_page_id, map, deletes, faults, status>>
    BY DEF ScanBegin
  <1>2. CASE status = "ok"
    <2>1. Sound /\ Filled /\ Sound' /\ Filled'
      BY <1>1, <1>2 DEF TreeInv, Sound, Filled
    <2>2. root \in PageIds
      BY <1>1, <2>1 DEF Sound
    <2>3. PICK sc : sc = scan'
      OBVIOUS
    <2>4. Present \subseteq Keys
      BY DEF Present
    <2>5. /\ sc \in ScanSet /\ sc.page = root /\ sc.acc = <<>> /\ sc.had = Present
      <3>1. <<>> \in Seq(SlotSet)
        OBVIOUS
      <3> QED
        BY <1>1, <2>2, <2>3, <2>4, <3>1 DEF ScanSet
    <2>6. PICK F : \E H \in Nat : IsTree(F, H, root, nodes, next_page_id) /\ HasMap(F, nodes, map)
      BY <1>1, <2>1 DEF Sound, Holds
    <2>7. PICK H \in Nat : IsTree(F, H, root, nodes, next_page_id) /\ HasMap(F, nodes, map)
      BY <2>6
    <2>8. SortedPairs(<<>>) /\ Range(<<>>) = {}
      <3>1. Len(<<>>) = 0 /\ <<>> \in Seq(SlotSet)
        OBVIOUS
      <3> QED
        BY <3>1 DEF SortedPairs, Range
    <2>9. \A k \in Keys : ~(k[1] < F.lo[root])
      <3>1. F.lo[root] \in Int /\ \A k \in Keys : F.lo[root] <= k[1]
        BY <2>7, ForestFacts DEF IsTree
      <3>2. \A k \in Keys : k[1] \in Int
        BY BoundsAreIntegers DEF Bounds
      <3> QED
        BY <3>1, <3>2
    <2>10. OnTheWay(F, sc, map)
      BY <2>5, <2>7, <2>8, <2>9 DEF OnTheWay, IsTree, Present
    <2>11. sc.page # None /\ root # None
      BY <1>1, <2>5
    <2>12. ScanInv'
      BY <1>1, <2>3, <2>5, <2>7, <2>10, <2>11 DEF ScanInv
    <2> QED
      BY <1>1, <1>2, <2>1, <2>12 DEF TreeInv
  <1>3. CASE status # "ok"
    BY <1>1, <1>3 DEF TreeInv
  <1> QED
    BY <1>2, <1>3

LEMMA ScanNodeStep ==
  ASSUME OneInteger, TreeInv, ScanNode
  PROVE  TreeInv'
  <1>1. /\ scan.page # None /\ scan' = ScanHop(nodes[scan.page])
        /\ UNCHANGED <<nodes, root, next_page_id, map, deletes, faults, status>>
    BY DEF ScanNode
  <1>2. CASE status = "ok"
    <2>1. Sound /\ Sound' /\ (~deletes => Filled') /\ ScanInv
      BY <1>1, <1>2 DEF TreeInv, Sound, Filled
    <2>2. PICK sc \in ScanSet : sc = scan
      BY <2>1 DEF ScanInv
    <2>3. PICK nd \in [PageIds -> Node] : nd = nodes
      BY <2>1 DEF Sound
    <2>4. PICK mp : mp = map
      OBVIOUS
    <2>5. PICK F : \E H \in Nat : /\ IsTree(F, H, root, nd, next_page_id)
                                  /\ HasMap(F, nd, mp) /\ OnTheWay(F, sc, mp)
      BY <1>1, <2>1, <2>2, <2>3, <2>4 DEF ScanInv
    <2>6. PICK H \in Nat : /\ IsTree(F, H, root, nd, next_page_id)
                           /\ HasMap(F, nd, mp) /\ OnTheWay(F, sc, mp)
      BY <2>5
    <2>7. Forest(F, nd, H)
      BY <2>6 DEF IsTree
    <2>8. PICK sc2 : sc2 = scan'
      OBVIOUS
    <2>9. /\ sc2 \in ScanSet
          /\ sc2.page = None => Returned(sc2, mp)
          /\ sc2.page # None => OnTheWay(F, sc2, mp)
      <3>1. CASE IsLeaf(nd[sc.page])
        <4>1. sc2 = [sc EXCEPT !.acc = @ \o nd[sc.page].values, !.page = nd[sc.page].next]
          BY <1>1, <2>2, <2>3, <2>8, <3>1 DEF ScanHop
        <4> QED
          BY <2>6, <2>7, <3>1, <4>1, ScanHopNext
      <3>2. CASE ~IsLeaf(nd[sc.page])
        <4>1. sc2 = [sc EXCEPT !.page = Head(nd[sc.page].values).val]
          BY <1>1, <2>2, <2>3, <2>8, <3>2 DEF ScanHop
        <4>2. sc2 \in ScanSet /\ sc2.page \in F.pages /\ OnTheWay(F, sc2, mp)
          BY <2>6, <2>7, <3>2, <4>1, ScanHopDown
        <4>3. sc2.page # None
          BY <2>7, <4>2, ForestFacts, BTreeAssumption DEF None
        <4> QED
          BY <4>2, <4>3
      <3> QED
        BY <3>1, <3>2
    <2>10. root # None
      BY <1>1, <2>1 DEF ScanInv
    <2>11. ScanInv'
      BY <1>1, <2>3, <2>4, <2>6, <2>8, <2>9, <2>10 DEF ScanInv
    <2> QED
      BY <1>1, <1>2, <2>1, <2>11 DEF TreeInv
  <1>3. CASE status # "ok"
    BY <1>1, <1>3 DEF TreeInv
  <1> QED
    BY <1>2, <1>3

LEMMA ScanReturnStep ==
  ASSUME OneInteger, TreeInv, ScanReturn
  PROVE  TreeInv'
  <1>1. scan' = NoScan /\ UNCHANGED <<nodes, root, next_page_id, map, deletes, faults, status>>
    BY DEF ScanReturn
  <1>2. ScanInv'
    BY <1>1, NoScanFacts DEF ScanInv
  <1>3. Sound' <=> Sound
    BY <1>1 DEF Sound
  <1>4. Filled' <=> Filled
    BY <1>1 DEF Filled
  <1> QED
    BY <1>1, <1>2, <1>3, <1>4 DEF TreeInv

LEMMA StutterStep ==
  ASSUME TreeInv, UNCHANGED vars
  PROVE  TreeInv'
  <1>1. UNCHANGED <<nodes, root, next_page_id, map, deletes, status, scan>>
    BY DEF vars
  <1>2. Sound' <=> Sound
    BY <1>1 DEF Sound
  <1>3. Filled' <=> Filled
    BY <1>1 DEF Filled
  <1>4. ScanInv' <=> ScanInv
    BY <1>1 DEF ScanInv
  <1> QED
    BY <1>1, <1>2, <1>3, <1>4 DEF TreeInv

\* Every step keeps the invariant.
LEMMA NextTreeInv ==
  ASSUME OneInteger, TreeInv, [Next]_vars
  PROVE  TreeInv'
  <1>1. ASSUME NEW k \in Keys, NEW v \in Values, Filling, InsertNew(k, v) PROVE TreeInv'
    BY <1>1, InsertStep
  <1>2. ASSUME NEW k \in Keys, NEW v \in Values, NEW n \in 0..(MaxCalls - 1),
               Filling, InsertNewFails(k, v, n)
        PROVE  TreeInv'
    BY <1>2, InsertFailsStep
  <1>3. ASSUME NEW k \in Keys, Delete(k) PROVE TreeInv'
    BY <1>3, DeleteStep
  <1>4. CASE ~deletes /\ ScanBegin
    BY <1>4, ScanBeginStep
  <1>5. CASE ScanNode
    BY <1>5, ScanNodeStep
  <1>6. CASE ScanReturn
    BY <1>6, ScanReturnStep
  <1>7. CASE UNCHANGED vars
    BY <1>7, StutterStep
  <1> QED
    BY <1>1, <1>2, <1>3, <1>4, <1>5, <1>6, <1>7 DEF Next

(***************************************************************************)
(* The nodes are a tree that holds what the callers wrote, whatever calls  *)
(* of the page cache fail, until an insert fails at an upper half or       *)
(* panics (btree/mod.rs).                                                  *)
(***************************************************************************)
THEOREM TreeInvariant == OneInteger => (Spec => []TreeInv)
  <1> SUFFICES ASSUME OneInteger PROVE Spec => []TreeInv
    OBVIOUS
  <1>1. Init => TreeInv
    BY InitTreeInv
  <1>2. TreeInv /\ [Next]_vars => TreeInv'
    BY NextTreeInv
  <1> QED
    BY <1>1, <1>2, PTL DEF Spec

\* get() finds what was written last under a key (btree/mod.rs:494).
THEOREM GetIsExact == OneInteger => (Spec => []GetExact)
  <1> SUFFICES ASSUME OneInteger PROVE Spec => []GetExact
    OBVIOUS
  <1>1. TreeInv => GetExact
    BY SoundGet DEF TreeInv, GetExact
  <1> QED
    BY <1>1, TreeInvariant, PTL

LEMMA PairsAscend ==
  ASSUME OneInteger, NEW u, SortedPairs(u)
  PROVE  Ascending(u)
  <1>1. u \in Seq(SlotSet) /\ Len(u) \in Nat /\ \A i \in 1..Len(u) : u[i] \in SlotSet
    BY LenProperties, ElementOfSeq DEF SortedPairs
  <1>2. ASSUME NEW i \in 2..Len(u) PROVE Less(u[i - 1].key, u[i].key)
    <2>1. PICK j \in 1..Len(u) : j = i - 1
      BY <1>1
    <2>2. i \in 1..Len(u) /\ j < i
      BY <1>1, <2>1
    <2>3. K(u[j]) < K(u[i])
      BY <2>2 DEF SortedPairs
    <2>4. u[j].key \in Bounds /\ u[i].key \in Bounds
      BY <1>1, <2>2, SlotKeys
    <2> QED
      BY <2>1, <2>3, <2>4, LessIsLess DEF Less, K
  <1> QED
    BY <1>2 DEF Ascending

\* A scan beside deletes finds what is in the tree throughout, in order (btree/mod.rs:248).
THEOREM ScansBesideDeletes == OneInteger => (Spec => []ScanBesideDeletes)
  <1> SUFFICES ASSUME OneInteger PROVE Spec => []ScanBesideDeletes
    OBVIOUS
  <1>1. TreeInv => ScanBesideDeletes
    <2> SUFFICES ASSUME TreeInv, scan # NoScan, scan.page = None, status = "ok"
                 PROVE  LET keys == {s.key : s \in Range(scan.acc)}
                        IN  /\ Ascending(scan.acc)
                            /\ Present \subseteq keys /\ keys \subseteq scan.had
      BY DEF ScanBesideDeletes
    <2>1. Returned(scan, map)
      BY DEF TreeInv, ScanInv
    <2>2. Ascending(scan.acc)
      BY <2>1, PairsAscend DEF Returned
    <2> QED
      BY <2>1, <2>2 DEF Returned, Present
  <1> QED
    BY <1>1, TreeInvariant, PTL

-----------------------------------------------------------------------------
(***************************************************************************)
(* The function from of Scan.                                              *)
(***************************************************************************)
NoneFrom == [p \in PageIds |-> <<>>]

OneFrom(rest, nd) == [p \in PageIds |-> ScanPage(rest, nd[p])]

IsFrom(f, m, nd) ==
    f = [n \in 0..m |-> IF n = 0 THEN NoneFrom ELSE OneFrom(f[n - 1], nd)]

LEMMA FromExists ==
  ASSUME NEW nd
  PROVE  \A m \in Nat : \E f : IsFrom(f, m, nd)
  <1> DEFINE Missing == {m \in Nat : ~\E f : IsFrom(f, m, nd)}
  <1>1. ASSUME NEW m \in Missing, \A n \in Missing : m <= n PROVE FALSE
    <2>1. CASE m = 0
      <3>1. PICK f : f = [n \in 0..m |-> NoneFrom]
        OBVIOUS
      <3>2. \A n \in 0..m : n = 0
        BY <2>1
      <3>3. IsFrom(f, m, nd)
        BY <3>1, <3>2 DEF IsFrom
      <3> QED
        BY <3>3
    <2>2. CASE m # 0
      <3>1. PICK l \in Nat : l = m - 1
        BY <2>2
      <3>2. l \notin Missing
        BY <1>1, <3>1
      <3>3. PICK f : IsFrom(f, l, nd)
        BY <3>2
      <3>4. \A n \in 0..l : f[n] = IF n = 0 THEN NoneFrom ELSE OneFrom(f[n - 1], nd)
        BY <3>3 DEF IsFrom
      <3>5. PICK g : g = [n \in 0..m |-> IF n = m THEN OneFrom(f[l], nd) ELSE f[n]]
        OBVIOUS
      <3>6. g[m] = OneFrom(f[l], nd) /\ \A n \in 0..l : g[n] = f[n]
        BY <3>1, <3>5
      <3>7. \A n \in 0..m : n # 0 => n - 1 \in 0..l
        BY <3>1
      <3>8. ASSUME NEW n \in 0..m
            PROVE  g[n] = IF n = 0 THEN NoneFrom ELSE OneFrom(g[n - 1], nd)
        <4>1. CASE n = m
          BY <2>2, <3>1, <3>6, <4>1
        <4>2. CASE n # m
          <5>1. n \in 0..l /\ g[n] = f[n]
            BY <3>1, <3>6, <4>2
          <5>2. n # 0 => g[n - 1] = f[n - 1]
            BY <3>6, <3>7
          <5> QED
            BY <3>4, <5>1, <5>2
        <4> QED
          BY <4>1, <4>2
      <3>9. IsFrom(g, m, nd)
        BY <3>5, <3>8 DEF IsFrom
      <3> QED
        BY <3>9
    <2> QED
      BY <2>1, <2>2
  <1>2. Missing = {}
    <2>1. Missing \in SUBSET Nat
      OBVIOUS
    <2> HIDE DEF Missing
    <2> QED
      BY <1>1, <2>1, LeastElement
  <1> QED
    BY <1>2

LEMMA ScanIs ==
  ASSUME next_page_id \in Nat
  PROVE  \E f : /\ IsFrom(f, next_page_id, nodes)
                /\ Scan = IF root = None THEN <<>> ELSE f[next_page_id][root]
  <1>1. PICK f : f = CHOOSE g : IsFrom(g, next_page_id, nodes)
    OBVIOUS
  <1>2. IsFrom(f, next_page_id, nodes)
    BY <1>1, FromExists
  <1>3. Scan = IF root = None THEN <<>> ELSE f[next_page_id][root]
    BY <1>1 DEF Scan, IsFrom, NoneFrom, OneFrom
  <1> QED
    BY <1>2, <1>3

\* The pages a scan may still meet when it is at page q.
Ahead(F, q) ==
    {r \in F.pages : F.lv[r] < F.lv[q] \/ (F.lv[r] = F.lv[q] /\ F.lo[q] <= F.lo[r])}

LEMMA FewerAhead ==
  ASSUME NEW F, NEW nd, NEW H \in Nat, Forest(F, nd, H), IsFiniteSet(F.pages),
         NEW q \in F.pages, NEW x \in F.pages,
         F.lv[x] < F.lv[q] \/ (F.lv[x] = F.lv[q] /\ F.lo[q] < F.lo[x])
  PROVE  Cardinality(Ahead(F, x)) < Cardinality(Ahead(F, q))
  <1>1. \A r \in F.pages : F.lv[r] \in Nat /\ F.lo[r] \in Int
    BY ForestFacts
  <1>2. PICK A, B : A = Ahead(F, x) /\ B = Ahead(F, q)
    OBVIOUS
  <1>3. A \in SUBSET B /\ q \in B /\ q \notin A /\ B \in SUBSET F.pages
    BY <1>1, <1>2 DEF Ahead
  <1>4. IsFiniteSet(B)
    BY <1>3, FS_Subset
  <1>5. IsFiniteSet(A) /\ Cardinality(A) <= Cardinality(B) /\ Cardinality(A) # Cardinality(B)
    BY <1>3, <1>4, FS_Subset
  <1>6. Cardinality(A) \in Nat /\ Cardinality(B) \in Nat
    BY <1>4, <1>5, FS_CardinalityType
  <1> QED
    BY <1>2, <1>5, <1>6

\* u is what the leaves have from the range of q on.
IsListFrom(F, nd, q, u) ==
    /\ SortedPairs(u)
    /\ \A s : s \in Range(u) <=> InLeaves(F, nd, s) /\ F.lo[q] <= K(s)

ListsWithin(F, nd, g, n) ==
    \A q \in F.pages : Cardinality(Ahead(F, q)) <= n => IsListFrom(F, nd, q, g[q])

\* One page more.
LEMMA ScanPageLists ==
  ASSUME OneInteger, NEW F, NEW nd \in [PageIds -> Node], NEW H \in Nat, Forest(F, nd, H),
         IsFiniteSet(F.pages), NEW n \in Nat, NEW rest, ListsWithin(F, nd, rest, n),
         NEW q \in F.pages, Cardinality(Ahead(F, q)) <= n + 1
  PROVE  IsListFrom(F, nd, q, ScanPage(rest, nd[q]))
  <1>1. q \in PageIds /\ F.lv[q] \in Nat /\ F.lo[q] \in Int /\ F.hi[q] \in Int
    BY ForestFacts
  <1>2. PICK node \in Node : node = nd[q]
    BY <1>1
  <1>3. ASSUME NEW x \in F.pages, F.lv[x] < F.lv[q] \/ (F.lv[x] = F.lv[q] /\ F.lo[q] < F.lo[x])
        PROVE  IsListFrom(F, nd, x, rest[x])
    <2>1. PICK a, b : a = Cardinality(Ahead(F, x)) /\ b = Cardinality(Ahead(F, q))
      OBVIOUS
    <2>2. a < b
      BY <1>3, <2>1, FewerAhead
    <2>3. a \in Nat /\ b \in Nat
      <3>1. Ahead(F, x) \in SUBSET F.pages /\ Ahead(F, q) \in SUBSET F.pages
        BY DEF Ahead
      <3> QED
        BY <2>1, <3>1, FS_Subset, FS_CardinalityType
    <2>4. a <= n
      BY <2>1, <2>2, <2>3
    <2> QED
      BY <2>1, <2>4 DEF ListsWithin
  <1>4. CASE F.lv[q] > 0
    <2>1. ~IsLeaf(node)
      BY <1>2, <1>4 DEF Forest, InnerOK, IsLeaf
    <2>2. PICK c : c = Head(node.values).val
      OBVIOUS
    <2>3. c \in F.pages /\ F.lv[c] + 1 = F.lv[q] /\ F.lo[c] = F.lo[q]
      BY <1>2, <1>4, <2>2, FirstChild
    <2>4. F.lv[c] < F.lv[q]
      BY <1>1, <2>3, ForestFacts
    <2>5. IsListFrom(F, nd, c, rest[c])
      BY <1>3, <2>3, <2>4
    <2>6. ScanPage(rest, node) = rest[c]
      BY <2>1, <2>2 DEF ScanPage
    <2> QED
      BY <1>2, <2>3, <2>5, <2>6 DEF IsListFrom
  <1>5. CASE F.lv[q] = 0
    <2>1. IsLeaf(node) /\ LeafOK(F, nd, q)
      BY <1>2, <1>5 DEF Forest, LeafOK, IsLeaf
    <2>2. PICK v : v = node.values
      OBVIOUS
    <2>3. SortedPairs(v) /\ Range(v) = SlotsOf(node)
      BY <1>2, <2>1, <2>2, SortedSlots DEF LeafOK
    <2>4. \A s \in Range(v) : /\ InLeaves(F, nd, s) /\ F.lo[q] <= K(s) /\ K(s) < F.hi[q]
                              /\ K(s) \in Int
      <3>1. Range(v) \subseteq SlotSet
        BY <2>3, NodeFacts
      <3> QED
        BY <1>2, <1>5, <2>1, <2>3, <3>1, SlotKeys DEF LeafOK, InLeaves
    <2>5. CASE node.next = None
      <3>1. ScanPage(rest, node) = v
        BY <2>1, <2>2, <2>5 DEF ScanPage
      <3>2. \A s : InLeaves(F, nd, s) /\ F.lo[q] <= K(s) => s \in Range(v)
        BY <1>2, <1>5, <2>3, <2>5, BehindLeaf
      <3>3. IsListFrom(F, nd, q, v)
        BY <2>3, <2>4, <3>2 DEF IsListFrom
      <3> QED
        BY <1>2, <3>1, <3>3
    <2>6. CASE node.next # None
      <3>1. PICK x : x = node.next
        OBVIOUS
      <3>2. /\ x \in F.pages /\ F.lv[x] = 0 /\ F.lo[q] < F.lo[x] /\ F.hi[q] <= F.lo[x]
            /\ \A s : InLeaves(F, nd, s) /\ F.lo[q] <= K(s) /\ K(s) < F.lo[x] => s \in Range(v)
        <4>1. nd[q].next # None /\ nd[q].next = x /\ SlotsOf(nd[q]) = Range(v)
          BY <1>2, <2>3, <2>6, <3>1
        <4>2. /\ x \in F.pages /\ F.lv[x] = 0 /\ F.lo[q] < F.lo[x] /\ F.hi[q] <= F.lo[x]
              /\ \A s : InLeaves(F, nd, s) /\ F.lo[q] <= K(s) /\ K(s) < F.lo[x]
                           => s \in SlotsOf(nd[q])
          BY <1>5, <4>1, BehindLeaf
        <4> QED
          BY <4>1, <4>2
      <3>3. PICK u : u = rest[x]
        OBVIOUS
      <3>4. IsListFrom(F, nd, x, u)
        BY <1>3, <1>5, <3>2, <3>3
      <3>5. F.lo[x] \in Int
        BY <3>2, ForestFacts
      <3>6. /\ SortedPairs(u)
            /\ \A s : s \in Range(u) <=> InLeaves(F, nd, s) /\ F.lo[x] <= K(s)
        BY <3>4 DEF IsListFrom
      <3>7. \A s \in Range(u) : K(s) \in Int
        BY <3>6, RangeOfSeq, SlotKeys DEF SortedPairs
      <3>8. PICK w : w = v \o u
        OBVIOUS
      <3>9. SortedPairs(w) /\ \A s : s \in Range(w) <=> s \in Range(v) \/ s \in Range(u)
        <4>1. \A s \in Range(v) : \A t \in Range(u) : K(s) < K(t)
          BY <1>1, <2>4, <3>2, <3>5, <3>6, <3>7
        <4> QED
          BY <2>3, <3>6, <3>8, <4>1, SortedJoined
      <3>10. ScanPage(rest, node) = w
        BY <2>1, <2>2, <2>6, <3>1, <3>3, <3>8 DEF ScanPage
      <3>11. ASSUME NEW s PROVE s \in Range(w) <=> InLeaves(F, nd, s) /\ F.lo[q] <= K(s)
        <4>1. ASSUME InLeaves(F, nd, s), F.lo[q] <= K(s) PROVE s \in Range(w)
          <5>1. K(s) \in Int
            <6>1. PICK y \in F.pages : F.lv[y] = 0 /\ s \in SlotsOf(nd[y])
              BY <4>1 DEF InLeaves
            <6> QED
              BY <6>1, ForestFacts, NodeFacts, SlotKeys
          <5>2. K(s) < F.lo[x] \/ F.lo[x] <= K(s)
            BY <3>5, <5>1
          <5> QED
            BY <3>2, <3>6, <3>9, <4>1, <5>2
        <4>2. ASSUME s \in Range(u) PROVE InLeaves(F, nd, s) /\ F.lo[q] <= K(s)
          BY <1>1, <3>2, <3>5, <3>6, <3>7, <4>2
        <4> QED
          BY <2>4, <3>9, <4>1, <4>2
      <3> QED
        BY <1>2, <3>9, <3>10, <3>11 DEF IsListFrom
    <2> QED
      BY <2>5, <2>6
  <1> QED
    BY <1>1, <1>4, <1>5

LEMMA FromLists ==
  ASSUME OneInteger, NEW F, NEW nd \in [PageIds -> Node], NEW H \in Nat, Forest(F, nd, H),
         IsFiniteSet(F.pages), NEW m \in Nat, NEW f, IsFrom(f, m, nd)
  PROVE  \A n \in 0..m : ListsWithin(F, nd, f[n], n)
  <1> DEFINE Wrong == {n \in Nat : n <= m /\ ~ListsWithin(F, nd, f[n], n)}
  <1>1. \A n \in 0..m : f[n] = IF n = 0 THEN NoneFrom ELSE OneFrom(f[n - 1], nd)
    BY DEF IsFrom
  <1>2. ASSUME NEW n \in Wrong, \A i \in Wrong : n <= i PROVE FALSE
    <2>1. n \in 0..m /\ ~ListsWithin(F, nd, f[n], n)
      OBVIOUS
    <2>2. PICK q \in F.pages : Cardinality(Ahead(F, q)) <= n /\ ~IsListFrom(F, nd, q, f[n][q])
      BY <2>1 DEF ListsWithin
    <2>3. q \in PageIds /\ F.lo[q] \in Int
      BY ForestFacts
    <2>4. n # 0
      <3>1. PICK A : A = Ahead(F, q)
        OBVIOUS
      <3>2. A \in SUBSET F.pages /\ q \in A
        BY <2>3, <3>1 DEF Ahead
      <3>3. IsFiniteSet(A) /\ A # {}
        BY <3>2, FS_Subset
      <3>4. Cardinality(A) \in Nat /\ Cardinality(A) # 0
        BY <3>3, FS_CardinalityType, FS_EmptySet
      <3> QED
        BY <2>2, <3>1, <3>4
    <2>5. PICK l \in Nat : l = n - 1
      BY <2>1, <2>4
    <2>6. PICK rest : rest = f[l]
      OBVIOUS
    <2>7. ListsWithin(F, nd, rest, l)
      BY <1>2, <2>1, <2>5, <2>6
    <2>8. f[n][q] = ScanPage(rest, nd[q])
      BY <1>1, <2>1, <2>3, <2>4, <2>5, <2>6 DEF OneFrom
    <2>9. Cardinality(Ahead(F, q)) <= l + 1
      BY <2>1, <2>2, <2>5
    <2> QED
      BY <2>2, <2>7, <2>8, <2>9, ScanPageLists
  <1>3. Wrong = {}
    <2>1. Wrong \in SUBSET Nat
      OBVIOUS
    <2> HIDE DEF Wrong
    <2> QED
      BY <1>2, <2>1, LeastElement
  <1> QED
    BY <1>3

\* scan() returns the map in order.
LEMMA SoundScan ==
  ASSUME OneInteger, Sound
  PROVE  IsMapIn(Keys, Scan)
  <1>1. PICK np \in Nat : np = next_page_id
    BY DEF Sound
  <1>2. PICK f : IsFrom(f, np, nodes) /\ Scan = IF root = None THEN <<>> ELSE f[np][root]
    BY <1>1, ScanIs
  <1>3. PICK u : u = Scan
    OBVIOUS
  <1>4. CASE root = None
    <2>1. u = <<>> /\ \A k \in Keys : map[k] = Absent
      BY <1>2, <1>3, <1>4 DEF Sound, Holds
    <2>2. Len(u) = 0 /\ Range(u) = {}
      BY <2>1 DEF Range
    <2> QED
      BY <1>3, <2>1, <2>2 DEF IsMapIn, Ascending, Present
  <1>5. CASE root # None
    <2>1. PICK nd \in [PageIds -> Node] : nd = nodes
      BY DEF Sound
    <2>2. PICK F : \E H \in Nat : IsTree(F, H, root, nd, np) /\ HasMap(F, nd, map)
      BY <1>1, <1>5, <2>1 DEF Sound, Holds
    <2>3. PICK H \in Nat : IsTree(F, H, root, nd, np) /\ HasMap(F, nd, map)
      BY <2>2
    <2>4. PICK rt \in F.pages : rt = root
      BY <2>3 DEF IsTree
    <2>5. /\ Forest(F, nd, H) /\ F.pages \in SUBSET (0..(np - 1))
          /\ F.lo[rt] \in Int /\ \A k \in Keys : F.lo[rt] <= k[1]
      BY <2>3, <2>4, ForestFacts DEF IsTree
    <2>6. np > 0
      BY <2>3 DEF IsTree
    <2>7. IsFiniteSet(0..(np - 1)) /\ Cardinality(0..(np - 1)) = np
      <3>1. PICK a, b \in Int : a = 0 /\ b = np - 1
        OBVIOUS
      <3> QED
        BY <2>6, <3>1, FS_Interval
    <2>8. IsFiniteSet(F.pages)
      BY <2>5, <2>7, FS_Subset
    <2>9. Cardinality(Ahead(F, rt)) <= np
      <3>1. Ahead(F, rt) \in SUBSET (0..(np - 1))
        BY <2>5 DEF Ahead
      <3> QED
        BY <2>7, <3>1, FS_Subset
    <2>10. IsListFrom(F, nd, rt, u)
      <3>1. PICK g : g = f[np]
        OBVIOUS
      <3>2. ListsWithin(F, nd, g, np)
        BY <1>2, <2>1, <2>5, <2>8, <3>1, FromLists
      <3> QED
        BY <1>2, <1>3, <1>5, <2>4, <2>9, <3>1, <3>2 DEF ListsWithin
    <2>11. Ascending(u)
      BY <2>10, PairsAscend DEF IsListFrom
    <2>12. \A s : s \in Range(u) <=> InLeaves(F, nd, s)
      BY <2>3, <2>5, <2>10 DEF IsListFrom, HasMap, K
    <2>13. Range(u) = {Slot(k, map[k]) : k \in Keys \cap Present}
      BY <2>3, <2>12 DEF HasMap, Present
    <2> QED
      BY <1>3, <2>11, <2>13 DEF IsMapIn
  <1> QED
    BY <1>4, <1>5

\* scan() returns every pair once, in the order of the keys (btree/mod.rs:578).
THEOREM ScanIsExact == OneInteger => (Spec => []ScanExact)
  <1> SUFFICES ASSUME OneInteger PROVE Spec => []ScanExact
    OBVIOUS
  <1>1. TreeInv => ScanExact
    BY SoundScan DEF TreeInv, ScanExact
  <1> QED
    BY <1>1, TreeInvariant, PTL

-----------------------------------------------------------------------------
(***************************************************************************)
(* The part of a leaf that is in a range.                                  *)
(***************************************************************************)
LEMMA SubPairs ==
  ASSUME OneInteger, NEW u, SortedPairs(u), NEW n \in Nat, n = Len(u),
         NEW a \in 1..(n + 1), NEW b \in 0..n, a <= b + 1
  PROVE  SortedPairs(SubSeq(u, a, b)) /\ Range(SubSeq(u, a, b)) = {u[i] : i \in a..b}
  <1>1. /\ u \in Seq(SlotSet) /\ \A i \in 1..n : u[i] \in SlotSet
        /\ \A i, j \in 1..n : i < j => K(u[i]) < K(u[j])
    BY ElementOfSeq DEF SortedPairs
  <1>2. PICK v : v = SubSeq(u, a, b)
    OBVIOUS
  <1>3. a \in Int /\ b \in Int /\ 1 <= a /\ b <= n /\ a <= b + 1
    OBVIOUS
  <1>4. /\ v \in Seq(SlotSet) /\ Len(v) = b - a + 1
        /\ \A i \in 1..(b - a + 1) : v[i] = u[a + i - 1]
    <2>1. \A i \in a..b : u[i] \in SlotSet
      BY <1>1, <1>3
    <2>2. Len(v) = IF a <= b THEN b - a + 1 ELSE 0
      BY <1>2, <1>3, <2>1, SubSeqProperties
    <2>3. Len(v) = b - a + 1
      BY <1>3, <2>2
    <2> QED
      BY <1>2, <1>3, <2>1, <2>3, SubSeqProperties
  <1>5. ASSUME NEW i \in 1..Len(v), NEW j \in 1..Len(v), i < j PROVE K(v[i]) < K(v[j])
    <2>1. /\ v[i] = u[a + i - 1] /\ v[j] = u[a + j - 1]
          /\ a + i - 1 \in 1..n /\ a + j - 1 \in 1..n /\ a + i - 1 < a + j - 1
      BY <1>3, <1>4, <1>5
    <2> QED
      BY <1>1, <2>1
  <1>6. Range(v) = {v[i] : i \in 1..Len(v)}
    BY <1>4, RangeEquality
  <1>7. ASSUME NEW i \in 1..Len(v) PROVE v[i] \in {u[j] : j \in a..b}
    <2>1. a + i - 1 \in a..b /\ v[i] = u[a + i - 1]
      BY <1>3, <1>4
    <2> QED
      BY <2>1
  <1>8. ASSUME NEW i \in a..b PROVE u[i] \in {v[j] : j \in 1..Len(v)}
    <2>1. PICK j \in 1..Len(v) : j = i - a + 1
      BY <1>3, <1>4
    <2>2. v[j] = u[i]
      BY <1>3, <1>4, <2>1
    <2> QED
      BY <2>2
  <1>9. SortedPairs(v)
    BY <1>4, <1>5 DEF SortedPairs
  <1>10. Range(v) = {u[i] : i \in a..b}
    BY <1>6, <1>7, <1>8
  <1> QED
    BY <1>2, <1>9, <1>10

LEMMA NoPairs ==
  SortedPairs(<<>>) /\ Range(<<>>) = {}
  <1>1. Len(<<>>) = 0 /\ <<>> \in Seq(SlotSet)
    OBVIOUS
  <1> QED
    BY <1>1 DEF SortedPairs, Range

LEMMA SkipBelowIs ==
  ASSUME OneInteger, NEW node \in Node, Sorted(node), NEW from \in Keys
  PROVE  /\ SortedPairs(SkipBelow(node, from))
         /\ \A s : s \in Range(SkipBelow(node, from)) <=> s \in SlotsOf(node) /\ from[1] <= K(s)
  <1>1. PICK u : u = node.values
    OBVIOUS
  <1>2. PICK n \in Nat : n = Len(u)
    BY <1>1, NodeFacts
  <1>3. SortedPairs(u) /\ SlotsOf(node) = {u[i] : i \in 1..n}
    BY <1>1, <1>2, NodeFacts, SortedSlots
  <1>4. \A i \in 1..n : K(u[i]) \in Int
    BY <1>1, <1>2, NodeFacts, SlotKeys
  <1>5. from \in Bounds /\ from[1] \in Int
    <2>1. from \in Bounds
      BY DEF Bounds
    <2> QED
      BY <2>1, BoundsAreIntegers
  <1>6. PICK p : p = PlaceOf(node, from)
    OBVIOUS
  <1>7. \/ p = 0 /\ \A i \in 1..n : K(u[i]) < from[1]
        \/ p \in 1..n /\ \A i \in 1..n : (K(u[i]) < from[1]) <=> (i < p)
    BY <1>1, <1>2, <1>5, <1>6, PlaceOfKey
  <1>8. CASE p = 0
    <2>1. SkipBelow(node, from) = <<>>
      BY <1>6, <1>8 DEF SkipBelow
    <2>2. \A i \in 1..n : ~(from[1] <= K(u[i]))
      BY <1>4, <1>5, <1>7, <1>8
    <2> QED
      BY <1>3, <2>1, <2>2, NoPairs
  <1>9. CASE p # 0
    <2>1. p \in 1..n /\ \A i \in 1..n : (K(u[i]) < from[1]) <=> (i < p)
      BY <1>7, <1>9
    <2>2. SkipBelow(node, from) = SubSeq(u, p, n)
      BY <1>1, <1>2, <1>6, <1>9 DEF SkipBelow
    <2>3. SortedPairs(SubSeq(u, p, n)) /\ Range(SubSeq(u, p, n)) = {u[i] : i \in p..n}
      <3>1. PICK a \in 1..(n + 1), b \in 0..n : a = p /\ b = n /\ a <= b + 1
        BY <2>1
      <3> QED
        BY <1>2, <1>3, <3>1, SubPairs
    <2>4. \A i \in 1..n : (from[1] <= K(u[i])) <=> (i \in p..n)
      BY <1>4, <1>5, <2>1
    <2>5. ASSUME NEW s PROVE s \in {u[i] : i \in p..n} <=> s \in SlotsOf(node) /\ from[1] <= K(s)
      <3>1. \A i \in p..n : i \in 1..n
        BY <2>1
      <3> QED
        BY <1>3, <2>4, <3>1
    <2> QED
      BY <2>2, <2>3, <2>5
  <1> QED
    BY <1>8, <1>9

\* skip_while and take_while give the pairs of the range.
LEMMA PartIs ==
  ASSUME OneInteger, NEW node \in Node, Sorted(node), NEW from \in Keys, NEW to \in Keys
  PROVE  /\ SortedPairs(Part(node, from, to))
         /\ \A s : s \in Range(Part(node, from, to)) <=>
                      s \in SlotsOf(node) /\ from[1] <= K(s) /\ K(s) <= to[1]
  <1>1. PICK u : u = SkipBelow(node, from)
    OBVIOUS
  <1>2. /\ SortedPairs(u)
        /\ \A s : s \in Range(u) <=> s \in SlotsOf(node) /\ from[1] <= K(s)
    BY <1>1, SkipBelowIs
  <1>3. PICK n \in Nat : n = Len(u)
    BY <1>2, LenProperties DEF SortedPairs
  <1>4. /\ u \in Seq(SlotSet) /\ Range(u) = {u[i] : i \in 1..n}
        /\ \A i, j \in 1..n : i < j => K(u[i]) < K(u[j])
    BY <1>2, <1>3, RangeEquality DEF SortedPairs
  <1>5. \A i \in 1..n : u[i] \in SlotSet /\ u[i].key \in Bounds /\ K(u[i]) \in Int
    BY <1>3, <1>4, ElementOfSeq, SlotKeys
  <1>6. to \in Bounds /\ to[1] \in Int
    <2>1. to \in Bounds
      BY DEF Bounds
    <2> QED
      BY <2>1, BoundsAreIntegers
  <1> DEFINE I == {i \in 1..Len(u) : Less(to, u[i].key)}
  <1>7. \A i \in 1..n : i \in I <=> to[1] < K(u[i])
    BY <1>3, <1>5, <1>6, LessIsLess DEF Less, K
  <1>8. PICK p : p = IF I # {} THEN Min(I) ELSE 0
    OBVIOUS
  <1>9. Part(node, from, to) = TakeBefore(u, p)
    <2>1. SelectInSeq(u, LAMBDA s : Less(to, s.key)) = p
      BY <1>8 DEF SelectInSeq
    <2> HIDE DEF I
    <2> QED
      BY <1>1, <2>1 DEF Part
  <1>10. I \in SUBSET Nat /\ I \subseteq 1..n
    BY <1>3
  <1> HIDE DEF I
  <1>11. CASE I = {}
    <2>1. Part(node, from, to) = u
      BY <1>8, <1>9, <1>11 DEF TakeBefore
    <2>2. \A i \in 1..n : K(u[i]) <= to[1]
      BY <1>5, <1>6, <1>7, <1>11
    <2> QED
      BY <1>2, <1>4, <2>1, <2>2
  <1>12. CASE I # {}
    <2>1. p \in I /\ \A i \in I : p <= i
      BY <1>8, <1>10, <1>12, MinIsLeast
    <2>2. PICK b \in 0..n : b = p - 1 /\ p \in 1..n
      BY <1>10, <2>1
    <2>3. Part(node, from, to) = SubSeq(u, 1, b)
      BY <1>9, <2>2 DEF TakeBefore
    <2>4. SortedPairs(SubSeq(u, 1, b)) /\ Range(SubSeq(u, 1, b)) = {u[i] : i \in 1..b}
      <3>1. PICK a \in 1..(n + 1) : a = 1 /\ a <= b + 1
        OBVIOUS
      <3> QED
        BY <1>2, <1>3, <3>1, SubPairs
    <2>5. \A i \in 1..n : (K(u[i]) <= to[1]) <=> (i \in 1..b)
      <3>1. ASSUME NEW i \in 1..b PROVE K(u[i]) <= to[1]
        <4>1. i \in 1..n /\ i \notin I
          BY <2>1, <2>2
        <4> QED
          BY <1>5, <1>6, <1>7, <4>1
      <3>2. ASSUME NEW i \in 1..n, i \notin 1..b PROVE ~(K(u[i]) <= to[1])
        <4>1. i = p \/ p < i
          BY <2>2, <3>2
        <4>2. to[1] < K(u[p])
          BY <1>7, <2>1, <2>2
        <4>3. p < i => K(u[p]) < K(u[i])
          BY <1>4, <2>2
        <4> QED
          BY <1>5, <1>6, <2>2, <4>1, <4>2, <4>3
      <3> QED
        BY <3>1, <3>2
    <2>6. ASSUME NEW s PROVE s \in {u[i] : i \in 1..b} <=> s \in Range(u) /\ K(s) <= to[1]
      <3>1. \A i \in 1..b : i \in 1..n
        BY <2>2
      <3> QED
        BY <1>4, <2>5, <3>1
    <2> QED
      BY <1>2, <2>3, <2>4, <2>6
  <1> QED
    BY <1>11, <1>12

-----------------------------------------------------------------------------
(***************************************************************************)
(* The function range of RangeOf.                                          *)
(***************************************************************************)
OneRange(rest, nd, from, to) == [p \in PageIds |-> RangePage(rest, nd[p], from, to)]

IsRange(f, m, nd, from, to) ==
    f = [n \in 0..m |-> IF n = 0 THEN NoneFrom ELSE OneRange(f[n - 1], nd, from, to)]

LEMMA RangeExists ==
  ASSUME NEW nd, NEW from, NEW to
  PROVE  \A m \in Nat : \E f : IsRange(f, m, nd, from, to)
  <1> DEFINE Missing == {m \in Nat : ~\E f : IsRange(f, m, nd, from, to)}
  <1>1. ASSUME NEW m \in Missing, \A n \in Missing : m <= n PROVE FALSE
    <2>1. CASE m = 0
      <3>1. PICK f : f = [n \in 0..m |-> NoneFrom]
        OBVIOUS
      <3>2. \A n \in 0..m : n = 0
        BY <2>1
      <3>3. IsRange(f, m, nd, from, to)
        BY <3>1, <3>2 DEF IsRange
      <3> QED
        BY <3>3
    <2>2. CASE m # 0
      <3>1. PICK l \in Nat : l = m - 1
        BY <2>2
      <3>2. l \notin Missing
        BY <1>1, <3>1
      <3>3. PICK f : IsRange(f, l, nd, from, to)
        BY <3>2
      <3>4. \A n \in 0..l : f[n] = IF n = 0 THEN NoneFrom ELSE OneRange(f[n - 1], nd, from, to)
        BY <3>3 DEF IsRange
      <3>5. PICK g : g = [n \in 0..m |-> IF n = m THEN OneRange(f[l], nd, from, to) ELSE f[n]]
        OBVIOUS
      <3>6. g[m] = OneRange(f[l], nd, from, to) /\ \A n \in 0..l : g[n] = f[n]
        BY <3>1, <3>5
      <3>7. \A n \in 0..m : n # 0 => n - 1 \in 0..l
        BY <3>1
      <3>8. ASSUME NEW n \in 0..m
            PROVE  g[n] = IF n = 0 THEN NoneFrom ELSE OneRange(g[n - 1], nd, from, to)
        <4>1. CASE n = m
          BY <2>2, <3>1, <3>6, <4>1
        <4>2. CASE n # m
          <5>1. n \in 0..l /\ g[n] = f[n]
            BY <3>1, <3>6, <4>2
          <5>2. n # 0 => g[n - 1] = f[n - 1]
            BY <3>6, <3>7
          <5> QED
            BY <3>4, <5>1, <5>2
        <4> QED
          BY <4>1, <4>2
      <3>9. IsRange(g, m, nd, from, to)
        BY <3>5, <3>8 DEF IsRange
      <3> QED
        BY <3>9
    <2> QED
      BY <2>1, <2>2
  <1>2. Missing = {}
    <2>1. Missing \in SUBSET Nat
      OBVIOUS
    <2> HIDE DEF Missing
    <2> QED
      BY <1>1, <2>1, LeastElement
  <1> QED
    BY <1>2

LEMMA RangeOfIs ==
  ASSUME next_page_id \in Nat, NEW from, NEW to
  PROVE  \E f : /\ IsRange(f, next_page_id, nodes, from, to)
                /\ RangeOf(from, to) =
                      IF IsLeaf(nodes[Descend(root, from)])
                      THEN f[next_page_id][Descend(root, from)] ELSE <<>>
  <1>1. PICK f : f = CHOOSE g : IsRange(g, next_page_id, nodes, from, to)
    OBVIOUS
  <1>2. IsRange(f, next_page_id, nodes, from, to)
    BY <1>1, RangeExists
  <1>3. RangeOf(from, to) = IF IsLeaf(nodes[Descend(root, from)])
                            THEN f[next_page_id][Descend(root, from)] ELSE <<>>
    BY <1>1 DEF RangeOf, IsRange, NoneFrom, OneRange
  <1> QED
    BY <1>2, <1>3

\* u is what the leaves have between from and to, from the range of q on.
IsRangeFrom(F, nd, q, from, to, u) ==
    /\ SortedPairs(u)
    /\ \A s : s \in Range(u) <=> /\ InLeaves(F, nd, s) /\ F.lo[q] <= K(s)
                                 /\ from[1] <= K(s) /\ K(s) <= to[1]

\* As ListsWithin, for the leaves that are not all below from.
RangesWithin(F, nd, from, to, g, n) ==
    \A q \in F.pages : F.lv[q] = 0 /\ from[1] < F.hi[q] /\ Cardinality(Ahead(F, q)) <= n =>
        IsRangeFrom(F, nd, q, from, to, g[q])

LEMMA KeyIsInteger ==
  ASSUME OneInteger, NEW key \in Keys
  PROVE  key \in Bounds /\ key[1] \in Int
  <1>1. key \in Bounds
    BY DEF Bounds
  <1> QED
    BY <1>1, BoundsAreIntegers

\* A pair of a leaf is in the range of the leaf.
LEMMA PairOfLeaf ==
  ASSUME OneInteger, NEW F, NEW nd \in [PageIds -> Node], NEW H \in Nat, Forest(F, nd, H),
         NEW q \in F.pages, F.lv[q] = 0, NEW s \in SlotsOf(nd[q])
  PROVE  K(s) \in Int /\ F.lo[q] <= K(s) /\ K(s) < F.hi[q] /\ InLeaves(F, nd, s)
  <1>1. LeafOK(F, nd, q) /\ q \in PageIds
    BY ForestFacts DEF Forest
  <1>2. K(s) \in Int
    BY <1>1, NodeFacts, SlotKeys
  <1> QED
    BY <1>1, <1>2 DEF LeafOK, InLeaves

\* A leaf that adds nothing ends a range, when it has its last key still.
LEMMA NothingBehind ==
  ASSUME OneInteger, NEW F, NEW nd \in [PageIds -> Node], NEW H \in Nat, Forest(F, nd, H),
         Tight(F, nd), NEW from \in Keys, NEW to \in Keys,
         NEW q \in F.pages, F.lv[q] = 0, from[1] < F.hi[q],
         \A s \in SlotsOf(nd[q]) : ~(from[1] <= K(s) /\ K(s) <= to[1]),
         NEW t, InLeaves(F, nd, t), F.lo[q] <= K(t), from[1] <= K(t), K(t) <= to[1]
  PROVE  FALSE
  <1>1. from[1] \in Int /\ to[1] \in Int /\ F.lo[q] \in Int /\ F.hi[q] \in Int
    BY KeyIsInteger, ForestFacts
  <1>2. PICK s \in SlotsOf(nd[q]) : K(s) + 1 = F.hi[q]
    BY DEF Tight
  <1>3. K(s) \in Int
    BY PairOfLeaf
  <1>4. to[1] < K(s)
    BY <1>1, <1>2, <1>3
  <1>5. K(t) \in Int
    BY PairOfLeaf DEF InLeaves
  <1>6. K(t) < F.hi[q]
    BY <1>1, <1>2, <1>3, <1>4, <1>5
  <1>7. t \in SlotsOf(nd[q])
    <2>1. CASE nd[q].next = None
      BY <2>1, BehindLeaf
    <2>2. CASE nd[q].next # None
      <3>1. PICK x : x = nd[q].next
        OBVIOUS
      <3>2. /\ x \in F.pages /\ F.hi[q] <= F.lo[x]
            /\ K(t) < F.lo[x] => t \in SlotsOf(nd[q])
        BY <2>2, <3>1, BehindLeaf
      <3>3. F.lo[x] \in Int
        BY <3>2, ForestFacts
      <3> QED
        BY <1>1, <1>5, <1>6, <3>2, <3>3
    <2> QED
      BY <2>1, <2>2
  <1> QED
    BY <1>7

\* One leaf more.
LEMMA RangePageLists ==
  ASSUME OneInteger, NEW F, NEW nd \in [PageIds -> Node], NEW H \in Nat, Forest(F, nd, H),
         Tight(F, nd), IsFiniteSet(F.pages), NEW from \in Keys, NEW to \in Keys,
         NEW n \in Nat, NEW rest, RangesWithin(F, nd, from, to, rest, n),
         NEW q \in F.pages, F.lv[q] = 0, from[1] < F.hi[q], Cardinality(Ahead(F, q)) <= n + 1
  PROVE  IsRangeFrom(F, nd, q, from, to, RangePage(rest, nd[q], from, to))
  <1>1. q \in PageIds /\ F.lo[q] \in Int /\ F.hi[q] \in Int
    BY ForestFacts
  <1>2. from[1] \in Int /\ to[1] \in Int
    BY KeyIsInteger
  <1>3. PICK node \in Node : node = nd[q]
    BY <1>1
  <1>4. PICK v : v = Part(node, from, to)
    OBVIOUS
  <1>5. /\ SortedPairs(v)
        /\ \A s : s \in Range(v) <=> s \in SlotsOf(node) /\ from[1] <= K(s) /\ K(s) <= to[1]
    <2>1. Sorted(node)
      BY <1>3 DEF Forest, LeafOK
    <2> QED
      BY <1>4, <2>1, PartIs
  <1>6. \A s \in SlotsOf(node) : /\ K(s) \in Int /\ F.lo[q] <= K(s) /\ K(s) < F.hi[q]
                                 /\ InLeaves(F, nd, s)
    BY <1>3, PairOfLeaf
  <1>7. CASE v = <<>>
    <2>1. RangePage(rest, node, from, to) = v
      BY <1>4, <1>7 DEF RangePage
    <2>2. \A s \in SlotsOf(node) : ~(from[1] <= K(s) /\ K(s) <= to[1])
      BY <1>5, <1>7, NoPairs
    <2>3. \A s : ~(InLeaves(F, nd, s) /\ F.lo[q] <= K(s) /\ from[1] <= K(s) /\ K(s) <= to[1])
      BY <1>3, <2>2, NothingBehind
    <2>4. \A s : s \notin Range(v)
      BY <1>7, NoPairs
    <2> QED
      BY <1>3, <1>5, <2>1, <2>3, <2>4 DEF IsRangeFrom
  <1>8. CASE v # <<>> /\ node.next = None
    <2>1. RangePage(rest, node, from, to) = v
      BY <1>4, <1>8 DEF RangePage
    <2>2. \A s : InLeaves(F, nd, s) /\ F.lo[q] <= K(s) => s \in SlotsOf(node)
      BY <1>3, <1>8, BehindLeaf
    <2>3. IsRangeFrom(F, nd, q, from, to, v)
      BY <1>5, <1>6, <2>2 DEF IsRangeFrom
    <2> QED
      BY <1>3, <2>1, <2>3
  <1>9. CASE v # <<>> /\ node.next # None
    <2>1. PICK x : x = node.next
      OBVIOUS
    <2>2. /\ x \in F.pages /\ F.lv[x] = 0 /\ F.lo[q] < F.lo[x] /\ F.hi[q] <= F.lo[x]
          /\ \A s : InLeaves(F, nd, s) /\ F.lo[q] <= K(s) /\ K(s) < F.lo[x]
                       => s \in SlotsOf(node)
      <3>1. nd[q].next # None /\ nd[q].next = x /\ nd[q] = node
        BY <1>3, <1>9, <2>1
      <3>2. /\ x \in F.pages /\ F.lv[x] = 0 /\ F.lo[q] < F.lo[x] /\ F.hi[q] <= F.lo[x]
            /\ \A s : InLeaves(F, nd, s) /\ F.lo[q] <= K(s) /\ K(s) < F.lo[x]
                         => s \in SlotsOf(nd[q])
        BY <3>1, BehindLeaf
      <3> QED
        BY <3>1, <3>2
    <2>3. F.lo[x] \in Int /\ F.hi[x] \in Int /\ F.lo[x] < F.hi[x]
      BY <2>2, ForestFacts
    <2>4. PICK u : u = rest[x]
      OBVIOUS
    <2>5. IsRangeFrom(F, nd, x, from, to, u)
      <3>1. PICK a, b : a = Cardinality(Ahead(F, x)) /\ b = Cardinality(Ahead(F, q))
        OBVIOUS
      <3>2. a < b
        BY <2>2, <3>1, FewerAhead
      <3>3. a \in Nat /\ b \in Nat
        <4>1. Ahead(F, x) \in SUBSET F.pages /\ Ahead(F, q) \in SUBSET F.pages
          BY DEF Ahead
        <4> QED
          BY <3>1, <4>1, FS_Subset, FS_CardinalityType
      <3>4. a <= n
        BY <3>1, <3>2, <3>3
      <3>5. from[1] < F.hi[x]
        BY <1>1, <1>2, <2>2, <2>3
      <3> QED
        BY <2>2, <2>4, <3>1, <3>4, <3>5 DEF RangesWithin
    <2>6. /\ SortedPairs(u)
          /\ \A s : s \in Range(u) <=> /\ InLeaves(F, nd, s) /\ F.lo[x] <= K(s)
                                       /\ from[1] <= K(s) /\ K(s) <= to[1]
      BY <2>5 DEF IsRangeFrom
    <2>7. \A s : InLeaves(F, nd, s) => K(s) \in Int
      BY PairOfLeaf DEF InLeaves
    <2>8. PICK w : w = v \o u
      OBVIOUS
    <2>9. SortedPairs(w) /\ \A s : s \in Range(w) <=> s \in Range(v) \/ s \in Range(u)
      <3>1. \A s \in Range(v) : \A t \in Range(u) : K(s) < K(t)
        BY <1>1, <1>5, <1>6, <2>2, <2>3, <2>6, <2>7
      <3> QED
        BY <1>5, <2>6, <2>8, <3>1, SortedJoined
    <2>10. RangePage(rest, node, from, to) = w
      BY <1>4, <1>9, <2>1, <2>4, <2>8 DEF RangePage
    <2>11. ASSUME NEW s
           PROVE  s \in Range(w) <=> /\ InLeaves(F, nd, s) /\ F.lo[q] <= K(s)
                                     /\ from[1] <= K(s) /\ K(s) <= to[1]
      <3>1. ASSUME InLeaves(F, nd, s), F.lo[q] <= K(s), from[1] <= K(s), K(s) <= to[1]
            PROVE  s \in Range(w)
        <4>1. K(s) < F.lo[x] \/ F.lo[x] <= K(s)
          BY <2>3, <2>7, <3>1
        <4> QED
          BY <1>5, <2>2, <2>6, <2>9, <3>1, <4>1
      <3>2. ASSUME s \in Range(u)
            PROVE  /\ InLeaves(F, nd, s) /\ F.lo[q] <= K(s)
                   /\ from[1] <= K(s) /\ K(s) <= to[1]
        BY <1>1, <2>2, <2>3, <2>6, <2>7, <3>2
      <3>3. s \in Range(v) => /\ InLeaves(F, nd, s) /\ F.lo[q] <= K(s)
                              /\ from[1] <= K(s) /\ K(s) <= to[1]
        BY <1>5, <1>6
      <3> QED
        BY <2>9, <3>1, <3>2, <3>3
    <2> QED
      BY <1>3, <2>9, <2>10, <2>11 DEF IsRangeFrom
  <1> QED
    BY <1>7, <1>8, <1>9

LEMMA FromRanges ==
  ASSUME OneInteger, NEW F, NEW nd \in [PageIds -> Node], NEW H \in Nat, Forest(F, nd, H),
         Tight(F, nd), IsFiniteSet(F.pages), NEW from \in Keys, NEW to \in Keys,
         NEW m \in Nat, NEW f, IsRange(f, m, nd, from, to)
  PROVE  \A n \in 0..m : RangesWithin(F, nd, from, to, f[n], n)
  <1> DEFINE Wrong == {n \in Nat : n <= m /\ ~RangesWithin(F, nd, from, to, f[n], n)}
  <1>1. \A n \in 0..m : f[n] = IF n = 0 THEN NoneFrom ELSE OneRange(f[n - 1], nd, from, to)
    BY DEF IsRange
  <1>2. ASSUME NEW n \in Wrong, \A i \in Wrong : n <= i PROVE FALSE
    <2>1. n \in 0..m /\ ~RangesWithin(F, nd, from, to, f[n], n)
      OBVIOUS
    <2>2. PICK q \in F.pages : /\ F.lv[q] = 0 /\ from[1] < F.hi[q]
                               /\ Cardinality(Ahead(F, q)) <= n
                               /\ ~IsRangeFrom(F, nd, q, from, to, f[n][q])
      BY <2>1 DEF RangesWithin
    <2>3. q \in PageIds /\ F.lo[q] \in Int
      BY ForestFacts
    <2>4. n # 0
      <3>1. PICK A : A = Ahead(F, q)
        OBVIOUS
      <3>2. A \in SUBSET F.pages /\ q \in A
        BY <2>3, <3>1 DEF Ahead
      <3>3. IsFiniteSet(A) /\ A # {}
        BY <3>2, FS_Subset
      <3>4. Cardinality(A) \in Nat /\ Cardinality(A) # 0
        BY <3>3, FS_CardinalityType, FS_EmptySet
      <3> QED
        BY <2>2, <3>1, <3>4
    <2>5. PICK l \in Nat : l = n - 1
      BY <2>1, <2>4
    <2>6. PICK rest : rest = f[l]
      OBVIOUS
    <2>7. RangesWithin(F, nd, from, to, rest, l)
      BY <1>2, <2>1, <2>5, <2>6
    <2>8. f[n][q] = RangePage(rest, nd[q], from, to)
      BY <1>1, <2>1, <2>3, <2>4, <2>5, <2>6 DEF OneRange
    <2>9. Cardinality(Ahead(F, q)) <= l + 1
      BY <2>1, <2>2, <2>5
    <2> QED
      BY <2>2, <2>7, <2>8, <2>9, RangePageLists
  <1>3. Wrong = {}
    <2>1. Wrong \in SUBSET Nat
      OBVIOUS
    <2> HIDE DEF Wrong
    <2> QED
      BY <1>2, <2>1, LeastElement
  <1> QED
    BY <1>3

\* The pairs of a tree in a range.
IsRangeOf(F, nd, from, to, u) ==
    /\ SortedPairs(u)
    /\ \A s : s \in Range(u) <=> InLeaves(F, nd, s) /\ from[1] <= K(s) /\ K(s) <= to[1]

LEMMA RangeInTree ==
  ASSUME OneInteger, NEW F, NEW nd \in [PageIds -> Node], NEW H \in Nat, NEW rt,
         NEW np \in Nat, IsTree(F, H, rt, nd, np), Tight(F, nd),
         NEW from \in Keys, NEW to \in Keys,
         NEW p, IsEnd(F, rt, from[1], p), NEW f, IsRange(f, np, nd, from, to)
  PROVE  IsRangeOf(F, nd, from, to, IF IsLeaf(nd[p]) THEN f[np][p] ELSE <<>>)
  <1>1. /\ Forest(F, nd, H) /\ F.pages \in SUBSET (0..(np - 1)) /\ np > 0
        /\ rt \in F.pages
    BY DEF IsTree
  <1>2. from[1] \in Int /\ to[1] \in Int
    BY KeyIsInteger
  <1>3. /\ p \in F.pages /\ p \in PageIds /\ F.lo[p] \in Int /\ F.hi[p] \in Int
        /\ F.lv[p] \in Nat /\ F.lo[p] <= from[1] /\ (F.lv[p] > 0 => F.hi[p] <= from[1])
        /\ from[1] < F.hi[rt] => from[1] < F.hi[p]
    BY <1>1, ForestFacts DEF IsEnd
  <1>4. IsLeaf(nd[p]) <=> F.lv[p] = 0
    BY <1>1, <1>3 DEF Forest, LeafOK, InnerOK, IsLeaf
  <1>5. PICK node \in Node : node = nd[p]
    BY <1>3
  <1>6. PICK g : g = f[np]
    OBVIOUS
  <1>7. F.hi[rt] \in Int /\ \A y \in F.pages : F.hi[y] <= F.hi[rt] /\ F.hi[y] \in Int
    BY <1>1, BelowRoot, ForestFacts
  <1>8. CASE from[1] < F.hi[rt]
    <2>1. F.lv[p] = 0 /\ from[1] < F.hi[p]
      BY <1>2, <1>3, <1>8
    <2>2. IsFiniteSet(0..(np - 1)) /\ Cardinality(0..(np - 1)) = np
      <3>1. PICK a, b \in Int : a = 0 /\ b = np - 1
        OBVIOUS
      <3> QED
        BY <1>1, <3>1, FS_Interval
    <2>3. IsFiniteSet(F.pages)
      BY <1>1, <2>2, FS_Subset
    <2>4. Cardinality(Ahead(F, p)) <= np
      <3>1. Ahead(F, p) \in SUBSET (0..(np - 1))
        BY <1>1 DEF Ahead
      <3> QED
        BY <2>2, <3>1, FS_Subset
    <2>5. RangesWithin(F, nd, from, to, g, np)
      BY <1>1, <1>6, <2>3, FromRanges
    <2>6. IsRangeFrom(F, nd, p, from, to, g[p])
      BY <1>3, <2>1, <2>4, <2>5 DEF RangesWithin
    <2>7. \A s : InLeaves(F, nd, s) => K(s) \in Int
      BY <1>1, PairOfLeaf DEF InLeaves
    <2>8. \A s : InLeaves(F, nd, s) /\ from[1] <= K(s) => F.lo[p] <= K(s)
      BY <1>2, <1>3, <2>7
    <2>9. IsRangeOf(F, nd, from, to, g[p])
      BY <2>6, <2>8 DEF IsRangeFrom, IsRangeOf
    <2> QED
      BY <1>4, <1>6, <2>1, <2>9
  <1>9. CASE F.hi[rt] <= from[1]
    <2>1. ASSUME NEW s, InLeaves(F, nd, s) PROVE ~(from[1] <= K(s))
      <3>1. PICK y \in F.pages : F.lv[y] = 0 /\ s \in SlotsOf(nd[y])
        BY <2>1 DEF InLeaves
      <3>2. K(s) \in Int /\ K(s) < F.hi[y]
        BY <1>1, <3>1, PairOfLeaf
      <3> QED
        BY <1>2, <1>7, <1>9, <3>1, <3>2
    <2>2. IsRangeOf(F, nd, from, to, <<>>)
      BY <2>1, NoPairs DEF IsRangeOf
    <2>3. ASSUME F.lv[p] = 0 PROVE g[p] = <<>>
      <3>1. PICK v : v = Part(node, from, to)
        OBVIOUS
      <3>2. Sorted(node)
        BY <1>1, <1>3, <1>5, <2>3 DEF Forest, LeafOK
      <3>3. \A s : s \in Range(v) => s \in SlotsOf(node) /\ from[1] <= K(s)
        BY <3>1, <3>2, PartIs
      <3>4. \A s : s \notin Range(v)
        <4>1. \A s \in SlotsOf(node) : InLeaves(F, nd, s)
          BY <1>1, <1>3, <1>5, <2>3, PairOfLeaf
        <4> QED
          BY <2>1, <3>3, <4>1
      <3>5. v = <<>>
        <4>1. SortedPairs(v)
          BY <3>1, <3>2, PartIs
        <4>2. v \in Seq(SlotSet) /\ Range(v) = {v[i] : i \in 1..Len(v)} /\ Len(v) \in Nat
          BY <4>1, RangeEquality, LenProperties DEF SortedPairs
        <4>3. Len(v) = 0
          <5>1. ASSUME Len(v) # 0 PROVE FALSE
            <6>1. 1 \in 1..Len(v)
              BY <4>2, <5>1
            <6> QED
              BY <3>4, <4>2, <6>1
          <5> QED
            BY <5>1
        <4> QED
          BY <4>2, <4>3, EmptySeq
      <3>6. g = OneRange(f[np - 1], nd, from, to)
        BY <1>1, <1>6 DEF IsRange
      <3>7. g[p] = RangePage(f[np - 1], node, from, to)
        BY <1>3, <1>5, <3>6 DEF OneRange
      <3> QED
        BY <3>1, <3>5, <3>7 DEF RangePage
    <2> QED
      BY <1>4, <1>6, <2>2, <2>3
  <1> QED
    BY <1>2, <1>7, <1>8, <1>9

\* range() returns what the map has in a range.
LEMMA FilledRange ==
  ASSUME OneInteger, Filled, root # None, NEW from \in Keys, NEW to \in Keys
  PROVE  IsMapIn({k \in Keys : ~Less(k, from) /\ ~Less(to, k)}, RangeOf(from, to))
  <1>1. PICK np \in Nat : np = next_page_id
    BY DEF Filled
  <1>2. PICK nd \in [PageIds -> Node] : nd = nodes
    BY DEF Filled
  <1>3. PICK rt : rt = root
    OBVIOUS
  <1>4. PICK F : \E H \in Nat : IsTree(F, H, rt, nd, np) /\ HasMap(F, nd, map) /\ Tight(F, nd)
    BY <1>1, <1>2, <1>3 DEF Filled, Holds
  <1>5. PICK H \in Nat : IsTree(F, H, rt, nd, np) /\ HasMap(F, nd, map) /\ Tight(F, nd)
    BY <1>4
  <1>6. PICK p : p = Descend(root, from)
    OBVIOUS
  <1>7. IsEnd(F, rt, from[1], p)
    BY <1>1, <1>2, <1>3, <1>5, <1>6, DescendEnds
  <1>8. PICK u : u = RangeOf(from, to)
    OBVIOUS
  <1>9. PICK f : IsRange(f, np, nd, from, to) /\ u = IF IsLeaf(nd[p]) THEN f[np][p] ELSE <<>>
    BY <1>1, <1>2, <1>6, <1>8, RangeOfIs
  <1>10. IsRangeOf(F, nd, from, to, u)
    BY <1>5, <1>7, <1>9, RangeInTree
  <1>11. Ascending(u)
    BY <1>10, PairsAscend DEF IsRangeOf
  <1>12. from[1] \in Int /\ to[1] \in Int /\ from \in Bounds /\ to \in Bounds
    BY KeyIsInteger
  <1> DEFINE S == {k \in Keys : ~Less(k, from) /\ ~Less(to, k)}
  <1>13. \A k \in Keys : k \in S <=> from[1] <= k[1] /\ k[1] <= to[1]
    <2>1. ASSUME NEW k \in Keys PROVE k \in S <=> from[1] <= k[1] /\ k[1] <= to[1]
      <3>1. k \in Bounds /\ k[1] \in Int
        BY KeyIsInteger
      <3>2. Less(k, from) <=> k[1] < from[1]
        BY <1>12, <3>1, LessIsLess DEF Less
      <3>3. Less(to, k) <=> to[1] < k[1]
        BY <1>12, <3>1, LessIsLess DEF Less
      <3> QED
        BY <1>12, <3>1, <3>2, <3>3
    <2> QED
      BY <2>1
  <1> HIDE DEF S
  <1>14. Range(u) = {Slot(k, map[k]) : k \in S \cap Present}
    <2>1. ASSUME NEW s \in Range(u) PROVE s \in {Slot(k, map[k]) : k \in S \cap Present}
      <3>1. InLeaves(F, nd, s) /\ from[1] <= K(s) /\ K(s) <= to[1]
        BY <1>10 DEF IsRangeOf
      <3>2. s.key \in Keys /\ map[s.key] # Absent /\ s = Slot(s.key, map[s.key])
        BY <1>5, <3>1 DEF HasMap
      <3>3. s.key \in S \cap Present
        BY <1>13, <3>1, <3>2 DEF Present, K
      <3> QED
        BY <3>2, <3>3
    <2>2. ASSUME NEW k \in S \cap Present PROVE Slot(k, map[k]) \in Range(u)
      <3>1. k \in Keys /\ map[k] # Absent
        BY DEF Present
      <3>2. InLeaves(F, nd, Slot(k, map[k]))
        BY <1>5, <3>1 DEF HasMap
      <3>3. K(Slot(k, map[k])) = k[1]
        BY DEF K, Slot
      <3> QED
        BY <1>10, <1>13, <3>1, <3>2, <3>3 DEF IsRangeOf
    <2> QED
      BY <2>1, <2>2
  <1>15. IsMapIn(S, u)
    <2>1. S \subseteq Keys
      BY DEF S
    <2> QED
      BY <1>11, <1>14 DEF IsMapIn
  <1> QED
    BY <1>8, <1>15 DEF S

\* range() returns the pairs of the range, in order, until keys are deleted (btree/mod.rs:655).
THEOREM RangeIsExact == OneInteger => (Spec => []RangeExactWhileFilling)
  <1> SUFFICES ASSUME OneInteger PROVE Spec => []RangeExactWhileFilling
    OBVIOUS
  <1>1. TreeInv => RangeExactWhileFilling
    BY FilledRange DEF TreeInv, RangeExactWhileFilling, RangeExact
  <1> QED
    BY <1>1, TreeInvariant, PTL

-----------------------------------------------------------------------------
(***************************************************************************)
(* Whatever happens to the tree, no node has more than one slot more than  *)
(* a node that is not almost full.                                         *)
(***************************************************************************)
SizeInv == nodes \in [PageIds -> Node] /\ AllShort(nodes)

LEMMA InitSizeInv ==
  ASSUME OneInteger, Init
  PROVE  SizeInv
  <1>1. PICK node : node = NewNode("Leaf", KeyTypes)
    OBVIOUS
  <1>2. node \in Node /\ Len(node.values) = 0
    <2>1. PICK t \in {"Leaf", "Internal"} : t = "Leaf"
      OBVIOUS
    <2> QED
      BY <1>1, <2>1, EmptyNode
  <1>3. Short(node)
    BY <1>2, TwoIsShort
  <1>4. nodes = [q \in PageIds |-> node]
    BY <1>1 DEF Init
  <1> QED
    BY <1>2, <1>3, <1>4 DEF SizeInv, AllShort

LEMMA InsertedSizes ==
  ASSUME OneInteger, TreeInv, SizeInv, NEW key \in Keys, NEW n \in 0..MaxCalls, NEW val \in Values,
         RoomToInsert, map[key] = Absent, Filling,
         Become(Inserted(RootPage(Progress(n)), key, val))
  PROVE  SizeInv'
  <1>1. PICK r : r = Inserted(RootPage(Progress(n)), key, val)
    OBVIOUS
  <1>2. Filled
    BY DEF Filling, TreeInv
  <1>3. InsertDone(root, nodes, next_page_id, map, key, val, r)
    BY <1>1, <1>2, InsertedOK
  <1>4. r.st \in InProgress /\ AllShort(r.st.nodes)
    BY <1>3 DEF InsertDone, SizeInv
  <1>5. nodes' = r.st.nodes
    BY <1>1 DEF Become
  <1> QED
    BY <1>4, <1>5, ProgressFacts DEF SizeInv

\* remove takes one slot out of a leaf, sorted or not.
LEMMA KeyTaken ==
  ASSUME OneInteger, NEW node \in Node, NEW key, IndexOf(node, key) # 0
  PROVE  RemoveKey(node, key) \in Node /\ Len(RemoveKey(node, key).values) <= Len(node.values)
  <1>1. PICK u : u = node.values
    OBVIOUS
  <1>2. PICK n \in Nat : n = Len(u) /\ u \in Seq(SlotSet)
    BY <1>1, NodeFacts
  <1>3. PICK i \in 1..n : i = IndexOf(node, key)
    BY <1>1, <1>2, IndexOfKey
  <1>4. PICK v : v = RemoveAt(u, i)
    OBVIOUS
  <1>5. v \in Seq(SlotSet) /\ Len(v) = n - 1
    <2>1. v \in Seq(SlotSet) /\ IsRemovedAt(u, n, i, v)
      BY <1>2, <1>4, RemoveAtProperties
    <2> QED
      BY <2>1 DEF IsRemovedAt
  <1>6. RemoveKey(node, key) = [node EXCEPT !.values = v]
    BY <1>1, <1>3, <1>4 DEF RemoveKey
  <1>7. [node EXCEPT !.values = v] \in Node /\ [node EXCEPT !.values = v].values = v
    BY <1>5, WithValues
  <1> QED
    BY <1>1, <1>2, <1>5, <1>6, <1>7

LEMMA DeletedSizes ==
  ASSUME OneInteger, SizeInv, NEW key \in Keys, Delete(key)
  PROVE  SizeInv'
  <1>1. PICK p : InLeaf(p, key) /\ nodes' = [nodes EXCEPT ![p] = RemoveKey(@, key)]
    BY DEF Delete
  <1>2. CASE p \in PageIds
    <2>1. PICK node \in Node : node = nodes[p] /\ Short(node) /\ IndexOf(node, key) # 0
      BY <1>1, <1>2 DEF SizeInv, AllShort, InLeaf
    <2>2. PICK r : r = RemoveKey(node, key)
      OBVIOUS
    <2>3. r \in Node /\ Len(r.values) <= Len(node.values)
      BY <2>1, <2>2, KeyTaken
    <2>4. Short(r)
      BY <2>1, <2>3, ShorterIsShort
    <2>5. nodes' = [nodes EXCEPT ![p] = r]
      BY <1>1, <2>1, <2>2
    <2>6. nodes' \in [PageIds -> Node] /\ \A q \in PageIds : nodes'[q] = IF q = p THEN r ELSE nodes[q]
      BY <1>2, <2>3, <2>5 DEF SizeInv
    <2> QED
      BY <2>4, <2>6 DEF SizeInv, AllShort
  <1>3. CASE p \notin PageIds
    <2>1. nodes' = nodes
      BY <1>1, <1>3 DEF SizeInv
    <2> QED
      BY <2>1 DEF SizeInv
  <1> QED
    BY <1>2, <1>3

LEMMA NextSizeInv ==
  ASSUME OneInteger, TreeInv, SizeInv, [Next]_vars
  PROVE  SizeInv'
  <1>1. ASSUME NEW k \in Keys, NEW v \in Values, Filling, InsertNew(k, v) PROVE SizeInv'
    <2>1. PICK n \in 0..MaxCalls : n = MaxCalls
      BY BTreeAssumption
    <2>2. /\ RoomToInsert /\ map[k] = Absent
          /\ Become(Inserted(RootPage(Progress(n)), k, v))
      BY <1>1, <2>1 DEF InsertNew, Insert, InsertOk
    <2> QED
      BY <1>1, <2>2, InsertedSizes
  <1>2. ASSUME NEW k \in Keys, NEW v \in Values, NEW n \in 0..(MaxCalls - 1),
               Filling, InsertNewFails(k, v, n)
        PROVE  SizeInv'
    <2>1. n \in 0..MaxCalls
      BY BTreeAssumption
    <2>2. /\ RoomToInsert /\ map[k] = Absent
          /\ Become(Inserted(RootPage(Progress(n)), k, v))
      BY <1>2 DEF InsertNewFails, InsertFails, InsertErr
    <2> QED
      BY <1>2, <2>1, <2>2, InsertedSizes
  <1>3. ASSUME NEW k \in Keys, Delete(k) PROVE SizeInv'
    BY <1>3, DeletedSizes
  <1>4. CASE ScanBegin \/ ScanNode \/ ScanReturn \/ UNCHANGED vars
    <2>1. nodes' = nodes
      BY <1>4 DEF ScanBegin, ScanNode, ScanReturn, vars
    <2> QED
      BY <2>1 DEF SizeInv
  <1> QED
    BY <1>1, <1>2, <1>3, <1>4 DEF Next

-----------------------------------------------------------------------------
(***************************************************************************)
(* A page has room for the header and for as many slots as a node has that *)
(* was not almost full before the last one.                                *)
(***************************************************************************)
SlotsFit ==
    \A n \in Nat :
        (n - 1) * SumSizes(KeyTypes) < PAGE_SIZE \div 2
            => NODE_VALUES_START + n * (SumSizes(KeyTypes) + EITHER_SIZE) <= PAGE_SIZE

\* An integer has no bytes outside the fixed part of its key.
LEMMA NoVarBytes ==
  ASSUME OneInteger, NEW k
  PROVE  VarBytes(KeyTypes, k) = 0
  <1>1. PICK ty \in Integer : KeyTypes = <<ty>>
    BY DEF OneInteger
  <1>2. Len(<<ty>>) = 1 /\ <<ty>>[1] = ty /\ ty # "Varchar"
    BY DEF Integer
  <1> DEFINE IsSum(f) == f = [n \in 0..1 |->
                                 IF n = 0 THEN 0
                                 ELSE f[n - 1] + (IF <<ty>>[n] = "Varchar" THEN Len(k[n]) ELSE 0)]
             g == [n \in 0..1 |-> 0]
  <1>3. IsSum(g)
    <2>1. \A n \in 0..1 :
             g[n] = IF n = 0 THEN 0
                    ELSE g[n - 1] + (IF <<ty>>[n] = "Varchar" THEN Len(k[n]) ELSE 0)
      BY <1>2
    <2> QED
      BY <2>1
  <1>4. PICK f : IsSum(f) /\ VarBytes(<<ty>>, k) = f[1]
    <2>1. VarBytes(<<ty>>, k) = (CHOOSE f : IsSum(f))[1]
      BY <1>2 DEF VarBytes
    <2> HIDE DEF IsSum
    <2> QED
      BY <1>3, <2>1
  <1>5. f[0] = 0 /\ f[1] = f[0] + 0
    BY <1>2, <1>4
  <1> QED
    BY <1>1, <1>4, <1>5

\* Every slot of a node takes the same bytes.
LEMMA ShortFits ==
  ASSUME OneInteger, SlotsFit, NEW node \in Node, Short(node)
  PROVE  FitsPage(node)
  <1>1. PICK m \in Nat : m = Len(node.values)
    BY NodeFacts
  <1>2. PICK w \in Nat : w = SumSizes(KeyTypes)
    BY KeySize
  <1>3. PICK e \in Nat, st \in Nat : e = EITHER_SIZE /\ st = NODE_VALUES_START
    BY NodeSizesAssumption DEF EITHER_SIZE
  <1> DEFINE B(f, n) == IF n = 0 THEN NODE_VALUES_START
                        ELSE f[n - 1] + SumSizes(node.tys)
                             + VarBytes(node.tys, node.values[n].key) + EITHER_SIZE
             IsSize(f) == f = [n \in 0..Len(node.values) |-> B(f, n)]
             g == [n \in 0..m |-> st + n * (w + e)]
  <1>4. FitsPage(node) <=> (CHOOSE f : IsSize(f))[m] <= PAGE_SIZE
    BY <1>1 DEF FitsPage
  <1>5. ASSUME NEW f, NEW n \in 0..m
         PROVE  B(f, n) = IF n = 0 THEN st ELSE f[n - 1] + w + 0 + e
    <2>1. \A i \in 1..m : VarBytes(node.tys, node.values[i].key) = 0
      BY <1>1, NoVarBytes, NodeFacts
    <2>2. node.tys = KeyTypes
      BY NodeFacts
    <2>3. n # 0 => n \in 1..m
      OBVIOUS
    <2> QED
      BY <1>2, <1>3, <2>1, <2>2, <2>3
  <1>6. IsSize(g)
    <2>1. ASSUME NEW n \in 0..m
          PROVE  g[n] = IF n = 0 THEN st ELSE g[n - 1] + w + 0 + e
      <3>1. CASE n = 0
        BY <3>1
      <3>2. CASE n # 0
        <4>1. PICK l \in Nat : l = n - 1
          BY <3>2
        <4>2. g[n] = st + n * (w + e) /\ g[l] = st + l * (w + e)
          BY <4>1
        <4>3. n * (w + e) = l * (w + e) + w + e
          BY <4>1
        <4> QED
          BY <3>2, <4>1, <4>2, <4>3
      <3> QED
        BY <3>1, <3>2
    <2>2. \A n \in 0..m : g[n] = B(g, n)
      <3> HIDE DEF g, B
      <3> QED
        BY <1>5, <2>1
    <2>3. g = [n \in 0..m |-> g[n]]
      OBVIOUS
    <2>4. g = [n \in 0..m |-> B(g, n)]
      <3> HIDE DEF g, B
      <3> QED
        BY <2>2, <2>3
    <2> QED
      BY <1>1, <2>4
  <1>7. PICK f : f = CHOOSE x : IsSize(x)
    OBVIOUS
  <1>8. IsSize(f)
    <2> HIDE DEF IsSize, g
    <2> QED
      BY <1>6, <1>7
  <1>9. \A n \in 0..m : f[n] = g[n]
    <2> DEFINE Wrong == {n \in Nat : n <= m /\ f[n] # g[n]}
    <2>1. \A n \in 0..m : /\ f[n] = IF n = 0 THEN st ELSE f[n - 1] + w + 0 + e
                          /\ g[n] = IF n = 0 THEN st ELSE g[n - 1] + w + 0 + e
      <3>1. ASSUME NEW h, IsSize(h), NEW n \in 0..m
            PROVE  h[n] = IF n = 0 THEN st ELSE h[n - 1] + w + 0 + e
        <4>1. h[n] = B(h, n)
          <5> HIDE DEF B
          <5> QED
            BY <1>1, <3>1
        <4> HIDE DEF B
        <4> QED
          BY <1>5, <4>1
      <3> HIDE DEF g, IsSize
      <3> QED
        BY <1>6, <1>8, <3>1
    <2>2. ASSUME NEW n \in Wrong, \A i \in Wrong : n <= i PROVE FALSE
      <3>1. n \in 0..m /\ f[n] # g[n]
        OBVIOUS
      <3>2. n # 0
        BY <2>1, <3>1
      <3>3. PICK l \in Nat : l = n - 1
        BY <3>1, <3>2
      <3>4. f[l] = g[l]
        BY <2>2, <3>1, <3>3
      <3> HIDE DEF g
      <3> QED
        BY <2>1, <3>1, <3>2, <3>3, <3>4
    <2>3. Wrong = {}
      <3>1. Wrong \in SUBSET Nat
        OBVIOUS
      <3> HIDE DEF Wrong
      <3> QED
        BY <2>2, <3>1, LeastElement
    <2>4. \A n \in 0..m : n \in Nat /\ n <= m
      OBVIOUS
    <2> HIDE DEF g
    <2> QED
      BY <2>3, <2>4
  <1>10. f[m] = st + m * (w + e)
    BY <1>9
  <1>11. st + m * (w + e) <= PAGE_SIZE
    BY <1>1, <1>2, <1>3 DEF SlotsFit, Short
  <1> QED
    BY <1>4, <1>7, <1>10, <1>11

(***************************************************************************)
(* A node still fits its page when it is written, if a page has room for   *)
(* the slots that almost_full lets it have, with the values it does not    *)
(* count (btree/node.rs:259): so it is for keys of 8 bytes and values of 4 *)
(* on pages of 4096, and not for keys of 4.                                *)
(***************************************************************************)
THEOREM NodesFit == OneInteger /\ SlotsFit => (Spec => []NodesFitPage)
  <1> SUFFICES ASSUME OneInteger, SlotsFit PROVE Spec => []NodesFitPage
    OBVIOUS
  <1>1. Init => SizeInv
    BY InitSizeInv
  <1>2. TreeInv /\ SizeInv /\ [Next]_vars => SizeInv'
    BY NextSizeInv
  <1>3. SizeInv => NodesFitPage
    BY ShortFits DEF SizeInv, AllShort, NodesFitPage, Oversized
  <1> QED
    BY <1>1, <1>2, <1>3, TreeInvariant, PTL DEF Spec

(***************************************************************************)
(* insert() panics only if the tree is given the largest key of its type   *)
(* (table/tuple.rs:200), where a page has room for the slots that          *)
(* almost_full lets it have: a node that outgrows its page panics too      *)
(* (btree/node.rs:123).                                                    *)
(***************************************************************************)
THEOREM PanicsAtLargestKey ==
  OneInteger /\ SlotsFit => (Spec => []PanicsOnlyAtLargestKey)
  <1> SUFFICES ASSUME OneInteger, SlotsFit PROVE Spec => []PanicsOnlyAtLargestKey
    OBVIOUS
  <1>1. TreeInv /\ NodesFitPage => PanicsOnlyAtLargestKey
    BY DEF TreeInv, HasLargest, NodesFitPage, PanicsOnlyAtLargestKey
  <1> QED
    BY <1>1, TreeInvariant, NodesFit, PTL
=============================================================================
