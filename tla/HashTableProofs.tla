-------------------------- MODULE HashTableProofs ---------------------------
(***************************************************************************)
(* Proofs about the extendible hash table, for any hash function, any      *)
(* directory and any size of a bucket: no entry of the directory leads to  *)
(* a removed page, no page overflows before a split, get() finds only what *)
(* was inserted, and until a split all of it.                              *)
(***************************************************************************)
EXTENDS HashTable, FiniteSetTheorems, WellFoundedInduction, TLAPS

(***************************************************************************)
(* The directory is never deeper than 1: the depth of every bucket stays   *)
(* 0, and a split only deepens a directory that is as deep as its bucket.  *)
(***************************************************************************)
DirTypeOK == /\ dir \in [global_depth : {0, 1}, page_ids : [DirIndexes -> PageIds]]
             /\ next_page_id \in Nat \ {0}
             /\ removed \subseteq Nat
             /\ faults \in Nat
             /\ DOMAIN pages = PageIds

\* Entries of the directory, and removed pages, were made before.
LiveInv == /\ \A i \in DirIndexes : dir.page_ids[i] # NoBucket =>
                 dir.page_ids[i] < next_page_id /\ dir.page_ids[i] \notin removed
           /\ \A p \in removed : p < next_page_id

DirInv == DirTypeOK /\ LiveInv

-----------------------------------------------------------------------------
LEMMA DirFacts ==
  /\ DIR_SIZE \in Nat /\ DIR_SIZE > 0 /\ 0 \in DirIndexes
  /\ PageIds \subseteq Nat /\ 0 \in PageIds
  /\ \A p \in PageIds : \A q \in Nat : q <= p => q \in PageIds
  BY DirAssumption DEF DirIndexes

\* A key leads to an entry of the directory.
LEMMA BucketIndexType ==
  ASSUME NEW k \in Keys \cup {ZeroPair[1]}, NEW d, d.global_depth \in {0, 1}
  PROVE  BucketIndex(k, d) \in DirIndexes
  <1>1. Hash(k) \in Nat
    BY DirAssumption
  <1>2. DepthMask(d.global_depth) + 1 \in {1, 2}
    <2>1. DepthMask(0) + 1 = 1 /\ DepthMask(1) + 1 = 2
      BY DEF DepthMask
    <2> QED
      BY <2>1
  <1>3. Hash(k) % (DepthMask(d.global_depth) + 1) \in Nat
    BY <1>1, <1>2
  <1> QED
    BY <1>3, DirFacts DEF BucketIndex, DirIndexes

LEMMA PageOfType ==
  ASSUME DirTypeOK, NEW k \in Keys \cup {ZeroPair[1]}
  PROVE  PageOf(k) \in PageIds /\ BucketIndex(k, dir) \in DirIndexes
  BY BucketIndexType DEF DirTypeOK, PageOf

\* What insert() knows of the bucket it looked up or made.
LEMMA LocatedFacts ==
  ASSUME DirInv, NEW k \in Keys, CanInsert(k)
  PROVE  /\ Located(k).dir \in [global_depth : {0, 1}, page_ids : [DirIndexes -> PageIds]]
         /\ Located(k).dir.global_depth = dir.global_depth
         /\ Located(k).p \in PageIds /\ Located(k).p # NoBucket
         /\ Located(k).np \in {next_page_id, next_page_id + 1}
         /\ Located(k).p < Located(k).np
         /\ Located(k).p \notin removed
         /\ \A i \in DirIndexes : Located(k).dir.page_ids[i] # NoBucket =>
               /\ Located(k).dir.page_ids[i] < Located(k).np
               /\ Located(k).dir.page_ids[i] \notin removed
         /\ {Located(k).np, Located(k).np + 1, Located(k).np + 2} \subseteq PageIds
  <1> DEFINE i0 == BucketIndex(k, dir)
  <1>1. PageOf(k) \in PageIds /\ i0 \in DirIndexes /\ PageOf(k) = dir.page_ids[i0]
    BY PageOfType DEF DirInv, PageOf
  <1>2. next_page_id + 3 \in PageIds
    BY DEF CanInsert
  <1>3. {next_page_id, next_page_id + 1, next_page_id + 2, next_page_id + 3} \subseteq PageIds
    BY <1>2, DirFacts DEF DirInv, DirTypeOK
  <1>4. CASE PageOf(k) # NoBucket
    <2>1. Located(k) = [dir |-> dir, p |-> PageOf(k), np |-> next_page_id]
      BY <1>4 DEF Located
    <2> QED
      BY <1>1, <1>3, <1>4, <2>1 DEF DirInv, DirTypeOK, LiveInv
  <1>5. CASE PageOf(k) = NoBucket
    <2> DEFINE e == [dir EXCEPT !.page_ids[i0] = next_page_id]
    <2>1. Located(k) = [dir |-> e, p |-> next_page_id, np |-> next_page_id + 1]
      BY <1>5 DEF Located
    <2>2. /\ e \in [global_depth : {0, 1}, page_ids : [DirIndexes -> PageIds]]
          /\ e.global_depth = dir.global_depth
          /\ \A i \in DirIndexes :
                e.page_ids[i] = IF i = i0 THEN next_page_id ELSE dir.page_ids[i]
      BY <1>1, <1>3 DEF DirInv, DirTypeOK
    <2>3. next_page_id \in Nat \ {0} /\ next_page_id \notin removed
      BY DEF DirInv, DirTypeOK, LiveInv
    <2>4. \A i \in DirIndexes : e.page_ids[i] # NoBucket =>
             e.page_ids[i] < next_page_id + 1 /\ e.page_ids[i] \notin removed
      BY <2>2, <2>3, DirFacts DEF DirInv, DirTypeOK, LiveInv
    <2> HIDE DEF e
    <2> QED
      BY <1>3, <2>1, <2>2, <2>3, <2>4 DEF NoBucket
  <1> QED
    BY <1>4, <1>5

(***************************************************************************)
(* A split replaces every entry of the directory: the high bit of a local  *)
(* depth of 0 is 1, so every entry shares the (no) bits below it.          *)
(***************************************************************************)
LEMMA RedirectedAll ==
  ASSUME NEW d \in [global_depth : {0, 1}, page_ids : [DirIndexes -> PageIds]],
         NEW k \in Keys, NEW j, NEW e, e.global_depth \in {0, 1},
         NEW p0 \in PageIds, NEW p1 \in PageIds
  PROVE  LET r == Redirected(d, FirstIndex(k, e, LocalHighBit(j)), LocalHighBit(j), p0, p1)
         IN  /\ r \in [global_depth : {0, 1}, page_ids : [DirIndexes -> PageIds]]
             /\ \A i \in DirIndexes : r.page_ids[i] \in {p0, p1}
  <1>1. LocalHighBit(j) = 1
    BY DEF LocalHighBit, LocalDepth
  <1>2. FirstIndex(k, e, 1) = 0
    BY BucketIndexType DEF FirstIndex, DirIndexes
  <1>3. \A i \in DirIndexes : i >= 0 /\ (i - 0) % 1 = 0
    BY DEF DirIndexes
  <1> DEFINE f == [i \in DirIndexes |-> IF HasBit(i, 1) THEN p0 ELSE p1]
  <1>4. Redirected(d, 0, 1, p0, p1) = [d EXCEPT !.page_ids = f]
    BY <1>3 DEF Redirected
  <1>5. f \in [DirIndexes -> PageIds] /\ \A i \in DirIndexes : f[i] \in {p0, p1}
    OBVIOUS
  <1> HIDE DEF f
  <1> QED
    BY <1>1, <1>2, <1>4, <1>5

\* A directory that is as deep as its buckets gets one deeper.
LEMMA DoubledType ==
  ASSUME NEW d \in [global_depth : {0, 1}, page_ids : [DirIndexes -> PageIds]], NEW i
  PROVE  Doubled(d, i) \in [global_depth : {0, 1}, page_ids : [DirIndexes -> PageIds]]
  <1>1. DepthMask(0) = 0 /\ DepthMask(1) = 1
    BY DEF DepthMask
  <1> QED
    BY <1>1 DEF Doubled, LocalDepth

-----------------------------------------------------------------------------
LEMMA InitDir == Init => DirInv
  BY DirFacts DEF Init, DirInv, DirTypeOK, LiveInv, NoBucket, DirPage

LEMMA InsertDir ==
  ASSUME DirInv, NEW x \in Pairs, Insert(x)
  PROVE  DirInv'
  <1>1. x[1] \in Keys /\ CanInsert(x[1])
    BY DEF Pairs, Insert
  <1>2. /\ dir' = Located(x[1]).dir /\ next_page_id' = Located(x[1]).np
        /\ removed' = removed /\ faults' = faults /\ DOMAIN pages' = DOMAIN pages
    BY DEF Insert
  <1>3. removed \subseteq Nat /\ \A p \in removed : p < Located(x[1]).np
    <2>1. Located(x[1]).np \in {next_page_id, next_page_id + 1}
      BY <1>1, LocatedFacts
    <2>2. next_page_id \in Nat /\ removed \subseteq Nat /\ \A p \in removed : p < next_page_id
      BY DEF DirInv, DirTypeOK, LiveInv
    <2> QED
      BY <2>1, <2>2
  <1> QED
    BY <1>1, <1>2, <1>3, LocatedFacts DEF DirInv, DirTypeOK, LiveInv

LEMMA InsertSplitFailsDir ==
  ASSUME DirInv, NEW x \in Pairs, InsertSplitFails(x)
  PROVE  DirInv'
  <1>1. x[1] \in Keys /\ CanInsert(x[1])
    BY DEF Pairs, InsertSplitFails
  <1>2. /\ dir' = Located(x[1]).dir
        /\ next_page_id' \in {Located(x[1]).np + 1, Located(x[1]).np + 2}
        /\ removed' = removed /\ faults' = faults + 1 /\ DOMAIN pages' = DOMAIN pages
    BY DEF InsertSplitFails
  <1>3. removed \subseteq Nat /\ \A p \in removed : p < next_page_id'
    BY <1>1, <1>2, LocatedFacts DEF DirInv, DirTypeOK, LiveInv
  <1>4. \A p \in PageIds : p < Located(x[1]).np => p < next_page_id'
    BY <1>1, <1>2, LocatedFacts, DirFacts DEF DirInv, DirTypeOK
  <1>5. \A i \in DirIndexes : dir'.page_ids[i] \in PageIds
    BY <1>1, <1>2, LocatedFacts
  <1>6. LiveInv'
    BY <1>1, <1>2, <1>3, <1>4, <1>5, LocatedFacts DEF LiveInv
  <1>7. DirTypeOK'
    BY <1>1, <1>2, LocatedFacts DEF DirInv, DirTypeOK
  <1> QED
    BY <1>6, <1>7 DEF DirInv

LEMMA InsertSplitDir ==
  ASSUME DirInv, NEW x \in Pairs, InsertSplit(x)
  PROVE  DirInv'
  <1>1. x[1] \in Keys /\ CanInsert(x[1])
    BY DEF Pairs, InsertSplit
  <1> DEFINE at == Located(x[1])
             i0 == BucketIndex(x[1], dir)
             d  == Doubled(at.dir, i0)
             bit == LocalHighBit(i0)
  <1>2. /\ dir' = Redirected(d, FirstIndex(x[1], d, bit), bit, at.np, at.np + 1)
        /\ next_page_id' = at.np + 2
        /\ removed' = removed \cup {at.p} /\ faults' = faults
        /\ DOMAIN pages' = DOMAIN pages
    BY DEF InsertSplit, SplitPages
  <1>3. d \in [global_depth : {0, 1}, page_ids : [DirIndexes -> PageIds]]
    BY <1>1, LocatedFacts, DoubledType
  <1>4. at.np \in PageIds /\ at.np + 1 \in PageIds
    BY <1>1, LocatedFacts
  <1>5. /\ dir' \in [global_depth : {0, 1}, page_ids : [DirIndexes -> PageIds]]
        /\ \A i \in DirIndexes : dir'.page_ids[i] \in {at.np, at.np + 1}
    <2>1. d.global_depth \in {0, 1}
      BY <1>3
    <2> DEFINE r == Redirected(d, FirstIndex(x[1], d, LocalHighBit(i0)), LocalHighBit(i0),
                               at.np, at.np + 1)
    <2>2. /\ r \in [global_depth : {0, 1}, page_ids : [DirIndexes -> PageIds]]
          /\ \A i \in DirIndexes : r.page_ids[i] \in {at.np, at.np + 1}
      <3> HIDE DEF at, d, i0
      <3> QED
        BY <1>1, <1>3, <1>4, <2>1, RedirectedAll
    <2> QED
      BY <1>2, <2>2
  <1>6. at.p < at.np /\ at.p \in PageIds /\ at.np \in {next_page_id, next_page_id + 1}
    BY <1>1, LocatedFacts
  <1> HIDE DEF at, d, i0, bit
  <1>7. next_page_id \in Nat /\ at.np \in Nat /\ at.p \in Nat
    BY <1>4, <1>6, DirFacts DEF DirInv, DirTypeOK
  <1>8. DirTypeOK'
    <2>1. next_page_id' = at.np + 2 /\ removed' = removed \cup {at.p}
      BY <1>2
    <2>2. next_page_id' \in Nat \ {0}
      BY <1>7, <2>1
    <2>3. removed' \subseteq Nat
      BY <1>7, <2>1 DEF DirInv, DirTypeOK
    <2> QED
      BY <1>2, <1>5, <2>2, <2>3 DEF DirInv, DirTypeOK
  <1>9. \A p \in removed' : p < at.np
    BY <1>2, <1>6, <1>7 DEF DirInv, DirTypeOK, LiveInv
  <1>10. LiveInv'
    <2>1. \A p \in removed' : p < next_page_id'
      BY <1>2, <1>7, <1>8, <1>9 DEF DirTypeOK
    <2>2. at.np \notin removed' /\ at.np + 1 \notin removed'
      BY <1>7, <1>8, <1>9 DEF DirTypeOK
    <2> QED
      BY <1>2, <1>5, <1>7, <2>1, <2>2 DEF LiveInv
  <1> QED
    BY <1>8, <1>10 DEF DirInv

LEMMA StepDir == DirInv /\ [Next]_vars => DirInv'
  <1> SUFFICES ASSUME DirInv, [Next]_vars PROVE DirInv'
    OBVIOUS
  <1>1. ASSUME NEW k \in Keys, InsertFails(k) PROVE DirInv'
    <2>1. /\ UNCHANGED <<dir, pages, removed>> /\ next_page_id' = next_page_id + 1
          /\ faults' = faults + 1
      BY <1>1 DEF InsertFails
    <2>2. \A p \in Nat : p < next_page_id => p < next_page_id'
      BY <2>1 DEF DirInv, DirTypeOK
    <2>3. \A i \in DirIndexes : dir.page_ids[i] \in Nat
      BY DirFacts DEF DirInv, DirTypeOK
    <2>4. LiveInv'
      BY <2>1, <2>2, <2>3 DEF DirInv, DirTypeOK, LiveInv
    <2> QED
      BY <2>1, <2>4 DEF DirInv, DirTypeOK
  <1>2. ASSUME NEW k \in Keys, InsertPanics(k) \/ RemovePanics(k) PROVE DirInv'
    BY <1>2 DEF InsertPanics, RemovePanics, DirInv, DirTypeOK, LiveInv
  <1>3. ASSUME NEW x \in Pairs, Remove(x) PROVE DirInv'
    BY <1>3 DEF Remove, DirInv, DirTypeOK, LiveInv
  <1>4. CASE UNCHANGED vars
    BY <1>4 DEF vars, DirInv, DirTypeOK, LiveInv
  <1> QED
    BY <1>1, <1>2, <1>3, <1>4, InsertDir, InsertSplitDir, InsertSplitFailsDir
       DEF Next

(***************************************************************************)
(* No entry of the directory leads to a page that a split has removed, or  *)
(* that nobody made (extendible.rs:98), whatever the callers remove.       *)
(***************************************************************************)
THEOREM EntriesLiveCorrect == Spec => []EntriesLive
  <1>1. DirInv => EntriesLive
    BY DEF DirInv, LiveInv, EntriesLive, Entries, NoBucket, DirPage
  <1> QED
    BY <1>1, InitDir, StepDir, PTL DEF Spec

-----------------------------------------------------------------------------
\* Natural numbers are well-ordered: their initial segments are, by inclusion.
LEMMA LeastElement ==
  ASSUME NEW S \in SUBSET Nat, S # {}
  PROVE  \E m \in S : \A n \in S : m <= n
  <1> DEFINE Upto(n) == 0..n
             T == {Upto(n) : n \in S}
             R == StrictSubsetOrdering(Nat)
  <1>1. IsWellFoundedOn(R, FiniteSubsetsOf(Nat))
    BY FS_StrictSubsetOrderingWellFounded
  <1>2. T \subseteq FiniteSubsetsOf(Nat)
    <2>1. ASSUME NEW n \in S PROVE Upto(n) \in SUBSET Nat /\ IsFiniteSet(Upto(n))
      <3>1. 0 \in Int /\ n \in Int /\ 0..n \in SUBSET Nat
        OBVIOUS
      <3> QED
        BY <3>1, FS_Interval
    <2> HIDE DEF Upto
    <2> QED
      BY <2>1 DEF FiniteSubsetsOf
  <1>3. \E x \in T : \A y \in T : ~(<<y, x>> \in R)
    <2>1. T # {}
      OBVIOUS
    <2> HIDE DEF T, R
    <2> QED
      BY <1>1, <1>2, <2>1, WFMin
  <1>4. PICK m \in S : \A n \in S : ~(<<Upto(n), Upto(m)>> \in R)
    BY <1>3
  <1>5. ASSUME NEW n \in S, n < m PROVE FALSE
    <2>1. Upto(n) \in SUBSET Nat /\ Upto(m) \in SUBSET Nat
      OBVIOUS
    <2>2. Upto(n) \subseteq Upto(m) /\ m \in Upto(m) /\ m \notin Upto(n)
      BY <1>5
    <2>3. <<Upto(n), Upto(m)>> \in R
      <3> HIDE DEF Upto
      <3> QED
        BY <2>1, <2>2 DEF StrictSubsetOrdering
    <2> QED
      BY <2>3, <1>4
  <1> QED
    BY <1>5

LEMMA MinIsLeast ==
  ASSUME NEW S \in SUBSET Nat, S # {}
  PROVE  Min(S) \in S /\ \A n \in S : Min(S) <= n
  BY LeastElement DEF Min

(***************************************************************************)
(* The pigeonhole: while fewer than CAPACITY slots are used, the first one *)
(* that is free has a place in the page.                                   *)
(***************************************************************************)
LEMMA FreeSlotFits ==
  ASSUME CAPACITY < SLOTS,
         NEW occ \in SUBSET Cells, Cardinality(occ) < CAPACITY
  PROVE  Min(Slots \ occ) \in Cells
  <1>1. CAPACITY \in Nat /\ SLOTS \in Nat /\ Cells \subseteq Slots /\ Slots \subseteq Nat
    BY BucketSizesAssumption DEF Cells, Slots
  <1>2. IsFiniteSet(Cells) /\ Cardinality(Cells) = CAPACITY
    BY <1>1, FS_Interval DEF Cells
  <1>3. PICK c \in Cells : c \notin occ
    <2>1. occ # Cells
      BY <1>1, <1>2
    <2> QED
      BY <2>1
  <1>4. Slots \ occ \in SUBSET Nat /\ c \in Slots \ occ
    BY <1>1, <1>3
  <1>5. Min(Slots \ occ) \in Slots \ occ /\ Min(Slots \ occ) <= c
    BY <1>4, MinIsLeast
  <1> HIDE DEF Min
  <1> QED
    BY <1>1, <1>5 DEF Cells, Slots

(***************************************************************************)
(* Until a split, no page is fuller than its room, and no latch poisoned.  *)
(* Only a split that failed leaves a bucket full.                          *)
(***************************************************************************)
Unsplit == ~split /\ faults < 2

Fits(page) == /\ page.occupied \subseteq Cells
              /\ faults = 0 => Cardinality(page.occupied) < CAPACITY

RoomInv == Unsplit => poisoned = {} /\ \A p \in PageIds : Fits(pages[p])

LEMMA CellFacts ==
  /\ CAPACITY \in Nat /\ CAPACITY > 0
  /\ IsFiniteSet(Cells)
  /\ \A T : T \subseteq Cells => /\ IsFiniteSet(T) /\ Cardinality(T) \in Nat
                                 /\ \A U : U \subseteq T => Cardinality(U) <= Cardinality(T)
  <1>1. CAPACITY \in Nat /\ CAPACITY > 0
    BY BucketSizesAssumption
  <1>2. IsFiniteSet(Cells)
    BY <1>1, FS_Interval DEF Cells
  <1>3. ASSUME NEW T, T \subseteq Cells
        PROVE  /\ IsFiniteSet(T) /\ Cardinality(T) \in Nat
               /\ \A U : U \subseteq T => Cardinality(U) <= Cardinality(T)
    <2>1. IsFiniteSet(T)
      BY <1>2, <1>3, FS_Subset
    <2> QED
      BY <2>1, FS_Subset, FS_CardinalityType
  <1> QED
    BY <1>1, <1>2, <1>3

LEMMA InitRoom == Init => RoomInv
  BY CellFacts, FS_EmptySet DEF Init, RoomInv, Unsplit, Fits, EmptyPage

\* The page insert() leaves when it found a free slot.
LEMMA InsertedPage ==
  ASSUME NEW p, NEW x
  PROVE  /\ ToPage(With(p, x)).occupied
              = pages[p].occupied \cup {Min(Slots \ pages[p].occupied)}
         /\ With(p, x).occupied = pages[p].occupied \cup {Min(Slots \ pages[p].occupied)}
  BY DEF ToPage, With, BucketInsert, FromPage

LEMMA InsertRoom ==
  ASSUME CAPACITY < SLOTS, DirInv, RoomInv, NEW x \in Pairs, Insert(x)
  PROVE  RoomInv'
  <1> SUFFICES ASSUME Unsplit' PROVE poisoned' = {} /\ \A p \in PageIds : Fits(pages[p])'
    BY DEF RoomInv
  <1> DEFINE q == Located(x[1]).p
             new == ToPage(With(q, x))
  <1>1. /\ UNCHANGED <<poisoned, split, faults>> /\ Unsplit
        /\ pages' = [pages EXCEPT ![q] = new] /\ ~IsFull(With(q, x))
    BY DEF Insert, Unsplit
  <1>2. q \in PageIds
    BY LocatedFacts DEF Insert, Pairs
  <1>3. poisoned = {} /\ \A p \in PageIds : Fits(pages[p])
    BY <1>1 DEF RoomInv
  <1>4. new.occupied \subseteq Cells /\ Cardinality(new.occupied) < CAPACITY
    <2> DEFINE occ == pages[q].occupied
               m == Min(Slots \ occ)
    <2>0. new.occupied = occ \cup {m} /\ With(q, x).occupied = occ \cup {m}
      BY InsertedPage
    <2>1. occ \subseteq Cells
      BY <1>2, <1>3 DEF Fits
    <2>2. IsFiniteSet(occ) /\ Cardinality(occ) \in Nat
      BY <2>1, CellFacts
    <2>3. Cardinality(occ \cup {m}) \in Nat /\ Cardinality(occ) <= Cardinality(occ \cup {m})
      <3> HIDE DEF occ, m
      <3>1. IsFiniteSet(occ \cup {m})
        BY <2>2, FS_AddElement
      <3> QED
        BY <3>1, FS_Subset, FS_CardinalityType
    <2>4. Cardinality(occ \cup {m}) < CAPACITY
      <3> HIDE DEF occ, m
      <3> QED
        BY <1>1, <2>0, <2>3, CellFacts DEF IsFull
    <2>5. Cardinality(occ) < CAPACITY
      BY <2>2, <2>3, <2>4, CellFacts
    <2>6. m \in Cells
      <3> HIDE DEF occ
      <3> QED
        BY <2>1, <2>5, FreeSlotFits
    <2> HIDE DEF occ, m, new
    <2> QED
      BY <2>0, <2>1, <2>4, <2>6
  <1> QED
    BY <1>1, <1>2, <1>3, <1>4 DEF Fits, DirInv, DirTypeOK

\* A split that fails the first time leaves a page that is just full.
LEMMA InsertSplitFailsRoom ==
  ASSUME CAPACITY < SLOTS, DirInv, RoomInv, NEW x \in Pairs, InsertSplitFails(x)
  PROVE  RoomInv'
  <1> SUFFICES ASSUME Unsplit' PROVE poisoned' = {} /\ \A p \in PageIds : Fits(pages[p])'
    BY DEF RoomInv
  <1> DEFINE q == Located(x[1]).p
             new == ToPage(With(q, x))
  <1>1. /\ UNCHANGED <<poisoned, split>> /\ faults' = faults + 1
        /\ pages' = [pages EXCEPT ![q] = new]
    BY DEF InsertSplitFails
  <1>2. Unsplit /\ faults = 0 /\ faults' # 0
    BY <1>1 DEF Unsplit, DirInv, DirTypeOK
  <1>3. q \in PageIds
    BY LocatedFacts DEF InsertSplitFails, Pairs
  <1>4. poisoned = {} /\ \A p \in PageIds : Fits(pages[p])
    BY <1>2 DEF RoomInv
  <1>5. new.occupied \subseteq Cells
    <2> DEFINE occ == pages[q].occupied
    <2>1. occ \subseteq Cells /\ Cardinality(occ) < CAPACITY
      BY <1>2, <1>3, <1>4 DEF Fits
    <2>2. Min(Slots \ occ) \in Cells
      <3> HIDE DEF occ
      <3> QED
        BY <2>1, FreeSlotFits
    <2>3. new.occupied = occ \cup {Min(Slots \ occ)}
      BY InsertedPage
    <2> HIDE DEF occ, new
    <2> QED
      BY <2>1, <2>2, <2>3
  <1> QED
    BY <1>1, <1>2, <1>3, <1>4, <1>5 DEF Fits, DirInv, DirTypeOK

LEMMA RemoveRoom ==
  ASSUME DirInv, RoomInv, NEW x \in Pairs, Remove(x)
  PROVE  RoomInv'
  <1> SUFFICES ASSUME Unsplit' PROVE poisoned' = {} /\ \A p \in PageIds : Fits(pages[p])'
    BY DEF RoomInv
  <1> DEFINE q == PageOf(x[1])
             new == ToPage(BucketRemove(FromPage(pages[q]), x))
  <1>1. /\ UNCHANGED <<poisoned, split, faults>> /\ Unsplit
        /\ pages' = [pages EXCEPT ![q] = new]
    BY DEF Remove, Unsplit
  <1>2. q \in PageIds
    BY PageOfType DEF DirInv, Pairs
  <1>3. poisoned = {} /\ \A p \in PageIds : Fits(pages[p])
    BY <1>1 DEF RoomInv
  <1>4. new.occupied \subseteq pages[q].occupied
    BY DEF ToPage, BucketRemove, FromPage
  <1>5. /\ pages[q].occupied \subseteq Cells
        /\ faults = 0 => Cardinality(pages[q].occupied) < CAPACITY
    BY <1>2, <1>3 DEF Fits
  <1> HIDE DEF new, q
  <1>6. /\ Cardinality(new.occupied) <= Cardinality(pages[q].occupied)
        /\ Cardinality(pages[q].occupied) \in Nat /\ Cardinality(new.occupied) \in Nat
        /\ new.occupied \subseteq Cells
    BY <1>4, <1>5, CellFacts
  <1>7. faults = 0 => Cardinality(new.occupied) < CAPACITY
    BY <1>5, <1>6, CellFacts
  <1> QED
    BY <1>1, <1>2, <1>3, <1>6, <1>7 DEF Fits, DirInv, DirTypeOK

\* Until a split no call panics.
LEMMA NoPanic ==
  ASSUME CAPACITY < SLOTS, DirInv, RoomInv, Unsplit, NEW k \in Keys
  PROVE  Usable(PageOf(k))
  <1>1. PageOf(k) \in PageIds
    BY PageOfType DEF DirInv
  <1>2. poisoned = {} /\ Fits(pages[PageOf(k)])
    BY <1>1 DEF RoomInv
  <1>3. pages[PageOf(k)].occupied \subseteq Cells
    BY <1>2 DEF Fits
  <1>4. SLOTS \in Slots /\ SLOTS \notin Cells
    BY BucketSizesAssumption DEF Slots, Cells
  <1> QED
    BY <1>2, <1>3, <1>4 DEF Usable, Readable, HasFreeSlot, FromPage

LEMMA StepRoom ==
  ASSUME CAPACITY < SLOTS
  PROVE  DirInv /\ RoomInv /\ [Next]_vars => RoomInv'
  <1> SUFFICES ASSUME DirInv, RoomInv, [Next]_vars PROVE RoomInv'
    OBVIOUS
  <1>1. ASSUME NEW x \in Pairs, InsertSplit(x) PROVE RoomInv'
    BY <1>1 DEF InsertSplit, RoomInv, Unsplit
  <1>2. ASSUME NEW k \in Keys, InsertFails(k) PROVE RoomInv'
    <2>1. UNCHANGED <<pages, poisoned, split>> /\ faults' = faults + 1
      BY <1>2 DEF InsertFails
    <2>2. Unsplit' => Unsplit /\ faults' # 0
      BY <2>1 DEF Unsplit, DirInv, DirTypeOK
    <2> QED
      BY <2>1, <2>2 DEF RoomInv, Fits
  <1>3. ASSUME NEW k \in Keys, InsertPanics(k) \/ RemovePanics(k) PROVE RoomInv'
    <2>1. ~Usable(PageOf(k)) /\ UNCHANGED <<split, faults>>
      BY <1>3 DEF InsertPanics, RemovePanics, Usable
    <2> QED
      BY <2>1, NoPanic DEF RoomInv, Unsplit
  <1>4. CASE UNCHANGED vars
    BY <1>4 DEF vars, RoomInv, Unsplit, Fits
  <1> QED
    BY <1>1, <1>2, <1>3, <1>4, InsertRoom, InsertSplitFailsRoom, RemoveRoom
       DEF Next

(***************************************************************************)
(* is_full() splits a bucket before its page overflows (extendible.rs:60): *)
(* for pairs so large that a page has less room than a bucket has slots,   *)
(* no call panics and every page can be read until a split separates       *)
(* nothing or two splits fail, whatever the callers insert and remove.     *)
(***************************************************************************)
THEOREM PanicsOnlyAfterSplitsCorrect ==
  ASSUME CAPACITY < SLOTS
  PROVE  Spec => []PanicsOnlyAfterSplits
  <1>1. DirInv /\ RoomInv => PanicsOnlyAfterSplits
    <2> SUFFICES ASSUME DirInv, RoomInv, ~(split \/ faults >= 2)
                 PROVE  poisoned = {} /\ \A p \in Entries : Readable(pages[p])
      BY DEF PanicsOnlyAfterSplits
    <2>1. Unsplit
      BY DEF Unsplit, DirInv, DirTypeOK
    <2>2. Entries \subseteq PageIds
      BY DEF Entries, DirInv, DirTypeOK
    <2> QED
      BY <2>1, <2>2 DEF RoomInv, Fits, Readable
  <1> QED
    BY <1>1, InitDir, StepDir, InitRoom, StepRoom, PTL DEF Spec

-----------------------------------------------------------------------------
(***************************************************************************)
(* What get() finds.  The slots a bucket uses are the first n, but for one *)
(* that a remove() cleared, and their pairs have been inserted.  The page  *)
(* is written without gaps and read slot by slot, so with a second gap a   *)
(* pair would be read from the wrong place.                                *)
(***************************************************************************)
PageShape(page, p, gaps, inserted) ==
    \E n \in 0..SLOTS :
       /\ \/ page.occupied = 1..n
          \/ p \in gaps /\ \E j \in 1..n : page.occupied = (1..n) \ {j}
       /\ \A c \in Cells : c <= n => page.cells[c] \in inserted

ShapeInv == /\ ever \subseteq Pairs
            /\ \A p \in PageIds : PageShape(pages[p], p, holed, ever)

\* A page that was not handed out yet is empty.
FreshInv == \A p \in PageIds : p >= next_page_id => pages[p] = EmptyPage

\* Until a split there is one bucket, with as many of each pair as there should be.
Count(page, x) == Cardinality({s \in page.occupied : page.cells[s] = x})

FirstPage == dir.page_ids[0]

CountInv ==
    /\ table \in [Pairs -> Nat]
    /\ ~split => /\ dir.global_depth = 0
                 /\ FirstPage = NoBucket => \A x \in Pairs : table[x] = 0
                 /\ FirstPage # NoBucket /\ Readable(pages[FirstPage]) =>
                       \A x \in Pairs : table[x] = Count(pages[FirstPage], x)

FindInv == ShapeInv /\ FreshInv /\ CountInv

\* The n-th smallest of the first numbers is n.
LEMMA NthUpto ==
  ASSUME NEW m \in Nat, NEW c \in 1..m
  PROVE  Nth(1..m, c) = c
  <1>1. ASSUME NEW i \in 1..m PROVE Cardinality({j \in 1..m : j <= i}) = i
    <2>1. {j \in 1..m : j <= i} = 1..i
      OBVIOUS
    <2>2. 1 \in Int /\ i \in Int /\ i >= 1
      OBVIOUS
    <2>3. Cardinality(1..i) = i
      BY <2>2, FS_Interval
    <2> QED
      BY <2>1, <2>3
  <1>2. \E i \in 1..m : Cardinality({j \in 1..m : j <= i}) = c
    BY <1>1
  <1>3. Nth(1..m, c) \in 1..m /\ Cardinality({j \in 1..m : j <= Nth(1..m, c)}) = c
    BY <1>2 DEF Nth
  <1> QED
    BY <1>1, <1>3

\* A set has an n-th smallest element for every n up to its size.
LEMMA NthMember ==
  ASSUME NEW N \in Nat, NEW S \in SUBSET (1..N), NEW c \in 1..Cardinality(S)
  PROVE  Nth(S, c) \in S
  <1> DEFINE Below(i) == {j \in S : j <= i}
             A == {i \in Nat : Cardinality(Below(i)) >= c}
  <1>0. \A j \in S : j \in Nat /\ 1 <= j /\ j <= N
    OBVIOUS
  <1>1. IsFiniteSet(S)
    <2>1. 1 \in Int /\ N \in Int
      OBVIOUS
    <2>2. IsFiniteSet(1..N)
      BY <2>1, FS_Interval
    <2> QED
      BY <2>2, FS_Subset
  <1>2. \A i \in Nat : IsFiniteSet(Below(i)) /\ Cardinality(Below(i)) \in Nat
    <2>1. \A i \in Nat : Below(i) \in SUBSET S
      OBVIOUS
    <2> HIDE DEF Below
    <2> QED
      BY <1>1, <2>1, FS_Subset, FS_CardinalityType
  <1>3. N \in A
    <2>1. Below(N) = S
      BY <1>0
    <2>2. Cardinality(S) \in Nat /\ Cardinality(S) >= c
      BY <1>1, FS_CardinalityType
    <2> QED
      BY <2>1, <2>2
  <1>4. PICK m \in A : \A i \in A : m <= i
    BY <1>3, LeastElement
  <1>5. m \in Nat /\ Cardinality(Below(m)) >= c /\ c \in Nat /\ c >= 1
    BY <1>4
  <1>6. m # 0
    <2>1. \A j : j \notin Below(0)
      <3>1. \A j \in S : ~(j <= 0)
        BY <1>0
      <3> QED
        BY <3>1
    <2>2. Cardinality(Below(0)) = 0
      <3>1. Below(0) = {}
        <4> HIDE DEF Below
        <4> QED
          BY <2>1
      <3> QED
        BY <3>1, FS_EmptySet
    <2> HIDE DEF Below
    <2> QED
      BY <1>5, <2>2
  <1>7. m - 1 \in Nat /\ m - 1 \notin A
    <2>1. m - 1 \in Nat /\ ~(m <= m - 1)
      BY <1>5, <1>6
    <2> HIDE DEF A
    <2> QED
      BY <1>4, <2>1
  <1>8. ~(Cardinality(Below(m - 1)) >= c)
    BY <1>7
  <1>9. CASE m \notin S
    <2>1. Below(m) = Below(m - 1)
      <3>1. \A j \in S : j <= m <=> j <= m - 1
        BY <1>0, <1>5, <1>9
      <3> QED
        BY <3>1
    <2> HIDE DEF Below
    <2> QED
      BY <1>5, <1>8, <2>1
  <1>10. CASE m \in S
    <2>1. Below(m) = Below(m - 1) \cup {m} /\ m \notin Below(m - 1)
      <3>1. (\A j \in S : j <= m <=> j <= m - 1 \/ j = m) /\ ~(m <= m - 1)
        BY <1>0, <1>5
      <3> QED
        BY <1>10, <3>1
    <2>2. Cardinality(Below(m)) = Cardinality(Below(m - 1)) + 1
      <3> HIDE DEF Below
      <3> QED
        BY <1>2, <1>7, <2>1, FS_AddElement
    <2>3. Cardinality(Below(m)) = c
      <3> HIDE DEF Below
      <3> QED
        BY <1>2, <1>5, <1>7, <1>8, <2>2
    <2> QED
      BY <1>10, <2>3 DEF Nth
  <1> QED
    BY <1>9, <1>10

\* A bucket whose pairs fill its first m slots is written slot by slot.
LEMMA ToPageCells ==
  ASSUME NEW b, NEW m \in 0..SLOTS,
         \A i \in Slots : b.pairs[i] # NoPair <=> i <= m
  PROVE  /\ ToPage(b).occupied = b.occupied
         /\ \A c \in Cells : c <= m => ToPage(b).cells[c] = b.pairs[c]
  <1>1. SLOTS \in Nat /\ CAPACITY \in Nat
    BY BucketSizesAssumption
  <1>2. GetPairs(b) = 1..m
    BY <1>1 DEF GetPairs, Slots
  <1>3. Cardinality(1..m) = m
    <2>1. 1 \in Int /\ m \in Int
      BY <1>1
    <2> QED
      BY <1>1, <2>1, FS_Interval
  <1>4. ASSUME NEW c \in Cells, c <= m PROVE Packed(b, 1..m)[c] = b.pairs[c]
    <2>1. c \in 1..m /\ m \in Nat
      BY <1>1, <1>4 DEF Cells
    <2>2. Nth(1..m, c) = c
      BY <2>1, NthUpto
    <2> QED
      BY <1>3, <1>4, <2>2 DEF Packed
  <1> QED
    BY <1>2, <1>4 DEF ToPage

\* new is the page with a pair x more, in slot i.
AddsPair(page, i, x, new) ==
    /\ i \notin page.occupied /\ new.occupied = page.occupied \cup {i}
    /\ \A c \in Cells : c \in new.occupied =>
          new.cells[c] = IF c = i THEN x ELSE page.cells[c]

PairsFrom(b, E) == \A s \in GetPairs(b) : b.pairs[s] \in E

\* insert() closes the gap, or takes the slot behind the last.
LEMMA InsertedBucket ==
  ASSUME NEW page, NEW p, NEW gaps, NEW E \in SUBSET Pairs, NEW x \in Pairs,
         PageShape(page, p, gaps, E), Readable(page), page.occupied # Slots,
         NEW i, i = Min(Slots \ page.occupied),
         NEW b, b = BucketInsert(FromPage(page), x)
  PROVE  \E m \in 0..SLOTS :
            /\ i \in Slots /\ i \notin page.occupied
            /\ page.occupied \cup {i} = 1..m /\ b.occupied = 1..m
            /\ \A s \in Slots : b.pairs[s] =
                 IF s = i THEN x ELSE IF s <= m THEN page.cells[s] ELSE NoPair
            /\ \A s \in Slots : s <= m /\ s # i => page.cells[s] \in E
  <1> DEFINE occ == page.occupied
  <1>1. SLOTS \in Nat /\ CAPACITY \in Nat /\ Slots \subseteq Nat
    BY BucketSizesAssumption DEF Slots
  <1>2. PICK n \in 0..SLOTS :
           /\ \/ occ = 1..n
              \/ p \in gaps /\ \E j \in 1..n : occ = (1..n) \ {j}
           /\ \A c \in Cells : c <= n => page.cells[c] \in E
    BY DEF PageShape
  <1>3. i \in Slots \ occ /\ \A s \in Slots \ occ : i <= s
    <2>0. occ \subseteq Slots
      BY <1>1, <1>2 DEF Slots
    <2>1. Slots \ occ \in SUBSET Nat /\ Slots \ occ # {}
      BY <1>1, <2>0
    <2> QED
      BY <2>1, MinIsLeast
  <1>10. i \in Nat /\ 1 <= i /\ i <= SLOTS /\ i \notin occ
    BY <1>1, <1>3 DEF Slots
  <1>4. /\ b.occupied = occ \cup {i}
        /\ \A s \in Slots : b.pairs[s] =
              IF s = i THEN x ELSE IF s \in occ THEN page.cells[s] ELSE NoPair
    BY DEF BucketInsert, FromPage
  <1>5. \E m \in 0..SLOTS : occ \cup {i} = 1..m
    <2>1. CASE occ = 1..n
      <3>1. n < SLOTS
        BY <1>1, <1>2, <2>1 DEF Slots
      <3>2. n + 1 \in Slots \ occ
        BY <1>1, <2>1, <3>1 DEF Slots
      <3>3. i = n + 1
        <4>1. i <= n + 1 /\ n \in Nat
          BY <1>1, <1>3, <3>2
        <4>2. ~(i <= n)
          BY <1>10, <2>1, <4>1
        <4> QED
          BY <1>10, <4>1, <4>2
      <3>4. occ \cup {i} = 1..(n + 1) /\ n + 1 \in 0..SLOTS
        BY <1>1, <2>1, <3>1, <3>3
      <3> QED
        BY <3>4
    <2>2. CASE \E j \in 1..n : occ = (1..n) \ {j}
      <3>1. PICK j \in 1..n : occ = (1..n) \ {j}
        BY <2>2
      <3>2. j \in Slots \ occ
        BY <1>1, <3>1 DEF Slots
      <3>3. i = j
        <4>1. i <= j /\ n \in Nat /\ j \in Nat
          BY <1>1, <1>3, <3>2
        <4>2. ~(i < j)
          BY <1>10, <3>1, <4>1
        <4> QED
          BY <1>10, <4>1, <4>2
      <3>4. occ \cup {i} = 1..n
        BY <3>1, <3>3
      <3> QED
        BY <3>4
    <2> QED
      BY <1>2, <2>1, <2>2
  <1>6. PICK m \in 0..SLOTS : occ \cup {i} = 1..m
    BY <1>5
  <1>7. ASSUME NEW s \in Slots, s # i PROVE s \in occ <=> s <= m
    <2>1. s \in 1..m <=> s <= m
      BY <1>1 DEF Slots
    <2>2. s \in occ <=> s \in 1..m
      BY <1>6, <1>7
    <2> QED
      BY <2>1, <2>2
  <1>8. \A s \in occ : page.cells[s] \in E
    <2>1. \A s \in occ : s \in Cells /\ s <= n
      BY <1>2 DEF Readable
    <2> QED
      BY <1>2, <2>1
  <1>9. /\ i \in Slots /\ i \notin occ
        /\ occ \cup {i} = 1..m /\ b.occupied = 1..m
        /\ \A s \in Slots : b.pairs[s] =
              IF s = i THEN x ELSE IF s <= m THEN page.cells[s] ELSE NoPair
        /\ \A s \in Slots : s <= m /\ s # i => page.cells[s] \in E
    BY <1>3, <1>4, <1>6, <1>7, <1>8
  <1> QED
    BY <1>9

\* The page after an insert(): the pairs it had, and the new one.
LEMMA InsertedShape ==
  ASSUME NEW page, NEW p, NEW gaps, NEW E \in SUBSET Pairs, NEW x \in Pairs,
         PageShape(page, p, gaps, E), Readable(page), page.occupied # Slots,
         NEW i, i = Min(Slots \ page.occupied),
         NEW b, b = BucketInsert(FromPage(page), x),
         NEW new, new = ToPage(b)
  PROVE  /\ \A o, g : PageShape(new, o, g, E \cup {x})
         /\ PairsFrom(b, E \cup {x})
         /\ AddsPair(page, i, x, new)
  <1>1. SLOTS \in Nat /\ CAPACITY \in Nat
    BY BucketSizesAssumption
  <1>2. PICK m \in 0..SLOTS :
           /\ i \in Slots /\ i \notin page.occupied
           /\ page.occupied \cup {i} = 1..m /\ b.occupied = 1..m
           /\ \A s \in Slots : b.pairs[s] =
                IF s = i THEN x ELSE IF s <= m THEN page.cells[s] ELSE NoPair
           /\ \A s \in Slots : s <= m /\ s # i => page.cells[s] \in E
    BY InsertedBucket
  <1>3. i <= m
    <2>1. i \in 1..m
      BY <1>2
    <2> QED
      BY <1>1, <2>1
  <1>4. \A y \in E \cup {x} : y # NoPair
    BY NoPairAssumption DEF Pairs
  <1>5. \A s \in Slots : b.pairs[s] # NoPair <=> s <= m
    BY <1>2, <1>3, <1>4
  <1>6. /\ new.occupied = 1..m
        /\ \A c \in Cells : c <= m => new.cells[c] = b.pairs[c]
    BY <1>2, <1>5, ToPageCells
  <1>7. \A c \in Cells : c <= m => c \in Slots
    BY <1>1 DEF Cells, Slots
  <1>8. \A c \in Cells : c <= m => new.cells[c] = IF c = i THEN x ELSE page.cells[c]
    BY <1>2, <1>6, <1>7
  <1>9. \A c \in Cells : c <= m => new.cells[c] \in E \cup {x}
    BY <1>2, <1>7, <1>8
  <1>10. \A o, g : PageShape(new, o, g, E \cup {x})
    BY <1>6, <1>9 DEF PageShape
  <1>11. \A s \in GetPairs(b) : b.pairs[s] \in E \cup {x}
    BY <1>2, <1>5 DEF GetPairs
  <1>12. ASSUME NEW c \in Cells, c \in new.occupied
         PROVE  new.cells[c] = IF c = i THEN x ELSE page.cells[c]
    <2>1. c <= m
      BY <1>1, <1>6, <1>12
    <2> QED
      BY <1>8, <2>1
  <1> QED
    BY <1>2, <1>6, <1>10, <1>11, <1>12 DEF AddsPair, PairsFrom

\* new is the page without the pairs x.
DropsPair(page, x, new) ==
    /\ new.occupied = {s \in page.occupied : page.cells[s] # x}
    /\ \A s \in page.occupied : new.cells[s] = page.cells[s]

\* The page after a remove() of a pair that is there once: one gap.
LEMMA RemovedShape ==
  ASSUME NEW page, NEW p, NEW gaps, NEW E \in SUBSET Pairs, NEW x \in Pairs,
         PageShape(page, p, gaps, E), p \notin gaps, Readable(page),
         NEW b, b = FromPage(page), Cardinality(Matching(b, x)) <= 1,
         NEW new, new = ToPage(BucketRemove(b, x))
  PROVE  /\ \A g : p \in g => PageShape(new, p, g, E)
         /\ DropsPair(page, x, new)
  <1>1. SLOTS \in Nat /\ CAPACITY \in Nat
    BY BucketSizesAssumption
  <1>2. PICK n \in 0..SLOTS : /\ page.occupied = 1..n
                              /\ \A c \in Cells : c <= n => page.cells[c] \in E
    BY DEF PageShape
  <1> DEFINE r == BucketRemove(b, x)
             M == Matching(b, x)
  <1>3. /\ \A s \in Slots : b.pairs[s] = IF s <= n THEN page.cells[s] ELSE NoPair
        /\ b.occupied = 1..n
    <2>1. \A s \in Slots : s \in 1..n <=> s <= n
      BY <1>1 DEF Slots
    <2>2. \A s \in Slots : b.pairs[s] = IF s \in 1..n THEN page.cells[s] ELSE NoPair
      BY <1>2 DEF FromPage
    <2> QED
      BY <1>2, <2>1, <2>2 DEF FromPage
  <1>4. \A s \in 1..n : s \in Slots /\ s \in Cells /\ s <= n /\ page.cells[s] \in E
    <2>1. \A s \in 1..n : s \in Slots /\ s \in Cells /\ s <= n
      BY <1>1, <1>2 DEF Readable, Slots
    <2> QED
      BY <1>2, <2>1
  <1>5. x # NoPair /\ \A y \in E : y # NoPair
    BY NoPairAssumption DEF Pairs
  <1>6. \A s \in Slots : s <= n => s \in 1..n
    BY <1>1 DEF Slots
  <1>7. M = {s \in 1..n : page.cells[s] = x}
    BY <1>3, <1>4, <1>5, <1>6 DEF Matching
  <1>8. r.occupied = (1..n) \ M /\ r.pairs = b.pairs
    BY <1>3 DEF BucketRemove, FromPage
  <1>9. \A s \in Slots : r.pairs[s] # NoPair <=> s <= n
    BY <1>3, <1>4, <1>5, <1>6, <1>8
  <1> HIDE DEF r, M
  <1>10. new = ToPage(r)
    BY DEF r
  <1>11. /\ new.occupied = (1..n) \ M
         /\ \A c \in Cells : c <= n => new.cells[c] = r.pairs[c]
    BY <1>8, <1>9, <1>10, ToPageCells
  <1>12. \A c \in Cells : c <= n => c \in Slots
    BY <1>1 DEF Cells, Slots
  <1>13. \A c \in Cells : c <= n => new.cells[c] = page.cells[c]
    BY <1>3, <1>8, <1>11, <1>12
  <1>14. M = {} \/ \E j \in 1..n : M = {j}
    <2>1. M \subseteq 1..n
      BY <1>7
    <2>2. IsFiniteSet(M)
      <3>1. 1 \in Int /\ n \in Int
        BY <1>1
      <3>2. IsFiniteSet(1..n)
        BY <3>1, FS_Interval
      <3> QED
        BY <2>1, <3>2, FS_Subset
    <2>3. Cardinality(M) \in Nat /\ Cardinality(M) <= 1
      BY <2>2, FS_CardinalityType DEF M
    <2>4. Cardinality(M) = 0 \/ Cardinality(M) = 1
      BY <2>3
    <2> QED
      BY <2>1, <2>2, <2>4, FS_EmptySet, FS_Singleton
  <1>15. ASSUME NEW g, p \in g PROVE PageShape(new, p, g, E)
    <2>1. new.occupied = 1..n \/ \E j \in 1..n : new.occupied = (1..n) \ {j}
      BY <1>11, <1>14
    <2>2. \A c \in Cells : c <= n => new.cells[c] \in E
      BY <1>2, <1>13
    <2> QED
      BY <1>15, <2>1, <2>2 DEF PageShape
  <1>16. new.occupied = {s \in page.occupied : page.cells[s] # x}
    BY <1>2, <1>7, <1>11
  <1>17. \A s \in page.occupied : new.cells[s] = page.cells[s]
    BY <1>2, <1>4, <1>13
  <1> QED
    BY <1>15, <1>16, <1>17 DEF DropsPair

\* The page of a new bucket, filled with some pairs of another.
LEMMA FilledShape ==
  ASSUME NEW b, NEW E, NEW S \in SUBSET Slots, \A s \in S : b.pairs[s] \in E, NEW p, NEW gaps
  PROVE  PageShape(Filled(b, S), p, gaps, E)
  <1>1. SLOTS \in Nat /\ CAPACITY \in Nat
    BY BucketSizesAssumption
  <1>2. Cardinality(S) \in 0..SLOTS
    <2>1. 1 \in Int /\ SLOTS \in Int
      BY <1>1
    <2>2. IsFiniteSet(Slots) /\ Cardinality(Slots) = SLOTS
      BY <1>1, <2>1, FS_Interval DEF Slots
    <2>3. IsFiniteSet(S) /\ Cardinality(S) <= SLOTS
      BY <2>2, FS_Subset
    <2> QED
      BY <1>1, <2>3, FS_CardinalityType
  <1> DEFINE n == Cardinality(S)
             page == Filled(b, S)
  <1>3. page.occupied = 1..n /\ page.cells = Packed(b, S)
    BY DEF Filled
  <1>4. ASSUME NEW c \in Cells, c <= n PROVE Packed(b, S)[c] \in E
    <2>1. c \in 1..n /\ S \in SUBSET (1..SLOTS)
      BY <1>1, <1>2, <1>4 DEF Cells, Slots
    <2>2. Nth(S, c) \in S
      BY <1>1, <2>1, NthMember
    <2> QED
      BY <1>4, <2>2 DEF Packed
  <1> HIDE DEF n, page
  <1>5. n \in 0..SLOTS
    BY <1>2 DEF n
  <1> QED
    BY <1>3, <1>4, <1>5 DEF PageShape, page

LEMMA ShapeMonotone ==
  ASSUME NEW page, NEW p, NEW g, NEW h, NEW E, NEW F, PageShape(page, p, g, E),
         p \in g => p \in h, E \subseteq F
  PROVE  PageShape(page, p, h, F)
  BY DEF PageShape

\* An insert() adds one to the count of its pair, and nothing to the others.
LEMMA InsertedCount ==
  ASSUME NEW page, page.occupied \subseteq Cells, NEW new, NEW i, NEW x, NEW y,
         Readable(new), AddsPair(page, i, x, new)
  PROVE  /\ Count(page, y) \in Nat
         /\ Count(new, y) = IF y = x THEN Count(page, y) + 1 ELSE Count(page, y)
  <1> DEFINE Old == {s \in page.occupied : page.cells[s] = y}
             New == {s \in new.occupied : new.cells[s] = y}
  <1>1. \A s \in new.occupied : new.cells[s] = IF s = i THEN x ELSE page.cells[s]
    BY DEF Readable, AddsPair
  <1>2. New = IF y = x THEN Old \cup {i} ELSE Old
    BY <1>1 DEF AddsPair
  <1>3. IsFiniteSet(Old) /\ i \notin Old /\ Cardinality(Old) \in Nat
    BY CellFacts DEF AddsPair
  <1>4. Cardinality(Old \cup {i}) = Cardinality(Old) + 1
    <2> HIDE DEF Old
    <2> QED
      BY <1>3, FS_AddElement
  <1>5. Count(page, y) = Cardinality(Old) /\ Count(new, y) = Cardinality(New)
    BY DEF Count
  <1> HIDE DEF Old, New
  <1> QED
    BY <1>2, <1>3, <1>4, <1>5

\* A remove() leaves none of its pairs, and the others as they were.
LEMMA RemovedCount ==
  ASSUME NEW page, NEW new, NEW x, NEW y, DropsPair(page, x, new)
  PROVE  Count(new, y) = IF y = x THEN 0 ELSE Count(page, y)
  <1> DEFINE Old == {s \in page.occupied : page.cells[s] = y}
             New == {s \in new.occupied : new.cells[s] = y}
  <1>1. New = IF y = x THEN {} ELSE Old
    BY DEF DropsPair
  <1>2. Count(page, y) = Cardinality(Old) /\ Count(new, y) = Cardinality(New)
    BY DEF Count
  <1> HIDE DEF Old, New
  <1> QED
    BY <1>1, <1>2, FS_EmptySet

\* find() counts the slots in use that have the pair.
LEMMA FindCounts ==
  ASSUME NEW page, page.occupied \subseteq Slots, NEW k, NEW v \in Values \cup {ZeroPair[2]}
  PROVE  Find(FromPage(page), k)[v] = Count(page, <<k, v>>)
  <1>1. Matching(FromPage(page), <<k, v>>) \cap FromPage(page).occupied
           = {s \in page.occupied : page.cells[s] = <<k, v>>}
    BY DEF Matching, FromPage
  <1> QED
    BY <1>1 DEF Find, Count

LEMMA EmptyCounts == \A x : Count(EmptyPage, x) = 0
  <1>1. \A x : {s \in EmptyPage.occupied : EmptyPage.cells[s] = x} = {}
    BY DEF EmptyPage
  <1> QED
    BY <1>1, FS_EmptySet DEF Count

LEMMA EmptyShape == \A p, g, E : PageShape(EmptyPage, p, g, E)
  <1>1. SLOTS \in Nat /\ 0 \in 0..SLOTS
    BY BucketSizesAssumption
  <1>2. EmptyPage.occupied = 1..0
    BY DEF EmptyPage
  <1>3. \A c \in Cells : ~(c <= 0)
    BY BucketSizesAssumption DEF Cells
  <1> QED
    BY <1>1, <1>2, <1>3 DEF PageShape

\* A shallow directory leads every key to its first entry.
LEMMA FirstEntry ==
  ASSUME NEW k \in Keys \cup {ZeroPair[1]}, NEW d, d.global_depth = 0
  PROVE  BucketIndex(k, d) = 0
  <1>1. Hash(k) \in Nat /\ DepthMask(0) + 1 = 1
    BY DirAssumption DEF DepthMask
  <1>2. Hash(k) % 1 = 0 /\ 0 % DIR_SIZE = 0
    BY <1>1, DirFacts
  <1> QED
    BY <1>1, <1>2 DEF BucketIndex

-----------------------------------------------------------------------------
LEMMA InitFind == Init => FindInv
  <1> SUFFICES ASSUME Init PROVE FindInv
    OBVIOUS
  <1>1. ShapeInv
    BY EmptyShape DEF Init, ShapeInv
  <1>2. FreshInv
    BY DEF Init, FreshInv
  <1>3. CountInv
    BY DirFacts DEF Init, CountInv, FirstPage
  <1> QED
    BY <1>1, <1>2, <1>3 DEF FindInv

\* What an insert() that gets as far as its bucket does to the page.
LEMMA InsertPage ==
  ASSUME DirInv, ShapeInv, NEW x \in Pairs, CanInsert(x[1]),
         NEW q, q = Located(x[1]).p, NEW b, b = With(q, x), NEW new, new = ToPage(b)
  PROVE  /\ q \in PageIds /\ Readable(pages[q])
         /\ \A o, g : PageShape(new, o, g, ever \cup {x})
         /\ PairsFrom(b, ever \cup {x})
         /\ \E i : AddsPair(pages[q], i, x, new)
  <1>1. x[1] \in Keys
    BY DEF Pairs
  <1>2. q \in PageIds
    BY <1>1, LocatedFacts
  <1>3. Readable(pages[q]) /\ pages[q].occupied # Slots
    BY DEF CanInsert, Usable, HasFreeSlot, FromPage
  <1>4. PageShape(pages[q], q, holed, ever) /\ ever \in SUBSET Pairs
    BY <1>2 DEF ShapeInv
  <1>5. b = BucketInsert(FromPage(pages[q]), x)
    BY DEF With
  <1>7. PICK pg, i : pg = pages[q] /\ i = Min(Slots \ pg.occupied)
    OBVIOUS
  <1>8. /\ \A o, g : PageShape(new, o, g, ever \cup {x})
        /\ PairsFrom(b, ever \cup {x})
        /\ AddsPair(pg, i, x, new)
    <2>1. /\ PageShape(pg, q, holed, ever) /\ Readable(pg) /\ pg.occupied # Slots
          /\ i = Min(Slots \ pg.occupied) /\ b = BucketInsert(FromPage(pg), x)
      BY <1>3, <1>4, <1>5, <1>7
    <2> QED
      BY <1>4, <2>1, InsertedShape
  <1> QED
    BY <1>2, <1>3, <1>7, <1>8

\* An insert() that writes its bucket and splits nothing.
LEMMA InsertFind ==
  ASSUME DirInv, FindInv, NEW x \in Pairs, CanInsert(x[1]), Counted(x),
         NEW q, q = Located(x[1]).p,
         dir' = Located(x[1]).dir, pages' = [pages EXCEPT ![q] = ToPage(With(q, x))],
         next_page_id' \in Nat, next_page_id' >= Located(x[1]).np,
         holed' = holed \ {q}, split' = split
  PROVE  FindInv'
  <1>1. PICK new : new = ToPage(With(q, x))
    OBVIOUS
  <1>2. PICK i : /\ q \in PageIds /\ Readable(pages[q])
                 /\ \A o, g : PageShape(new, o, g, ever \cup {x})
                 /\ AddsPair(pages[q], i, x, new)
    BY <1>1, InsertPage DEF FindInv
  <1>3. \A p \in PageIds : pages'[p] = IF p = q THEN new ELSE pages[p]
    BY <1>1 DEF DirInv, DirTypeOK
  <1>4. ever' = ever \cup {x} /\ table' = [table EXCEPT ![x] = @ + 1]
    BY DEF Counted
  <1>5. x[1] \in Keys
    BY DEF Pairs
  <1>6. ShapeInv'
    <2>1. ASSUME NEW p \in PageIds PROVE PageShape(pages'[p], p, holed', ever')
      <3>1. CASE p = q
        <4>1. pages'[p] = new /\ PageShape(new, p, holed', ever \cup {x})
          BY <1>2, <1>3, <3>1
        <4> QED
          BY <1>4, <4>1
      <3>2. CASE p # q
        <4>1. PageShape(pages[p], p, holed, ever) /\ (p \in holed => p \in holed')
          BY <3>2 DEF FindInv, ShapeInv
        <4>2. PageShape(pages[p], p, holed', ever')
          BY <1>4, <4>1, <3>2, ShapeMonotone
        <4> QED
          BY <1>3, <3>2, <4>2
      <3> QED
        BY <3>1, <3>2
    <2> QED
      BY <1>4, <2>1 DEF FindInv, ShapeInv
  <1>7. FreshInv'
    <2>1. q < Located(x[1]).np /\ Located(x[1]).np \in {next_page_id, next_page_id + 1}
      BY <1>5, LocatedFacts
    <2>2. next_page_id \in Nat /\ q \in Nat /\ PageIds \subseteq Nat
      BY <1>2, DirFacts DEF DirInv, DirTypeOK
    <2>3. \A p \in PageIds : p >= next_page_id' => p # q /\ p >= next_page_id
      BY <2>1, <2>2
    <2> QED
      BY <1>3, <2>3 DEF FindInv, FreshInv
  <1>8. CountInv'
    <2>1. table \in [Pairs -> Nat] /\ table' \in [Pairs -> Nat]
      BY <1>4 DEF FindInv, CountInv
    <2> SUFFICES ASSUME ~split
                 PROVE  /\ dir'.global_depth = 0 /\ dir'.page_ids[0] = q /\ q # NoBucket
                        /\ Readable(new) => \A y \in Pairs : table'[y] = Count(new, y)
      BY <1>2, <1>3, <2>1 DEF CountInv, FirstPage
    <2>2. dir.global_depth = 0 /\ BucketIndex(x[1], dir) = 0 /\ PageOf(x[1]) = FirstPage
      BY <1>5, FirstEntry DEF FindInv, CountInv, PageOf, FirstPage
    <2>3. dir'.global_depth = 0 /\ q # NoBucket
      BY <1>5, <2>2, LocatedFacts
    <2>4. dir'.page_ids[0] = q /\ \A y \in Pairs : table[y] = Count(pages[q], y)
      <3>1. CASE FirstPage # NoBucket
        <4>1. q = FirstPage /\ dir' = dir
          BY <2>2, <3>1 DEF Located
        <4> QED
          BY <1>2, <3>1, <4>1 DEF FindInv, CountInv, FirstPage
      <3>2. CASE FirstPage = NoBucket
        <4>1. q = next_page_id /\ dir' = [dir EXCEPT !.page_ids[0] = next_page_id]
          BY <2>2, <3>2 DEF Located
        <4>2. dir'.page_ids[0] = q
          BY <4>1, DirFacts DEF DirInv, DirTypeOK
        <4>3. pages[q] = EmptyPage
          BY <1>2, <4>1 DEF FindInv, FreshInv, DirInv, DirTypeOK
        <4> QED
          BY <3>2, <4>2, <4>3, EmptyCounts DEF FindInv, CountInv
      <3> QED
        BY <3>1, <3>2
    <2>5. ASSUME Readable(new), NEW y \in Pairs PROVE table'[y] = Count(new, y)
      <3>1. Count(new, y) = IF y = x THEN Count(pages[q], y) + 1 ELSE Count(pages[q], y)
        BY <1>2, <2>5, InsertedCount DEF Readable
      <3> QED
        BY <1>4, <2>1, <2>4, <3>1
    <2> QED
      BY <2>3, <2>4, <2>5
  <1> QED
    BY <1>6, <1>7, <1>8 DEF FindInv

\* A split: both new pages have pairs of the bucket, and counts no longer hold.
LEMMA InsertSplitFind ==
  ASSUME DirInv, FindInv, NEW x \in Pairs, InsertSplit(x)
  PROVE  FindInv'
  <1>1. x[1] \in Keys /\ CanInsert(x[1]) /\ Counted(x) /\ split' = TRUE
    BY DEF Pairs, InsertSplit
  <1>2. PICK q, np, b, d, bit :
           /\ q = Located(x[1]).p /\ np = Located(x[1]).np /\ b = With(q, x)
           /\ pages' = [SplitPages(b, d, bit, np, np + 1) EXCEPT ![q] = ToPage(b)]
           /\ next_page_id' = np + 2 /\ holed' = holed \ {q}
    BY DEF InsertSplit
  <1>3. PICK new, low : new = ToPage(b) /\ low = Filled(b, LowPairs(b, d, bit))
    OBVIOUS
  <1>4. /\ q \in PageIds /\ PairsFrom(b, ever \cup {x})
        /\ \A o, g : PageShape(new, o, g, ever \cup {x})
    BY <1>1, <1>2, <1>3, InsertPage DEF FindInv
  <1>5. /\ q < np /\ np \in {next_page_id, next_page_id + 1} /\ np \in PageIds
        /\ np + 1 \in PageIds
    BY <1>1, <1>2, LocatedFacts
  <1>6. next_page_id \in Nat /\ q \in Nat /\ np \in Nat /\ PageIds \subseteq Nat
    BY <1>4, <1>5, DirFacts DEF DirInv, DirTypeOK
  <1>7. \A p \in PageIds : pages'[p] = IF p = q THEN new
                                       ELSE IF p \in {np, np + 1} THEN low ELSE pages[p]
    BY <1>2, <1>3, <1>5 DEF SplitPages, DirInv, DirTypeOK
  <1>8. \A o, g : PageShape(low, o, g, ever \cup {x})
    <2>1. LowPairs(b, d, bit) \in SUBSET Slots
      BY DEF LowPairs, GetPairs
    <2>2. \A s \in LowPairs(b, d, bit) : b.pairs[s] \in ever \cup {x}
      BY <1>4 DEF LowPairs, PairsFrom
    <2> QED
      BY <1>3, <2>1, <2>2, FilledShape
  <1>9. ever' = ever \cup {x} /\ table' = [table EXCEPT ![x] = @ + 1]
    BY <1>1 DEF Counted
  <1>10. ShapeInv'
    <2>1. ASSUME NEW p \in PageIds PROVE PageShape(pages'[p], p, holed', ever')
      <3>1. CASE p = q
        <4>1. pages'[p] = new /\ PageShape(new, p, holed', ever \cup {x})
          BY <1>4, <1>7, <3>1
        <4> QED
          BY <1>9, <4>1
      <3>2. CASE p # q /\ p \in {np, np + 1}
        <4>1. pages'[p] = low /\ PageShape(low, p, holed', ever \cup {x})
          BY <1>7, <1>8, <3>2
        <4> QED
          BY <1>9, <4>1
      <3>3. CASE p # q /\ p \notin {np, np + 1}
        <4>1. PageShape(pages[p], p, holed, ever) /\ (p \in holed => p \in holed')
          BY <1>2, <3>3 DEF FindInv, ShapeInv
        <4>2. PageShape(pages[p], p, holed', ever')
          BY <1>9, <4>1, ShapeMonotone
        <4> QED
          BY <1>7, <3>3, <4>2
      <3> QED
        BY <3>1, <3>2, <3>3
    <2> QED
      BY <1>9, <2>1 DEF FindInv, ShapeInv
  <1>11. FreshInv'
    <2>1. \A p \in PageIds : p >= next_page_id' =>
             p # q /\ p \notin {np, np + 1} /\ p >= next_page_id
      BY <1>2, <1>5, <1>6
    <2> QED
      BY <1>7, <2>1 DEF FindInv, FreshInv
  <1>12. CountInv'
    BY <1>1, <1>9 DEF FindInv, CountInv
  <1> QED
    BY <1>10, <1>11, <1>12 DEF FindInv

\* A remove() that takes out one pair, of a bucket without a gap.
LEMMA RemoveFind ==
  ASSUME DirInv, FindInv, NEW x \in Pairs, Remove(x), LeavesOneGap(x)
  PROVE  FindInv'
  <1>1. x[1] \in Keys
    BY DEF Pairs
  <1>2. PICK q, pg, b, new :
           /\ q = PageOf(x[1]) /\ pg = pages[q] /\ b = FromPage(pg)
           /\ new = ToPage(BucketRemove(b, x))
    OBVIOUS
  <1>3. /\ pages' = [pages EXCEPT ![q] = new] /\ table' = [table EXCEPT ![x] = 0]
        /\ holed' = holed \cup {q} /\ UNCHANGED <<dir, next_page_id, ever, split>>
        /\ q # NoBucket /\ Readable(pg)
    BY <1>2 DEF Remove, CanRemove
  <1>4. q \notin holed /\ Cardinality(Matching(b, x)) <= 1
    BY <1>2 DEF LeavesOneGap
  <1>5. q \in PageIds /\ q = dir.page_ids[BucketIndex(x[1], dir)]
        /\ BucketIndex(x[1], dir) \in DirIndexes
    BY <1>1, <1>2, PageOfType DEF DirInv, PageOf
  <1>6. PageShape(pg, q, holed, ever) /\ ever \in SUBSET Pairs
    BY <1>2, <1>5 DEF FindInv, ShapeInv
  <1>7. /\ \A g : q \in g => PageShape(new, q, g, ever)
        /\ DropsPair(pg, x, new)
    BY <1>2, <1>3, <1>4, <1>6, RemovedShape
  <1>8. \A p \in PageIds : pages'[p] = IF p = q THEN new ELSE pages[p]
    BY <1>3 DEF DirInv, DirTypeOK
  <1>9. ShapeInv'
    <2>1. ASSUME NEW p \in PageIds PROVE PageShape(pages'[p], p, holed', ever')
      <3>1. CASE p = q
        <4>1. pages'[p] = new /\ PageShape(new, q, holed', ever)
          BY <1>3, <1>7, <1>8, <3>1
        <4> QED
          BY <1>3, <3>1, <4>1
      <3>2. CASE p # q
        <4>1. PageShape(pages[p], p, holed, ever) /\ (p \in holed => p \in holed')
          BY <1>3 DEF FindInv, ShapeInv
        <4>2. PageShape(pages[p], p, holed', ever')
          BY <1>3, <4>1, ShapeMonotone
        <4> QED
          BY <1>8, <3>2, <4>2
      <3> QED
        BY <3>1, <3>2
    <2> QED
      BY <1>3, <2>1 DEF FindInv, ShapeInv
  <1>10. FreshInv'
    <2>1. q < next_page_id /\ q \in Nat /\ next_page_id \in Nat /\ PageIds \subseteq Nat
      BY <1>3, <1>5, DirFacts DEF DirInv, DirTypeOK, LiveInv
    <2>2. \A p \in PageIds : p >= next_page_id => p # q
      BY <2>1
    <2> QED
      BY <1>3, <1>8, <2>2 DEF FindInv, FreshInv
  <1>11. CountInv'
    <2>1. table \in [Pairs -> Nat] /\ table' \in [Pairs -> Nat]
      BY <1>3 DEF FindInv, CountInv
    <2> SUFFICES ASSUME ~split
                 PROVE  /\ dir.global_depth = 0 /\ FirstPage = q
                        /\ \A y \in Pairs : table'[y] = Count(new, y)
      BY <1>3, <1>5, <1>8, <2>1 DEF CountInv, FirstPage
    <2>2. dir.global_depth = 0 /\ FirstPage = q
      BY <1>1, <1>5, FirstEntry DEF FindInv, CountInv, FirstPage
    <2>3. \A y \in Pairs : table[y] = Count(pg, y)
      BY <1>2, <1>3, <2>2 DEF FindInv, CountInv, FirstPage
    <2>4. ASSUME NEW y \in Pairs PROVE table'[y] = Count(new, y)
      <3>1. Count(new, y) = IF y = x THEN 0 ELSE Count(pg, y)
        BY <1>7, RemovedCount
      <3> QED
        BY <1>3, <2>1, <2>3, <3>1
    <2> QED
      BY <2>2, <2>4
  <1> QED
    BY <1>9, <1>10, <1>11 DEF FindInv

\* As long as no remove() left a second gap in a bucket.
GapInv == ~gapped => FindInv

LEMMA StepFind == DirInv /\ GapInv /\ [Next]_vars => GapInv'
  <1> SUFFICES ASSUME DirInv, GapInv, [Next]_vars, ~gapped' PROVE FindInv'
    BY DEF GapInv
  <1>0. ~gapped /\ \A x \in Pairs : Remove(x) => LeavesOneGap(x)
    <2>1. ASSUME NEW x \in Pairs, Remove(x) PROVE ~gapped /\ LeavesOneGap(x)
      BY <2>1 DEF Remove
    <2>2. (\A x \in Pairs : ~Remove(x)) => gapped' = gapped
      BY DEF Next, Insert, InsertSplit, InsertSplitFails, InsertFails, InsertPanics,
             RemovePanics, vars
    <2> QED
      BY <2>1, <2>2
  <1> FindInv
    BY <1>0 DEF GapInv
  <1>1. ASSUME NEW x \in Pairs, Insert(x) PROVE FindInv'
    <2>1. PICK q : q = Located(x[1]).p
      OBVIOUS
    <2>2. CanInsert(x[1]) /\ Counted(x) /\ x[1] \in Keys
      BY <1>1 DEF Insert, Pairs
    <2>3. /\ dir' = Located(x[1]).dir /\ pages' = [pages EXCEPT ![q] = ToPage(With(q, x))]
          /\ next_page_id' = Located(x[1]).np /\ holed' = holed \ {q} /\ split' = split
      BY <1>1, <2>1 DEF Insert
    <2>4. Located(x[1]).np \in Nat
      BY <2>2, LocatedFacts DEF DirInv, DirTypeOK
    <2>5. next_page_id' \in Nat /\ next_page_id' >= Located(x[1]).np
      BY <2>3, <2>4
    <2> QED
      BY <2>1, <2>2, <2>3, <2>5, InsertFind
  <1>2. ASSUME NEW x \in Pairs, InsertSplitFails(x) PROVE FindInv'
    <2>1. PICK q : q = Located(x[1]).p
      OBVIOUS
    <2>2. CanInsert(x[1]) /\ Counted(x) /\ x[1] \in Keys
      BY <1>2 DEF InsertSplitFails, Pairs
    <2>3. /\ dir' = Located(x[1]).dir /\ pages' = [pages EXCEPT ![q] = ToPage(With(q, x))]
          /\ next_page_id' \in {Located(x[1]).np + 1, Located(x[1]).np + 2}
          /\ holed' = holed \ {q} /\ split' = split
      BY <1>2, <2>1 DEF InsertSplitFails
    <2>4. Located(x[1]).np \in Nat
      BY <2>2, LocatedFacts DEF DirInv, DirTypeOK
    <2>5. next_page_id' \in Nat /\ next_page_id' >= Located(x[1]).np
      BY <2>3, <2>4
    <2> QED
      BY <2>1, <2>2, <2>3, <2>5, InsertFind
  <1>3. ASSUME NEW k \in Keys, InsertFails(k) PROVE FindInv'
    <2>1. /\ UNCHANGED <<dir, pages, table, ever, split, holed>>
          /\ next_page_id' = next_page_id + 1
      BY <1>3 DEF InsertFails
    <2>2. \A p \in PageIds : p >= next_page_id' => p >= next_page_id
      BY <2>1, DirFacts DEF DirInv, DirTypeOK
    <2> QED
      BY <2>1, <2>2 DEF FindInv, ShapeInv, FreshInv, CountInv, FirstPage
  <1>4. ASSUME UNCHANGED <<dir, pages, next_page_id, table, ever, split, holed>>
        PROVE  FindInv'
    BY <1>4 DEF FindInv, ShapeInv, FreshInv, CountInv, FirstPage
  <1>5. ASSUME NEW k \in Keys, InsertPanics(k) \/ RemovePanics(k) PROVE FindInv'
    BY <1>4, <1>5 DEF InsertPanics, RemovePanics
  <1>6. CASE UNCHANGED vars
    BY <1>4, <1>6 DEF vars
  <1>7. ASSUME NEW x \in Pairs, Remove(x) PROVE FindInv'
    BY <1>0, <1>7, RemoveFind
  <1> QED
    BY <1>1, <1>2, <1>3, <1>5, <1>6, <1>7, InsertSplitFind DEF Next

(***************************************************************************)
(* get() returns every value of a key as often as it was inserted and not  *)
(* removed (extendible.rs:233), until a bucket is split, failed splits     *)
(* included, and as long as no remove() leaves a second gap in a bucket.   *)
(***************************************************************************)
THEOREM GetExactUntilSplitCorrect == Spec => []GetExactUntilSplit
  <1>1. DirInv /\ GapInv => GetExactUntilSplit
    <2> SUFFICES ASSUME DirInv, FindInv, ~split, \A p \in Entries : Readable(pages[p]),
                        NEW k \in Keys, NEW v \in Values
                 PROVE  Get(k)[v] = table[<<k, v>>]
      BY DEF GapInv, GetExactUntilSplit, ExactBeforeSplit, GetExact
    <2>1. PageOf(k) = FirstPage /\ <<k, v>> \in Pairs
      BY FirstEntry DEF FindInv, CountInv, PageOf, FirstPage, Pairs
    <2>2. CASE FirstPage = NoBucket
      <3>1. Get(k) = Find(FromPage(EmptyPage), k)
        BY <2>1, <2>2 DEF Get
      <3>2. EmptyPage.occupied \subseteq Slots
        BY DEF EmptyPage
      <3>3. Get(k)[v] = 0
        BY <3>1, <3>2, FindCounts, EmptyCounts
      <3> QED
        BY <2>1, <2>2, <3>3 DEF FindInv, CountInv
    <2>3. CASE FirstPage # NoBucket
      <3>1. FirstPage \in Entries /\ FirstPage \in PageIds
        BY <2>3, DirFacts DEF Entries, FirstPage, DirInv, DirTypeOK
      <3>2. pages[FirstPage].occupied \subseteq Slots
        <4>1. PageShape(pages[FirstPage], FirstPage, holed, ever)
          BY <3>1 DEF FindInv, ShapeInv
        <4> QED
          BY <4>1, BucketSizesAssumption DEF PageShape, Slots
      <3>3. Get(k) = Find(FromPage(pages[FirstPage]), k)
        BY <2>1, <2>3 DEF Get
      <3>4. Get(k)[v] = Count(pages[FirstPage], <<k, v>>)
        BY <3>2, <3>3, FindCounts
      <3> QED
        BY <2>1, <2>3, <3>1, <3>4 DEF FindInv, CountInv
    <2> QED
      BY <2>2, <2>3
  <1>2. Init => GapInv
    BY InitFind DEF GapInv
  <1> QED
    BY <1>1, InitDir, StepDir, <1>2, StepFind, PTL DEF Spec

(***************************************************************************)
(* get() returns no pair that nobody inserted, such as one read from a     *)
(* part of the page that was never written, splits or not, as long as no   *)
(* remove() leaves a second gap in a bucket.                               *)
(***************************************************************************)
THEOREM OnlyInsertedFoundCorrect == Spec => []OnlyInsertedFound
  <1>1. DirInv /\ GapInv => OnlyInsertedFound
    <2> SUFFICES ASSUME DirInv, FindInv, NEW k \in Keys \cup {ZeroPair[1]},
                        NEW v \in Values \cup {ZeroPair[2]},
                        PageOf(k) # NoBucket, Readable(pages[PageOf(k)]), Get(k)[v] > 0
                 PROVE  <<k, v>> \in ever
      BY DEF GapInv, OnlyInsertedFound
    <2>1. PICK pg : pg = pages[PageOf(k)]
      OBVIOUS
    <2>2. PageOf(k) \in PageIds
      BY PageOfType DEF DirInv
    <2>3. PageShape(pg, PageOf(k), holed, ever)
      BY <2>1, <2>2 DEF FindInv, ShapeInv
    <2>4. PICK n \in 0..SLOTS : /\ pg.occupied \subseteq 1..n
                                /\ \A c \in Cells : c <= n => pg.cells[c] \in ever
      BY <2>3 DEF PageShape
    <2>5. pg.occupied \subseteq Slots
      BY <2>4, BucketSizesAssumption DEF Slots
    <2>6. Count(pg, <<k, v>>) > 0
      BY <2>1, <2>5, FindCounts DEF Get
    <2>7. PICK s \in pg.occupied : pg.cells[s] = <<k, v>>
      <3> DEFINE S == {s \in pg.occupied : pg.cells[s] = <<k, v>>}
      <3>1. S # {}
        <4>1. Cardinality(S) > 0
          BY <2>6 DEF Count
        <4> HIDE DEF S
        <4> QED
          BY <4>1, FS_EmptySet
      <3> QED
        BY <3>1
    <2>8. s \in Cells /\ s <= n
      BY <2>1, <2>4, BucketSizesAssumption DEF Readable
    <2> QED
      BY <2>4, <2>7, <2>8
  <1>2. Init => GapInv
    BY InitFind DEF GapInv
  <1> QED
    BY <1>1, InitDir, StepDir, <1>2, StepFind, PTL DEF Spec
=============================================================================
