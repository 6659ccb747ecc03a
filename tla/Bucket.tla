------------------------------- MODULE Bucket -------------------------------
(***************************************************************************)
(* A bucket page of the hash table, src/src/hash_table/bucket_page.rs.  A  *)
(* bucket in memory is an array of SLOTS optional pairs and a bitmap of    *)
(* the slots in use; its page has room for CAPACITY pairs.  Slots count    *)
(* from 1.  The second bitmap, readable, is set and cleared with the first *)
(* and written as a copy of it, so it is left out.                         *)
(***************************************************************************)
EXTENDS Integers, Sequences, FiniteSets, FiniteSetsExt

CONSTANTS Keys, Values,
          SLOTS,      \* length of the array of pairs, and bits of a bitmap
          CAPACITY,   \* pairs that fit a page, (PAGE_SIZE - 128) / size of a pair
          ZeroPair,   \* the pair that zero bytes read as
          NoPair      \* None

ASSUME BucketSizesAssumption == {SLOTS, CAPACITY} \subseteq Nat \ {0}
ASSUME NoPairAssumption == NoPair \notin (Keys \X Values) \cup {ZeroPair}

Pairs == Keys \X Values
Slots == 1..SLOTS
Cells == 1..CAPACITY

BucketPages == [occupied : SUBSET Slots, cells : [Cells -> Pairs \cup {ZeroPair}]]

\* A page as new_page() returns it.
EmptyPage == [occupied |-> {}, cells |-> [c \in Cells |-> ZeroPair]]

(***************************************************************************)
(* Bucket::from(&PageBuf).  Every slot has its own place in the page, used *)
(* or not.  A used slot that lies behind the end of the page makes the     *)
(* call panic.                                                             *)
(***************************************************************************)
Readable(page) == page.occupied \subseteq Cells

FromPage(page) ==
    [occupied |-> page.occupied,
     pairs    |-> [i \in Slots |-> IF i \in page.occupied THEN page.cells[i] ELSE NoPair]]

\* The slots that have a pair.
GetPairs(b) == {i \in Slots : b.pairs[i] # NoPair}

(***************************************************************************)
(* PageBuf::from(&Bucket).  The pairs there are go one behind the other,   *)
(* without a place for the slots that have none, up to the end of the page.*)
(***************************************************************************)
Nth(S, n) == CHOOSE i \in S : Cardinality({j \in S : j <= i}) = n

Packed(b, S) == [c \in Cells |-> IF c <= Cardinality(S) THEN b.pairs[Nth(S, c)] ELSE ZeroPair]

ToPage(b) == [occupied |-> b.occupied, cells |-> Packed(b, GetPairs(b))]

\* insert scans for the first free slot, and panics when there is none.
HasFreeSlot(b) == b.occupied # Slots

BucketInsert(b, pair) ==
    LET i == Min(Slots \ b.occupied)
    IN  [occupied |-> b.occupied \cup {i}, pairs |-> [b.pairs EXCEPT ![i] = pair]]

\* The slots remove clears: their pairs stay in the array.
Matching(b, pair) == {i \in Slots : b.pairs[i] = pair}

\* Mutants: no bit is cleared; the pair is taken out of the array too.
BucketRemoveNothing(b, pair) == b

BucketRemoveClears(b, pair) ==
    [occupied |-> b.occupied \ Matching(b, pair),
     pairs    |-> [i \in Slots |-> IF b.pairs[i] = pair THEN NoPair ELSE b.pairs[i]]]

BucketRemove(b, pair) == [b EXCEPT !.occupied = @ \ Matching(b, pair)]

\* find, as the number of times each value is returned.
Find(b, k) ==
    [v \in Values \cup {ZeroPair[2]} |-> Cardinality(Matching(b, <<k, v>>) \cap b.occupied)]

IsFullLate(b) == Cardinality(b.occupied) > CAPACITY   \* mutant: off by one

IsFull(b) == Cardinality(b.occupied) >= CAPACITY

\* The page of a new bucket after the inserts of the pairs in some slots of b.
Filled(b, S) == [occupied |-> 1..Cardinality(S), cells |-> Packed(b, S)]
=============================================================================
