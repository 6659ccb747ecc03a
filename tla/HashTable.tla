----------------------------- MODULE HashTable ------------------------------
(***************************************************************************)
(* The extendible hash table, src/src/hash_table/extendible.rs, with its   *)
(* directory, dir_page.rs.                                                 *)
(*                                                                         *)
(* insert() holds the write latch of the directory from its first line to  *)
(* its last.  remove() and get() hold its read latch and the latch of one  *)
(* bucket, so calls on one bucket exclude each other, and every call is    *)
(* one step.  A call that fails before it changed anything is no step.  A  *)
(* panic poisons the write latches its thread holds.                       *)
(***************************************************************************)
EXTENDS Bucket

CONSTANTS Hash(_),     \* the hash of a key
          DIR_SIZE,    \* PAGE_IDS_SIZE_U32, the length of the directory
          PageIds,     \* pages the cache can hand out
          MaxCopies,   \* bound: copies of a pair that callers insert
          MaxFaults    \* bound: calls of new_page() that fail

ASSUME DirAssumption == /\ DIR_SIZE \in Nat \ {0}
                        /\ \A k \in Keys \cup {ZeroPair[1]} : Hash(k) \in Nat
                        /\ PageIds \subseteq Nat /\ 0 \in PageIds
                        /\ \A p \in PageIds : 0..p \subseteq PageIds

VARIABLES dir,           \* the directory, as written to its page
          pages,         \* the bucket pages
          next_page_id,  \* of the page cache
          removed,       \* pages given to remove_page()
          poisoned,      \* pages whose latch is poisoned
          table,         \* how often each pair is in the table for the callers
          ever,          \* pairs inserted at some time
          split,         \* whether a bucket was split yet
          holed,         \* buckets with a remove() after their last insert()
          gapped,        \* whether a remove() left more than one gap in a bucket
          faults         \* calls of new_page() that failed so far

vars == <<dir, pages, next_page_id, removed, poisoned,
          table, ever, split, holed, gapped, faults>>

NoBucket == 0   \* an entry of the directory that has no page
DirPage  == 0   \* the tests keep the directory in page 0

DirIndexes == 0..(DIR_SIZE - 1)

Init == /\ dir = [global_depth |-> 0, page_ids |-> [i \in DirIndexes |-> NoBucket]]
        /\ pages = [p \in PageIds |-> EmptyPage]
        /\ next_page_id = DirPage + 1
        /\ removed = {} /\ poisoned = {}
        /\ table = [x \in Pairs |-> 0]
        /\ ever = {} /\ split = FALSE /\ holed = {} /\ gapped = FALSE /\ faults = 0

-----------------------------------------------------------------------------
(***************************************************************************)
(* The directory.  No method assigns to local_depths, so they stay as they *)
(* were in the zeroed page, apart from the last four, whose bytes overlap  *)
(* the first page id and which no index below reaches.                     *)
(***************************************************************************)
LocalDepth(i) == 0

DepthMask(depth) == 2^depth - 1

LocalHighBit(i) == 2^LocalDepth(i)

HasBit(i, bit) == (i \div bit) % 2 = 1

\* hash & global_depth_mask, in the directory.
BucketIndex(k, d) == (Hash(k) % (DepthMask(d.global_depth) + 1)) % DIR_SIZE

PageOf(k) == dir.page_ids[BucketIndex(k, dir)]

\* The directory doubles when the bucket was as deep as it.
Doubled(d, i) ==
    IF DepthMask(LocalDepth(i)) = DepthMask(d.global_depth)
    THEN [d EXCEPT !.global_depth = @ + 1] ELSE d

FirstIndexOwn(k, d, bit) == BucketIndex(k, d)   \* mutant: the bits above are kept

\* The first entry that shares the bits of a key below the high bit.
FirstIndex(k, d, bit) == BucketIndex(k, d) % bit

\* The entries of the bucket that was split get one of the new pages.
Redirected(d, first, bit, p0, p1) ==
    [d EXCEPT !.page_ids = [i \in DirIndexes |->
        IF i >= first /\ (i - first) % bit = 0
        THEN IF HasBit(i, bit) THEN p0 ELSE p1
        ELSE @[i]]]

-----------------------------------------------------------------------------
(***************************************************************************)
(* insert().  at is the directory, the page of the bucket and the next id, *)
(* after a page was made for a bucket that had none.                       *)
(***************************************************************************)
Located(k) ==
    IF PageOf(k) # NoBucket THEN [dir |-> dir, p |-> PageOf(k), np |-> next_page_id]
    ELSE [dir |-> [dir EXCEPT !.page_ids[BucketIndex(k, dir)] = next_page_id],
          p |-> next_page_id, np |-> next_page_id + 1]

Usable(p) == p \notin poisoned /\ Readable(pages[p]) /\ HasFreeSlot(FromPage(pages[p]))

CanInsert(k) == /\ DirPage \notin poisoned
                /\ Usable(Located(k).p)
                /\ next_page_id + 3 \in PageIds

With(p, x) == BucketInsert(FromPage(pages[p]), x)

Counted(x) == /\ table[x] < MaxCopies
              /\ table' = [table EXCEPT ![x] = @ + 1]
              /\ ever' = ever \cup {x}

Insert(x) ==
    /\ CanInsert(x[1]) /\ Counted(x)
    /\ LET at == Located(x[1]) IN
         /\ ~IsFull(With(at.p, x))
         /\ dir' = at.dir
         /\ pages' = [pages EXCEPT ![at.p] = ToPage(With(at.p, x))]
         /\ next_page_id' = at.np
         /\ holed' = holed \ {at.p}
    /\ UNCHANGED <<removed, poisoned, split, gapped, faults>>

\* The slots whose pairs a split puts into its first new bucket.
LowPairs(b, d, bit) == {i \in GetPairs(b) : ~HasBit(BucketIndex(b.pairs[i][1], d), bit)}

\* Both new pages are written from the first bucket.
SplitPages(b, d, bit, p0, p1) ==
    LET low == Filled(b, LowPairs(b, d, bit))
    IN  [pages EXCEPT ![p0] = low, ![p1] = low]

InsertSplit(x) ==
    /\ CanInsert(x[1]) /\ Counted(x)
    /\ LET at  == Located(x[1])
           b   == With(at.p, x)
           i   == BucketIndex(x[1], dir)
           d   == Doubled(at.dir, i)
           bit == LocalHighBit(i)
       IN  /\ IsFull(b)
           /\ pages' = [SplitPages(b, d, bit, at.np, at.np + 1) EXCEPT ![at.p] = ToPage(b)]
           /\ dir' = Redirected(d, FirstIndex(x[1], d, bit), bit, at.np, at.np + 1)
           /\ next_page_id' = at.np + 2
           /\ removed' = removed \cup {at.p}
           /\ holed' = holed \ {at.p}
    /\ split' = TRUE
    /\ UNCHANGED <<poisoned, gapped, faults>>

(***************************************************************************)
(* No page for the split, the first or the second: insert() returns an     *)
(* error with the pair in its bucket and the deeper directory not written. *)
(***************************************************************************)
InsertSplitFails(x) ==
    /\ CanInsert(x[1]) /\ Counted(x)
    /\ faults < MaxFaults /\ faults' = faults + 1
    /\ LET at == Located(x[1]) IN
         /\ IsFull(With(at.p, x))
         /\ dir' = at.dir
         /\ pages' = [pages EXCEPT ![at.p] = ToPage(With(at.p, x))]
         /\ next_page_id' \in {at.np + 1, at.np + 2}
         /\ holed' = holed \ {at.p}
    /\ UNCHANGED <<removed, poisoned, split, gapped>>

\* No page for a bucket that has none.
InsertFails(k) ==
    /\ CanInsert(k) /\ PageOf(k) = NoBucket
    /\ faults < MaxFaults /\ faults' = faults + 1
    /\ next_page_id' = next_page_id + 1
    /\ UNCHANGED <<dir, pages, removed, poisoned, table, ever, split, holed, gapped>>

InsertPanics(k) ==
    /\ DirPage \notin poisoned
    /\ PageOf(k) # NoBucket /\ ~Usable(PageOf(k))
    /\ poisoned' = poisoned \cup {DirPage, PageOf(k)}
    /\ UNCHANGED <<dir, pages, next_page_id, removed,
                   table, ever, split, holed, gapped, faults>>

-----------------------------------------------------------------------------
CanRemove(k) == /\ DirPage \notin poisoned
                /\ PageOf(k) # NoBucket /\ PageOf(k) \notin poisoned

\* At most one gap: the remove() takes out one pair at most, and there was an
\* insert() since the last remove() came to the bucket.
LeavesOneGap(x) ==
    LET p == PageOf(x[1])
    IN  p \notin holed /\ Cardinality(Matching(FromPage(pages[p]), x)) <= 1

Remove(x) ==
    /\ CanRemove(x[1])
    /\ Readable(pages[PageOf(x[1])])
    /\ pages' = [pages EXCEPT ![PageOf(x[1])] = ToPage(BucketRemove(FromPage(@), x))]
    /\ table' = [table EXCEPT ![x] = 0]
    /\ holed' = holed \cup {PageOf(x[1])}
    /\ gapped' = (gapped \/ ~LeavesOneGap(x))
    /\ UNCHANGED <<dir, next_page_id, removed, poisoned, ever, split, faults>>

RemovePanics(k) ==
    /\ CanRemove(k)
    /\ ~Readable(pages[PageOf(k)])
    /\ poisoned' = poisoned \cup {PageOf(k)}
    /\ UNCHANGED <<dir, pages, next_page_id, removed,
                   table, ever, split, holed, gapped, faults>>

\* get(), for a bucket that it can read.
Get(k) == IF PageOf(k) = NoBucket THEN Find(FromPage(EmptyPage), k)
          ELSE Find(FromPage(pages[PageOf(k)]), k)

-----------------------------------------------------------------------------
Next == \/ \E x \in Pairs : \/ Insert(x) \/ InsertSplit(x) \/ InsertSplitFails(x)
                            \/ Remove(x)
        \/ \E k \in Keys : InsertFails(k) \/ InsertPanics(k) \/ RemovePanics(k)

Spec == Init /\ [][Next]_vars

-----------------------------------------------------------------------------
(***************************************************************************)
(* Properties.                                                             *)
(***************************************************************************)
Entries == {dir.page_ids[i] : i \in DirIndexes} \ {NoBucket}

\* get() returns every value of a key as often as it was inserted.
GetExact == \A k \in Keys, v \in Values : Get(k)[v] = table[<<k, v>>]

\* It does while no bucket was split and its page can be read.
ExactBeforeSplit ==
    ~split /\ (\A p \in Entries : Readable(pages[p])) => GetExact

(***************************************************************************)
(* It does (extendible.rs:233) until a bucket is split, failed splits      *)
(* included, and as long as no remove() leaves a second gap in a bucket,   *)
(* which happens to callers that remove a pair they inserted twice, or     *)
(* twice from one bucket without an insert() between.                      *)
(***************************************************************************)
GetExactUntilSplit == ~gapped => ExactBeforeSplit

(***************************************************************************)
(* get() returns no pair that nobody inserted, such as one read from a     *)
(* part of the page that was never written, splits or not, as long as no   *)
(* remove() leaves a second gap in a bucket.                               *)
(***************************************************************************)
OnlyInsertedFound == ~gapped =>
    \A k \in Keys \cup {ZeroPair[1]}, v \in Values \cup {ZeroPair[2]} :
        PageOf(k) # NoBucket /\ Readable(pages[PageOf(k)]) /\ Get(k)[v] > 0 => <<k, v>> \in ever

(***************************************************************************)
(* No entry of the directory leads to a page that a split has removed      *)
(* (extendible.rs:98), or to a page nobody made.                          *)
(***************************************************************************)
EntriesLive ==
    \A p \in Entries : p \notin removed /\ p < next_page_id /\ p # DirPage

(***************************************************************************)
(* is_full() splits a bucket before its page overflows (extendible.rs:60). *)
(* It takes a split that separates nothing, or two splits that fail, to    *)
(* get a page with more pairs than it has room for, which no call can read *)
(* without a panic.  This is for pairs so large that CAPACITY < SLOTS.     *)
(***************************************************************************)
PanicsOnlyAfterSplits ==
    poisoned # {} \/ (\E p \in Entries : ~Readable(pages[p])) => split \/ faults >= 2
=============================================================================
