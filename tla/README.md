# A TLA+ verification of dbstorage

dbstorage is the storage layer of a small database in Rust: a page cache over a
disk file, and on top of it tables, B+ trees, an extendible hash table and a
catalog. The code has no prose documentation; its intent is in assertions,
comments and unit tests, and those are what the properties below quote. Paths
such as `page_cache.rs:193` are relative to `src/src/`.

## 1. The system

| Component | State | Operations | Works with |
|---|---|---|---|
| LRU-K replacer (`replacer.rs`) | per frame a history of timestamps and a pin counter; a clock | `record_access`, `pin`, `unpin`, `remove`, `evict` | called by the cache and by every `Pin` that is dropped; one mutex around all of it |
| Free list (`page_cache.rs:16-72`) | an array of frame ids in an `UnsafeCell`, an atomic top index | `pop`, `push` (compare-exchange loops) | `try_get_page` pops, `remove_page` pushes |
| Page cache (`page_cache.rs`) | frames with a latch each, `page_table`, `next_page_id`, free list, replacer | `new_page`, `fetch_page`, `remove_page`, `flush_page`, `flush_all_pages`; `Pin::write`, `Pin::drop` | everything above it holds `Pin`s; it calls the disk |
| Pages, disks (`page.rs`, `disk.rs`) | id, dirty flag, data; a file | `writep!`, `reset`, `read_page`, `write_page` | |
| Table (`table/list.rs`, `table/node.rs`) | a chain of slotted pages, `last_page_id` in a mutex | `insert`, `get`, `iter`, `next` | `new_page`, `fetch_page`, page latches |
| Tuples and schemas (`table/tuple.rs`, `catalog.rs:19-144`) | bytes of a fixed part and of strings behind it | `TupleBuilder`, `Tuple::from`, `Value::from`, `Comparand`, `next`; `filter` and `compact` of a schema | tables, B+ trees, catalog |
| B+ tree (`btree/`) | nodes in pages, the id of the root | `insert`, `get`, `scan`, `range`, `delete` | `new_page`, `fetch_page`, page latches; keys are tuples |
| Extendible hash table (`hash_table/`) | a directory page and bucket pages | `insert`, `remove`, `get` | also `remove_page`, as its only caller |
| Bitmap (`bitmap.rs`) | bits | `set`, `clear`, `check` | buckets of the hash table |
| Catalog (`catalog.rs`) | tables and indexes by name and oid, two counters | `create_table`, `create_index`, look-ups | creates tables and B+ trees |

What is hard about it, and what makes each part correct:

- **Replacer.** Timestamps are unique; a victim is found whenever a tracked frame
  is not pinned. `unpin` subtracts from whatever the counter is: that no `Pin` is dropped
  at 0 is up to the page cache.
- **Free list.** A claim and the access to the claimed slot are two steps. Each
  frame has one owner, `push` never meets a full list, the loops end.
- **Page cache.** Locks are taken in different orders by different calls;
  decisions (the page is not cached, the frame is not pinned) are taken under one
  lock and used under another; callers keep latches and `Pin`s across calls; a disk call
  may fail in the middle. A page is never swapped out under a `Pin`, all `Pin`s of a page
  read the same contents, no pin counter is decremented at 0, no frame is lost,
  `OutOfMemory` tells the truth, and a restart finds what was flushed.
- **Table.** Iterators walk pages that inserts fill, with no lock between their
  steps. Tuples read back, pages do not overflow, an iterator returns a prefix of
  the inserts and ends; errors of the cache neither lose tuples silently nor
  repeat them.
- **Tuples.** Offsets of strings are written late and move when columns are cut
  away. A tuple reads as it was built, `==` on bytes agrees with `<` on values, and
  `next` bounds the keys up to it.
- **B+ tree.** The bounds in internal nodes and the leaves below them are changed
  at different times, a delete changes no bound, and an insert can fail or panic
  between two writes. The tree behaves as a map, nodes fit their pages, leaves are
  on one level, a scan beside deletes misses nothing that stays, and a failed
  insert loses as little as can be.
- **Hash table.** Splits that keep every pair.
- **Catalog.** Names of tables and of indexes share a look-up, and a call can fail
  in the middle. Names lead to what was created under them, and an index has what
  its table held.

The list of hazards with their lines is `hazards` in `PROJECT.json`.

## 2. Modules

```
PinTable <- ReplacerSpec <== Replacer  <- MCReplacer, ReplacerProofs
   ^          FramePool  <== FreeList  <- FreeListProofs
   |                            "<-" is EXTENDS, "<==" is "implemented by"
   +--- PageCache <- MCPageCache                        (calls one after another)
   |              <- PageCacheProofs
   +--- PageCacheThreads <- MCPageCacheThreads          (lock by lock)
                         <- PageCacheThreadsProofs
Pages <- PageStore <== PageCache
TableNode <- TableList <- MCTableList, TableListProofs
Tuple <- TupleLife <- MCTuple
Tuple <- BTreeNode <- BTree <- MCBTree, BTreeProofs
         BTreeNode <- Catalog <- MCCatalog, CatalogProofs
Tuple <- CatalogSpec <== Catalog
Bucket <- HashTable <- MCHashTable, HashTableProofs
```

**PinTable** has the pin counters as functions of counters. It is what
`PageCache` and `PageCacheThreads` use of the replacer; **ReplacerSpec** turns it
into a state machine, and **Replacer**, the code with histories and distances, is
shown to implement that. So the cache is checked against the replacer's
interface, and the interface against the replacer. `HashMap` iteration order is
arbitrary, hence `EvictResults` is a set. Counters are `u64` of size `MaxU64` and
wrap as in a release build (a dev build panics there). The replacer alone promises
nothing about that; `PinsCounted` of `PageCache` says that no drop meets a counter at 0.

**FreeList** has one action per atomic access: load, failed and successful
exchange, slot access. Accesses to the `UnsafeCell` race in the code; the model
gives a reader the old or the new value of a slot. `Spec` has a phase of pops and a phase
of pushes, as `test_free_list` has, and never a push beside a pop: nothing in the code
keeps those apart, and what happens then is `MCFreeListMixed`. **FramePool** is the pool it
should be.

**PageCache** has a whole call per action, with the calls' early returns on disk
errors as actions of their own (`NewPageFails`, the failing half of
`FetchPageMiss`, `FlushAllPagesFails`) and with `Restart`: the cache's memory is
lost, and the disk and the counter stay. The callers appear through the `Pin`s
they hold (`held`) and the ids they know (`known`); `stuck` records the frames a
failed write-back left pinned by nobody. Calls do not overlap, and after `remove_page` its
caller drops the `Pin` it still has (`late`, `LateDrop`) before the next call, as
`ExtendibleHashTable::insert` does at its end; with other calls in between, the drop meets
the frame's next owner, which is a matter of threads. `ReadFault` is the read that fails:
`SpecReadFaults` has it and `Spec` does not, since after it pins protect nothing
(finding 1). **PageStore** is the abstract
specification: pages with contents, contents that survive a restart, and no frame.

**PageCacheThreads** splits each call at every lock it waits for, those of `Pin::write`,
`Pin::read` and a `Pin`'s drop included. `pc` says where a thread is; `page_lock` and
`page_readers` have the holders of a frame's latch, `replacer_lock` that of the mutex, and
`Readers` and `Queued` of the `page_table` lock are functions of `pc`. A
waiting writer blocks new readers, as std's `RwLock` does. Guard lifetimes follow
the code: the read guard of a `match` or `if let` scrutinee lives to the end of
it, `self.replacer` calls lock and unlock. A caller keeps the guards of its pages across
other calls, as trees and tables do, and may want the latch of any frame it has a `Pin`
for. `LatchPanics` is the assertion of `Pin::write`; `Pin::read` has none. All calls overlap;
`races` is a ghost variable that remembers which of three things has happened: a frame that
`evict()` named was pinned or removed before it was latched (`"stolen"`), a page was loaded
into a second frame (`"loaded_twice"`), the `Pin` of a removed page was dropped when its
frame had a new owner (`"late_drop"`). No guard reads it.

**TableNode** has the slotted page: `next_tuple_offset`, `insert`, `get` and the encoding to
bytes, with a tuple as that many cells. **TableList** has inserts as single steps (they hold
the mutex and the latch throughout) and iterators as a step per latch. A panic poisons the
locks of its thread, and whoever takes one later panics. The poisoned latch is that of a
frame, and the frame keeps its page: to swap it out `try_get_page` would have to take the
latch, and panics there (`page_cache.rs:196`); tables remove no page. So `poisoned` is a set
of pages. `offset - tuple_data.len()` is a panic when negative, as in the dev and test
profiles.

**Tuple** has schemas and the codec as operators on sequences of bytes. A byte has
`BASE` values, so that integers and 16-bit offsets reach their ends with small
numbers. **TupleLife** is the life of one tuple: values are added, it is built, cut
down to some of its columns or read back with other bytes behind it (`Project`),
and incremented.

**BTreeNode** has the operations on one node, with keys as sequences of values and the types
of their columns in the node. Sizes are those of the code up to `PAGE_SIZE` and the header.
**BTree** has the tree: `insert`, `get` and `delete` are one step each, since `insert` takes
the tree as `&mut` and the others keep the latches of their path; a scan is a step per node
(`ScanNode`), since it lets go of what is behind it, and deletes run beside it. `Inserted`
carries an insert through its writes, so that the call of the page cache that fails
(`InsertFails`) and the panic of `Tuple::next` leave what the code leaves: `status` says
whether the upper half of a split was lost (`"torn"`). A node that outgrows its page is a
panic too, in `PageBuf::from` (`btree/node.rs:123`): `Oversized` in `Left`. The code's
recursion is written as functions that a number of calls bounds (`below`, `down`, `from`,
`range`): the calls of the page cache that an insert may make (`MaxCalls`), and the number
of pages, since no walk meets a page twice. `SkipBelow` and `TakeBefore` are `skip_while`
and `take_while` of `range` on a leaf. `map` is the reference: what callers wrote last.
`Get`, `Scan` and `RangeOf` walk the nodes as the code does and are compared with `map` in
every state.

**Catalog** has the maps of `catalog.rs` and composes tuples, tables and trees: a
table is the sequence of its tuples' bytes, `create_index` cuts each one down with
`Tuple::from`, reads it with the index's schema and inserts it. The schema is the
caller's (`catalog.rs:242`), of this table or of another one; a row that cannot be cut with
it is a panic that leaves the catalog as it was. Since `RId`s have
8 bytes and a pointer is decoded from as many (`btree/slot.rs:52`), a tree of them
is not usable any more once its first leaf is split, so a tree is its one or two leaves
(`TreeInsert`). A panic with a latch held ends the model (`broken`); other errors
leave the catalog as it is or an oid spent. **CatalogSpec** is what callers may
expect: names, rows, and indexes with the last row of every key, in order, as long
as the keys stay below the number that splits a leaf, the key columns being the table's.

**Bucket** has the bucket page with its bitmap: a slot keeps its place when the
page is read, and pairs close ranks when it is written. **HashTable** has the
directory and the calls, one step each, since insert holds the directory's write
latch and remove the bucket's. Local depths are 0 throughout: nothing assigns to
them. Callers insert and remove what they please. `table` is the reference, a bag of pairs,
and `gapped` remembers that some `remove()` may have left a second gap: it took two pairs
out of a bucket, or came to one without an insert since the last `remove()`. No guard
reads it. `new_page` may fail in an insert;
a page with more used slots than fit makes the next reader panic, which poisons
the latches of an insert or a remove.

## 3. Runs

| Run | Instance | What it shows |
|---|---|---|
| `replacer` | 3 frames, k = 2, 5 timestamps | `ClockInv`: no timestamp twice. `EvictFailsOnlyIfAllPinned`. `RefinesReplacerSpec`. |
| `free_list` | 3 threads, 3 frames, pops and pushes in separate phases as in `test_free_list`, no push beside a pop | `NoFrameHandedOutTwice`, `PushHasRoom`, `RefinesFramePool`, and `CallsReturn` under fairness. |
| `page_cache` | 2 frames, 3 pages (one from an earlier run of the program), 3 contents | `PinsCounted`, `PinProtected`, `OutOfMemoryOnlyIfPinned`, `FramesAccountedFor`, the inductive invariant `IInv`, `RefinesPageStore`, `FlushAllIsDurable`; disk writes fail, the program restarts. |
| `page_cache_read_faults` | the same, and disk reads fail | **violation** of `PinProtected`: finding 1. |
| `threads` | 2 threads with up to 2 `Pin`s each, 2 frames, 3 pages, all calls side by side | `PinProtectedUntilRace` and `PinReadsLatestWriteUntilRace`: the three races are the only ways to lose a page under a `Pin`. `OnlyKnownDeadlocks`: threads wait for each other around `page_table`, by crossed latches of their callers, or for a frame pinned and latched after `evict()` named it, and for no other reason, races or not. |
| `threads_pins` | one `Pin` each | **violation** of `PinProtected`: finding 2. |
| `table_list` | 4 inserts of lengths 1, 4, 6 on pages of 7 bytes, one iterator, one failing call | `ReadsBack`, `SlotsBelowTuples`, `IterIsSnapshot`, `IterPanicsOnlyIfPoisoned`, `IterEnds` under fairness. |
| `tuple` | up to 3 columns of 5 types, integers at both ends of their type, strings of up to 2 characters, any columns cut away, again and again | `ReadsAsBuilt`, `EqAgreesWithCmp`, `NextIsBound`. |
| `btree` | 8 keys in any order, the 8 largest of their type, nodes that split at 3 slots; one failing call; then deletes, one of them beside a scan | `GetExact`, `ScanExact`, `RangeExactWhileFilling`, `ScanBesideDeletes`, `LosesNeighbours`, `NodesFitPage`, `PanicsOnlyAtLargestKey`. |
| `catalog` | 2 tables, 2 schemas, 3 rows, 2 indexes, one with the name of a table, created with the table's schema or the other one; two keys of two columns split a leaf, three long strings overflow it | `NamesAgree`, `BreaksOnlyIfLarge`, `RefinesCatalogSpec`. |
| `hash_table` | 3 keys, 3 pairs to a page, 2 copies of a pair, 2 failing calls, inserts and removes in any order | Until a bucket has a second gap, `GetExactUntilSplit` and `OnlyInsertedFound`; gaps or not, `EntriesLive` and `PanicsOnlyAfterSplits`. |
| `hash_table_split` | the same | **violation** of `GetExact`: finding 3. |

*Why the bounds are enough.* Three frames give the replacer a victim among frames
with and without k accesses while one is pinned. Three threads and three slots let
one thread pop or push between another's load and exchange while a third finds
the list empty or full. Two frames and three pages force evictions with one page
pinned; in `page_cache` one page is on disk at the start and two are created, in `threads`
two and one. `MaxU64` is 2 or 3
so that wrapping is in reach. The B+ tree reaches three levels with
7 keys, and with 8 an insert that fails in a tree of three levels; splits of internal nodes,
raised bounds and panics in either half happen too. `tuple` reaches every
order of two strings around a column that is cut away, and tuples whose offsets
need more than 16 bits. `catalog` reaches indexes that are empty, readable, split and
overflowing, keys that repeat, and an index on no column at all. `table_list` reaches three
pages, and the hash table a split of either of the two buckets a split made. Where
TLC must stop at a bound, a counter (`MaxTs`, `PageIds`, `MaxFaults`, `MaxPins`)
is in the guard of the action; `MaxCalls` is 8, and no insert of run `btree` makes more
calls, and 21 pages are more than its inserts take. Two threads are what each of the three
races takes, and with two `Pin`s each they can cross their latches. Run `threads` is cut by
`Bounded`: only the contents of page 0 change, and after a race threads take only the
steps that lead to the assertion it breaks; deadlocks before a race are all reached, and
the theorem has those after one as well.

*Deadlock* of the whole system is checked in the runs `replacer`, `free_list` and
`page_cache`. It is off in the tuple, table, tree, catalog and hash table runs, which may
stop when keys, rows or pages run out or a panic ended them, and in the threaded
runs: there are deadlocks, and `OnlyKnownDeadlocks`, which looks at any set of threads
and not only at all of them, says which.

*Fairness.* `FreeList` has weak fairness on every step of a call that has begun
(`Continue`): pop and push never block, so a thread the operating system runs
does go on. `TableList` has weak fairness on an iterator's steps: the latches it
waits for are held for one insert only, and its caller loops over it. Nothing
else is assumed; nobody is assumed to insert, drop or flush.

### Findings

1. *A read that fails.* `try_get_page` updates `page_table` before it reads the page
   (`page_cache.rs:209`) and leaves it like that when the read fails: the next `fetch_page`
   of the page is a hit on a frame with another page.
2. *Evict and pin.* `evict()` unlocks the replacer before the frame is latched. A
   `fetch_page` in between pins the frame and finds its page swapped out.
3. *Splitting a bucket.* `bucket0` is written to both new pages
   (`hash_table/extendible.rs:95`), so the pairs of `bucket1` are lost. Local depths
   never grow, so a later split redirects the whole directory again.

More configurations are kept beside the runs. They are violated as well; the first
three are as serious as the findings, the others show smaller or related effects:

| Configuration | Shows |
|---|---|
| `MCFreeListMixed` | `push` moves `tail` before it writes its slot and `pop` reads its slot after it moved `tail` (`page_cache.rs:70`), so a pop and a push that overlap can hand out a frame somebody owns. `test_free_list` only mixes pops with pops, and pushes with pushes. |
| `MCBTreeOverwrite` | if an insert splits the leaf and the key is the last of the lower half, `>=` (`btree/mod.rs:104`) puts the new pair into the upper half; `get` still finds the old one. |
| `MCBTreePairs` | keys of two columns, as in `test_btree_index`: `next` adds to the first column only, so the separator of a leaf may be above keys of the next leaf with the same first column (`btree/node.rs:219`); the leaf order breaks and `scan` is out of order. |
| `MCBTreeStrings` | keys that begin with a string: `next` of a string writes the high bytes of the character's code (`table/tuple.rs:209`) and gives a smaller string, and `next` of `true` is `true`: a leaf is bounded below its keys, and `get` does not find them. The keys have a `BigInt` behind the string, as leaves of strings alone outgrow their page before they split (9 bytes and more in 512 slots). |
| `MCCatalogRows` | an index does not have every tuple of its table: equal keys replace each other, and rows inserted later are not entered (`catalog.rs:266`). |
| `MCPageCacheThreadsDrop` | a caller of `remove_page` still has its `Pin`, and by the time it is dropped (`page_cache.rs:91`) the frame may be another page's: its counter falls below the number of its `Pin`s and `PinProtected` is violated, without any other race. |
| `MCPageCacheThreadsReads` | two threads that miss on one page load it into two frames (`page_cache.rs:187`) and do not see each other's writes. |
| `MCTableListFit` | `next_tuple_offset` subtracts before it checks (`table/node.rs:108`): a tuple longer than what is left of the page panics instead of going to a new page. |
| `MCBTreeRefill` | after a delete, a split finds no bound in the parent to replace (`btree/mod.rs:187`), and later inserts become unreachable. |
| `MCBTreeInt` | with 4-byte keys and values `almost_full`, which does not count values, splits a leaf too late (`btree/node.rs:260`): on the page of 48 bytes five slots fit and it splits at six, on 4096 bytes 453 and 512. The insert of one slot too many panics in `PageBuf::from` (`btree/node.rs:123`). |
| `MCHashTableRemove` | a bucket with two gaps closes ranks when it is written and is read slot by slot (`hash_table/bucket_page.rs:85`): pairs are lost, and bytes that were no pair of its are read as one. |

Three more have no configuration of their own; a run's configuration with another
invariant or constant shows them. With K = 1 every distance is 0, which never beats the
initial maximum (`replacer.rs:66`), and `EvictFailsOnlyIfAllPinned` fails in
`MCReplacer`: the cache uses k = 2, and the theorem says `K >= 2`. The deleted flag is
written as 1 and read as `> 1` (`table/tuple.rs:245`): `DeletedReadsBack` fails in
`MCTableList`. After deletes `range` stops at a leaf that has no key of the range
(`btree/mod.rs:291`): `RangeExact` fails in `MCBTree`.

Hence the scope of the runs. `btree`: keys of one integer column that were not in the tree
before, deletes only after all inserts, no insert into a torn tree, and values half
as long as their keys. The configurations above show why each of these is there; callers
are not held to any of them, and `test_btree_values` overwrites keys. `tuple`: `NextIsBound`
for keys that begin with an integer. `free_list`: no push beside a pop. `page_cache`: reads
that succeed, and calls that do not overlap. In `threads` and `hash_table` nothing is
kept from callers: what cannot be promised after a race or a second gap is in the
properties, which read `races` and `gapped`.

## 4. Theorems

TLAPS proves the following for all values of the constants that satisfy the
`ASSUME`s of the modules, in one module of proofs per component. Where a theorem
needs more of the constants, its `ASSUME` and the text below say so. Every
inductive invariant was checked by TLC on its run's instance before it was proved, but
for the tree's, which asks for a forest that TLC would have to guess; TLC checked there
the properties that follow from it.

**Replacer.** `ClockCorrect`, and for `K >= 2`
`EvictFailsOnlyIfAllPinnedCorrect` and `ReplacerRefinement` (`Replacer` implements
`ReplacerSpec` under the mapping that reads a counter where a frame has a history).
The inductive invariant is `TypeOK`, `ClockInv` and `NoNodeNoPins` (a frame without
a node has counter 0, which the mapping needs when a node is created).
`HistoryBelowClock` makes the appended timestamp new. An increasing history gives
a positive distance for `K >= 2`, and a positive distance, or a frame with fewer
accesses, gives `evict` a candidate.

**Page cache** (calls one after another, failing writes, restarts).
`Invariance`: `IInv` is inductive. Its parts are there for each other:

- `TableInv`: `page_table` leads to busy frames that have the page;
- `FreeInv`: free frames have no node and no `Pin` but that of a `remove_page` (`late`),
  which makes taking one safe and that `Pin`'s drop harmless;
- `BusyInv`: a busy frame's counter is the number of its `Pin`s, plus one if it is
  stuck, and all are `Pin`s of the page it has. An unpinned frame is therefore one
  nobody holds, and a decrement never wraps;
- `OrphanInv`: a page that `page_table` does not lead to is unknown to callers, so
  writing it back late harms nobody;
- `CleanInv`: a cached page that is not dirty is on disk.

From it follow `PinsCountedCorrect` (no drop finds a counter at 0),
`PinProtectedCorrect` (both from `BusyInv`),
`OutOfMemoryOnlyIfPinnedCorrect` (no victim means every counter is positive),
`FramesAccountedForCorrect` and `FlushAllIsDurableCorrect` (an action property:
after `flush_all_pages` every known page reads on disk as in the cache, from
`CleanInv` for the pages it does not write). `MaxU64` is a constant here: the
model's guards keep the number of `Pin`s of a frame below it, as 2^64 does.

**Page store.** `PageStoreRefinement`: under the mapping of `Store`, which reads a page
where `page_table` leads and on disk otherwise, every step of `PageCache` is a step of
`PageStore` or leaves it alone. It rests on `IInv` of the page cache: an eviction is a
stutter because a page leaves its frame only after it was written, or was clean and so
on disk already (`CleanInv`), and late writes of orphans hit pages nobody knows.

**Free list.** `Invariance`, and from it `NoFrameHandedOutTwiceCorrect`,
`PushHasRoomCorrect` and `FramePoolRefinement`, for any number of threads and frames. All
of them are under the condition of `Spec` that no push runs beside a pop, without which
they are false (`MCFreeListMixed`).
The invariant has `PhaseInv` (pops and pushes do not overlap, as in the test),
`ClaimInv` (while threads pop, `tail` only falls and the slots claimed but not read lie
at or above it, all different; while they push it only rises and the claimed slots lie
below) and `OneOwner` (a frame is in one settled slot, or on its way to one, or with one
thread). A compare-exchange that finds the old `tail` therefore claims a slot that is
settled. `PushHasRoom` is a pigeonhole: a push into a full list would need
`SIZE + 1` different frames.

**Page cache under threads.** All three theorems are about `Spec`, where any calls overlap.
`OnlyKnownDeadlocksCorrect` has no other hypothesis and holds after races too. `LockInv`
says why a thread has a latch: it swaps a page in, or has a `Pin` for the frame
(`LatchInv`); the mutex is held by a thread that waits for the table at most (`MutexInv`),
and nobody flushes with a latch (`LocalInv`). Take any set of threads that wait for each
other. If none of them waits to write the table, none waits for the mutex or to read the
table either (`WaitsForPages`), so all wait for latches, which leaves callers that crossed
theirs, or a frame `evict()` named that a caller has pinned and latched.
`PinProtectedUntilRaceCorrect` and `PinReadsLatestWriteUntilRaceCorrect` say that before
one of the three races pins protect their pages and read the last write; that each of
the three does break this is shown by `MCPageCacheThreadsPins` (stolen), `MCPageCacheThreadsReads`
(loaded twice) and `MCPageCacheThreadsDrop` (late drop). The invariant `SafeInv`, which holds as
long as `races = {}`, counts: the counter of a frame is the number of threads that have a
`Pin` for it, plus one for a swap under way (`PinInv`), so a victim has no holder, unless
it was pinned since, which is the race. `TableInv`, `OrphanInv` and `HeldInv` tie frames,
`page_table` and `Pin`s together, `AskInv`, `RemoveInv` and `UseInv` have what each call
knows between two locks, and `DataInv` follows the last write of each page to its frame or
to the disk. The two assume a finite set of threads with at most `MaxU64` members, so that
no counter wraps: a thread has at most one `Pin` of a frame in the model, and there are
never 2^64.

**Table.** `Invariance`, and from it `SlotsBelowTuplesCorrect`, `ReadsBackCorrect`,
`IterPanicsOnlyIfPoisonedCorrect` and `IterIsSnapshotCorrect`, for any page size, tuple
lengths, inserts, failures and iterators. `StoreInv` has the shape of a page (tuples stacked
from its end, slots below them) and that pages not handed out yet are empty; `ChainInv`
that `next_page_id` leads from each page to the next one in use, up to `last_page_id`,
and only from pages with tuples; `LogInv` that inserts and slots correspond, and that later
inserts have later `RId`s. With these the place of an iterator is a number: `IterInv`
says that `r_id` comes just after the first n inserts and `end` just after the first
`goal`, that what was returned is the first n, and that `r_id` is never beyond `end`.
An insert only appends behind both, so it disturbs neither; a `next()` moves n by one.

**B+ tree.** `TreeInvariant`, and from it `GetIsExact`, `ScanIsExact`, `RangeIsExact`,
`ScansBesideDeletes`, `PanicsAtLargestKey` and `NodesFit`, for trees of any height, pages of
any size and any number of keys, faults and deletes beside a scan. A tree is described by a
*forest* F: pages, each with a level and a range `[lo, hi)` of keys. Ranges of one level do
not overlap; a leaf has keys of its range, the children of an internal node divide its range
at the bounds it has, `next` leads to the leaf with the next range (`Forest`), and the tree
is the forest whose top level is the root alone (`IsTree`). `TreeInv` says that as long as
no insert was torn or panicked, there is such a forest whose leaves have what `map` has
(`HasMap`), that it is *tight* until a key is deleted, and where in it a scan under way is
(`ScanInv`).

- *Insert.* `InsertContract` says what `_insert` makes of any page of any level: a forest
  with the same top, or one split in two with the separators that `get_separators` gives
  (`PageDone`); an error leaves the nodes alone or had been at an upper half, and a panic
  has met the largest key or a node too long for its page. It is proved for `_insert` with n
  calls below from the same with n - 1, by way of the halves of a split (`HalfReady`) and of
  putting the forest of a child back below its parent (`GraftAt`).
- *Tight leaves.* The upper end of a leaf is one more than its last key, as
  `get_separators` computes it with `Tuple::next`. Inserts need that: `_insert` takes the
  bounds of both halves from their last keys and replaces the slot of the old bound by one
  with the same key, and this is why a tree that was deleted from is not filled any
  further (`MCBTreeRefill`). `range` needs it too: the leaf it ends at for `from` has a key
  not below `from`, so it does not end early.
- *Scans.* A scan has the pairs below the range of its page and none of the others. A
  delete changes no range, so it disturbs this only by what it removes.
- *The hypothesis* `OneInteger`: keys are integers of one column with a least one among
  them, and a node with one slot is not almost full, without which a split would
  leave an empty half. For keys of two columns or strings the theorems are false, as
  `MCBTreePairs` and `MCBTreeStrings` show: `Tuple::next` must give the next key.
- *Sizes.* `NodesFit`: a node always fits its page (`NodesFitPage`), and so
  `PanicsAtLargestKey`: an insert panics in `Tuple::next` only. Both are under one more
  hypothesis, `SlotsFit`: a page has room for as many slots as `almost_full` lets a node have, which
  counts keys and not values. It holds for keys of 8 bytes and values of 4 on pages of
  4096 (256 slots, 3342 bytes) and in `MCBTree`; for keys of 4 bytes it is false (512
  slots would need 4622) and so are the properties, as `MCBTreeInt` shows: the insert that
  makes a node too long panics. `SizeInv`, beside
  `TreeInv`, says that no node has more than one slot more than one that is not almost
  full: `_insert` adds at most one slot to a node that it leaves whole (a conjunct of
  `GraftAt`), the halves of a split are shorter, and a delete adds none.

**Hash table.** All four theorems are about `Spec`, whose callers remove as they please.
`EntriesLiveCorrect` and `PanicsOnlyAfterSplitsCorrect` hold without a condition on them;
`GetExactUntilSplitCorrect` and `OnlyInsertedFoundCorrect` until some bucket may have a
second gap (`gapped`), after which `MCHashTableRemove` shows the first violated: their
invariant is `GapInv`, which is `~gapped => FindInv`. `DirInv`: the directory has depth 0 or
1, and its entries were made and not removed. `RoomInv`: until a split or a second failure
every used slot has a place in the page; it is a pigeonhole over the free slots and needs
`CAPACITY < SLOTS`. In the code a bucket has 512 slots and `CAPACITY` is (4096 - 128) / the
size of a pair, so this is for pairs of 8 bytes or more, and the smallest pair of the tests
has 8. `FindInv` says what `get` finds: the used slots are the first n, but for one gap in a
bucket with a `remove()` since its last insert, their cells have inserted pairs
(`ShapeInv`), and until a split the one bucket has each pair as often as `table`
(`CountInv`). The page is written without gaps and read slot by slot; with one gap the pair
removed is still there to fill it, with two the cells behind move up by less than the slots
say.

**Catalog.** `NamesAgreeCorrect`, for any schemas, also one of another table for an index.
`NamesAgree` is inductive together with `OidInv`: oids
are numbers below the next one, and every table's name leads to it. Index names are
unique per table only, so an oid, not a name, identifies an index.

Only model-checked: liveness (`CallsReturn`, `IterEnds`), which is outside the prover;
`LosesNeighbours` of `BTree`, which needs the shape of a tree whose upper half was lost;
the properties of `TupleLife`, and
`BreaksOnlyIfLarge` and `RefinesCatalogSpec` of `Catalog`, which need induction over
the columns of a tuple or the rows of a table.

## 5. Not modelled

- Characters of more than one byte: a string is a sequence of bytes in the model, and only
  `LenUtf8` knows of longer ones; that a schema given to `create_index` may read the bytes
  of a number as a string that is not UTF-8 is not modelled either. Encodings of primitive
  types (`pair.rs`, `storable.rs`) have no state.
- `is_root` of B+ tree nodes, which is never read. Page cache errors in `get`, `scan`,
  `range` and `delete`, which return them before they change anything.
- Two callers of one catalog, which the borrow checker rules out (`&mut self`); tables
  are filled through `&self`, but `create_index` excludes that as well.
- An index of type `HashTable`, and `update` of a table, are `todo!()` in the code; the
  binder is empty.
- What other locks a thread that panics in `Pin::write` poisons or drops as it
  unwinds (`LatchPanics` ends the thread), and a second `Pin` of one page in one thread.
- One overflow mode for everything: the pin counters of the replacer wrap, as in a release
  build, which is the worse outcome of the two; the subtractions of tables and tuples
  panic, as in the dev and test profiles the assertions are written for. `PinsCounted`
  says that, with calls one after another, the first never happens.
- Torn or reordered disk writes: the code asks for none of them to be handled.

## 6. Plan

Done: all components above; the theorems on the replacer, the free list, the page
cache with and without threads, the table, the tree, the hash table, and `NamesAgree` of
the catalog. What is left are proofs, in this order:

1. `LosesNeighbours`: a forest with a stretch of keys cut out, for trees that were torn.
2. Lemmas on the codec in `Tuple`: where a column's bytes lie, and that reading a
   fixed-size column gives what was written, towards `ReadsAsBuilt`.
3. What `RefinesCatalogSpec` says of names and rows, without the contents of indexes; the
   lemmas on nodes in `BTreeProofs` (`ReplaceSlotResult`, `Halves`) are what its indexes need.
