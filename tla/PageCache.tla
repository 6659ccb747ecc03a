----------------------------- MODULE PageCache ------------------------------
(***************************************************************************)
(* The page cache, src/src/page_cache.rs, with every call run to its end   *)
(* before the next one starts: one thread, or callers that serialise their *)
(* calls.  Module PageCacheThreads has the locks and the interleavings.    *)
(*                                                                         *)
(* free is the set of frames FreeList::pop may return (module FreeList)    *)
(* and pins the counters of the replacer (modules PinTable and Replacer).  *)
(* The callers are part of the model through the Pins they hold.           *)
(***************************************************************************)
EXTENDS PinTable, Pages

CONSTANT NoFrame   \* a page with no entry in page_table

ASSUME NoFrameAssumption == NoFrame \notin Frames

VARIABLES pages,         \* PageCache.pages: id, dirty and data of each frame
          page_table,    \* PageCache.page_table
          free,          \* PageCache.free
          disk,          \* PageCache.disk
          next_page_id,  \* PageCache.next_page_id
          pins,          \* PageCache.replacer: pin counter of each frame
          held,          \* number of live Pins, by frame and page id
          stuck,         \* frames pinned by a try_get_page that failed
          late,          \* frames a caller of remove_page has yet to unpin
          known          \* ids handed to callers and not yet removed

vars == <<pages, page_table, free, disk, next_page_id, pins, held, stuck, late, known>>

Allocated == {p \in PageIds : p < next_page_id}
Mapped(p) == page_table[p] # NoFrame

-----------------------------------------------------------------------------
\* PageCache::new, over a disk that may hold pages from an earlier run.
Init == /\ pages = [i \in Frames |-> Blank]
        /\ page_table = [p \in PageIds |-> NoFrame]
        /\ free = Frames
        /\ disk \in InitialDisks
        /\ next_page_id = FirstPageId
        /\ pins = [i \in Frames |-> Untracked]
        /\ held = [i \in Frames |-> [p \in PageIds |-> 0]]
        /\ stuck = {}
        /\ late = {}
        /\ known = Allocated

(***************************************************************************)
(* try_get_page(p).  A frame comes from the free list or, when that is     *)
(* empty, from evict(); its pin counter restarts at 1.  Then the old page  *)
(* is written back if dirty, the table is switched and the page is read.   *)
(***************************************************************************)
Victims == IF free # {} THEN free ELSE Evictable(pins)

OutOfMemory == Victims = {}

\* Mutant: the entry of the page swapped out stays.
TableAfterInsert(p, i) == [page_table EXCEPT ![p] = i]

TableAfterSwap(p, i) ==
    [q \in PageIds |-> CASE q = p                       -> i
                         [] q # p /\ q = pages[i].id    -> NoFrame
                         [] OTHER                       -> page_table[q]]

\* Both ways a frame is taken, up to the first operation that can fail.
TakeFrame(i) == /\ i \in Victims
                /\ free' = free \ {i}
                /\ pins' = TakeFramePins(pins, i)

GetPage(p, i) ==
    /\ TakeFrame(i)
    /\ disk' = WriteBackDisk(disk, pages[i])
    /\ page_table' = TableAfterSwap(p, i)
    /\ pages' = [pages EXCEPT ![i] = Loaded(p, disk'[p])]
    /\ held' = [held EXCEPT ![i][p] = @ + 1]
    /\ UNCHANGED <<stuck, late>>

\* disk.write_page fails: the early return leaves the frame pinned.
GetPageWriteFails(i) ==
    /\ TakeFrame(i)
    /\ pages[i].dirty
    /\ stuck' = stuck \cup {i}
    /\ UNCHANGED <<pages, page_table, disk, held, late>>

\* disk.read_page fails: the table is already switched, the page is not.
GetPageReadFails(p, i) ==
    /\ TakeFrame(i)
    /\ disk' = WriteBackDisk(disk, pages[i])
    /\ page_table' = TableAfterSwap(p, i)
    /\ stuck' = stuck \cup {i}
    /\ UNCHANGED <<pages, held, late>>

-----------------------------------------------------------------------------
\* allocate_page() is not undone when try_get_page() fails: the id is spent.
AllocatePage == /\ next_page_id \in PageIds
                /\ next_page_id' = next_page_id + 1

NewPage == /\ AllocatePage
           /\ \E i \in Frames : GetPage(next_page_id, i)
           /\ known' = known \cup {next_page_id}

NewPageFails ==
    /\ AllocatePage
    /\ \/ /\ OutOfMemory
          /\ UNCHANGED <<pages, page_table, free, disk, pins, held, stuck, late>>
       \/ \E i \in Frames : GetPageWriteFails(i)
    /\ UNCHANGED known

FetchPageHit(p) ==
    /\ p \in known /\ Mapped(p)
    /\ LET i == page_table[p] IN
         /\ pins[i] < MaxU64
         /\ pins' = PinPins(RecordAccessPins(pins, i), i)
         /\ held' = [held EXCEPT ![i][p] = @ + 1]
    /\ UNCHANGED <<pages, page_table, free, disk, next_page_id, stuck, late, known>>

FetchPageMiss(p) ==
    /\ p \in known /\ ~Mapped(p)
    /\ \E i \in Frames : GetPage(p, i) \/ GetPageWriteFails(i)
    /\ UNCHANGED <<next_page_id, known>>

\* Pin::write and writep!, by a caller that holds a Pin.
WritePage(i, p, d) ==
    /\ held[i][p] > 0
    /\ pages' = [pages EXCEPT ![i] = Written(@, d)]
    /\ UNCHANGED <<page_table, free, disk, next_page_id, pins, held, stuck, late, known>>

\* Mutant: a Pin that goes away does not unpin its frame.
DropPinLeaks(i, p) ==
    /\ held[i][p] > 0
    /\ held' = [held EXCEPT ![i][p] = @ - 1]
    /\ UNCHANGED <<pages, page_table, free, disk, next_page_id, pins, stuck, late, known>>

DropPin(i, p) ==
    /\ held[i][p] > 0
    /\ held' = [held EXCEPT ![i][p] = @ - 1]
    /\ pins' = UnpinPins(pins, i)
    /\ UNCHANGED <<pages, page_table, free, disk, next_page_id, stuck, late, known>>

\* Mutant: replacer.remove is forgotten, and the node stays with the free frame.
RemovePageKeepsPins(p) ==
    /\ p \in known /\ Mapped(p)
    /\ held[page_table[p]][p] <= 1
    /\ held' = [held EXCEPT ![page_table[p]][p] = 0]
    /\ page_table' = [page_table EXCEPT ![p] = NoFrame]
    /\ free' = free \cup {page_table[p]}
    /\ stuck' = stuck \ {page_table[p]}
    /\ late' = {i \in {page_table[p]} : held[i][p] > 0}
    /\ known' = known \ {p}
    /\ UNCHANGED <<pages, disk, next_page_id, pins>>

(***************************************************************************)
(* remove_page(p).  Its one caller, ExtendibleHashTable::insert, holds its *)
(* own Pin of p until it returns.  The Pin is then of a frame the cache    *)
(* may hand out again: it moves to late.  A page another caller pins is    *)
(* not removed.  The frame keeps its id, data and dirty flag.              *)
(***************************************************************************)
RemovePage(p) ==
    /\ p \in known /\ Mapped(p)
    /\ LET i == page_table[p] IN
         /\ held[i][p] <= 1
         /\ held' = [held EXCEPT ![i][p] = 0]
         /\ page_table' = [page_table EXCEPT ![p] = NoFrame]
         /\ pins' = RemovePins(pins, i)
         /\ free' = free \cup {i}
         /\ stuck' = stuck \ {i}
         /\ late' = {j \in {i} : held[i][p] > 0}
    /\ known' = known \ {p}
    /\ UNCHANGED <<pages, disk, next_page_id>>

\* The caller of remove_page drops that Pin.
LateDrop(i) ==
    /\ i \in late
    /\ late' = late \ {i}
    /\ pins' = UnpinPins(pins, i)
    /\ UNCHANGED <<pages, page_table, free, disk, next_page_id, held, stuck, known>>

\* Mutant: pages are marked clean and not written.
FlushNothing(F) ==
    /\ pages' = [i \in Frames |-> [pages[i] EXCEPT !.dirty = @ /\ i \notin F]]
    /\ UNCHANGED <<page_table, free, disk, next_page_id, pins, held, stuck, late, known>>

\* The pages of frames F are written, clean or not.
FlushFrames(F) ==
    /\ disk' = [p \in PageIds |-> IF \E i \in F : pages[i].id = p
                                  THEN pages[CHOOSE i \in F : pages[i].id = p].data
                                  ELSE disk[p]]
    /\ pages' = [i \in Frames |-> [pages[i] EXCEPT !.dirty = @ /\ i \notin F]]
    /\ UNCHANGED <<page_table, free, next_page_id, pins, held, stuck, late, known>>

FlushPage(p) == Mapped(p) /\ FlushFrames({page_table[p]})

MappedFrames == {i \in Frames : \E p \in PageIds : page_table[p] = i}

FlushAllPages == FlushFrames(MappedFrames)

\* A disk error ends the loop over the table, whose order is arbitrary.
FlushAllPagesFails(F) ==
    /\ F \subseteq MappedFrames /\ F # MappedFrames
    /\ FlushFrames(F)

\* The process ends and PageCache::new runs again on the same disk.
Restart == /\ pages' = [i \in Frames |-> Blank]
           /\ page_table' = [p \in PageIds |-> NoFrame]
           /\ free' = Frames
           /\ pins' = [i \in Frames |-> Untracked]
           /\ held' = [i \in Frames |-> [p \in PageIds |-> 0]]
           /\ stuck' = {}
           /\ late' = {}
           /\ UNCHANGED <<disk, next_page_id, known>>

(***************************************************************************)
(* Calls do not overlap, and remove_page is the last call of its caller:   *)
(* no cache call comes between it and the drop of the caller's Pin, only   *)
(* drops of the caller's other Pins.                                       *)
(***************************************************************************)
Calls == \/ NewPage \/ NewPageFails
         \/ \E p \in PageIds :
               \/ FetchPageHit(p) \/ FetchPageMiss(p)
               \/ FlushPage(p)
         \/ \E i \in Frames, p \in PageIds, d \in Data : WritePage(i, p, d)
         \/ FlushAllPages
         \/ \E F \in SUBSET Frames : FlushAllPagesFails(F)

Next == \/ late = {} /\ Calls
        \/ late = {} /\ \E p \in PageIds : RemovePage(p)
        \/ \E i \in Frames : LateDrop(i)
        \/ \E i \in Frames, p \in PageIds : DropPin(i, p)
        \/ Restart

Spec == Init /\ [][Next]_vars

\* The same cache on a disk whose reads may fail too.
ReadFails == \/ /\ AllocatePage
                /\ \E i \in Frames : GetPageReadFails(next_page_id, i)
             \/ \E p \in PageIds, i \in Frames :
                   /\ p \in known /\ ~Mapped(p)
                   /\ GetPageReadFails(p, i)
                   /\ UNCHANGED next_page_id

ReadFault == late = {} /\ ReadFails /\ UNCHANGED known

SpecReadFaults == Init /\ [][Next \/ ReadFault]_vars

-----------------------------------------------------------------------------
(***************************************************************************)
(* Properties.                                                             *)
(***************************************************************************)
\* Types.
TypeOK == /\ pages \in [Frames -> PageInner]
          /\ page_table \in [PageIds -> Frames \cup {NoFrame}]
          /\ free \subseteq Frames
          /\ disk \in [PageIds -> Data]
          /\ next_page_id \in Nat
          /\ pins \in PinCounters
          /\ held \in [Frames -> [PageIds -> Nat]]
          /\ stuck \subseteq Frames
          /\ late \subseteq Frames
          /\ known \subseteq Allocated

(***************************************************************************)
(* What the calls rely on between them, and together preserve.             *)
(***************************************************************************)
\* page_table leads to a busy frame that has the page.
TableInv ==
    \A p \in PageIds : Mapped(p) =>
        /\ page_table[p] \notin free
        /\ pages[page_table[p]].id = p
        /\ p \in known

\* Nobody has anything to do with a free frame, and a late drop hits one.
FreeInv ==
    /\ late \subseteq free
    /\ \A i \in free : /\ pins[i] = Untracked
                      /\ i \notin stuck
                      /\ \A p \in PageIds : held[i][p] = 0

\* The counter of a busy frame is the number of its Pins, all of one page.
BusyInv ==
    \A i \in Frames \ free :
        /\ pages[i].id \in PageIds
        /\ pins[i] = held[i][pages[i].id] + (IF i \in stuck THEN 1 ELSE 0)
        /\ \A p \in PageIds : p # pages[i].id => held[i][p] = 0
        /\ page_table[pages[i].id] # i => i \in stuck /\ held[i][pages[i].id] = 0

\* A frame page_table does not lead to holds a page no caller can name.
OrphanInv ==
    \A i \in Frames :
        /\ pages[i].dirty => pages[i].id \in PageIds
        /\ pages[i].id \in PageIds => /\ pages[i].id < next_page_id
                                      /\ page_table[pages[i].id] # i => pages[i].id \notin known

\* A cached page that is not dirty is the page on disk.
CleanInv ==
    \A p \in PageIds : Mapped(p) /\ ~pages[page_table[p]].dirty =>
        pages[page_table[p]].data = disk[p]

\* The inductive invariant: every call of the cache (page_cache.rs:168-260)
\* keeps frames, table, free list, pin counters and disk in step.
IInv == TypeOK /\ TableInv /\ FreeInv /\ BusyInv /\ OrphanInv /\ CleanInv

(***************************************************************************)
(* The pin counter of a frame the replacer tracks is the number of Pins    *)
(* alive on it, all of one page, and one more if a failed write left it    *)
(* pinned.  So no drop of a Pin finds the counter at 0, where a release    *)
(* build wraps around and a dev build panics (replacer.rs:115), the late   *)
(* drop after a remove_page included: it must find no node.                *)
(***************************************************************************)
PinsCounted ==
    /\ \A i \in Frames :
          pins[i] # Untracked =>
              \E p \in PageIds :
                  /\ pins[i] = held[i][p] + (IF i \in stuck THEN 1 ELSE 0)
                  /\ \A q \in PageIds \ {p} : held[i][q] = 0
    /\ \A i \in late : pins[i] = Untracked

(***************************************************************************)
(* A page is not swapped out under a Pin, the assertion of Pin::write      *)
(* (page_cache.rs:108), and page_table still leads to it, so that every    *)
(* Pin of a page shares one frame.                                         *)
(***************************************************************************)
PinProtected ==
    \A i \in Frames, p \in PageIds :
        held[i][p] > 0 => pages[i].id = p /\ page_table[p] = i

(***************************************************************************)
(* OutOfMemory is reported only when every frame has a live Pin or was     *)
(* left pinned by a try_get_page that could not write (page_cache.rs:193). *)
(***************************************************************************)
OutOfMemoryOnlyIfPinned ==
    OutOfMemory => \A i \in Frames :
                       i \in stuck \/ \E p \in PageIds : held[i][p] > 0

(***************************************************************************)
(* No frame is lost and none has two owners: each is in the free list, or  *)
(* the frame of exactly one page, or was taken from the free list by a     *)
(* try_get_page that could not write.                                      *)
(***************************************************************************)
FramesAccountedFor ==
    \A i \in Frames :
        LET owners == {p \in PageIds : page_table[p] = i} IN
          \/ i \in free /\ owners = {}
          \/ i \notin free /\ owners = {pages[i].id}
          \/ i \in stuck \ free /\ owners = {}

(***************************************************************************)
(* The cache implements PageStore: whatever is cached, evicted, flushed or *)
(* refetched, a page reads as its last write, a new page reads as zeroes,  *)
(* and a restart brings back what was last written to disk.                *)
(***************************************************************************)
Contents(p) == IF Mapped(p) THEN pages[page_table[p]].data ELSE disk[p]

Named(p, x) == IF p \in Allocated \ known THEN Gone ELSE x

Store == INSTANCE PageStore
            WITH store   <- [p \in PageIds |-> Named(p, Contents(p))],
                 durable <- [p \in PageIds |-> Named(p, disk[p])]

RefinesPageStore == Store!StoreSpec

\* flush_all_pages leaves every page a caller can name on disk as it reads.
FlushAllIsDurable ==
    [][FlushAllPages => \A p \in known : disk'[p] = Contents(p)]_vars
=============================================================================
