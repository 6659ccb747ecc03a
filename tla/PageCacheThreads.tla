-------------------------- MODULE PageCacheThreads --------------------------
(***************************************************************************)
(* The page cache, src/src/page_cache.rs, under threads: a step for every  *)
(* lock a call waits for, and other threads between any two steps.         *)
(*                                                                         *)
(* The locks are the RwLock of each page, the RwLock of page_table and the *)
(* Mutex of the replacer.  A call that takes a lock and gives it back      *)
(* before it waits for another one is a single step.  The disk never fails *)
(* here and FreeList is a set (modules PageCache and FreeList have those). *)
(***************************************************************************)
EXTENDS PinTable, Pages, FiniteSets

CONSTANTS Threads,
          NoThread,  \* nobody holds the lock
          NoFrame,   \* a page with no entry in page_table
          MaxPins    \* bound on the Pins one thread holds

ASSUME ThreadsAssumption == NoThread \notin Threads /\ NoFrame \notin Frames

VARIABLES pages, page_table, free, disk, next_page_id, pins, \* as in PageCache
          page_lock,      \* the thread that has each page's write guard
          page_readers,   \* the threads that have its read guards
          replacer_lock,  \* the thread that has the replacer's mutex
          pc,             \* where each thread is
          want,           \* the page id its call is about
          frame,          \* the local i of its call
          todo,           \* ids flush_all_pages has still to visit
          held,           \* Pins of each thread, as <<frame, page id>>
          latest,         \* last contents written to each page, by any thread
          known,          \* ids handed to callers and not removed
          races           \* what has gone wrong so far; no action reads it

cache  == <<pages, page_table, free, disk, next_page_id, pins>>
locks  == <<page_lock, page_readers, replacer_lock>>
locals == <<pc, want, frame, todo>>
ghosts == <<latest, known, races>>
vars   == <<cache, locks, locals, held, ghosts>>

Mapped(p) == page_table[p] # NoFrame

Init == /\ pages = [i \in Frames |-> Blank]
        /\ page_table = [p \in PageIds |-> NoFrame]
        /\ free = Frames
        /\ disk = [p \in PageIds |-> Zero]
        /\ next_page_id = FirstPageId
        /\ pins = [i \in Frames |-> Untracked]
        /\ page_lock = [i \in Frames |-> NoThread]
        /\ page_readers = [i \in Frames |-> {}]
        /\ replacer_lock = NoThread
        /\ pc = [t \in Threads |-> "idle"]
        /\ want = [t \in Threads |-> NoPage]
        /\ frame = [t \in Threads |-> NoFrame]
        /\ todo = [t \in Threads |-> {}]
        /\ held = [t \in Threads |-> {}]
        /\ latest = disk
        /\ known = {p \in PageIds : p < FirstPageId}
        /\ races = {}

(***************************************************************************)
(* page_table's lock follows from where the threads are.  Its write guard  *)
(* never outlives a step, so a writer waits only for readers; a reader     *)
(* waits for writers that queued before it, as std's RwLock prefers them.  *)
(***************************************************************************)
\* Mutant: remove_page keeps its guard until it is done.
ReadersAndRemover == {t \in Threads : pc[t] \in {"hit", "flush", "flush_all", "flush_all_page",
                                                 "remove_node", "push"}}
Readers   == {t \in Threads : pc[t] \in {"hit", "flush", "flush_all", "flush_all_page"}}
Queued    == {t \in Threads : pc[t] \in {"swap_queued", "remove_queued"}}
CanRead   == Queued = {}
CanWrite  == Readers = {}

\* The latch of a page.
PageHolders(i) == {t \in Threads : page_lock[i] = t \/ t \in page_readers[i]}
PageFree(i)    == page_lock[i] = NoThread /\ page_readers[i] = {}
Latched(t)     == \E i \in Frames : t \in PageHolders(i)

At(t, label)   == pc[t] = label
Goto(t, label) == pc' = [pc EXCEPT ![t] = label]

Call(t, label, p, i) == /\ Goto(t, label)
                        /\ want' = [want EXCEPT ![t] = p]
                        /\ frame' = [frame EXCEPT ![t] = i]
                        /\ UNCHANGED todo

Return(t) == /\ Goto(t, "idle")
             /\ want' = [want EXCEPT ![t] = NoPage]
             /\ frame' = [frame EXCEPT ![t] = NoFrame]
             /\ todo' = [todo EXCEPT ![t] = {}]

TakePin(t, i, p) == held' = [held EXCEPT ![t] = @ \cup {<<i, p>>}]

(***************************************************************************)
(* What callers do.  They fetch and remove pages they know of, have one    *)
(* Pin of a page at a time and drop a Pin without a guard of its page.     *)
(* After remove_page they drop guard and Pin before anything else, as      *)
(* ExtendibleHashTable::insert does, and they flush with nothing latched.  *)
(***************************************************************************)
Starts(t) == At(t, "idle") /\ \A pin \in held[t] : pin[2] \in known

CanPin(t) == Starts(t) /\ Cardinality(held[t]) < MaxPins

\* Threads that have the page or will get it.
Users(p) == {t \in Threads : \/ \E i \in Frames : <<i, p>> \in held[t]
                             \/ want[t] = p /\ pc[t] \notin {"flush_page", "flush"}}

-----------------------------------------------------------------------------
\* new_page: allocate_page, then try_get_page.
NewPage(t) ==
    /\ CanPin(t)
    /\ next_page_id \in PageIds
    /\ next_page_id' = next_page_id + 1
    /\ Call(t, "pop", next_page_id, NoFrame)
    /\ UNCHANGED <<pages, page_table, free, disk, pins, locks, held, ghosts>>

\* fetch_page looks the page up; the read guard lives to the end of a hit.
Fetch(t, p) ==
    /\ CanPin(t) /\ p \in known
    /\ \A i \in Frames : <<i, p>> \notin held[t]
    /\ Call(t, "fetch", p, NoFrame)
    /\ UNCHANGED <<cache, locks, held, ghosts>>

FetchMiss(t) ==
    /\ At(t, "fetch") /\ CanRead /\ ~Mapped(want[t])
    /\ Goto(t, "pop")
    /\ UNCHANGED <<cache, locks, want, frame, todo, held, ghosts>>

FetchHit(t) ==
    /\ At(t, "fetch") /\ CanRead /\ Mapped(want[t])
    /\ Call(t, "hit", want[t], page_table[want[t]])
    /\ UNCHANGED <<cache, locks, held, ghosts>>

FetchHitPin(t) ==
    /\ At(t, "hit")
    /\ replacer_lock = NoThread
    /\ pins' = PinPins(RecordAccessPins(pins, frame[t]), frame[t])
    /\ TakePin(t, frame[t], want[t])
    /\ Return(t)
    /\ UNCHANGED <<pages, page_table, free, disk, next_page_id, locks, ghosts>>

-----------------------------------------------------------------------------
\* try_get_page, lock by lock.
Pop(t) ==
    /\ At(t, "pop") /\ free # {}
    /\ \E i \in free : /\ free' = free \ {i}
                       /\ Call(t, "lock_page", want[t], i)
    /\ UNCHANGED <<pages, page_table, disk, next_page_id, pins, locks, held, ghosts>>

PopNone(t) ==
    /\ At(t, "pop") /\ free = {}
    /\ Goto(t, "evict")
    /\ UNCHANGED <<cache, locks, want, frame, todo, held, ghosts>>

\* evict() gives the mutex back: nothing marks the frame it names.
Evict(t) ==
    /\ At(t, "evict")
    /\ replacer_lock = NoThread
    /\ \/ \E i \in Evictable(pins) : Call(t, "lock_page", want[t], i)
       \/ Evictable(pins) = {} /\ Return(t)
    /\ UNCHANGED <<cache, locks, held, ghosts>>

LockPage(t) ==
    /\ At(t, "lock_page")
    /\ PageFree(frame[t])
    /\ page_lock' = [page_lock EXCEPT ![frame[t]] = t]
    /\ Goto(t, "lock_replacer")
    /\ UNCHANGED <<cache, page_readers, replacer_lock, want, frame, todo, held, ghosts>>

\* replacer.remove(i) drops the Pins others have got of the frame by now.
LockReplacer(t) ==
    /\ At(t, "lock_replacer")
    /\ replacer_lock = NoThread
    /\ replacer_lock' = t
    /\ pins' = TakeFramePins(pins, frame[t])
    /\ disk' = WriteBackDisk(disk, pages[frame[t]])
    /\ races' = races \cup (IF pins[frame[t]] > 0 \/ frame[t] \in free THEN {"stolen"} ELSE {})
    /\ Goto(t, "swap")
    /\ UNCHANGED <<pages, page_table, free, next_page_id, page_lock, page_readers, want, frame,
                   todo, held, latest, known>>

SwapQueue(t) ==
    /\ At(t, "swap") /\ ~CanWrite
    /\ Goto(t, "swap_queued")
    /\ UNCHANGED <<cache, locks, want, frame, todo, held, ghosts>>

\* Another thread may have entered the page by now, for another frame.
Swap(t) ==
    /\ pc[t] \in {"swap", "swap_queued"} /\ CanWrite
    /\ LET i == frame[t]
           p == want[t] IN
         /\ page_table' = [q \in PageIds |->
                             CASE q = p                    -> i
                               [] q # p /\ q = pages[i].id -> NoFrame
                               [] OTHER                    -> page_table[q]]
         /\ pages' = [pages EXCEPT ![i] = Loaded(p, disk[p])]
         /\ page_lock' = [page_lock EXCEPT ![i] = NoThread]
         /\ TakePin(t, i, p)
         /\ known' = known \cup {p}
         /\ races' = races \cup (IF Mapped(p) THEN {"loaded_twice"} ELSE {})
    /\ replacer_lock' = NoThread
    /\ Return(t)
    /\ UNCHANGED <<free, disk, next_page_id, pins, page_readers, latest>>

-----------------------------------------------------------------------------
\* Pin::write, and a write through the guard.
PinWrite(t, i, p) ==
    /\ Starts(t) /\ <<i, p>> \in held[t] /\ t \notin PageHolders(i)
    /\ Call(t, "write", p, i)
    /\ UNCHANGED <<cache, locks, held, ghosts>>

Latch(t, d) ==
    /\ At(t, "write") /\ PageFree(frame[t])
    /\ pages[frame[t]].id = want[t]
    /\ page_lock' = [page_lock EXCEPT ![frame[t]] = t]
    /\ pages' = [pages EXCEPT ![frame[t]] = Written(@, d)]
    /\ latest' = [latest EXCEPT ![want[t]] = d]
    /\ Return(t)
    /\ UNCHANGED <<page_table, free, disk, next_page_id, pins, page_readers, replacer_lock, held,
                   known, races>>

\* The assertion fails.  What unwinding drops and poisons is not followed.
LatchPanics(t) ==
    /\ At(t, "write") /\ PageFree(frame[t])
    /\ pages[frame[t]].id # want[t]
    /\ Goto(t, "panicked")
    /\ UNCHANGED <<cache, locks, want, frame, todo, held, ghosts>>

\* Pin::read asserts nothing.
PinRead(t, i, p) ==
    /\ Starts(t) /\ <<i, p>> \in held[t] /\ t \notin PageHolders(i)
    /\ Call(t, "read", p, i)
    /\ UNCHANGED <<cache, locks, held, ghosts>>

LatchShared(t) ==
    /\ At(t, "read") /\ page_lock[frame[t]] = NoThread
    /\ page_readers' = [page_readers EXCEPT ![frame[t]] = @ \cup {t}]
    /\ Return(t)
    /\ UNCHANGED <<cache, page_lock, replacer_lock, held, ghosts>>

Unlatch(t, i) ==
    /\ At(t, "idle") /\ t \in PageHolders(i)
    /\ page_lock' = [page_lock EXCEPT ![i] = IF @ = t THEN NoThread ELSE @]
    /\ page_readers' = [page_readers EXCEPT ![i] = @ \ {t}]
    /\ UNCHANGED <<cache, replacer_lock, locals, held, ghosts>>

\* Drop for Pin.
DropPin(t, i, p) ==
    /\ At(t, "idle") /\ <<i, p>> \in held[t] /\ t \notin PageHolders(i)
    /\ Call(t, "drop", p, i)
    /\ UNCHANGED <<cache, locks, held, ghosts>>

\* The Pin of a page removed has no node to count in, unless the frame has a new owner.
DropUnpin(t) ==
    /\ At(t, "drop")
    /\ replacer_lock = NoThread
    /\ held' = [held EXCEPT ![t] = @ \ {<<frame[t], want[t]>>}]
    /\ pins' = UnpinPins(pins, frame[t])
    /\ races' = races \cup (IF want[t] \notin known /\ pins[frame[t]] # Untracked
                            THEN {"late_drop"} ELSE {})
    /\ Return(t)
    /\ UNCHANGED <<pages, page_table, free, disk, next_page_id, locks, latest, known>>

-----------------------------------------------------------------------------
\* flush_page keeps its read guard while it waits for the page.
FlushPage(t, p) ==
    /\ Starts(t) /\ ~Latched(t)
    /\ Call(t, "flush_page", p, NoFrame)
    /\ UNCHANGED <<cache, locks, held, ghosts>>

FlushPageLookup(t) ==
    /\ At(t, "flush_page") /\ CanRead
    /\ \/ Mapped(want[t]) /\ Call(t, "flush", want[t], page_table[want[t]])
       \/ ~Mapped(want[t]) /\ Return(t)
    /\ UNCHANGED <<cache, locks, held, ghosts>>

WriteOut(i) == /\ PageFree(i)
               /\ disk' = WriteDisk(disk, pages[i].id, pages[i].data)
               /\ pages' = [pages EXCEPT ![i].dirty = FALSE]
               /\ UNCHANGED <<page_table, free, next_page_id, pins, locks, held, ghosts>>

FlushPageWrite(t) == At(t, "flush") /\ WriteOut(frame[t]) /\ Return(t)

\* flush_all_pages holds a read guard and takes a second one for each page.
FlushAll(t) ==
    /\ Starts(t) /\ ~Latched(t)
    /\ Goto(t, "flush_all_pages")
    /\ UNCHANGED <<cache, locks, want, frame, todo, held, ghosts>>

FlushAllKeys(t) ==
    /\ At(t, "flush_all_pages") /\ CanRead
    /\ Goto(t, "flush_all")
    /\ todo' = [todo EXCEPT ![t] = {p \in PageIds : Mapped(p)}]
    /\ UNCHANGED <<cache, locks, want, frame, held, ghosts>>

FlushAllLookup(t) ==
    /\ At(t, "flush_all") /\ CanRead
    /\ \E p \in todo[t] : /\ Goto(t, "flush_all_page")
                          /\ frame' = [frame EXCEPT ![t] = page_table[p]]
                          /\ todo' = [todo EXCEPT ![t] = @ \ {p}]
    /\ UNCHANGED <<cache, locks, want, held, ghosts>>

FlushAllWrite(t) ==
    /\ At(t, "flush_all_page")
    /\ WriteOut(frame[t])
    /\ Goto(t, "flush_all")
    /\ UNCHANGED <<want, frame, todo>>

FlushAllReturn(t) ==
    /\ At(t, "flush_all") /\ todo[t] = {}
    /\ Return(t)
    /\ UNCHANGED <<cache, locks, held, ghosts>>

-----------------------------------------------------------------------------
(***************************************************************************)
(* remove_page, the way ExtendibleHashTable::insert calls it: with its own *)
(* guard and Pin on a page that nobody else uses.                          *)
(***************************************************************************)
RemovePage(t, i, p) ==
    /\ Starts(t) /\ <<i, p>> \in held[t] /\ page_lock[i] = t
    /\ Users(p) = {t}
    /\ known' = known \ {p}
    /\ Call(t, "remove", p, i)
    /\ UNCHANGED <<cache, locks, held, latest, races>>

RemoveQueue(t) ==
    /\ At(t, "remove") /\ ~CanWrite
    /\ Goto(t, "remove_queued")
    /\ UNCHANGED <<cache, locks, want, frame, todo, held, ghosts>>

RemoveEntry(t) ==
    /\ pc[t] \in {"remove", "remove_queued"} /\ CanWrite
    /\ \/ Mapped(want[t]) /\ Call(t, "remove_node", want[t], page_table[want[t]])
       \/ ~Mapped(want[t]) /\ Return(t)
    /\ page_table' = [page_table EXCEPT ![want[t]] = NoFrame]
    /\ UNCHANGED <<pages, free, disk, next_page_id, pins, locks, held, ghosts>>

RemoveNode(t) ==
    /\ At(t, "remove_node")
    /\ replacer_lock = NoThread
    /\ pins' = RemovePins(pins, frame[t])
    /\ Goto(t, "push")
    /\ UNCHANGED <<pages, page_table, free, disk, next_page_id, locks, want, frame, todo, held,
                   ghosts>>

Push(t) ==
    /\ At(t, "push")
    /\ free' = free \cup {frame[t]}
    /\ Return(t)
    /\ UNCHANGED <<pages, page_table, disk, next_page_id, pins, locks, held, ghosts>>

-----------------------------------------------------------------------------
\* The steps of a call that has begun, and the calls a thread may begin.
Continue(t) == \/ FetchMiss(t) \/ FetchHit(t) \/ FetchHitPin(t)
               \/ Pop(t) \/ PopNone(t) \/ Evict(t) \/ LockPage(t) \/ LockReplacer(t)
               \/ SwapQueue(t) \/ Swap(t)
               \/ \E d \in Data : Latch(t, d)
               \/ LatchPanics(t) \/ LatchShared(t) \/ DropUnpin(t)
               \/ FlushPageLookup(t) \/ FlushPageWrite(t)
               \/ FlushAllKeys(t) \/ FlushAllLookup(t) \/ FlushAllWrite(t) \/ FlushAllReturn(t)
               \/ RemoveQueue(t) \/ RemoveEntry(t) \/ RemoveNode(t) \/ Push(t)

Start(t) == \/ NewPage(t)
            \/ \E p \in PageIds : Fetch(t, p) \/ FlushPage(t, p)
            \/ FlushAll(t)
            \/ \E i \in Frames, p \in PageIds :
                  \/ PinWrite(t, i, p) \/ PinRead(t, i, p)
                  \/ DropPin(t, i, p)
                  \/ RemovePage(t, i, p)
            \/ \E i \in Frames : Unlatch(t, i)

Next == \E t \in Threads : Continue(t) \/ Start(t)

Spec == Init /\ [][Next]_vars

-----------------------------------------------------------------------------
(***************************************************************************)
(* Properties.                                                             *)
(***************************************************************************)
(***************************************************************************)
(* No page is swapped out under a live Pin of a thread that may still use  *)
(* it: the assertion of Pin::write (page_cache.rs:108).                    *)
(***************************************************************************)
PinProtected ==
    \A t \in Threads : \A pin \in held[t] :
        pin[2] \in known => pages[pin[1]].id = pin[2]

(***************************************************************************)
(* Whoever pins a page, and finds it in its frame, reads what was last     *)
(* written to it, by whichever thread and however often it was evicted in  *)
(* between: test_pm_read (page_cache.rs:312) for several threads.          *)
(***************************************************************************)
PinReadsLatestWrite ==
    \A t \in Threads : \A pin \in held[t] :
        pin[2] \in known /\ pages[pin[1]].id = pin[2] =>
            pages[pin[1]].data = latest[pin[2]]

(***************************************************************************)
(* There are three ways for this to go wrong, and no other: try_get_page   *)
(* takes a frame that was pinned or removed since evict() named it         *)
(* ("stolen", page_cache.rs:198); it enters a page that another thread has *)
(* entered since the look-up missed ("loaded_twice", :210); and the Pin of *)
(* a page removed is dropped when its frame has a new owner ("late_drop",  *)
(* :91).  Until one of them has happened pins protect their pages, and     *)
(* Pins of a page read its last write, under all interleavings.            *)
(***************************************************************************)
PinProtectedUntilRace == races = {} => PinProtected

\* The same of what a Pin reads (page_cache.rs:190-221).
PinReadsLatestWriteUntilRace == races = {} => PinReadsLatestWrite

(***************************************************************************)
(* Threads that wait for each other: each of S waits for a lock that       *)
(* another of S has, or, as a reader, is queued for.                       *)
(***************************************************************************)
PageWriters(i) == {t \in Threads : /\ pc[t] \in {"lock_page", "flush", "flush_all_page", "write"}
                                   /\ frame[t] = i}

Blockers(t) ==
    CASE pc[t] \in {"evict", "lock_replacer", "hit", "remove_node", "drop"} -> {replacer_lock}
      [] pc[t] \in {"lock_page", "flush", "flush_all_page", "write"} -> PageHolders(frame[t])
      [] pc[t] = "read" -> {page_lock[frame[t]]} \cup PageWriters(frame[t])
      [] pc[t] \in {"swap", "swap_queued", "remove", "remove_queued"} -> Readers
      [] pc[t] \in {"fetch", "flush_page", "flush_all_pages", "flush_all"} -> Queued
      [] OTHER -> {}

Stuck(S) == S # {} /\ \A t \in S : \E u \in S : u \in Blockers(t)

(***************************************************************************)
(* Three causes.  One waits to write page_table with a page, and in        *)
(* try_get_page the replacer too, in its hands, and another one waits for  *)
(* those with page_table read-locked (fetch_page, flush_page), or for a    *)
(* second read guard behind that writer (flush_all_pages).  Or two callers *)
(* have latched pages and wait for each other's.  Or the frame evict()     *)
(* named has been pinned and latched since.                                *)
(***************************************************************************)
TableInversion(S) ==
    \E t, u \in S : /\ pc[t] \in {"swap", "swap_queued", "remove", "remove_queued"}
                    /\ pc[u] \in {"hit", "flush", "flush_all", "flush_all_page"}

CrossedLatches(S) ==
    \E t, u \in S : /\ t # u
                    /\ {pc[t], pc[u]} \subseteq {"write", "read"}
                    /\ Latched(t) /\ Latched(u)

LatchedVictim(S) ==
    \E t, u \in S : /\ pc[t] = "lock_page"
                    /\ u \in PageHolders(frame[t])
                    /\ \E p \in PageIds : <<frame[t], p>> \in held[u]

(***************************************************************************)
(* Whatever the threads do, also after a race, no set of them is stuck for *)
(* another reason: the locks of page_cache.rs:178-260 are otherwise taken  *)
(* in one order.                                                           *)
(***************************************************************************)
OnlyKnownDeadlocks ==
    \A S \in SUBSET Threads :
        Stuck(S) => TableInversion(S) \/ CrossedLatches(S) \/ LatchedVictim(S)
=============================================================================
