-------------------------- MODULE PageCacheProofs ---------------------------
(***************************************************************************)
(* Proofs about the page cache, for any number of frames and pages: the    *)
(* invariant IInv is inductive and implies the safety properties.          *)
(***************************************************************************)
EXTENDS PageCache, TLAPS

LEMMA InitIInv == Init => IInv
  <1> SUFFICES ASSUME Init PROVE IInv
    OBVIOUS
  <1> USE DEF Init
  <1>1. Blank \in PageInner /\ Blank.id = NoPage /\ ~Blank.dirty
    BY DataAssumption DEF Blank, PageInner
  <1>2. NoPage \notin PageIds
    BY PageIdsAssumption DEF NoPage
  <1>3. disk \in [PageIds -> Data]
    BY DEF InitialDisks
  <1>4. TypeOK
    BY <1>1, <1>3, PageIdsAssumption, MaxU64Assumption
       DEF TypeOK, PinCounters, Allocated
  <1>5. TableInv /\ CleanInv
    BY DEF TableInv, CleanInv, Mapped
  <1>6. FreeInv /\ BusyInv
    BY DEF FreeInv, BusyInv
  <1>7. OrphanInv
    BY <1>1, <1>2 DEF OrphanInv
  <1> QED
    BY <1>4, <1>5, <1>6, <1>7 DEF IInv

-----------------------------------------------------------------------------
\* The frame try_get_page takes is not pinned by anyone.
LEMMA VictimUnpinned ==
  ASSUME IInv, NEW i \in Victims
  PROVE  /\ i \in Frames
         /\ i \notin stuck
         /\ \A p \in PageIds : held[i][p] = 0
         /\ i \notin free => pages[i].id \in PageIds /\ page_table[pages[i].id] = i
  <1>1. CASE i \in free
    BY <1>1 DEF IInv, TypeOK, FreeInv
  <1>2. CASE i \notin free
    <2>1. i \in Frames /\ pins[i] = 0
      BY <1>2 DEF Victims, Evictable
    <2>2. /\ pages[i].id \in PageIds
          /\ pins[i] = held[i][pages[i].id] + (IF i \in stuck THEN 1 ELSE 0)
          /\ \A p \in PageIds : p # pages[i].id => held[i][p] = 0
          /\ page_table[pages[i].id] # i => i \in stuck
      BY <1>2, <2>1 DEF IInv, BusyInv
    <2>3. held[i][pages[i].id] \in Nat
      BY <2>1, <2>2 DEF IInv, TypeOK
    <2>4. i \notin stuck /\ held[i][pages[i].id] = 0
      BY <2>1, <2>2, <2>3
    <2> QED
      BY <2>1, <2>2, <2>4
  <1> QED
    BY <1>1, <1>2

LEMMA TakenPins ==
  ASSUME TypeOK, NEW i \in Frames
  PROVE  TakeFramePins(pins, i) = [pins EXCEPT ![i] = 1]
  BY MaxU64Assumption
     DEF TypeOK, PinCounters, TakeFramePins, PinPins, RecordAccessPins, RemovePins, Untracked

\* What try_get_page changes when it succeeds.
LEMMA GetPageEffect ==
  ASSUME IInv, NEW p \in PageIds, NEW i \in Frames, GetPage(p, i)
  PROVE  /\ pages'[i].id = p /\ ~pages'[i].dirty /\ pages'[i].data = disk'[p]
         /\ pages' \in [Frames -> PageInner]
         /\ \A j \in Frames : j # i => pages'[j] = pages[j]
         /\ page_table' \in [PageIds -> Frames \cup {NoFrame}]
         /\ page_table'[p] = i
         /\ \A q \in PageIds : q # p /\ q = pages[i].id => page_table'[q] = NoFrame
         /\ \A q \in PageIds : q # p /\ q # pages[i].id => page_table'[q] = page_table[q]
         /\ disk' \in [PageIds -> Data]
         /\ \A q \in PageIds : q # pages[i].id => disk'[q] = disk[q]
         /\ pages[i].dirty => disk'[pages[i].id] = pages[i].data
         /\ ~pages[i].dirty => disk' = disk
         /\ free' = free \ {i}
         /\ pins' \in PinCounters /\ pins'[i] = 1
         /\ \A j \in Frames : j # i => pins'[j] = pins[j]
         /\ held' \in [Frames -> [PageIds -> Nat]] /\ held'[i][p] = 1
         /\ \A q \in PageIds : q # p => held'[i][q] = 0
         /\ \A j \in Frames : j # i => held'[j] = held[j]
         /\ stuck' = stuck /\ late' = late /\ i \in Victims
  <1>1. i \in Victims /\ free' = free \ {i} /\ pins' = TakeFramePins(pins, i)
    BY DEF GetPage, TakeFrame
  <1>2. \A q \in PageIds : held[i][q] = 0
    BY <1>1, VictimUnpinned
  <1>3. /\ pins' \in PinCounters /\ pins'[i] = 1
        /\ \A j \in Frames : j # i => pins'[j] = pins[j]
    <2>1. pins' = [pins EXCEPT ![i] = 1] /\ pins \in PinCounters
      BY <1>1, TakenPins DEF IInv, TypeOK
    <2> QED
      BY <2>1, MaxU64Assumption DEF PinCounters
  <1>4. /\ held' \in [Frames -> [PageIds -> Nat]] /\ held'[i][p] = 1
        /\ \A q \in PageIds : q # p => held'[i][q] = 0
        /\ \A j \in Frames : j # i => held'[j] = held[j]
    <2>1. held \in [Frames -> [PageIds -> Nat]]
      BY DEF IInv, TypeOK
    <2>2. held' = [held EXCEPT ![i][p] = held[i][p] + 1]
      BY DEF GetPage
    <2>a. held[i][p] + 1 = 1
      BY <1>2
    <2>b. held' = [held EXCEPT ![i][p] = 1]
      BY <2>2, <2>a
    <2>3. held[i] \in [PageIds -> Nat] /\ held'[i] = [held[i] EXCEPT ![p] = 1]
      BY <2>1, <2>b
    <2>4. held'[i] \in [PageIds -> Nat]
      BY <2>3
    <2> QED
      BY <1>2, <2>1, <2>2, <2>3, <2>4
  <1>5. pages[i] \in PageInner /\ pages[i].data \in Data
        /\ (pages[i].dirty => pages[i].id \in PageIds)
    BY DEF IInv, TypeOK, PageInner, OrphanInv
  <1>6. /\ disk' \in [PageIds -> Data]
        /\ \A q \in PageIds : q # pages[i].id => disk'[q] = disk[q]
        /\ pages[i].dirty => disk'[pages[i].id] = pages[i].data
        /\ ~pages[i].dirty => disk' = disk
    BY <1>5 DEF GetPage, WriteBackDisk, WriteDisk, IInv, TypeOK
  <1>7. /\ page_table' \in [PageIds -> Frames \cup {NoFrame}]
        /\ page_table'[p] = i
        /\ \A q \in PageIds : q # p /\ q = pages[i].id => page_table'[q] = NoFrame
        /\ \A q \in PageIds : q # p /\ q # pages[i].id => page_table'[q] = page_table[q]
    BY DEF GetPage, TableAfterSwap, IInv, TypeOK
  <1>8. Loaded(p, disk'[p]) \in PageInner
    BY <1>6 DEF Loaded, PageInner
  <1>9. /\ pages'[i].id = p /\ ~pages'[i].dirty /\ pages'[i].data = disk'[p]
        /\ pages' \in [Frames -> PageInner]
        /\ \A j \in Frames : j # i => pages'[j] = pages[j]
    <2>1. pages' = [pages EXCEPT ![i] = Loaded(p, disk'[p])] /\ pages \in [Frames -> PageInner]
      BY DEF GetPage, IInv, TypeOK
    <2>2. pages'[i] = Loaded(p, disk'[p])
      BY <2>1
    <2> QED
      BY <1>8, <2>1, <2>2 DEF Loaded
  <1> QED
    BY <1>1, <1>3, <1>4, <1>6, <1>7, <1>9 DEF GetPage

\* No frame holds a page that callers may ask for and the table has not.
LEMMA NotInAnyFrame ==
  ASSUME IInv, NEW p \in PageIds, ~Mapped(p), p \in known \/ p >= next_page_id,
         NEW j \in Frames
  PROVE  pages[j].id # p
  <1> SUFFICES ASSUME pages[j].id = p PROVE FALSE
    OBVIOUS
  <1>1. p < next_page_id /\ (page_table[p] # j => p \notin known)
    BY DEF IInv, OrphanInv
  <1>2. page_table[p] # j
    BY NoFrameAssumption DEF Mapped
  <1>3. p \in Nat /\ next_page_id \in Nat
    BY PageIdsAssumption DEF IInv, TypeOK
  <1> QED
    BY <1>1, <1>2, <1>3

\* A successful try_get_page for a page that is not cached.
LEMMA GetPageIInv ==
  ASSUME IInv, late = {}, NEW p \in PageIds, NEW i \in Frames, GetPage(p, i),
         ~Mapped(p), p \in known \/ p >= next_page_id,
         next_page_id' \in Nat, next_page_id' >= next_page_id,
         p < next_page_id', known' = known \cup {p}
  PROVE  IInv'
  <1> DEFINE old == pages[i].id
  <1>1. /\ pages'[i].id = p /\ ~pages'[i].dirty /\ pages'[i].data = disk'[p]
        /\ pages' \in [Frames -> PageInner]
        /\ \A j \in Frames : j # i => pages'[j] = pages[j]
        /\ page_table' \in [PageIds -> Frames \cup {NoFrame}]
        /\ page_table'[p] = i
        /\ \A q \in PageIds : q # p /\ q = old => page_table'[q] = NoFrame
        /\ \A q \in PageIds : q # p /\ q # old => page_table'[q] = page_table[q]
        /\ disk' \in [PageIds -> Data]
        /\ \A q \in PageIds : q # old => disk'[q] = disk[q]
        /\ free' = free \ {i}
        /\ pins' \in PinCounters /\ pins'[i] = 1
        /\ \A j \in Frames : j # i => pins'[j] = pins[j]
        /\ held' \in [Frames -> [PageIds -> Nat]] /\ held'[i][p] = 1
        /\ \A q \in PageIds : q # p => held'[i][q] = 0
        /\ \A j \in Frames : j # i => held'[j] = held[j]
        /\ stuck' = stuck /\ late' = late /\ i \in Victims
    BY GetPageEffect
  <1>2. /\ i \notin stuck
        /\ i \notin free => old \in PageIds /\ page_table[old] = i
    BY <1>1, VictimUnpinned
  <1>3. \A j \in Frames : pages[j].id # p
    BY NotInAnyFrame
  <1>4. /\ known \subseteq PageIds /\ \A q \in known : q < next_page_id
        /\ next_page_id \in Nat /\ free \subseteq Frames /\ stuck \subseteq Frames
        /\ PageIds \subseteq Nat
        /\ page_table \in [PageIds -> Frames \cup {NoFrame}]
    BY PageIdsAssumption DEF IInv, TypeOK, Allocated
  \* Only the victim's old page can be mapped to the victim,
  <1>5. \A q \in PageIds : page_table[q] = i => q = old
    BY NoFrameAssumption DEF IInv, TableInv, Mapped
  \* and no other frame can have that page's entry.
  <1>6. \A j \in Frames : j # i /\ old \in PageIds => page_table[old] # j
    <2>1. CASE i \in free
      <3>1. old \in PageIds => page_table[old] # i
        BY <2>1, NoFrameAssumption DEF IInv, TableInv, Mapped
      <3>2. old \in PageIds => old \notin known
        BY <3>1 DEF IInv, OrphanInv
      <3>3. old \in PageIds => page_table[old] = NoFrame
        BY <3>2 DEF IInv, TableInv, Mapped
      <3> QED
        BY <3>3, NoFrameAssumption
    <2>2. CASE i \notin free
      BY <1>2, <2>2
    <2> QED
      BY <2>1, <2>2
  <1>7. TypeOK'
    BY <1>1, <1>4 DEF IInv, TypeOK, Allocated
  <1>8. TableInv'
    <2> SUFFICES ASSUME NEW q \in PageIds, page_table'[q] # NoFrame
                 PROVE  /\ page_table'[q] \notin free'
                        /\ pages'[page_table'[q]].id = q
                        /\ q \in known'
      BY DEF TableInv, Mapped
    <2>1. CASE q = p
      BY <2>1, <1>1
    <2>2. CASE q # p
      <3>1. q # old /\ page_table'[q] = page_table[q] /\ page_table[q] \in Frames
        BY <2>2, <1>1, <1>4
      <3>2. page_table[q] # i
        BY <3>1, <1>5
      <3>3. /\ page_table[q] \notin free
            /\ pages[page_table[q]].id = q
            /\ q \in known
        BY <3>1 DEF IInv, TableInv, Mapped
      <3> QED
        BY <1>1, <3>1, <3>2, <3>3
    <2> QED
      BY <2>1, <2>2
  <1>9. FreeInv'
    BY <1>1, <1>4 DEF IInv, FreeInv
  <1>10. BusyInv'
    <2> SUFFICES ASSUME NEW j \in Frames \ free'
                 PROVE  /\ pages'[j].id \in PageIds
                        /\ pins'[j] = held'[j][pages'[j].id] + (IF j \in stuck' THEN 1 ELSE 0)
                        /\ \A q \in PageIds : q # pages'[j].id => held'[j][q] = 0
                        /\ page_table'[pages'[j].id] # j =>
                              j \in stuck' /\ held'[j][pages'[j].id] = 0
      BY DEF BusyInv
    <2>1. CASE j = i
      BY <2>1, <1>1, <1>2
    <2>2. CASE j # i
      <3>1. j \in Frames \ free
        BY <2>2, <1>1
      <3>2. /\ pages[j].id \in PageIds
            /\ pins[j] = held[j][pages[j].id] + (IF j \in stuck THEN 1 ELSE 0)
            /\ \A q \in PageIds : q # pages[j].id => held[j][q] = 0
            /\ page_table[pages[j].id] # j => j \in stuck /\ held[j][pages[j].id] = 0
        BY <3>1 DEF IInv, BusyInv
      <3>3. page_table'[pages[j].id] # j => page_table[pages[j].id] # j
        BY <2>2, <3>2, <1>1, <1>3, <1>6
      <3> QED
        BY <2>2, <3>2, <3>3, <1>1
    <2> QED
      BY <2>1, <2>2
  <1>11. OrphanInv'
    <2> SUFFICES ASSUME NEW j \in Frames
                 PROVE  /\ pages'[j].dirty => pages'[j].id \in PageIds
                        /\ pages'[j].id \in PageIds =>
                              /\ pages'[j].id < next_page_id'
                              /\ page_table'[pages'[j].id] # j => pages'[j].id \notin known'
      BY DEF OrphanInv
    <2>1. CASE j = i
      BY <2>1, <1>1
    <2>2. CASE j # i
      <3>1. /\ pages[j].dirty => pages[j].id \in PageIds
            /\ pages[j].id \in PageIds =>
                 /\ pages[j].id < next_page_id
                 /\ page_table[pages[j].id] # j => pages[j].id \notin known
        BY DEF IInv, OrphanInv
      <3>2. pages[j].id \in PageIds /\ page_table'[pages[j].id] # j => page_table[pages[j].id] # j
        BY <2>2, <1>1, <1>3, <1>6
      <3>3. pages'[j] = pages[j] /\ pages[j].id # p
        BY <2>2, <1>1, <1>3
      <3>4. ASSUME pages[j].id \in PageIds PROVE pages[j].id < next_page_id'
        <4>1. pages[j].id \in Nat /\ pages[j].id < next_page_id
          BY <3>1, <3>4, <1>4
        <4> QED
          BY <4>1, <1>4
      <3> QED
        BY <3>1, <3>2, <3>3, <3>4
    <2> QED
      BY <2>1, <2>2
  <1>12. CleanInv'
    <2> SUFFICES ASSUME NEW q \in PageIds, page_table'[q] # NoFrame,
                        ~pages'[page_table'[q]].dirty
                 PROVE  pages'[page_table'[q]].data = disk'[q]
      BY DEF CleanInv, Mapped
    <2>1. CASE q = p
      BY <2>1, <1>1
    <2>2. CASE q # p
      <3>1. q # old /\ page_table'[q] = page_table[q] /\ page_table[q] \in Frames
        BY <2>2, <1>1, <1>4
      <3>2. page_table[q] # i
        BY <3>1, <1>5
      <3> QED
        BY <3>1, <3>2, <1>1 DEF IInv, CleanInv, Mapped
    <2> QED
      BY <2>1, <2>2
  <1> QED
    BY <1>7, <1>8, <1>9, <1>10, <1>11, <1>12 DEF IInv

\* A try_get_page that cannot write the old page leaves its frame stuck.
LEMMA WriteFailsIInv ==
  ASSUME IInv, late = {}, NEW i \in Frames, GetPageWriteFails(i),
         next_page_id' \in Nat, next_page_id' >= next_page_id, UNCHANGED known
  PROVE  IInv'
  <1>1. /\ i \in Victims /\ free' = free \ {i} /\ pins' = TakeFramePins(pins, i)
        /\ pages[i].dirty /\ stuck' = stuck \cup {i}
        /\ UNCHANGED <<pages, page_table, disk, held, late>>
    BY DEF GetPageWriteFails, TakeFrame
  <1>2. /\ i \notin stuck /\ \A p \in PageIds : held[i][p] = 0
        /\ i \notin free => pages[i].id \in PageIds /\ page_table[pages[i].id] = i
    BY <1>1, VictimUnpinned
  <1>3. /\ pins' \in PinCounters /\ pins'[i] = 1
        /\ \A j \in Frames : j # i => pins'[j] = pins[j]
    <2>1. pins' = [pins EXCEPT ![i] = 1] /\ pins \in PinCounters
      BY <1>1, TakenPins DEF IInv, TypeOK
    <2> QED
      BY <2>1, MaxU64Assumption DEF PinCounters
  <1>4. pages[i].id \in PageIds
    BY <1>1 DEF IInv, OrphanInv
  <1>5. /\ known \subseteq PageIds /\ \A q \in known : q < next_page_id /\ q \in Nat
        /\ next_page_id \in Nat /\ PageIds \subseteq Nat
    BY PageIdsAssumption DEF IInv, TypeOK, Allocated
  <1>6. TypeOK'
    BY <1>1, <1>3, <1>5 DEF IInv, TypeOK, Allocated
  <1>7. TableInv' /\ CleanInv'
    BY <1>1 DEF IInv, TableInv, CleanInv, Mapped
  <1>8. FreeInv'
    BY <1>1, <1>3 DEF IInv, TypeOK, FreeInv
  <1>9. BusyInv'
    <2> SUFFICES ASSUME NEW j \in Frames \ free'
                 PROVE  /\ pages[j].id \in PageIds
                        /\ pins'[j] = held[j][pages[j].id] + (IF j \in stuck' THEN 1 ELSE 0)
                        /\ \A q \in PageIds : q # pages[j].id => held[j][q] = 0
                        /\ page_table[pages[j].id] # j =>
                              j \in stuck' /\ held[j][pages[j].id] = 0
      BY <1>1 DEF BusyInv
    <2>1. CASE j = i
      BY <2>1, <1>1, <1>2, <1>3, <1>4
    <2>2. CASE j # i
      BY <2>2, <1>1, <1>3 DEF IInv, BusyInv
    <2> QED
      BY <2>1, <2>2
  <1>10. OrphanInv'
    <2> SUFFICES ASSUME NEW j \in Frames
                 PROVE  /\ pages[j].dirty => pages[j].id \in PageIds
                        /\ pages[j].id \in PageIds =>
                              /\ pages[j].id < next_page_id'
                              /\ page_table[pages[j].id] # j => pages[j].id \notin known
      BY <1>1 DEF OrphanInv
    <2>1. /\ pages[j].dirty => pages[j].id \in PageIds
          /\ pages[j].id \in PageIds =>
                /\ pages[j].id < next_page_id
                /\ page_table[pages[j].id] # j => pages[j].id \notin known
      BY DEF IInv, OrphanInv
    <2>2. ASSUME pages[j].id \in PageIds PROVE pages[j].id < next_page_id'
      <3>1. pages[j].id \in Nat /\ pages[j].id < next_page_id
        BY <2>1, <2>2, <1>5
      <3> QED
        BY <3>1, <1>5
    <2> QED
      BY <2>1, <2>2
  <1> QED
    BY <1>6, <1>7, <1>8, <1>9, <1>10 DEF IInv

LEMMA AllocateFacts ==
  ASSUME IInv, AllocatePage
  PROVE  /\ next_page_id \in PageIds /\ ~Mapped(next_page_id)
         /\ next_page_id' \in Nat /\ next_page_id' >= next_page_id
         /\ next_page_id < next_page_id' /\ next_page_id \in Nat
  <1>1. /\ next_page_id \in PageIds /\ next_page_id \in Nat
        /\ next_page_id' = next_page_id + 1
    BY PageIdsAssumption DEF IInv, TypeOK, AllocatePage
  <1>2. next_page_id \notin known
    BY <1>1 DEF IInv, TypeOK, Allocated
  <1> QED
    BY <1>1, <1>2 DEF IInv, TableInv

LEMMA NewPageIInv == IInv /\ late = {} /\ NewPage => IInv'
  <1> SUFFICES ASSUME IInv, late = {}, NewPage PROVE IInv'
    OBVIOUS
  <1>1. AllocatePage /\ known' = known \cup {next_page_id}
    BY DEF NewPage
  <1>2. PICK i \in Frames : GetPage(next_page_id, i)
    BY DEF NewPage
  <1>3. /\ next_page_id \in PageIds /\ ~Mapped(next_page_id)
        /\ next_page_id' \in Nat /\ next_page_id' >= next_page_id
        /\ next_page_id < next_page_id' /\ next_page_id \in Nat
    BY <1>1, AllocateFacts
  <1>4. next_page_id >= next_page_id
    BY <1>3
  <1> QED
    BY <1>1, <1>2, <1>3, <1>4, GetPageIInv

LEMMA NewPageFailsIInv == IInv /\ late = {} /\ NewPageFails => IInv'
  <1> SUFFICES ASSUME IInv, late = {}, NewPageFails PROVE IInv'
    OBVIOUS
  <1>1. /\ next_page_id' \in Nat /\ next_page_id' >= next_page_id
        /\ next_page_id \in Nat /\ UNCHANGED known
    BY AllocateFacts DEF NewPageFails
  <1>2. CASE \E i \in Frames : GetPageWriteFails(i)
    BY <1>1, <1>2, WriteFailsIInv
  <1>3. CASE UNCHANGED <<pages, page_table, free, disk, pins, held, stuck, late>>
    <2>1. \A p \in PageIds : p < next_page_id => p < next_page_id'
      BY <1>1, PageIdsAssumption
    <2>2. TypeOK'
      BY <1>1, <1>3, <2>1 DEF IInv, TypeOK, Allocated
    <2>3. TableInv' /\ FreeInv' /\ BusyInv' /\ CleanInv'
      BY <1>1, <1>3 DEF IInv, TableInv, FreeInv, BusyInv, CleanInv, Mapped
    <2>4. OrphanInv'
      BY <1>1, <1>3, <2>1 DEF IInv, OrphanInv
    <2> QED
      BY <2>2, <2>3, <2>4 DEF IInv
  <1> QED
    BY <1>2, <1>3 DEF NewPageFails

LEMMA FetchPageMissIInv ==
  ASSUME IInv, late = {}, NEW p \in PageIds, FetchPageMiss(p)
  PROVE  IInv'
  <1>1. p \in known /\ ~Mapped(p) /\ UNCHANGED <<next_page_id, known>>
    BY DEF FetchPageMiss
  <1>2. /\ next_page_id' \in Nat /\ next_page_id' >= next_page_id
        /\ p < next_page_id' /\ known' = known \cup {p}
    BY <1>1 DEF IInv, TypeOK, Allocated
  <1>3. ASSUME NEW i \in Frames, GetPage(p, i) PROVE IInv'
    BY <1>1, <1>2, <1>3, GetPageIInv
  <1>4. ASSUME NEW i \in Frames, GetPageWriteFails(i) PROVE IInv'
    BY <1>1, <1>2, <1>4, WriteFailsIInv
  <1> QED
    BY <1>3, <1>4 DEF FetchPageMiss

-----------------------------------------------------------------------------
(***************************************************************************)
(* Calls that move Pins only: the number of Pins of page p on frame i      *)
(* becomes n, and the counter of the frame follows.                        *)
(***************************************************************************)
LEMMA CountIInv ==
  ASSUME IInv, NEW i \in Frames \ free, NEW p \in PageIds, NEW n \in Nat,
         page_table[p] = i,
         held' = [held EXCEPT ![i][p] = n],
         pins' \in PinCounters,
         pins'[i] = n + (IF i \in stuck THEN 1 ELSE 0),
         \A j \in Frames : j # i => pins'[j] = pins[j],
         UNCHANGED <<pages, page_table, free, disk, next_page_id, stuck, late, known>>
  PROVE  IInv'
  <1>1. held \in [Frames -> [PageIds -> Nat]]
    BY DEF IInv, TypeOK
  <1>2. /\ held' \in [Frames -> [PageIds -> Nat]] /\ held'[i][p] = n
        /\ \A q \in PageIds : q # p => held'[i][q] = held[i][q]
        /\ \A j \in Frames : j # i => held'[j] = held[j]
    <2>1. held[i] \in [PageIds -> Nat] /\ held'[i] = [held[i] EXCEPT ![p] = n]
      BY <1>1
    <2>2. held'[i] \in [PageIds -> Nat]
      BY <2>1
    <2> QED
      BY <1>1, <2>1, <2>2
  <1>3. pages[i].id = p
    BY NoFrameAssumption DEF IInv, TableInv, Mapped
  <1>4. TypeOK'
    BY <1>2 DEF IInv, TypeOK, Allocated
  <1>5. TableInv' /\ OrphanInv' /\ CleanInv'
    BY DEF IInv, TableInv, OrphanInv, CleanInv, Mapped
  <1>6. FreeInv'
    <2> SUFFICES ASSUME NEW j \in free
                 PROVE  /\ pins'[j] = Untracked /\ j \notin stuck
                        /\ \A q \in PageIds : held'[j][q] = 0
      BY DEF IInv, FreeInv
    <2>1. j \in Frames /\ j # i
      BY DEF IInv, TypeOK
    <2> QED
      BY <1>2, <2>1 DEF IInv, FreeInv
  <1>7. BusyInv'
    <2> SUFFICES ASSUME NEW j \in Frames \ free
                 PROVE  /\ pages[j].id \in PageIds
                        /\ pins'[j] = held'[j][pages[j].id] + (IF j \in stuck THEN 1 ELSE 0)
                        /\ \A q \in PageIds : q # pages[j].id => held'[j][q] = 0
                        /\ page_table[pages[j].id] # j =>
                              j \in stuck /\ held'[j][pages[j].id] = 0
      BY DEF BusyInv
    <2>1. CASE j = i
      BY <2>1, <1>2, <1>3 DEF IInv, BusyInv
    <2>2. CASE j # i
      BY <2>2, <1>2 DEF IInv, BusyInv
    <2> QED
      BY <2>1, <2>2
  <1> QED
    BY <1>4, <1>5, <1>6, <1>7 DEF IInv

\* A frame the table leads to: its page, its counter and its Pins.
LEMMA MappedFacts ==
  ASSUME IInv, NEW p \in PageIds, Mapped(p)
  PROVE  /\ page_table[p] \in Frames \ free
         /\ pages[page_table[p]].id = p
         /\ p \in known
         /\ held[page_table[p]][p] \in Nat
         /\ pins[page_table[p]] = held[page_table[p]][p]
                                  + (IF page_table[p] \in stuck THEN 1 ELSE 0)
         /\ \A q \in PageIds : q # p => held[page_table[p]][q] = 0
  <1>1. page_table[p] \in Frames
    BY DEF IInv, TypeOK, Mapped
  <1>2. page_table[p] \notin free /\ pages[page_table[p]].id = p /\ p \in known
    BY DEF IInv, TableInv
  <1>3. held[page_table[p]][p] \in Nat
    BY <1>1 DEF IInv, TypeOK
  <1> QED
    BY <1>1, <1>2, <1>3 DEF IInv, BusyInv

LEMMA HeldFacts ==
  ASSUME IInv, NEW i \in Frames, NEW p \in PageIds, held[i][p] > 0
  PROVE  i \notin free /\ pages[i].id = p /\ page_table[p] = i /\ Mapped(p)
  <1>1. held[i][p] \in Nat
    BY DEF IInv, TypeOK
  <1>2. i \notin free
    BY <1>1 DEF IInv, FreeInv
  <1>3. pages[i].id = p
    BY <1>1, <1>2 DEF IInv, BusyInv
  <1>4. page_table[p] = i
    BY <1>1, <1>2, <1>3 DEF IInv, BusyInv
  <1> QED
    BY <1>2, <1>3, <1>4, NoFrameAssumption DEF Mapped

LEMMA FetchPageHitIInv ==
  ASSUME IInv, NEW p \in PageIds, FetchPageHit(p)
  PROVE  IInv'
  <1> DEFINE i == page_table[p]
             n == held[i][p]
  <1>1. /\ i \in Frames \ free /\ n \in Nat
        /\ pins[i] = n + (IF i \in stuck THEN 1 ELSE 0)
    BY MappedFacts DEF FetchPageHit
  <1>2. /\ pins[i] < MaxU64 /\ pins \in PinCounters /\ MaxU64 \in Nat
        /\ pins' = PinPins(RecordAccessPins(pins, i), i)
        /\ held' = [held EXCEPT ![i][p] = n + 1]
        /\ UNCHANGED <<pages, page_table, free, disk, next_page_id, stuck, late, known>>
    BY MaxU64Assumption DEF FetchPageHit, IInv, TypeOK
  <1> HIDE DEF i, n
  <1>3. pins[i] # -1 /\ pins[i] \in Nat
    BY <1>1
  <1>4. RecordAccessPins(pins, i) = pins
    BY <1>1, <1>2, <1>3 DEF RecordAccessPins, Untracked, PinCounters
  <1>5. pins' = [pins EXCEPT ![i] = pins[i] + 1]
    <2>1. pins[i] # MaxU64
      BY <1>2, <1>3
    <2>2. pins[i] + 1 = CASE pins[i] = -1 -> pins[i]
                          [] pins[i] = MaxU64 -> 0
                          [] OTHER -> pins[i] + 1
      BY <1>3, <2>1
    <2> QED
      BY <1>2, <1>4, <2>2 DEF PinPins, Untracked
  <1>6. /\ pins' \in PinCounters /\ pins'[i] = pins[i] + 1
        /\ \A j \in Frames : j # i => pins'[j] = pins[j]
    BY <1>1, <1>2, <1>3, <1>5 DEF PinCounters
  <1>7. pins'[i] = (n + 1) + (IF i \in stuck THEN 1 ELSE 0) /\ n + 1 \in Nat
    BY <1>1, <1>6
  <1> QED
    BY <1>1, <1>2, <1>6, <1>7, CountIInv DEF i

LEMMA DropPinIInv ==
  ASSUME IInv, NEW i \in Frames, NEW p \in PageIds, DropPin(i, p)
  PROVE  IInv'
  <1>1. i \in Frames \ free /\ page_table[p] = i /\ Mapped(p)
    BY HeldFacts DEF DropPin
  <1>2. /\ held[i][p] \in Nat /\ held[i][p] > 0
        /\ pins[i] = held[i][p] + (IF i \in stuck THEN 1 ELSE 0)
    BY <1>1, MappedFacts DEF DropPin
  <1>3. /\ pins' = UnpinPins(pins, i)
        /\ held' = [held EXCEPT ![i][p] = held[i][p] - 1]
        /\ UNCHANGED <<pages, page_table, free, disk, next_page_id, stuck, late, known>>
        /\ pins \in PinCounters /\ MaxU64 \in Nat
    BY MaxU64Assumption DEF DropPin, IInv, TypeOK
  <1>4. pins[i] \in Nat /\ pins[i] # 0 /\ pins[i] # -1
    BY <1>2
  <1>5. pins' = [pins EXCEPT ![i] = pins[i] - 1]
    BY <1>1, <1>3, <1>4 DEF UnpinPins, Untracked, PinCounters
  <1>6. /\ pins' \in PinCounters /\ pins'[i] = pins[i] - 1
        /\ \A j \in Frames : j # i => pins'[j] = pins[j]
    <2>1. pins[i] \in 0..MaxU64
      BY <1>1, <1>3, <1>4 DEF PinCounters, Untracked
    <2>2. pins[i] - 1 \in 0..MaxU64
      BY <1>3, <1>4, <2>1
    <2>3. pins' \in PinCounters
      BY <1>3, <1>5, <2>2 DEF PinCounters
    <2> QED
      BY <1>1, <1>3, <1>5, <2>3 DEF PinCounters
  <1>7. /\ pins'[i] = (held[i][p] - 1) + (IF i \in stuck THEN 1 ELSE 0)
        /\ held[i][p] - 1 \in Nat
    BY <1>2, <1>6
  <1> QED
    BY <1>1, <1>3, <1>6, <1>7, CountIInv

LEMMA WritePageIInv ==
  ASSUME IInv, NEW i \in Frames, NEW p \in PageIds, NEW d \in Data, WritePage(i, p, d)
  PROVE  IInv'
  <1>1. pages[i].id = p /\ page_table[p] = i /\ p \in known
    BY HeldFacts, MappedFacts DEF WritePage
  <1>2. /\ pages' \in [Frames -> PageInner] /\ pages'[i].id = p /\ pages'[i].dirty
        /\ \A j \in Frames : j # i => pages'[j] = pages[j]
    BY <1>1 DEF WritePage, Written, IInv, TypeOK, PageInner
  <1>3. UNCHANGED <<page_table, free, disk, next_page_id, pins, held, stuck, late, known>>
    BY DEF WritePage
  <1>4. \A j \in Frames : pages'[j].id = pages[j].id
    BY <1>1, <1>2
  <1>5. TypeOK'
    BY <1>2, <1>3 DEF IInv, TypeOK, Allocated
  <1>6. TableInv'
    BY <1>3, <1>4 DEF IInv, TypeOK, TableInv, Mapped
  <1>7. FreeInv'
    BY <1>3 DEF IInv, FreeInv
  <1>8. BusyInv'
    BY <1>3, <1>4 DEF IInv, TypeOK, BusyInv
  <1>9. OrphanInv'
    BY <1>1, <1>2, <1>3, <1>4 DEF IInv, TypeOK, OrphanInv
  <1>10. CleanInv'
    BY <1>2, <1>3 DEF IInv, TypeOK, CleanInv, Mapped
  <1> QED
    BY <1>5, <1>6, <1>7, <1>8, <1>9, <1>10 DEF IInv

LEMMA RemovePageIInv ==
  ASSUME IInv, NEW p \in PageIds, RemovePage(p)
  PROVE  IInv'
  <1> DEFINE i == page_table[p]
  <1>1. /\ i \in Frames \ free /\ pages[i].id = p /\ p \in known
        /\ \A q \in PageIds : q # p => held[i][q] = 0
    BY MappedFacts DEF RemovePage
  <1>2. /\ held' = [held EXCEPT ![i][p] = 0]
        /\ page_table' = [page_table EXCEPT ![p] = NoFrame]
        /\ pins' = [pins EXCEPT ![i] = -1]
        /\ free' = free \cup {i}
        /\ stuck' = stuck \ {i}
        /\ late' = {j \in {i} : held[i][p] > 0}
        /\ known' = known \ {p}
        /\ UNCHANGED <<pages, disk, next_page_id>>
    BY DEF RemovePage, RemovePins, Untracked
  <1> HIDE DEF i
  <1>3. /\ \A q \in PageIds : held'[i][q] = 0
        /\ \A j \in Frames : j # i => held'[j] = held[j]
        /\ held' \in [Frames -> [PageIds -> Nat]]
    BY <1>1, <1>2 DEF IInv, TypeOK
  <1>4. /\ page_table'[p] = NoFrame
        /\ \A q \in PageIds : q # p => page_table'[q] = page_table[q]
        /\ page_table' \in [PageIds -> Frames \cup {NoFrame}]
    BY <1>2 DEF IInv, TypeOK
  <1>5. /\ pins'[i] = -1
        /\ \A j \in Frames : j # i => pins'[j] = pins[j]
        /\ pins' \in PinCounters
    BY <1>1, <1>2 DEF IInv, TypeOK, PinCounters, Untracked
  <1>6. TypeOK'
    BY <1>1, <1>2, <1>3, <1>4, <1>5 DEF IInv, TypeOK, Allocated
  <1>7. \A q \in PageIds : q # p /\ page_table[q] # NoFrame => page_table[q] # i
    BY <1>1 DEF IInv, TableInv, Mapped
  <1>8. TableInv'
    BY <1>1, <1>2, <1>4, <1>7 DEF IInv, TableInv, Mapped
  <1>9. FreeInv'
    BY <1>1, <1>2, <1>3, <1>5 DEF IInv, TypeOK, FreeInv, Untracked
  <1>10. BusyInv'
    <2> SUFFICES ASSUME NEW j \in Frames \ free, j # i
                 PROVE  /\ pages[j].id \in PageIds
                        /\ pins[j] = held[j][pages[j].id] + (IF j \in stuck THEN 1 ELSE 0)
                        /\ \A q \in PageIds : q # pages[j].id => held[j][q] = 0
                        /\ page_table'[pages[j].id] # j => j \in stuck /\ held[j][pages[j].id] = 0
      BY <1>2, <1>3, <1>5 DEF BusyInv
    <2>1. /\ pages[j].id \in PageIds
          /\ pins[j] = held[j][pages[j].id] + (IF j \in stuck THEN 1 ELSE 0)
          /\ \A q \in PageIds : q # pages[j].id => held[j][q] = 0
          /\ page_table[pages[j].id] # j => j \in stuck /\ held[j][pages[j].id] = 0
      BY DEF IInv, BusyInv
    <2>2. page_table'[pages[j].id] # j => page_table[pages[j].id] # j
      BY <1>4, <2>1 DEF i
    <2> QED
      BY <2>1, <2>2
  <1>11. OrphanInv'
    BY <1>1, <1>2, <1>4 DEF IInv, TypeOK, OrphanInv, i
  <1>12. CleanInv'
    BY <1>2, <1>4 DEF IInv, CleanInv, Mapped
  <1> QED
    BY <1>6, <1>8, <1>9, <1>10, <1>11, <1>12 DEF IInv

\* The late drop finds no node, and the counters stay as they are.
LEMMA LateDropEffect ==
  ASSUME IInv, NEW i \in Frames, LateDrop(i)
  PROVE  pins' = pins
  <1>1. pins[i] = -1 /\ pins \in PinCounters
    BY DEF LateDrop, IInv, TypeOK, FreeInv, Untracked
  <1> QED
    BY <1>1 DEF LateDrop, UnpinPins, PinCounters, Untracked

LEMMA LateDropIInv ==
  ASSUME IInv, NEW i \in Frames, LateDrop(i)
  PROVE  IInv'
  <1>1. /\ pins' = pins /\ late' \subseteq late
        /\ UNCHANGED <<pages, page_table, free, disk, next_page_id, held, stuck, known>>
    BY LateDropEffect DEF LateDrop
  <1> QED
    BY <1>1
       DEF IInv, TypeOK, TableInv, FreeInv, BusyInv, OrphanInv, CleanInv, Mapped, Allocated

\* A flush of busy frames: ids stay, each flushed page is on disk and clean.
LEMMA FlushFacts ==
  ASSUME IInv, NEW F \in SUBSET MappedFrames, FlushFrames(F)
  PROVE  /\ pages' \in [Frames -> PageInner]
         /\ \A j \in Frames : pages'[j].id = pages[j].id /\ pages'[j].data = pages[j].data
         /\ \A j \in Frames : pages'[j].dirty => pages[j].dirty
         /\ \A j \in Frames : pages[j].dirty => pages'[j].dirty \/ j \in F
         /\ disk' \in [PageIds -> Data]
         /\ \A q \in PageIds : Mapped(q) =>
               disk'[q] = IF page_table[q] \in F THEN pages[page_table[q]].data ELSE disk[q]
         /\ \A q \in PageIds : ~Mapped(q) => disk'[q] = disk[q]
  <1>1. /\ disk' = [p \in PageIds |-> IF \E i \in F : pages[i].id = p
                                  THEN pages[CHOOSE i \in F : pages[i].id = p].data
                                  ELSE disk[p]]
        /\ pages' = [i \in Frames |-> [pages[i] EXCEPT !.dirty = @ /\ i \notin F]]
    BY DEF FlushFrames
  <1>2. F \subseteq Frames
    BY DEF MappedFrames
  <1>3. pages \in [Frames -> PageInner] /\ disk \in [PageIds -> Data]
    BY DEF IInv, TypeOK
  <1>4. \A j \in F : pages[j].id \in PageIds /\ page_table[pages[j].id] = j
    <2> SUFFICES ASSUME NEW j \in F PROVE pages[j].id \in PageIds /\ page_table[pages[j].id] = j
      OBVIOUS
    <2>1. PICK q \in PageIds : page_table[q] = j
      BY DEF MappedFrames
    <2> QED
      BY <1>2, <2>1, NoFrameAssumption DEF IInv, TableInv, Mapped
  <1>5. \A j \in Frames :
           /\ pages'[j] \in PageInner
           /\ pages'[j].id = pages[j].id
           /\ pages'[j].data = pages[j].data
           /\ pages'[j].dirty => pages[j].dirty
           /\ pages[j].dirty => pages'[j].dirty \/ j \in F
    BY <1>1, <1>3 DEF PageInner
  <1>6. pages' \in [Frames -> PageInner]
    BY <1>1, <1>5
  <1>7. ASSUME NEW q \in PageIds
        PROVE  /\ disk'[q] \in Data
               /\ Mapped(q) => disk'[q] = IF page_table[q] \in F
                                          THEN pages[page_table[q]].data ELSE disk[q]
               /\ ~Mapped(q) => disk'[q] = disk[q]
    <2>1. CASE \E j \in F : pages[j].id = q
      <3> DEFINE c == CHOOSE j \in F : pages[j].id = q
      <3>1. c \in F /\ pages[c].id = q
        BY <2>1
      <3>2. disk'[q] = pages[c].data
        BY <1>1, <2>1
      <3> HIDE DEF c
      <3>3. page_table[q] = c /\ c \in Frames
        BY <1>2, <1>4, <3>1
      <3> QED
        BY <1>3, <3>1, <3>2, <3>3, NoFrameAssumption DEF Mapped, PageInner
    <2>2. CASE ~ \E j \in F : pages[j].id = q
      <3>1. disk'[q] = disk[q]
        BY <1>1, <2>2
      <3>2. Mapped(q) => page_table[q] \notin F
        BY <2>2 DEF IInv, TableInv
      <3> QED
        BY <1>3, <3>1, <3>2
    <2> QED
      BY <2>1, <2>2
  <1>8. disk' \in [PageIds -> Data]
    BY <1>1, <1>7
  <1> QED
    BY <1>5, <1>6, <1>7, <1>8

LEMMA FlushIInv ==
  ASSUME IInv, NEW F \in SUBSET MappedFrames, FlushFrames(F)
  PROVE  IInv'
  <1>1. UNCHANGED <<page_table, free, next_page_id, pins, held, stuck, late, known>>
    BY DEF FlushFrames
  <1>2. pages' \in [Frames -> PageInner] /\ disk' \in [PageIds -> Data]
    BY FlushFacts
  <1>3. \A j \in Frames : pages'[j].id = pages[j].id /\ pages'[j].data = pages[j].data
    BY FlushFacts
  <1>4. \A j \in Frames : pages'[j].dirty => pages[j].dirty
    BY FlushFacts
  <1>5. \A j \in Frames : pages[j].dirty => pages'[j].dirty \/ j \in F
    BY FlushFacts
  <1>6. \A q \in PageIds : Mapped(q) => disk'[q] \in {pages[page_table[q]].data, disk[q]}
    BY FlushFacts
  <1>7. \A q \in PageIds : Mapped(q) /\ page_table[q] \in F => disk'[q] = pages[page_table[q]].data
    BY FlushFacts
  <1>8. TypeOK'
    BY <1>1, <1>2 DEF IInv, TypeOK, Allocated
  <1>9. TableInv'
    BY <1>1, <1>3 DEF IInv, TypeOK, TableInv, Mapped
  <1>10. FreeInv'
    BY <1>1 DEF IInv, FreeInv
  <1>11. BusyInv'
    BY <1>1, <1>3 DEF IInv, TypeOK, BusyInv
  <1>12. OrphanInv'
    BY <1>1, <1>3, <1>4 DEF IInv, OrphanInv
  <1>13. CleanInv'
    <2> SUFFICES ASSUME NEW q \in PageIds, Mapped(q), ~pages'[page_table[q]].dirty
                 PROVE  pages'[page_table[q]].data = disk'[q]
      BY <1>1 DEF CleanInv, Mapped
    <2>1. page_table[q] \in Frames
      BY DEF IInv, TypeOK, Mapped
    <2>2. pages'[page_table[q]].data = pages[page_table[q]].data
      BY <1>3, <2>1
    <2>3. CASE page_table[q] \in F
      BY <1>7, <2>2, <2>3
    <2>4. CASE page_table[q] \notin F
      <3>1. ~pages[page_table[q]].dirty
        BY <1>5, <2>1, <2>4
      <3> QED
        BY <1>6, <2>2, <3>1 DEF IInv, CleanInv
    <2> QED
      BY <2>3, <2>4
  <1> QED
    BY <1>8, <1>9, <1>10, <1>11, <1>12, <1>13 DEF IInv

LEMMA RestartIInv ==
  ASSUME IInv, Restart
  PROVE  IInv'
  <1>1. TypeOK'
    BY DataAssumption
       DEF Restart, IInv, TypeOK, Allocated, PageInner, Blank, PinCounters, Untracked
  <1>2. TableInv' /\ CleanInv'
    BY DEF Restart, TableInv, CleanInv, Mapped
  <1>3. FreeInv' /\ BusyInv'
    BY DEF Restart, FreeInv, BusyInv
  <1>4. OrphanInv'
    BY PageIdsAssumption DEF Restart, OrphanInv, Blank, NoPage
  <1> QED
    BY <1>1, <1>2, <1>3, <1>4 DEF IInv

-----------------------------------------------------------------------------
LEMMA FlushCalls ==
  ASSUME IInv
  PROVE  /\ \A p \in PageIds : FlushPage(p) => IInv'
         /\ FlushAllPages => IInv'
         /\ \A F \in SUBSET Frames : FlushAllPagesFails(F) => IInv'
  <1>1. ASSUME NEW p \in PageIds, FlushPage(p) PROVE IInv'
    <2>1. {page_table[p]} \in SUBSET MappedFrames
      BY <1>1 DEF FlushPage, Mapped, MappedFrames, IInv, TypeOK
    <2> QED
      BY <1>1, <2>1, FlushIInv DEF FlushPage
  <1>2. ASSUME FlushAllPages PROVE IInv'
    BY <1>2, FlushIInv DEF FlushAllPages
  <1>3. ASSUME NEW F \in SUBSET Frames, FlushAllPagesFails(F) PROVE IInv'
    BY <1>3, FlushIInv DEF FlushAllPagesFails
  <1> QED
    BY <1>1, <1>2, <1>3

LEMMA StutterIInv == IInv /\ UNCHANGED vars => IInv'
  BY DEF vars, IInv, TypeOK, TableInv, FreeInv, BusyInv, OrphanInv, CleanInv, Mapped, Allocated

LEMMA NextIInv == IInv /\ [Next]_vars => IInv'
  <1> SUFFICES ASSUME IInv, [Next]_vars PROVE IInv'
    OBVIOUS
  <1>1. CASE late = {} /\ Calls
    <2>1. CASE NewPage
      BY <1>1, <2>1, NewPageIInv
    <2>2. CASE NewPageFails
      BY <1>1, <2>2, NewPageFailsIInv
    <2>3. ASSUME NEW p \in PageIds, FetchPageHit(p) \/ FetchPageMiss(p) \/ FlushPage(p)
          PROVE  IInv'
      BY <1>1, <2>3, FetchPageHitIInv, FetchPageMissIInv, FlushCalls
    <2>4. ASSUME NEW i \in Frames, NEW p \in PageIds, NEW d \in Data, WritePage(i, p, d)
          PROVE  IInv'
      BY <2>4, WritePageIInv
    <2>5. CASE FlushAllPages \/ \E F \in SUBSET Frames : FlushAllPagesFails(F)
      BY <2>5, FlushCalls
    <2> QED
      BY <1>1, <2>1, <2>2, <2>3, <2>4, <2>5 DEF Calls
  <1>2. ASSUME NEW p \in PageIds, RemovePage(p) PROVE IInv'
    BY <1>2, RemovePageIInv
  <1>3. ASSUME NEW i \in Frames, LateDrop(i) PROVE IInv'
    BY <1>3, LateDropIInv
  <1>4. ASSUME NEW i \in Frames, NEW p \in PageIds, DropPin(i, p) PROVE IInv'
    BY <1>4, DropPinIInv
  <1>5. CASE Restart
    BY <1>5, RestartIInv
  <1>6. CASE UNCHANGED vars
    BY <1>6, StutterIInv
  <1> QED
    BY <1>1, <1>2, <1>3, <1>4, <1>5, <1>6 DEF Next

\* IInv holds in every state of every run of the cache.
THEOREM Invariance == Spec => []IInv
  BY InitIInv, NextIInv, PTL DEF Spec

(***************************************************************************)
(* The replacer counts the Pins of every frame it tracks, so that no drop  *)
(* of a Pin takes a counter below 0, the late one after a remove_page      *)
(* included: any number of frames, Pins and removals.                      *)
(***************************************************************************)
THEOREM PinsCountedCorrect == Spec => []PinsCounted
  <1>1. ASSUME IInv, NEW i \in Frames, pins[i] # Untracked
        PROVE  \E p \in PageIds :
                  /\ pins[i] = held[i][p] + (IF i \in stuck THEN 1 ELSE 0)
                  /\ \A q \in PageIds \ {p} : held[i][q] = 0
    <2>1. i \notin free
      BY <1>1 DEF IInv, FreeInv
    <2>2. /\ pages[i].id \in PageIds
          /\ pins[i] = held[i][pages[i].id] + (IF i \in stuck THEN 1 ELSE 0)
          /\ \A q \in PageIds : q # pages[i].id => held[i][q] = 0
      BY <1>1, <2>1 DEF IInv, BusyInv
    <2> QED
      BY <2>2
  <1>2. ASSUME IInv PROVE \A i \in late : pins[i] = Untracked
    BY <1>2 DEF IInv, FreeInv
  <1>3. IInv => PinsCounted
    BY <1>1, <1>2 DEF PinsCounted
  <1> QED
    BY <1>3, Invariance, PTL

(***************************************************************************)
(* The assertion of Pin::write cannot fail, and the Pins of a page share   *)
(* one frame, for a cache of any size whose calls do not overlap.          *)
(***************************************************************************)
THEOREM PinProtectedCorrect == Spec => []PinProtected
  <1>1. IInv => PinProtected
    BY HeldFacts DEF PinProtected
  <1> QED
    BY <1>1, Invariance, PTL

(***************************************************************************)
(* new_page and fetch_page report OutOfMemory only when every frame is     *)
(* pinned by a caller or was left pinned by a failed write.                *)
(***************************************************************************)
THEOREM OutOfMemoryOnlyIfPinnedCorrect == Spec => []OutOfMemoryOnlyIfPinned
  <1>1. ASSUME IInv, OutOfMemory, NEW i \in Frames, i \notin stuck
        PROVE  \E p \in PageIds : held[i][p] > 0
    <2>1. i \notin free /\ pins[i] # 0
      BY <1>1 DEF OutOfMemory, Victims, Evictable
    <2>2. /\ pages[i].id \in PageIds
          /\ pins[i] = held[i][pages[i].id]
      <3>1. /\ pages[i].id \in PageIds
            /\ pins[i] = held[i][pages[i].id] + (IF i \in stuck THEN 1 ELSE 0)
        BY <1>1, <2>1 DEF IInv, BusyInv
      <3>2. held[i][pages[i].id] \in Nat
        BY <1>1, <3>1 DEF IInv, TypeOK
      <3> QED
        BY <1>1, <3>1, <3>2
    <2>3. held[i][pages[i].id] \in Nat
      BY <1>1, <2>2 DEF IInv, TypeOK
    <2> QED
      BY <2>1, <2>2, <2>3
  <1>2. IInv => OutOfMemoryOnlyIfPinned
    BY <1>1 DEF OutOfMemoryOnlyIfPinned
  <1> QED
    BY <1>2, Invariance, PTL

(***************************************************************************)
(* No call loses a frame or gives one to two pages.                        *)
(***************************************************************************)
THEOREM FramesAccountedForCorrect == Spec => []FramesAccountedFor
  <1>1. ASSUME IInv, NEW i \in Frames
        PROVE  \/ i \in free /\ {p \in PageIds : page_table[p] = i} = {}
               \/ i \notin free /\ {p \in PageIds : page_table[p] = i} = {pages[i].id}
               \/ i \in stuck \ free /\ {p \in PageIds : page_table[p] = i} = {}
    <2>1. \A p \in PageIds : page_table[p] = i => i \notin free /\ pages[i].id = p
      BY <1>1, NoFrameAssumption DEF IInv, TableInv, Mapped
    <2>2. CASE i \in free
      BY <2>1, <2>2
    <2>3. CASE i \notin free
      <3>1. /\ pages[i].id \in PageIds
            /\ page_table[pages[i].id] # i => i \in stuck
        BY <1>1, <2>3 DEF IInv, BusyInv
      <3> QED
        BY <2>1, <2>3, <3>1
    <2> QED
      BY <2>2, <2>3
  <1>2. IInv => FramesAccountedFor
    BY <1>1 DEF FramesAccountedFor
  <1> QED
    BY <1>2, Invariance, PTL

(***************************************************************************)
(* After a flush_all_pages that succeeds the disk has every page as its    *)
(* readers see it.                                                         *)
(***************************************************************************)
THEOREM FlushAllIsDurableCorrect == Spec => FlushAllIsDurable
  <1>1. ASSUME IInv, FlushAllPages, NEW p \in known
        PROVE  disk'[p] = Contents(p)
    <2>1. p \in PageIds
      BY <1>1 DEF IInv, TypeOK, Allocated
    <2>2. FlushFrames(MappedFrames) /\ MappedFrames \in SUBSET MappedFrames
      BY <1>1 DEF FlushAllPages
    <2>3. CASE Mapped(p)
      <3>1. page_table[p] \in MappedFrames
        BY <1>1, <2>1, <2>3 DEF MappedFrames, Mapped, IInv, TypeOK
      <3>2. disk'[p] = pages[page_table[p]].data
        BY <1>1, <2>1, <2>2, <2>3, <3>1, FlushFacts
      <3> QED
        BY <2>3, <3>2 DEF Contents
    <2>4. CASE ~Mapped(p)
      BY <1>1, <2>1, <2>2, <2>4, FlushFacts DEF Contents
    <2> QED
      BY <2>3, <2>4
  <1>2. IInv /\ [Next]_vars => [FlushAllPages => \A p \in known : disk'[p] = Contents(p)]_vars
    BY <1>1
  <1> QED
    BY <1>2, Invariance, PTL DEF Spec, FlushAllIsDurable

-----------------------------------------------------------------------------
(***************************************************************************)
(* The page cache implements PageStore: the refinement RefinesPageStore,   *)
(* from the inductive invariant IInv.                                      *)
(***************************************************************************)
View   == [p \in PageIds |-> Named(p, Contents(p))]
OnDisk == [p \in PageIds |-> Named(p, disk[p])]
Spent  == Allocated \ known

LEMMA StoreInitially == Init => Store!StoreInit
  <1> SUFFICES ASSUME Init PROVE Store!StoreInit
    OBVIOUS
  <1>1. \A p \in PageIds : Named(p, Contents(p)) = disk[p] /\ Named(p, disk[p]) = disk[p]
    BY DEF Init, Named, Contents, Mapped
  <1>2. disk \in [PageIds -> Data] /\ disk \in InitialDisks
    BY DEF Init, InitialDisks
  <1>3. disk = [p \in PageIds |-> disk[p]]
    BY <1>2
  <1>4. View = disk /\ OnDisk = disk
    BY <1>1, <1>3 DEF View, OnDisk
  <1> QED
    BY <1>2, <1>4 DEF Store!StoreInit, Store!InitialDisks, InitialDisks, View, OnDisk, Init

\* A page that may be read holds data.
LEMMA ContentsData ==
  ASSUME IInv, NEW p \in PageIds
  PROVE  Contents(p) \in Data
  <1>1. Mapped(p) => page_table[p] \in Frames
    BY DEF IInv, TypeOK, Mapped
  <1> QED
    BY <1>1 DEF IInv, TypeOK, Contents, PageInner

(***************************************************************************)
(* A call that takes a frame: nobody sees another page change, and of the  *)
(* disk only the page swapped out changes, to what its readers saw.        *)
(***************************************************************************)
LEMMA GetPageStore ==
  ASSUME IInv, NEW p \in PageIds, NEW i \in Frames, GetPage(p, i),
         ~Mapped(p), p \in known \/ p >= next_page_id, Spent' = Spent
  PROVE  /\ View' = View
         /\ OnDisk' = [q \in PageIds |-> IF q \in {pages[i].id} THEN View[q] ELSE OnDisk[q]]
  <1> DEFINE old == pages[i].id
  <1>1. /\ pages'[i].data = disk'[p]
        /\ \A j \in Frames : j # i => pages'[j] = pages[j]
        /\ page_table'[p] = i
        /\ \A q \in PageIds : q # p /\ q = old => page_table'[q] = NoFrame
        /\ \A q \in PageIds : q # p /\ q # old => page_table'[q] = page_table[q]
        /\ \A q \in PageIds : q # old => disk'[q] = disk[q]
        /\ pages[i].dirty => disk'[old] = pages[i].data
        /\ ~pages[i].dirty => disk' = disk
    BY GetPageEffect
  <1>2. old # p
    BY NotInAnyFrame
  <1>3. ASSUME NEW q \in PageIds, q \notin Spent
        PROVE  /\ Contents(q)' = Contents(q)
               /\ disk'[q] = IF q = old THEN Contents(q) ELSE disk[q]
    <2>1. CASE q = old
      <3>1. q \in known /\ page_table[q] = i
        BY <1>3, <2>1 DEF IInv, OrphanInv, Spent, Allocated
      <3>2. Mapped(q) /\ page_table'[q] = NoFrame
        BY <1>1, <1>2, <2>1, <3>1, NoFrameAssumption DEF Mapped
      <3>3. Contents(q) = pages[i].data /\ Contents(q)' = disk'[q]
        BY <3>1, <3>2 DEF Contents, Mapped
      <3>4. ~pages[i].dirty => pages[i].data = disk[q]
        BY <3>1, <3>2 DEF IInv, CleanInv
      <3> QED
        BY <1>1, <2>1, <3>3, <3>4
    <2>2. CASE q = p
      BY <1>1, <1>2, <2>2, NoFrameAssumption DEF Contents, Mapped
    <2>3. CASE q # old /\ q # p
      <3>1. page_table'[q] = page_table[q] /\ disk'[q] = disk[q]
        BY <1>1, <2>3
      <3>2. Mapped(q) => page_table[q] \in Frames /\ pages[page_table[q]].id = q
        BY DEF IInv, TypeOK, TableInv, Mapped
      <3>3. Mapped(q) => pages'[page_table[q]] = pages[page_table[q]]
        BY <1>1, <2>3, <3>2
      <3> QED
        BY <2>3, <3>1, <3>3 DEF Contents, Mapped
    <2> QED
      BY <2>1, <2>2, <2>3
  <1> QED
    BY <1>3 DEF View, OnDisk, Named, Spent

\* A call that changes nothing readers or a restart would see.
LEMMA SameStore ==
  ASSUME UNCHANGED <<pages, page_table, disk, next_page_id, known>>
  PROVE  UNCHANGED Store!storeVars
  BY DEF Store!storeVars, Named, Contents, Mapped, Allocated

-----------------------------------------------------------------------------
\* new_page() is Allocate, with the page swapped out written back.
LEMMA NewPageStore ==
  ASSUME IInv, NewPage
  PROVE  Store!StoreNext
  <1>1. AllocatePage /\ known' = known \cup {next_page_id}
    BY DEF NewPage
  <1>2. PICK i \in Frames : GetPage(next_page_id, i)
    BY DEF NewPage
  <1>3. /\ next_page_id \in PageIds /\ next_page_id \in Nat /\ ~Mapped(next_page_id)
        /\ next_page_id' = next_page_id + 1 /\ next_page_id >= next_page_id
    BY <1>1, AllocateFacts DEF AllocatePage
  <1>4. Spent' = Spent
    <2>1. \A q \in PageIds : q < next_page_id + 1 <=> q < next_page_id \/ q = next_page_id
      BY <1>3, PageIdsAssumption
    <2>2. ~(next_page_id < next_page_id)
      BY <1>3
    <2>3. Allocated' = {q \in PageIds : q < next_page_id + 1}
      BY <1>3 DEF Allocated
    <2> QED
      BY <1>1, <1>3, <2>1, <2>2, <2>3 DEF Spent, Allocated
  <1>5. /\ View' = View
        /\ OnDisk' = [q \in PageIds |-> IF q \in {pages[i].id} THEN View[q] ELSE OnDisk[q]]
    BY <1>2, <1>3, <1>4, GetPageStore
  <1> DEFINE S == {pages[i].id} \cap PageIds
  <1>6. OnDisk' = [q \in PageIds |-> IF q \in S THEN View[q] ELSE OnDisk[q]]
    BY <1>5
  <1>7. Store!Allocate(S)
    BY <1>3, <1>5, <1>6 DEF Store!Allocate, Store!Sync, View, OnDisk
  <1>8. S \in SUBSET PageIds
    OBVIOUS
  <1> QED
    BY <1>7, <1>8 DEF Store!StoreNext

\* A new_page() that fails is Spend.
LEMMA NewPageFailsStore ==
  ASSUME IInv, NewPageFails
  PROVE  Store!StoreNext
  <1>1. AllocatePage /\ UNCHANGED <<pages, page_table, disk, known>>
    BY DEF NewPageFails, GetPageWriteFails
  <1>2. /\ next_page_id \in PageIds /\ next_page_id \in Nat
        /\ next_page_id' = next_page_id + 1
    BY <1>1, AllocateFacts DEF AllocatePage
  <1>3. Spent' = Spent \cup {next_page_id}
    <2>1. \A q \in PageIds : q < next_page_id + 1 <=> q < next_page_id \/ q = next_page_id
      BY <1>2, PageIdsAssumption
    <2>2. next_page_id \notin known
      BY <1>2 DEF IInv, TypeOK, Allocated
    <2> QED
      BY <1>1, <1>2, <2>1, <2>2 DEF Spent, Allocated
  <1>4. ASSUME NEW q \in PageIds PROVE Contents(q)' = Contents(q) /\ disk'[q] = disk[q]
    BY <1>1 DEF Contents, Mapped
  <1>5. /\ View' = [View EXCEPT ![next_page_id] = Gone]
        /\ OnDisk' = [OnDisk EXCEPT ![next_page_id] = Gone]
    BY <1>2, <1>3, <1>4 DEF View, OnDisk, Named, Spent
  <1> QED
    BY <1>2, <1>5 DEF Store!StoreNext, Store!Spend, View, OnDisk

\* A fetch_page() that misses is WriteBack, or nothing if it fails.
LEMMA FetchPageMissStore ==
  ASSUME IInv, NEW p \in PageIds, FetchPageMiss(p)
  PROVE  Store!StoreNext \/ UNCHANGED Store!storeVars
  <1>1. p \in known /\ ~Mapped(p) /\ UNCHANGED <<next_page_id, known>>
    BY DEF FetchPageMiss
  <1>2. ASSUME NEW i \in Frames, GetPageWriteFails(i) PROVE UNCHANGED Store!storeVars
    BY <1>1, <1>2, SameStore DEF GetPageWriteFails
  <1>3. ASSUME NEW i \in Frames, GetPage(p, i) PROVE Store!StoreNext
    <2>1. Spent' = Spent
      BY <1>1 DEF Spent, Allocated
    <2>2. /\ View' = View
          /\ OnDisk' = [q \in PageIds |-> IF q \in {pages[i].id} THEN View[q] ELSE OnDisk[q]]
      BY <1>1, <1>3, <2>1, GetPageStore
    <2> DEFINE S == {pages[i].id} \cap PageIds
    <2>3. OnDisk' = [q \in PageIds |-> IF q \in S THEN View[q] ELSE OnDisk[q]]
      BY <2>2
    <2>4. Store!WriteBack(S)
      BY <1>1, <2>2, <2>3 DEF Store!WriteBack, Store!Sync, View, OnDisk
    <2>5. S \in SUBSET PageIds
      OBVIOUS
    <2> QED
      BY <2>4, <2>5 DEF Store!StoreNext
  <1> QED
    BY <1>2, <1>3 DEF FetchPageMiss

\* A page with a frame is live.
LEMMA MappedLive ==
  ASSUME IInv, NEW p \in PageIds, Mapped(p)
  PROVE  Store!Live(p) /\ p \in known
  <1>1. p \in known /\ p < next_page_id
    BY DEF IInv, TypeOK, TableInv, Allocated
  <1>2. View[p] = Contents(p)
    BY <1>1 DEF View, Named
  <1>3. Contents(p) # Gone
    BY ContentsData, DataAssumption
  <1> QED
    BY <1>1, <1>2, <1>3 DEF Store!Live, View

LEMMA WritePageStore ==
  ASSUME IInv, NEW i \in Frames, NEW p \in PageIds, NEW d \in Data, WritePage(i, p, d)
  PROVE  Store!StoreNext
  <1>1. page_table[p] = i /\ Mapped(p)
    BY HeldFacts DEF WritePage
  <1>2. /\ UNCHANGED <<page_table, disk, next_page_id, known>>
        /\ pages' = [pages EXCEPT ![i] = Written(pages[i], d)]
        /\ pages \in [Frames -> PageInner]
    BY DEF WritePage, IInv, TypeOK
  <1>3. pages'[i].data = d /\ \A j \in Frames : j # i => pages'[j] = pages[j]
    BY <1>2 DEF Written, PageInner
  <1>4. p \in known /\ Store!Live(p)
    BY <1>1, MappedLive
  <1>5. ASSUME NEW q \in PageIds
        PROVE  Contents(q)' = IF q = p THEN d ELSE Contents(q)
    <2>1. Mapped(q) /\ q # p => page_table[q] \in Frames /\ page_table[q] # i
      BY <1>1 DEF IInv, TypeOK, TableInv, Mapped
    <2> QED
      BY <1>1, <1>2, <1>3, <2>1 DEF Contents, Mapped
  <1>6. View' = [View EXCEPT ![p] = d] /\ OnDisk' = OnDisk
    BY <1>2, <1>4, <1>5 DEF View, OnDisk, Named, Allocated
  <1>7. Store!Write(p, d)
    BY <1>2, <1>4, <1>6 DEF Store!Write, View, OnDisk
  <1> QED
    BY <1>7 DEF Store!StoreNext

LEMMA RemovePageStore ==
  ASSUME IInv, NEW p \in PageIds, RemovePage(p)
  PROVE  Store!StoreNext
  <1>1. /\ p \in known /\ Mapped(p)
        /\ page_table' = [page_table EXCEPT ![p] = NoFrame]
        /\ known' = known \ {p}
        /\ UNCHANGED <<pages, disk, next_page_id>>
    BY DEF RemovePage
  <1>2. Store!Live(p) /\ p \in Allocated
    BY <1>1, MappedLive DEF IInv, TypeOK
  <1>3. ASSUME NEW q \in PageIds, q # p
        PROVE  Contents(q)' = Contents(q)
    BY <1>1, <1>3 DEF Contents, Mapped, IInv, TypeOK
  <1>4. Spent' = Spent \cup {p}
    BY <1>1, <1>2 DEF Spent, Allocated
  <1>5. View' = [View EXCEPT ![p] = Gone] /\ OnDisk' = [OnDisk EXCEPT ![p] = Gone]
    BY <1>1, <1>3, <1>4 DEF View, OnDisk, Named, Spent
  <1>6. Store!Discard(p)
    BY <1>1, <1>2, <1>5 DEF Store!Discard, View, OnDisk
  <1> QED
    BY <1>6 DEF Store!StoreNext

\* A flush is WriteBack of the pages it reaches.
LEMMA FlushStore ==
  ASSUME IInv, NEW F \in SUBSET MappedFrames, FlushFrames(F)
  PROVE  Store!StoreNext
  <1>1. UNCHANGED <<page_table, next_page_id, known>>
    BY DEF FlushFrames
  <1> DEFINE S == {q \in PageIds : Mapped(q) /\ page_table[q] \in F}
  <1>2. ASSUME NEW q \in PageIds
        PROVE  /\ Contents(q)' = Contents(q)
               /\ disk'[q] = IF q \in S THEN Contents(q) ELSE disk[q]
    <2>1. Mapped(q) => page_table[q] \in Frames
      BY DEF IInv, TypeOK, Mapped
    <2>2. Mapped(q) => pages'[page_table[q]].data = pages[page_table[q]].data
      BY <2>1, FlushFacts
    <2>3. Mapped(q) => disk'[q] = IF page_table[q] \in F THEN pages[page_table[q]].data ELSE disk[q]
      BY FlushFacts
    <2>4. ~Mapped(q) => disk'[q] = disk[q]
      BY FlushFacts
    <2> QED
      BY <1>1, <2>2, <2>3, <2>4 DEF Contents, Mapped
  <1>3. View' = View /\ OnDisk' = [q \in PageIds |-> IF q \in S THEN View[q] ELSE OnDisk[q]]
    BY <1>1, <1>2 DEF View, OnDisk, Named, Allocated
  <1>4. Store!WriteBack(S)
    BY <1>1, <1>3 DEF Store!WriteBack, Store!Sync, View, OnDisk
  <1>5. S \in SUBSET PageIds
    OBVIOUS
  <1> QED
    BY <1>4, <1>5 DEF Store!StoreNext

LEMMA RestartStore ==
  ASSUME IInv, Restart
  PROVE  Store!StoreNext
  <1>1. UNCHANGED <<disk, next_page_id, known>> /\ page_table' = [p \in PageIds |-> NoFrame]
    BY DEF Restart
  <1>2. ASSUME NEW q \in PageIds PROVE Contents(q)' = disk[q]
    BY <1>1 DEF Contents, Mapped
  <1>3. View' = OnDisk /\ OnDisk' = OnDisk
    BY <1>1, <1>2 DEF View, OnDisk, Named, Allocated
  <1> QED
    BY <1>1, <1>3 DEF Store!StoreNext, Store!Lose, View, OnDisk

-----------------------------------------------------------------------------
LEMMA FlushCallsStore ==
  ASSUME IInv
  PROVE  /\ \A p \in PageIds : FlushPage(p) => Store!StoreNext
         /\ FlushAllPages => Store!StoreNext
         /\ \A F \in SUBSET Frames : FlushAllPagesFails(F) => Store!StoreNext
  <1>1. ASSUME NEW p \in PageIds, FlushPage(p) PROVE Store!StoreNext
    <2>1. {page_table[p]} \in SUBSET MappedFrames
      BY <1>1 DEF FlushPage, Mapped, MappedFrames, IInv, TypeOK
    <2> QED
      BY <1>1, <2>1, FlushStore DEF FlushPage
  <1>2. ASSUME FlushAllPages PROVE Store!StoreNext
    BY <1>2, FlushStore DEF FlushAllPages
  <1>3. ASSUME NEW F \in SUBSET Frames, FlushAllPagesFails(F) PROVE Store!StoreNext
    BY <1>3, FlushStore DEF FlushAllPagesFails
  <1> QED
    BY <1>1, <1>2, <1>3

(***************************************************************************)
(* Caching is not observable: every call of the cache, and a restart, is a *)
(* step of PageStore or changes nothing there.                             *)
(***************************************************************************)
THEOREM PageStoreRefinement == Spec => RefinesPageStore
  <1>1. IInv /\ [Next]_vars => [Store!StoreNext]_(Store!storeVars)
    <2> SUFFICES ASSUME IInv, [Next]_vars
                 PROVE  Store!StoreNext \/ UNCHANGED Store!storeVars
      OBVIOUS
    <2>1. CASE Calls
      <3>1. CASE NewPage
        BY <3>1, NewPageStore
      <3>2. CASE NewPageFails
        BY <3>2, NewPageFailsStore
      <3>3. ASSUME NEW p \in PageIds, FetchPageHit(p) PROVE UNCHANGED Store!storeVars
        BY <3>3, SameStore DEF FetchPageHit
      <3>4. ASSUME NEW p \in PageIds, FetchPageMiss(p)
            PROVE  Store!StoreNext \/ UNCHANGED Store!storeVars
        BY <3>4, FetchPageMissStore
      <3>5. ASSUME NEW i \in Frames, NEW p \in PageIds, NEW d \in Data, WritePage(i, p, d)
            PROVE  Store!StoreNext
        BY <3>5, WritePageStore
      <3> QED
        BY <2>1, <3>1, <3>2, <3>3, <3>4, <3>5, FlushCallsStore DEF Calls
    <2>2. ASSUME NEW p \in PageIds, RemovePage(p) PROVE Store!StoreNext
      BY <2>2, RemovePageStore
    <2>3. ASSUME NEW i \in Frames, LateDrop(i) PROVE UNCHANGED Store!storeVars
      BY <2>3, SameStore DEF LateDrop
    <2>4. ASSUME NEW i \in Frames, NEW p \in PageIds, DropPin(i, p)
          PROVE  UNCHANGED Store!storeVars
      BY <2>4, SameStore DEF DropPin
    <2>5. CASE Restart
      BY <2>5, RestartStore
    <2>6. CASE UNCHANGED vars
      BY <2>6, SameStore DEF vars
    <2> QED
      BY <2>1, <2>2, <2>3, <2>4, <2>5, <2>6 DEF Next
  <1> QED
    BY <1>1, StoreInitially, Invariance, PTL DEF Spec, RefinesPageStore, Store!StoreSpec
=============================================================================
