----------------------- MODULE PageCacheThreadsProofs -----------------------
(***************************************************************************)
(* Proofs about the page cache under threads, for any number of threads,   *)
(* frames and pages.                                                       *)
(***************************************************************************)
EXTENDS PageCacheThreads, FiniteSetTheorems, TLAPS

OwnPcs    == {"lock_replacer", "swap", "swap_queued"}   \* with the page locked
SwapPcs   == {"swap", "swap_queued"}                    \* and the replacer
TakePcs   == {"pop", "evict", "lock_page"} \cup OwnPcs
AskPcs    == {"fetch", "hit"} \cup TakePcs
PinPcs    == {"write", "read", "drop"}
RemovePcs == {"remove", "remove_queued", "remove_node", "push"}
FlushPcs  == {"flush_page", "flush", "flush_all_pages", "flush_all", "flush_all_page"}
Pcs       == {"idle", "panicked"} \cup AskPcs \cup PinPcs \cup RemovePcs \cup FlushPcs

TypeOK == /\ pages \in [Frames -> PageInner]
          /\ page_table \in [PageIds -> Frames \cup {NoFrame}]
          /\ free \subseteq Frames
          /\ disk \in [PageIds -> Data]
          /\ next_page_id \in Nat
          /\ pins \in PinCounters
          /\ page_lock \in [Frames -> Threads \cup {NoThread}]
          /\ page_readers \in [Frames -> SUBSET Threads]
          /\ replacer_lock \in Threads \cup {NoThread}
          /\ pc \in [Threads -> Pcs]
          /\ want \in [Threads -> PageIds \cup {NoPage}]
          /\ frame \in [Threads -> Frames \cup {NoFrame}]
          /\ todo \in [Threads -> SUBSET PageIds]
          /\ held \in [Threads -> SUBSET (Frames \X PageIds)]
          /\ latest \in [PageIds -> Data]
          /\ known \subseteq PageIds

\* The locals a thread works with; nobody writes page_table under a reader.
LocalInv ==
    \A t \in Threads :
        /\ pc[t] \in OwnPcs \cup PinPcs \cup RemovePcs
                       \cup {"hit", "lock_page", "flush", "flush_all_page"} => frame[t] \in Frames
        /\ pc[t] \in AskPcs \cup PinPcs \cup RemovePcs \cup {"flush_page"} => want[t] \in PageIds
        /\ pc[t] \in {"flush_all", "flush_all_page"} => \A p \in todo[t] : Mapped(p)

(***************************************************************************)
(* Why a thread has a page's latch: it is swapping a page in, or it has a  *)
(* Pin for the frame.  Nobody keeps a latch while it flushes, or asks for  *)
(* one it has.                                                             *)
(***************************************************************************)
Has(u, i) == page_lock[i] = u \/ u \in page_readers[i]

LatchInv ==
    /\ \A i \in Frames, u \in Threads : Has(u, i) =>
          /\ \/ pc[u] \in OwnPcs /\ frame[u] = i
             \/ \E p \in PageIds : <<i, p>> \in held[u]
          /\ pc[u] \notin FlushPcs
    /\ \A t \in Threads : pc[t] \in OwnPcs => page_lock[frame[t]] = t
    /\ \A t \in Threads : pc[t] \in PinPcs => ~Has(t, frame[t]) /\ <<frame[t], want[t]>> \in held[t]

MutexInv == \A t \in Threads : pc[t] \in SwapPcs <=> replacer_lock = t

LockInv == TypeOK /\ LocalInv /\ LatchInv /\ MutexInv

-----------------------------------------------------------------------------
LEMMA PinOpsType ==
  ASSUME NEW ps \in PinCounters, NEW i \in Frames
  PROVE  /\ RecordAccessPins(ps, i) \in PinCounters
         /\ PinPins(ps, i) \in PinCounters
         /\ UnpinPins(ps, i) \in PinCounters
         /\ RemovePins(ps, i) \in PinCounters
  <1>1. ps[i] \in 0..MaxU64 \cup {Untracked} /\ MaxU64 \in Nat \ {0}
    BY MaxU64Assumption DEF PinCounters
  <1>2. \A n \in 0..MaxU64 \cup {Untracked} : [ps EXCEPT ![i] = n] \in PinCounters
    BY DEF PinCounters
  <1>3. (IF ps[i] = Untracked THEN 0 ELSE ps[i]) \in 0..MaxU64 \cup {Untracked}
    BY <1>1
  <1>4. (CASE ps[i] = Untracked -> ps[i] [] ps[i] = MaxU64 -> 0 [] OTHER -> ps[i] + 1)
          \in 0..MaxU64 \cup {Untracked}
    BY <1>1 DEF Untracked
  <1>5. (CASE ps[i] = Untracked -> ps[i] [] ps[i] = 0 -> MaxU64 [] OTHER -> ps[i] - 1)
          \in 0..MaxU64 \cup {Untracked}
    BY <1>1 DEF Untracked
  <1> QED
    BY <1>2, <1>3, <1>4, <1>5 DEF RecordAccessPins, PinPins, UnpinPins, RemovePins

LEMMA PageOpsType ==
  ASSUME NEW page \in PageInner, NEW d \in [PageIds -> Data]
  PROVE  /\ \A p \in PageIds, x \in Data : Loaded(p, x) \in PageInner
         /\ \A x \in Data : Written(page, x) \in PageInner
         /\ [page EXCEPT !.dirty = FALSE] \in PageInner
         /\ WriteDisk(d, page.id, page.data) \in [PageIds -> Data]
         /\ WriteBackDisk(d, page) \in [PageIds -> Data]
  BY DEF PageInner, Loaded, Written, WriteDisk, WriteBackDisk

LEMMA HoldersHave ==
  ASSUME NEW t \in Threads, NEW i
  PROVE  t \in PageHolders(i) <=> Has(t, i)
  BY DEF PageHolders, Has

\* A step of t that moves no latch and takes t into no call that needs one.
LEMMA LatchKept ==
  ASSUME LatchInv, NEW t \in Threads, UNCHANGED locks,
         \A u \in Threads \ {t} : /\ pc'[u] = pc[u] /\ frame'[u] = frame[u]
                                 /\ want'[u] = want[u],
         \A u \in Threads : held[u] \subseteq held'[u],
         pc[t] \notin OwnPcs, pc'[t] \notin OwnPcs \cup PinPcs,
         pc'[t] \in FlushPcs => pc[t] \in FlushPcs \/ \A i \in Frames : ~Has(t, i)
  PROVE  LatchInv'
  <1>1. \A u \in Threads, i \in Frames : Has(u, i)' <=> Has(u, i)
    BY DEF Has, locks
  <1> QED
    <2>1. \A i \in Frames, u \in Threads : Has(u, i)' =>
            /\ \/ pc'[u] \in OwnPcs /\ frame'[u] = i
               \/ \E p \in PageIds : <<i, p>> \in held'[u]
            /\ pc'[u] \notin FlushPcs
      BY <1>1 DEF LatchInv
    <2>2. \A u \in Threads : pc'[u] \in OwnPcs => page_lock'[frame'[u]] = u
      BY DEF LatchInv, locks
    <2>3. \A u \in Threads : pc'[u] \in PinPcs =>
             ~Has(u, frame[u])' /\ <<frame'[u], want'[u]>> \in held'[u]
      BY DEF LatchInv, Has, locks
    <2> QED
      BY <2>1, <2>2, <2>3 DEF LatchInv

LEMMA InitLock == Init => LockInv
  <1> SUFFICES ASSUME Init PROVE LockInv
    OBVIOUS
  <1>1. Blank \in PageInner
    BY DataAssumption DEF Blank, PageInner
  <1>2. TypeOK
    BY <1>1, DataAssumption, PageIdsAssumption, MaxU64Assumption
       DEF Init, TypeOK, PinCounters, Pcs
  <1>3. LocalInv /\ LatchInv /\ MutexInv
    BY ThreadsAssumption
       DEF Init, LocalInv, LatchInv, MutexInv, Has, OwnPcs, SwapPcs, TakePcs, AskPcs,
           PinPcs, RemovePcs, FlushPcs
  <1> QED
    BY <1>2, <1>3 DEF LockInv

LEMMA StepLock == LockInv /\ [Next]_vars => LockInv'
  <1> SUFFICES ASSUME LockInv, [Next]_vars PROVE LockInv'
    OBVIOUS
  <1> USE ThreadsAssumption, HoldersHave
      DEF LockInv, At, Goto, Call, Return, Mapped, cache, locks, locals, ghosts,
          OwnPcs, SwapPcs, TakePcs, AskPcs, PinPcs, RemovePcs, FlushPcs
  <1>1. ASSUME NEW t \in Threads, FetchMiss(t) PROVE LockInv'
    <2>1. TypeOK'
      BY <1>1 DEF FetchMiss, TypeOK, LocalInv, Pcs
    <2>2. LocalInv'
      BY <1>1 DEF FetchMiss, TypeOK, LocalInv
    <2>3. LatchInv'
      BY <1>1, LatchKept DEF FetchMiss, TypeOK
    <2>4. MutexInv'
      BY <1>1 DEF FetchMiss, TypeOK, MutexInv
    <2> QED
      BY <2>1, <2>2, <2>3, <2>4
  <1>2. ASSUME NEW t \in Threads, FetchHit(t) PROVE LockInv'
    <2>1. TypeOK'
      BY <1>2 DEF FetchHit, TypeOK, LocalInv, Pcs
    <2>2. LocalInv'
      BY <1>2 DEF FetchHit, TypeOK, LocalInv
    <2>3. LatchInv'
      BY <1>2, LatchKept DEF FetchHit, TypeOK
    <2>4. MutexInv'
      BY <1>2 DEF FetchHit, TypeOK, MutexInv
    <2> QED
      BY <2>1, <2>2, <2>3, <2>4
  <1>3. ASSUME NEW t \in Threads, FetchHitPin(t) PROVE LockInv'
    <2>1. TypeOK'
      <3>1. frame[t] \in Frames /\ want[t] \in PageIds
        BY <1>3 DEF FetchHitPin, LocalInv
      <3>2. pins' \in PinCounters
        BY <1>3, <3>1, PinOpsType DEF FetchHitPin, TypeOK
      <3>3. held' \in [Threads -> SUBSET (Frames \X PageIds)]
        BY <1>3, <3>1 DEF FetchHitPin, TakePin, TypeOK
      <3> QED
        BY <1>3, <3>2, <3>3 DEF FetchHitPin, TypeOK, Pcs
    <2>2. LocalInv'
      BY <1>3 DEF FetchHitPin, TakePin, TypeOK, LocalInv
    <2>3. LatchInv'
      BY <1>3, LatchKept DEF FetchHitPin, TakePin, TypeOK
    <2>4. MutexInv'
      BY <1>3 DEF FetchHitPin, TakePin, TypeOK, MutexInv
    <2> QED
      BY <2>1, <2>2, <2>3, <2>4
  <1>4. ASSUME NEW t \in Threads, Pop(t) PROVE LockInv'
    <2>1. TypeOK'
      BY <1>4 DEF Pop, TypeOK, LocalInv, Pcs
    <2>2. LocalInv'
      BY <1>4 DEF Pop, TypeOK, LocalInv
    <2>3. LatchInv'
      BY <1>4, LatchKept DEF Pop, TypeOK
    <2>4. MutexInv'
      BY <1>4 DEF Pop, TypeOK, MutexInv
    <2> QED
      BY <2>1, <2>2, <2>3, <2>4
  <1>5. ASSUME NEW t \in Threads, PopNone(t) PROVE LockInv'
    <2>1. TypeOK'
      BY <1>5 DEF PopNone, TypeOK, LocalInv, Pcs
    <2>2. LocalInv'
      BY <1>5 DEF PopNone, TypeOK, LocalInv
    <2>3. LatchInv'
      BY <1>5, LatchKept DEF PopNone, TypeOK
    <2>4. MutexInv'
      BY <1>5 DEF PopNone, TypeOK, MutexInv
    <2> QED
      BY <2>1, <2>2, <2>3, <2>4
  <1>6. ASSUME NEW t \in Threads, Evict(t) PROVE LockInv'
    <2>1. TypeOK'
      BY <1>6 DEF Evict, Evictable, TypeOK, LocalInv, Pcs
    <2>2. LocalInv'
      BY <1>6 DEF Evict, Evictable, TypeOK, LocalInv
    <2>3. LatchInv'
      BY <1>6, LatchKept DEF Evict, Evictable, TypeOK
    <2>4. MutexInv'
      BY <1>6 DEF Evict, Evictable, TypeOK, MutexInv
    <2> QED
      BY <2>1, <2>2, <2>3, <2>4
  <1>7. ASSUME NEW t \in Threads, LockPage(t) PROVE LockInv'
    <2>1. TypeOK'
      BY <1>7 DEF LockPage, TypeOK, LocalInv, Pcs
    <2>2. LocalInv'
      BY <1>7 DEF LockPage, TypeOK, LocalInv
    <2>3. LatchInv'
      <3>1. /\ frame[t] \in Frames /\ pc[t] = "lock_page"
            /\ UNCHANGED <<page_readers, frame, want, held>>
        BY <1>7 DEF LockPage, LocalInv
      <3>2. \A i \in Frames, u \in Threads :
              Has(u, i)' <=> Has(u, i) \/ (u = t /\ i = frame[t])
        BY <1>7, <3>1 DEF LockPage, PageFree, TypeOK, Has
      <3>3. \A u \in Threads : /\ u # t => pc'[u] = pc[u]
                              /\ pc'[t] = "lock_replacer"
                              /\ frame'[u] = frame[u] /\ want'[u] = want[u]
                              /\ held'[u] = held[u]
        BY <1>7 DEF LockPage, TypeOK
      <3>6. \A i \in Frames, u \in Threads : Has(u, i)' =>
              /\ \/ pc'[u] \in OwnPcs /\ frame'[u] = i
                 \/ \E p \in PageIds : <<i, p>> \in held'[u]
              /\ pc'[u] \notin FlushPcs
        BY <3>1, <3>2, <3>3 DEF LatchInv
      <3>4. \A u \in Threads : pc'[u] \in OwnPcs => page_lock'[frame'[u]] = u
        BY <1>7, <3>1, <3>3 DEF LockPage, PageFree, TypeOK, LatchInv, LocalInv
      <3>5. \A u \in Threads : pc'[u] \in PinPcs =>
              ~Has(u, frame[u])' /\ <<frame'[u], want'[u]>> \in held'[u]
        BY <3>1, <3>2, <3>3 DEF LatchInv, LocalInv
      <3> QED
        BY <3>4, <3>5, <3>6 DEF LatchInv
    <2>4. MutexInv'
      BY <1>7 DEF LockPage, TypeOK, MutexInv
    <2> QED
      BY <2>1, <2>2, <2>3, <2>4
  <1>8. ASSUME NEW t \in Threads, LockReplacer(t) PROVE LockInv'
    <2>1. TypeOK'
      BY <1>8, PinOpsType, PageOpsType DEF LockReplacer, TakeFramePins, TypeOK, LocalInv, Pcs
    <2>2. LocalInv'
      BY <1>8 DEF LockReplacer, TypeOK, LocalInv
    <2>3. LatchInv'
      BY <1>8 DEF LockReplacer, TypeOK, LocalInv, LatchInv, Has
    <2>4. MutexInv'
      BY <1>8 DEF LockReplacer, TypeOK, MutexInv
    <2> QED
      BY <2>1, <2>2, <2>3, <2>4
  <1>9. ASSUME NEW t \in Threads, SwapQueue(t) PROVE LockInv'
    <2>1. TypeOK'
      BY <1>9 DEF SwapQueue, TypeOK, LocalInv, Pcs
    <2>2. LocalInv'
      BY <1>9 DEF SwapQueue, TypeOK, LocalInv
    <2>3. LatchInv'
      BY <1>9 DEF SwapQueue, TypeOK, LocalInv, LatchInv, Has
    <2>4. MutexInv'
      BY <1>9 DEF SwapQueue, TypeOK, MutexInv
    <2> QED
      BY <2>1, <2>2, <2>3, <2>4
  <1>10. ASSUME NEW t \in Threads, Swap(t) PROVE LockInv'
    <2>1. TypeOK'
      <3>1. frame[t] \in Frames /\ want[t] \in PageIds
        BY <1>10 DEF Swap, LocalInv
      <3>2. pages' \in [Frames -> PageInner]
        BY <1>10, <3>1, PageOpsType DEF Swap, TypeOK
      <3>3. held' \in [Threads -> SUBSET (Frames \X PageIds)]
        BY <1>10, <3>1 DEF Swap, TakePin, TypeOK
      <3>4. page_table' \in [PageIds -> Frames \cup {NoFrame}]
        BY <1>10, <3>1 DEF Swap, TypeOK
      <3> QED
        BY <1>10, <3>1, <3>2, <3>3, <3>4 DEF Swap, TypeOK, Pcs
    <2>2. LocalInv'
      BY <1>10 DEF Swap, TakePin, CanWrite, Readers, TypeOK, LocalInv
    <2>3. LatchInv'
      <3>1. /\ frame[t] \in Frames /\ want[t] \in PageIds /\ pc[t] \in OwnPcs
            /\ UNCHANGED page_readers
        BY <1>10 DEF Swap, LocalInv
      <3>2. \A i \in Frames, u \in Threads : Has(u, i)' => Has(u, i)
        BY <1>10, <3>1 DEF Swap, TypeOK, Has
      <3>3. \A u \in Threads : /\ u # t => /\ pc'[u] = pc[u] /\ frame'[u] = frame[u]
                                          /\ want'[u] = want[u] /\ held'[u] = held[u]
                              /\ pc'[t] = "idle"
                              /\ held'[t] = held[t] \cup {<<frame[t], want[t]>>}
        BY <1>10 DEF Swap, TakePin, TypeOK
      <3>4. \A i \in Frames, u \in Threads : Has(u, i)' =>
              /\ \/ pc'[u] \in OwnPcs /\ frame'[u] = i
                 \/ \E p \in PageIds : <<i, p>> \in held'[u]
              /\ pc'[u] \notin FlushPcs
        BY <3>1, <3>2, <3>3 DEF LatchInv
      <3>5. \A u \in Threads : pc'[u] \in OwnPcs => page_lock'[frame'[u]] = u
        BY <1>10, <3>1, <3>3 DEF Swap, TypeOK, LatchInv, LocalInv
      <3>6. \A u \in Threads : pc'[u] \in PinPcs =>
              ~Has(u, frame[u])' /\ <<frame'[u], want'[u]>> \in held'[u]
        BY <3>2, <3>3 DEF LatchInv, LocalInv
      <3> QED
        BY <3>4, <3>5, <3>6 DEF LatchInv
    <2>4. MutexInv'
      BY <1>10 DEF Swap, TakePin, TypeOK, MutexInv
    <2> QED
      BY <2>1, <2>2, <2>3, <2>4
  <1>11. ASSUME NEW t \in Threads, NEW d \in Data, Latch(t, d) PROVE LockInv'
    <2>1. TypeOK'
      BY <1>11, PageOpsType DEF Latch, TypeOK, LocalInv, Pcs
    <2>2. LocalInv'
      BY <1>11 DEF Latch, TypeOK, LocalInv
    <2>3. LatchInv'
      BY <1>11 DEF Latch, PageFree, TypeOK, LocalInv, LatchInv, Has
    <2>4. MutexInv'
      BY <1>11 DEF Latch, TypeOK, MutexInv
    <2> QED
      BY <2>1, <2>2, <2>3, <2>4
  <1>12. ASSUME NEW t \in Threads, LatchPanics(t) PROVE LockInv'
    <2>1. TypeOK'
      BY <1>12 DEF LatchPanics, TypeOK, LocalInv, Pcs
    <2>2. LocalInv'
      BY <1>12 DEF LatchPanics, TypeOK, LocalInv
    <2>3. LatchInv'
      BY <1>12, LatchKept DEF LatchPanics, TypeOK
    <2>4. MutexInv'
      BY <1>12 DEF LatchPanics, TypeOK, MutexInv
    <2> QED
      BY <2>1, <2>2, <2>3, <2>4
  <1>13. ASSUME NEW t \in Threads, LatchShared(t) PROVE LockInv'
    <2>1. TypeOK'
      BY <1>13 DEF LatchShared, TypeOK, LocalInv, Pcs
    <2>2. LocalInv'
      BY <1>13 DEF LatchShared, TypeOK, LocalInv
    <2>3. LatchInv'
      <3>1. /\ frame[t] \in Frames /\ want[t] \in PageIds /\ pc[t] = "read"
            /\ <<frame[t], want[t]>> \in held[t]
            /\ UNCHANGED <<page_lock, held>>
        BY <1>13 DEF LatchShared, LocalInv, LatchInv
      <3>2. \A i \in Frames, u \in Threads :
              Has(u, i)' <=> Has(u, i) \/ (u = t /\ i = frame[t])
        BY <1>13, <3>1 DEF LatchShared, TypeOK, Has
      <3>3. \A u \in Threads : /\ u # t => /\ pc'[u] = pc[u] /\ frame'[u] = frame[u]
                                          /\ want'[u] = want[u]
                              /\ pc'[t] = "idle"
        BY <1>13 DEF LatchShared, TypeOK
      <3>4. \A i \in Frames, u \in Threads : Has(u, i)' =>
              /\ \/ pc'[u] \in OwnPcs /\ frame'[u] = i
                 \/ \E p \in PageIds : <<i, p>> \in held'[u]
              /\ pc'[u] \notin FlushPcs
        BY <3>1, <3>2, <3>3 DEF LatchInv
      <3>5. \A u \in Threads : pc'[u] \in OwnPcs => page_lock'[frame'[u]] = u
        BY <3>1, <3>3 DEF LatchInv
      <3>6. \A u \in Threads : pc'[u] \in PinPcs =>
              ~Has(u, frame[u])' /\ <<frame'[u], want'[u]>> \in held'[u]
        BY <3>1, <3>2, <3>3 DEF LatchInv, LocalInv
      <3> QED
        BY <3>4, <3>5, <3>6 DEF LatchInv
    <2>4. MutexInv'
      BY <1>13 DEF LatchShared, TypeOK, MutexInv
    <2> QED
      BY <2>1, <2>2, <2>3, <2>4
  <1>14. ASSUME NEW t \in Threads, DropUnpin(t) PROVE LockInv'
    <2>1. TypeOK'
      BY <1>14, PinOpsType DEF DropUnpin, TypeOK, LocalInv, Pcs
    <2>2. LocalInv'
      BY <1>14 DEF DropUnpin, TypeOK, LocalInv
    <2>3. LatchInv'
      BY <1>14 DEF DropUnpin, TypeOK, LocalInv, LatchInv, Has
    <2>4. MutexInv'
      BY <1>14 DEF DropUnpin, TypeOK, MutexInv
    <2> QED
      BY <2>1, <2>2, <2>3, <2>4
  <1>15. ASSUME NEW t \in Threads, FlushPageLookup(t) PROVE LockInv'
    <2>1. TypeOK'
      BY <1>15 DEF FlushPageLookup, TypeOK, LocalInv, Pcs
    <2>2. LocalInv'
      BY <1>15 DEF FlushPageLookup, TypeOK, LocalInv
    <2>3. LatchInv'
      BY <1>15, LatchKept DEF FlushPageLookup, TypeOK
    <2>4. MutexInv'
      BY <1>15 DEF FlushPageLookup, TypeOK, MutexInv
    <2> QED
      BY <2>1, <2>2, <2>3, <2>4
  <1>16. ASSUME NEW t \in Threads, FlushPageWrite(t) PROVE LockInv'
    <2>1. TypeOK'
      BY <1>16, PageOpsType DEF FlushPageWrite, WriteOut, TypeOK, LocalInv, Pcs
    <2>2. LocalInv'
      BY <1>16 DEF FlushPageWrite, WriteOut, TypeOK, LocalInv
    <2>3. LatchInv'
      BY <1>16, LatchKept DEF FlushPageWrite, WriteOut, TypeOK
    <2>4. MutexInv'
      BY <1>16 DEF FlushPageWrite, WriteOut, TypeOK, MutexInv
    <2> QED
      BY <2>1, <2>2, <2>3, <2>4
  <1>17. ASSUME NEW t \in Threads, FlushAllKeys(t) PROVE LockInv'
    <2>1. TypeOK'
      BY <1>17 DEF FlushAllKeys, TypeOK, LocalInv, Pcs
    <2>2. LocalInv'
      BY <1>17 DEF FlushAllKeys, TypeOK, LocalInv
    <2>3. LatchInv'
      BY <1>17, LatchKept DEF FlushAllKeys, TypeOK
    <2>4. MutexInv'
      BY <1>17 DEF FlushAllKeys, TypeOK, MutexInv
    <2> QED
      BY <2>1, <2>2, <2>3, <2>4
  <1>18. ASSUME NEW t \in Threads, FlushAllLookup(t) PROVE LockInv'
    <2>1. TypeOK'
      BY <1>18 DEF FlushAllLookup, TypeOK, LocalInv, Pcs
    <2>2. LocalInv'
      BY <1>18 DEF FlushAllLookup, TypeOK, LocalInv
    <2>3. LatchInv'
      BY <1>18, LatchKept DEF FlushAllLookup, TypeOK
    <2>4. MutexInv'
      BY <1>18 DEF FlushAllLookup, TypeOK, MutexInv
    <2> QED
      BY <2>1, <2>2, <2>3, <2>4
  <1>19. ASSUME NEW t \in Threads, FlushAllWrite(t) PROVE LockInv'
    <2>1. TypeOK'
      BY <1>19, PageOpsType DEF FlushAllWrite, WriteOut, TypeOK, LocalInv, Pcs
    <2>2. LocalInv'
      BY <1>19 DEF FlushAllWrite, WriteOut, TypeOK, LocalInv
    <2>3. LatchInv'
      BY <1>19, LatchKept DEF FlushAllWrite, WriteOut, TypeOK
    <2>4. MutexInv'
      BY <1>19 DEF FlushAllWrite, WriteOut, TypeOK, MutexInv
    <2> QED
      BY <2>1, <2>2, <2>3, <2>4
  <1>20. ASSUME NEW t \in Threads, FlushAllReturn(t) PROVE LockInv'
    <2>1. TypeOK'
      BY <1>20 DEF FlushAllReturn, TypeOK, LocalInv, Pcs
    <2>2. LocalInv'
      BY <1>20 DEF FlushAllReturn, TypeOK, LocalInv
    <2>3. LatchInv'
      BY <1>20, LatchKept DEF FlushAllReturn, TypeOK
    <2>4. MutexInv'
      BY <1>20 DEF FlushAllReturn, TypeOK, MutexInv
    <2> QED
      BY <2>1, <2>2, <2>3, <2>4
  <1>21. ASSUME NEW t \in Threads, RemoveQueue(t) PROVE LockInv'
    <2>1. TypeOK'
      BY <1>21 DEF RemoveQueue, TypeOK, LocalInv, Pcs
    <2>2. LocalInv'
      BY <1>21 DEF RemoveQueue, TypeOK, LocalInv
    <2>3. LatchInv'
      BY <1>21, LatchKept DEF RemoveQueue, TypeOK
    <2>4. MutexInv'
      BY <1>21 DEF RemoveQueue, TypeOK, MutexInv
    <2> QED
      BY <2>1, <2>2, <2>3, <2>4
  <1>22. ASSUME NEW t \in Threads, RemoveEntry(t) PROVE LockInv'
    <2>1. TypeOK'
      BY <1>22 DEF RemoveEntry, TypeOK, LocalInv, Pcs
    <2>2. LocalInv'
      BY <1>22 DEF RemoveEntry, CanWrite, Readers, TypeOK, LocalInv
    <2>3. LatchInv'
      BY <1>22, LatchKept DEF RemoveEntry, TypeOK
    <2>4. MutexInv'
      BY <1>22 DEF RemoveEntry, TypeOK, MutexInv
    <2> QED
      BY <2>1, <2>2, <2>3, <2>4
  <1>23. ASSUME NEW t \in Threads, RemoveNode(t) PROVE LockInv'
    <2>1. TypeOK'
      BY <1>23, PinOpsType DEF RemoveNode, TypeOK, LocalInv, Pcs
    <2>2. LocalInv'
      BY <1>23 DEF RemoveNode, TypeOK, LocalInv
    <2>3. LatchInv'
      BY <1>23, LatchKept DEF RemoveNode, TypeOK
    <2>4. MutexInv'
      BY <1>23 DEF RemoveNode, TypeOK, MutexInv
    <2> QED
      BY <2>1, <2>2, <2>3, <2>4
  <1>24. ASSUME NEW t \in Threads, Push(t) PROVE LockInv'
    <2>1. TypeOK'
      BY <1>24 DEF Push, TypeOK, LocalInv, Pcs
    <2>2. LocalInv'
      BY <1>24 DEF Push, TypeOK, LocalInv
    <2>3. LatchInv'
      BY <1>24, LatchKept DEF Push, TypeOK
    <2>4. MutexInv'
      BY <1>24 DEF Push, TypeOK, MutexInv
    <2> QED
      BY <2>1, <2>2, <2>3, <2>4
  <1>25. ASSUME NEW t \in Threads, NewPage(t) PROVE LockInv'
    <2>1. TypeOK'
      BY <1>25, PageIdsAssumption DEF NewPage, CanPin, Starts, TypeOK, LocalInv, Pcs
    <2>2. LocalInv'
      BY <1>25 DEF NewPage, CanPin, Starts, TypeOK, LocalInv
    <2>3. LatchInv'
      BY <1>25, LatchKept DEF NewPage, CanPin, Starts, TypeOK
    <2>4. MutexInv'
      BY <1>25 DEF NewPage, CanPin, Starts, TypeOK, MutexInv
    <2> QED
      BY <2>1, <2>2, <2>3, <2>4
  <1>26. ASSUME NEW t \in Threads, NEW p \in PageIds, Fetch(t, p) PROVE LockInv'
    <2>1. TypeOK'
      BY <1>26 DEF Fetch, CanPin, Starts, TypeOK, LocalInv, Pcs
    <2>2. LocalInv'
      BY <1>26 DEF Fetch, CanPin, Starts, TypeOK, LocalInv
    <2>3. LatchInv'
      BY <1>26, LatchKept DEF Fetch, CanPin, Starts, TypeOK
    <2>4. MutexInv'
      BY <1>26 DEF Fetch, CanPin, Starts, TypeOK, MutexInv
    <2> QED
      BY <2>1, <2>2, <2>3, <2>4
  <1>27. ASSUME NEW t \in Threads, NEW p \in PageIds, FlushPage(t, p) PROVE LockInv'
    <2>1. TypeOK'
      BY <1>27 DEF FlushPage, Starts, Latched, TypeOK, LocalInv, Pcs
    <2>2. LocalInv'
      BY <1>27 DEF FlushPage, Starts, Latched, TypeOK, LocalInv
    <2>3. LatchInv'
      BY <1>27, LatchKept DEF FlushPage, Starts, Latched, TypeOK
    <2>4. MutexInv'
      BY <1>27 DEF FlushPage, Starts, Latched, TypeOK, MutexInv
    <2> QED
      BY <2>1, <2>2, <2>3, <2>4
  <1>28. ASSUME NEW t \in Threads, FlushAll(t) PROVE LockInv'
    <2>1. TypeOK'
      BY <1>28 DEF FlushAll, Starts, Latched, TypeOK, LocalInv, Pcs
    <2>2. LocalInv'
      BY <1>28 DEF FlushAll, Starts, Latched, TypeOK, LocalInv
    <2>3. LatchInv'
      BY <1>28, LatchKept DEF FlushAll, Starts, Latched, TypeOK
    <2>4. MutexInv'
      BY <1>28 DEF FlushAll, Starts, Latched, TypeOK, MutexInv
    <2> QED
      BY <2>1, <2>2, <2>3, <2>4
  <1>29. ASSUME NEW t \in Threads, NEW i \in Frames, NEW p \in PageIds, PinWrite(t, i, p)
         PROVE  LockInv'
    <2>1. TypeOK'
      BY <1>29 DEF PinWrite, Starts, TypeOK, LocalInv, Pcs
    <2>2. LocalInv'
      BY <1>29 DEF PinWrite, Starts, TypeOK, LocalInv
    <2>3. LatchInv'
      BY <1>29 DEF PinWrite, Starts, TypeOK, LocalInv, LatchInv, Has
    <2>4. MutexInv'
      BY <1>29 DEF PinWrite, Starts, TypeOK, MutexInv
    <2> QED
      BY <2>1, <2>2, <2>3, <2>4
  <1>30. ASSUME NEW t \in Threads, NEW i \in Frames, NEW p \in PageIds, PinRead(t, i, p)
         PROVE  LockInv'
    <2>1. TypeOK'
      BY <1>30 DEF PinRead, Starts, TypeOK, LocalInv, Pcs
    <2>2. LocalInv'
      BY <1>30 DEF PinRead, Starts, TypeOK, LocalInv
    <2>3. LatchInv'
      BY <1>30 DEF PinRead, Starts, TypeOK, LocalInv, LatchInv, Has
    <2>4. MutexInv'
      BY <1>30 DEF PinRead, Starts, TypeOK, MutexInv
    <2> QED
      BY <2>1, <2>2, <2>3, <2>4
  <1>31. ASSUME NEW t \in Threads, NEW i \in Frames, NEW p \in PageIds, DropPin(t, i, p)
         PROVE  LockInv'
    <2>1. TypeOK'
      BY <1>31 DEF DropPin, TypeOK, LocalInv, Pcs
    <2>2. LocalInv'
      BY <1>31 DEF DropPin, TypeOK, LocalInv
    <2>3. LatchInv'
      BY <1>31 DEF DropPin, TypeOK, LocalInv, LatchInv, Has
    <2>4. MutexInv'
      BY <1>31 DEF DropPin, TypeOK, MutexInv
    <2> QED
      BY <2>1, <2>2, <2>3, <2>4
  <1>32. ASSUME NEW t \in Threads, NEW i \in Frames, NEW p \in PageIds, RemovePage(t, i, p)
         PROVE  LockInv'
    <2>1. TypeOK'
      BY <1>32 DEF RemovePage, Starts, TypeOK, LocalInv, Pcs
    <2>2. LocalInv'
      BY <1>32 DEF RemovePage, Starts, TypeOK, LocalInv
    <2>3. LatchInv'
      BY <1>32, LatchKept DEF RemovePage, Starts, TypeOK
    <2>4. MutexInv'
      BY <1>32 DEF RemovePage, Starts, TypeOK, MutexInv
    <2> QED
      BY <2>1, <2>2, <2>3, <2>4
  <1>33. ASSUME NEW t \in Threads, NEW i \in Frames, Unlatch(t, i) PROVE LockInv'
    <2>1. TypeOK'
      BY <1>33 DEF Unlatch, TypeOK, LocalInv, Pcs
    <2>2. LocalInv'
      BY <1>33 DEF Unlatch, TypeOK, LocalInv
    <2>3. LatchInv'
      BY <1>33 DEF Unlatch, TypeOK, LocalInv, LatchInv, Has
    <2>4. MutexInv'
      BY <1>33 DEF Unlatch, TypeOK, MutexInv
    <2> QED
      BY <2>1, <2>2, <2>3, <2>4
  <1>34. CASE UNCHANGED vars
    BY <1>34 DEF vars, TypeOK, LocalInv, LatchInv, MutexInv, Has
  <1> QED
    BY <1>1, <1>2, <1>3, <1>4, <1>5, <1>6, <1>7, <1>8, <1>9, <1>10, <1>11, <1>12, <1>13,
       <1>14, <1>15, <1>16, <1>17, <1>18, <1>19, <1>20, <1>21, <1>22, <1>23, <1>24, <1>25,
       <1>26, <1>27, <1>28, <1>29, <1>30, <1>31, <1>32, <1>33, <1>34
       DEF Next, Continue, Start

-----------------------------------------------------------------------------
(***************************************************************************)
(* Nobody in a stuck set waits to write page_table, or there would be a    *)
(* reader in it; then nobody in it has the replacer or is in the queue,    *)
(* so that all wait for pages.  Who has a page has it with a Pin and waits *)
(* for a page itself, not for one that it has.                             *)
(***************************************************************************)
LEMMA WaitsForPages ==
  ASSUME LockInv, NEW S \in SUBSET Threads, Stuck(S), ~TableInversion(S)
  PROVE  \A t \in S : pc[t] \in {"lock_page", "flush", "flush_all_page", "write", "read"}
  <1>1. ASSUME NEW t \in S PROVE pc[t] \notin {"swap", "swap_queued", "remove", "remove_queued"}
    BY DEF Stuck, Blockers, TableInversion, Readers
  <1>2. ASSUME NEW t \in S
        PROVE  pc[t] \notin {"evict", "lock_replacer", "hit", "remove_node", "drop"}
    BY <1>1 DEF Stuck, Blockers, LockInv, MutexInv, SwapPcs
  <1>3. ASSUME NEW t \in S
        PROVE  pc[t] \notin {"fetch", "flush_page", "flush_all_pages", "flush_all"}
    BY <1>1 DEF Stuck, Blockers, Queued
  <1> QED
    BY <1>1, <1>2, <1>3 DEF Stuck, Blockers

LEMMA NoOtherDeadlock == LockInv => OnlyKnownDeadlocks
  <1> SUFFICES ASSUME LockInv, NEW S \in SUBSET Threads, Stuck(S),
                      ~TableInversion(S), ~CrossedLatches(S), ~LatchedVictim(S)
               PROVE  FALSE
    BY DEF OnlyKnownDeadlocks
  <1>1. \A t \in S : pc[t] \in {"lock_page", "flush", "flush_all_page", "write", "read"}
    BY WaitsForPages
  <1>2. \A t \in S : frame[t] \in Frames
    BY <1>1 DEF LockInv, LocalInv, PinPcs
  \* A latch of a frame that S waits for.
  <1>3. ASSUME NEW t \in S, NEW u \in S, u \in PageHolders(frame[t])
        PROVE  pc[u] # "lock_page" => pc[u] \in {"write", "read"} /\ Latched(u)
    <2>1. Has(u, frame[t])
      BY <1>3, HoldersHave
    <2>2. pc[u] \notin FlushPcs
      BY <1>2, <2>1 DEF LockInv, LatchInv
    <2> QED
      BY <1>1, <1>2, <1>3, <2>2 DEF FlushPcs, Latched
  <1>4. ASSUME NEW t \in S, NEW u \in S, u \in PageHolders(frame[t])
        PROVE  pc[t] # "lock_page"
    <2>1. Has(u, frame[t]) /\ pc[u] \notin OwnPcs
      BY <1>1, <1>4, HoldersHave DEF OwnPcs
    <2>2. \E p \in PageIds : <<frame[t], p>> \in held[u]
      BY <1>2, <2>1 DEF LockInv, LatchInv
    <2> QED
      BY <1>4, <2>2 DEF LatchedVictim
  <1>5. ASSUME NEW t \in S, pc[t] # "read"
        PROVE  \E u \in S : u \in PageHolders(frame[t])
    BY <1>1, <1>5 DEF Stuck, Blockers
  <1>6. \A t \in S : pc[t] # "lock_page"
    BY <1>4, <1>5
  <1>7. ASSUME NEW t \in S
        PROVE  \E u \in S : u \in PageHolders(frame[t])
    <2>1. CASE pc[t] # "read"
      BY <1>5, <2>1
    <2>2. CASE pc[t] = "read"
      <3>1. PICK u \in S : u = page_lock[frame[t]] \/ u \in PageWriters(frame[t])
        BY <2>2 DEF Stuck, Blockers
      <3>2. CASE u = page_lock[frame[t]]
        BY <3>2 DEF PageHolders
      <3>3. CASE u \in PageWriters(frame[t])
        BY <1>5, <3>3 DEF PageWriters
      <3> QED
        BY <3>1, <3>2, <3>3
    <2> QED
      BY <2>1, <2>2
  <1>8. PICK t \in S, u \in S : u \in PageHolders(frame[t])
    BY <1>7 DEF Stuck
  <1>9. PICK v \in S : v \in PageHolders(frame[u])
    BY <1>7
  <1>10. pc[u] \in {"write", "read"} /\ Latched(u) /\ pc[v] \in {"write", "read"} /\ Latched(v)
    BY <1>3, <1>6, <1>8, <1>9
  <1>11. u # v
    BY <1>9, <1>10, HoldersHave DEF LockInv, LatchInv, PinPcs
  <1> QED
    BY <1>10, <1>11 DEF CrossedLatches

(***************************************************************************)
(* In every state that any number of threads can reach, also after a race, *)
(* a set of threads that wait for each other is one of the three known     *)
(* deadlocks of the page cache (page_cache.rs:89-260).                     *)
(***************************************************************************)
THEOREM OnlyKnownDeadlocksCorrect == Spec => []OnlyKnownDeadlocks
  BY InitLock, StepLock, NoOtherDeadlock, PTL DEF Spec

-----------------------------------------------------------------------------
(***************************************************************************)
(* What holds until a race.                                                *)
(***************************************************************************)
\* t has the page in work without a Pin of it, or takes it out of the table.
Asks(t, p)     == pc[t] \in AskPcs /\ want[t] = p
Removing(t, p) == pc[t] \in {"remove", "remove_queued", "remove_node"} /\ want[t] = p

\* The entry is gone and the node is still there.
Leaving(t, i, p) == pc[t] = "remove_node" /\ want[t] = p /\ frame[t] = i

\* The Pins the counters count: not those of pages whose node is gone.
Counted(t, i, p) == <<i, p>> \in held[t] /\ (p \in known \/ Removing(t, p))

Holders(i)  == {t \in Threads : \E p \in PageIds : Counted(t, i, p)}
Swapping(i) == \E t \in Threads : pc[t] \in SwapPcs /\ frame[t] = i

\* Entries of page_table lead to a tracked frame that has the page.
TableInv ==
    /\ \A p \in PageIds : Mapped(p) => /\ pages[page_table[p]].id = p
                                       /\ pins[page_table[p]] # Untracked
                                       /\ p < next_page_id
    /\ \A p \in known : p < next_page_id

\* A page in a frame that is not the table's is one that nobody asks for.
OrphanInv ==
    \A i \in Frames :
        /\ pages[i].dirty => pages[i].id \in PageIds
        /\ pages[i].id \in PageIds => pages[i].id < next_page_id
        /\ pages[i].id \in PageIds /\ page_table[pages[i].id] # i =>
              /\ ~Mapped(pages[i].id) /\ pages[i].id \notin known
              /\ \A t \in Threads : want[t] = pages[i].id => pc[t] \notin AskPcs

\* Pins lead to the page's frame; page_table does too, up to the removal.
HeldOK(t, i, p) ==
    /\ <<i, p>> \in held[t] => p < next_page_id
    /\ Counted(t, i, p) => pages[i].id = p /\ (page_table[p] = i \/ Leaving(t, i, p))

HeldInv == \A t \in Threads, i \in Frames, p \in PageIds : HeldOK(t, i, p)

\* The counter of a frame is the number of threads with a Pin for it, and
\* one for a thread that swaps a page in.
PinInv ==
    \A i \in Frames :
        /\ i \in free => pins[i] = Untracked
        /\ Swapping(i) => Holders(i) = {}
        /\ pins[i] = Untracked => Holders(i) = {} /\ ~Swapping(i)
        /\ pins[i] # Untracked =>
              pins[i] = Cardinality(Holders(i)) + (IF Swapping(i) THEN 1 ELSE 0)

\* A page that a call asks for is known, or new and seen nowhere yet.
AskInv ==
    \A t \in Threads, p \in PageIds : Asks(t, p) =>
        /\ p < next_page_id
        /\ pc[t] \in {"fetch", "hit"} => p \in known /\ \A i \in Frames : <<i, p>> \notin held[t]
        /\ pc[t] = "hit" => page_table[p] = frame[t]
        /\ p \notin known => /\ \A i \in Frames : pages[i].id # p
                            /\ \A u \in Threads, i \in Frames : <<i, p>> \notin held[u]

\* remove_page has the page to itself, with its latch, until the node is gone.
RemoveOK(t) ==
    /\ want[t] \notin known /\ want[t] < next_page_id
    /\ page_lock[frame[t]] = t
    /\ pages[frame[t]].id = want[t]
    /\ \A u \in Threads : want[u] = want[t] =>
          pc[u] \notin AskPcs /\ (pc[u] \in RemovePcs => u = t)
    /\ pc[t] # "push" => <<frame[t], want[t]>> \in held[t]
    /\ pc[t] \in {"remove_node", "push"} => ~Mapped(want[t])
    /\ pc[t] = "push" => pins[frame[t]] = Untracked

RemoveInv == \A t \in Threads : pc[t] \in RemovePcs => RemoveOK(t)

\* A page is known as long as somebody writes it, mapped as long as it is flushed.
UseInv ==
    \A t \in Threads :
        /\ pc[t] = "write" => want[t] \in known
        /\ pc[t] \in {"flush", "flush_all_page"} => \E p \in PageIds : page_table[p] = frame[t]

\* Pages callers have, wait for, or may still be given.
Current(p) == p \in known \/ p >= next_page_id \/ \E t \in Threads : Asks(t, p)

(***************************************************************************)
(* The last write to a page is in its frame, or on disk if it has none or  *)
(* its frame is clean or being swapped out.                                *)
(***************************************************************************)
DataInv ==
    \A p \in PageIds : Current(p) =>
        /\ \A i \in Frames : page_table[p] = i =>
              /\ pages[i].data = latest[p]
              /\ ~pages[i].dirty \/ Swapping(i) => disk[p] = latest[p]
        /\ ~Mapped(p) => disk[p] = latest[p]

SafeInv == /\ TableInv /\ OrphanInv /\ HeldInv /\ PinInv
           /\ AskInv /\ RemoveInv /\ UseInv /\ DataInv

UntilRace == races = {} => SafeInv

-----------------------------------------------------------------------------
LEMMA PinEffects ==
  ASSUME NEW ps \in PinCounters, NEW i \in Frames
  PROVE  /\ TakeFramePins(ps, i) = [ps EXCEPT ![i] = 1]
         /\ ps[i] # Untracked /\ ps[i] # MaxU64 =>
              PinPins(RecordAccessPins(ps, i), i) = [ps EXCEPT ![i] = ps[i] + 1]
         /\ ps[i] # Untracked /\ ps[i] # 0 => UnpinPins(ps, i) = [ps EXCEPT ![i] = ps[i] - 1]
         /\ ps[i] = Untracked => UnpinPins(ps, i) = ps
  <1>1. TakeFramePins(ps, i) = [ps EXCEPT ![i] = 1]
    BY MaxU64Assumption
       DEF PinCounters, TakeFramePins, PinPins, RecordAccessPins, RemovePins, Untracked
  <1>2. ASSUME ps[i] # Untracked, ps[i] # MaxU64
        PROVE  PinPins(RecordAccessPins(ps, i), i) = [ps EXCEPT ![i] = ps[i] + 1]
    <2>1. RecordAccessPins(ps, i) = ps
      BY <1>2 DEF PinCounters, RecordAccessPins
    <2> QED
      BY <1>2, <2>1 DEF PinPins
  <1>3. ASSUME ps[i] # Untracked, ps[i] # 0
        PROVE  UnpinPins(ps, i) = [ps EXCEPT ![i] = ps[i] - 1]
    BY <1>3 DEF UnpinPins
  <1>4. ASSUME ps[i] = Untracked PROVE UnpinPins(ps, i) = ps
    <2>1. UnpinPins(ps, i) = [ps EXCEPT ![i] = ps[i]]
      BY <1>4 DEF UnpinPins, Untracked
    <2> QED
      BY <2>1 DEF PinCounters
  <1> QED
    BY <1>1, <1>2, <1>3, <1>4

LEMMA HoldersFinite ==
  ASSUME IsFiniteSet(Threads), NEW i \in Frames
  PROVE  /\ IsFiniteSet(Holders(i)) /\ Cardinality(Holders(i)) \in Nat
         /\ Cardinality(Holders(i)) = 0 => Holders(i) = {}
         /\ \A t \in Threads \ Holders(i) : Cardinality(Holders(i)) < Cardinality(Threads)
  <1>1. Holders(i) \subseteq Threads
    BY DEF Holders
  <1>2. IsFiniteSet(Holders(i)) /\ Cardinality(Holders(i)) \in Nat
    BY <1>1, FS_Subset, FS_CardinalityType
  <1>3. Cardinality(Holders(i)) = 0 => Holders(i) = {}
    BY <1>2, FS_EmptySet
  <1>4. ASSUME NEW t \in Threads \ Holders(i)
        PROVE  Cardinality(Holders(i)) < Cardinality(Threads)
    <2>1. Holders(i) # Threads
      BY <1>4
    <2>2. Cardinality(Threads) \in Nat /\ Cardinality(Holders(i)) <= Cardinality(Threads)
      BY <1>1, FS_Subset, FS_CardinalityType
    <2>3. Cardinality(Holders(i)) # Cardinality(Threads)
      BY <1>1, <2>1, FS_Subset
    <2> QED
      BY <1>2, <2>2, <2>3
  <1> QED
    BY <1>2, <1>3, <1>4

(***************************************************************************)
(* A step of t that leaves pages, table, counters and Pins alone, and that *)
(* asks for no page but a known one: most steps are of this kind.          *)
(***************************************************************************)
LEMMA MoveSafe ==
  ASSUME LockInv, SafeInv, NEW t \in Threads, free' \subseteq free,
         UNCHANGED <<pages, page_table, disk, next_page_id, pins, held, latest, known>>,
         \A u \in Threads \ {t} : /\ pc'[u] = pc[u] /\ frame'[u] = frame[u]
                                 /\ want'[u] = want[u],
         \A p \in PageIds : Asks(t, p)' =>
            \/ Asks(t, p) /\ (pc'[t] \in {"fetch", "hit"} => pc[t] \in {"fetch", "hit"})
            \/ p \in known /\ \A i \in Frames : <<i, p>> \notin held[t],
         pc'[t] = "hit" => page_table[want'[t]] = frame'[t],
         \A p \in PageIds : Removing(t, p)' <=> Removing(t, p),
         "remove_node" \notin {pc[t], pc'[t]},
         pc[t] \in SwapPcs <=> pc'[t] \in SwapPcs,
         pc'[t] \in SwapPcs \cup RemovePcs => frame'[t] = frame[t] /\ want'[t] = want[t],
         pc'[t] \in RemovePcs => pc[t] \in RemovePcs /\ "push" \notin {pc[t], pc'[t]},
         \A u \in Threads : pc[u] \in RemovePcs =>
            page_lock'[frame[u]] = page_lock[frame[u]],
         pc'[t] = "write" => want'[t] \in known,
         pc'[t] \in {"flush", "flush_all_page"} =>
            \E p \in PageIds : page_table[p] = frame'[t]
  PROVE  SafeInv'
  <1>1. TableInv'
    BY DEF SafeInv, TableInv, Mapped
  <1>2. \A u \in Threads, p \in PageIds : Asks(u, p)' => Asks(u, p) \/ p \in known
    BY DEF Asks
  <1>3. OrphanInv'
    BY <1>2 DEF SafeInv, OrphanInv, Mapped, Asks
  <1>4. \A u \in Threads, i \in Frames, p \in PageIds : Counted(u, i, p)' <=> Counted(u, i, p)
    BY DEF Counted, Removing
  <1>5. HeldInv'
    <2> SUFFICES ASSUME NEW u \in Threads, NEW i \in Frames, NEW p \in PageIds
                 PROVE  HeldOK(u, i, p)'
      BY DEF HeldInv
    <2>1. Leaving(u, i, p)' <=> Leaving(u, i, p)
      BY DEF Leaving
    <2> QED
      BY <1>4, <2>1 DEF SafeInv, HeldInv, HeldOK
  <1>6. \A i \in Frames : Swapping(i)' <=> Swapping(i)
    BY DEF Swapping
  <1>7. \A i \in Frames : Holders(i)' = Holders(i)
    BY <1>4 DEF Holders
  <1>8. PinInv'
    BY <1>6, <1>7 DEF SafeInv, PinInv
  <1>9. AskInv'
    <2> SUFFICES ASSUME NEW u \in Threads, NEW p \in PageIds, Asks(u, p)'
                 PROVE  /\ p < next_page_id
                        /\ pc'[u] \in {"fetch", "hit"} =>
                              p \in known /\ \A i \in Frames : <<i, p>> \notin held[u]
                        /\ pc'[u] = "hit" => page_table[p] = frame'[u]
                        /\ p \notin known =>
                              /\ \A i \in Frames : pages[i].id # p
                              /\ \A v \in Threads, i \in Frames : <<i, p>> \notin held[v]
      BY DEF AskInv
    <2>1. CASE u # t
      <3>1. Asks(u, p)
        BY <2>1 DEF Asks
      <3> QED
        BY <2>1, <3>1 DEF SafeInv, AskInv
    <2>2. CASE u = t /\ Asks(t, p) /\ (pc'[t] \in {"fetch", "hit"} => pc[t] \in {"fetch", "hit"})
      BY <2>2 DEF SafeInv, AskInv, Asks
    <2>3. CASE u = t /\ p \in known /\ \A i \in Frames : <<i, p>> \notin held[t]
      BY <2>3 DEF SafeInv, TableInv, Asks
    <2> QED
      BY <2>1, <2>2, <2>3
  <1>10. RemoveInv'
    <2> SUFFICES ASSUME NEW u \in Threads, pc'[u] \in RemovePcs PROVE RemoveOK(u)'
      BY DEF RemoveInv
    <2>1. /\ pc[u] \in RemovePcs /\ frame'[u] = frame[u] /\ want'[u] = want[u]
          /\ pc'[u] # pc[u] => pc'[u] \notin {"push", "remove_node"}
      OBVIOUS
    <2>2. \A v \in Threads : pc'[v] \in RemovePcs => pc[v] \in RemovePcs /\ want'[v] = want[v]
      OBVIOUS
    <2>3. want[u] \in PageIds
      BY <2>1 DEF LockInv, LocalInv
    <2>4. \A v \in Threads : want'[v] = want[u] => pc'[v] \notin AskPcs
      BY <1>2, <2>1, <2>3 DEF SafeInv, RemoveInv, RemoveOK, Asks
    <2>5. RemoveOK(u)
      BY <2>1 DEF SafeInv, RemoveInv
    <2>6. page_lock'[frame'[u]] = u
      BY <2>1, <2>5 DEF RemoveOK
    <2>7. pc'[u] \in {"push", "remove_node"} => pc[u] = pc'[u]
      BY <2>1
    <2>8. pc'[u] # "push" => pc[u] # "push"
      BY <2>1
    <2> QED
      BY <2>1, <2>2, <2>4, <2>5, <2>6, <2>7, <2>8 DEF RemoveOK, Mapped
  <1>11. UseInv'
    BY DEF SafeInv, UseInv
  <1>12. DataInv'
    <2>1. \A p \in PageIds : Current(p)' => Current(p)
      BY <1>2 DEF Current
    <2> QED
      BY <1>6, <2>1 DEF SafeInv, DataInv, Mapped
  <1> QED
    BY <1>1, <1>3, <1>5, <1>8, <1>9, <1>10, <1>11, <1>12 DEF SafeInv

\* What a thread with a Pin that counts can rely on.
LEMMA CountedFacts ==
  ASSUME IsFiniteSet(Threads), LockInv, SafeInv,
         NEW t \in Threads, NEW i \in Frames, NEW p \in PageIds, Counted(t, i, p)
  PROVE  /\ pages[i].id = p /\ p < next_page_id
         /\ pins[i] # Untracked /\ ~Swapping(i)
         /\ \A q \in PageIds : Counted(t, i, q) => q = p
         /\ pins[i] = Cardinality(Holders(i)) /\ pins[i] # 0
  <1>1. t \in Holders(i) /\ pages[i].id = p
    BY DEF Holders, SafeInv, HeldInv, HeldOK
  <1>2. pins[i] # Untracked /\ ~Swapping(i)
    BY <1>1 DEF SafeInv, PinInv
  <1>3. pins[i] = Cardinality(Holders(i)) + 0 /\ Cardinality(Holders(i)) \in Nat
    BY <1>2, HoldersFinite DEF SafeInv, PinInv
  <1>4. Cardinality(Holders(i)) # 0
    BY <1>1, HoldersFinite
  <1> QED
    BY <1>1, <1>2, <1>3, <1>4 DEF Counted, SafeInv, HeldInv, HeldOK

\* new_page asks for an id that is in no frame and in no table yet.
LEMMA NewPageSafe ==
  ASSUME LockInv, SafeInv, NEW t \in Threads, NewPage(t)
  PROVE  SafeInv'
  <1>1. /\ next_page_id' = next_page_id + 1 /\ next_page_id \in PageIds /\ next_page_id \in Nat
        /\ \A p \in Nat : p < next_page_id => p < next_page_id' /\ p # next_page_id
        /\ UNCHANGED <<pages, page_table, free, disk, pins, page_lock, held, latest, known>>
    BY DEF NewPage, LockInv, TypeOK, locks, ghosts
  <1>2. /\ pc[t] = "idle" /\ pc'[t] = "pop" /\ want'[t] = next_page_id
        /\ \A u \in Threads \ {t} : pc'[u] = pc[u] /\ want'[u] = want[u] /\ frame'[u] = frame[u]
    BY DEF NewPage, CanPin, Starts, At, Call, Goto, LockInv, TypeOK
  <1>3. PageIds \subseteq Nat
    BY PageIdsAssumption
  <1>4. \A u \in Threads, p \in PageIds : Asks(u, p)' <=> Asks(u, p) \/ (u = t /\ p = next_page_id)
    BY <1>2 DEF Asks, AskPcs, TakePcs, OwnPcs
  <1>5. \A u \in Threads, i \in Frames, p \in PageIds : Counted(u, i, p)' <=> Counted(u, i, p)
    BY <1>1, <1>2 DEF Counted, Removing
  <1>6. \A i \in Frames : Swapping(i)' <=> Swapping(i)
    BY <1>2 DEF Swapping, SwapPcs
  <1>7. \A i \in Frames : Holders(i)' = Holders(i)
    BY <1>5 DEF Holders
  <1>8. TableInv'
    BY <1>1, <1>3 DEF SafeInv, TableInv, Mapped, LockInv, TypeOK
  <1>9. OrphanInv'
    <2>1. \A u \in Threads, p \in PageIds :
            want'[u] = p /\ pc'[u] \in AskPcs =>
                     (want[u] = p /\ pc[u] \in AskPcs) \/ p = next_page_id
      BY <1>4 DEF Asks
    <2> QED
      BY <1>1, <1>3, <2>1 DEF SafeInv, OrphanInv, Mapped
  <1>10. HeldInv'
    <2> SUFFICES ASSUME NEW u \in Threads, NEW i \in Frames, NEW p \in PageIds
                 PROVE  HeldOK(u, i, p)'
      BY DEF HeldInv
    <2>1. Leaving(u, i, p)' <=> Leaving(u, i, p)
      BY <1>2 DEF Leaving
    <2> QED
      BY <1>1, <1>3, <1>5, <2>1 DEF SafeInv, HeldInv, HeldOK
  <1>11. PinInv'
    BY <1>1, <1>6, <1>7 DEF SafeInv, PinInv
  <1>12. AskInv'
    <2> SUFFICES ASSUME NEW u \in Threads, NEW p \in PageIds, Asks(u, p)'
                 PROVE  /\ p < next_page_id'
                        /\ pc'[u] \in {"fetch", "hit"} =>
                              p \in known /\ \A i \in Frames : <<i, p>> \notin held[u]
                        /\ pc'[u] = "hit" => page_table[p] = frame'[u]
                        /\ p \notin known =>
                              /\ \A i \in Frames : pages[i].id # p
                              /\ \A v \in Threads, i \in Frames : <<i, p>> \notin held[v]
      BY <1>1 DEF AskInv
    <2>1. CASE u = t
      <3>1. p = next_page_id
        BY <1>2, <2>1 DEF Asks
      <3>2. \A i \in Frames : pages[i].id # p
        BY <1>1, <1>3, <3>1 DEF SafeInv, OrphanInv
      <3>3. \A v \in Threads, i \in Frames : <<i, p>> \notin held[v]
        BY <1>1, <1>3, <3>1 DEF SafeInv, HeldInv, HeldOK
      <3> QED
        BY <1>1, <1>2, <2>1, <3>1, <3>2, <3>3
    <2>2. CASE u # t
      BY <1>1, <1>2, <1>3, <1>4, <2>2 DEF SafeInv, AskInv
    <2> QED
      BY <2>1, <2>2
  <1>13. RemoveInv'
    <2>1. \A u \in Threads : pc'[u] \in RemovePcs =>
            /\ u # t /\ pc[u] \in RemovePcs /\ pc'[u] = pc[u]
            /\ want'[u] = want[u] /\ frame'[u] = frame[u]
            /\ want[u] \in PageIds /\ want[u] # next_page_id /\ want[u] < next_page_id'
      BY <1>1, <1>2, <1>3 DEF RemovePcs, SafeInv, RemoveInv, RemoveOK, LockInv, LocalInv
    <2>2. \A u \in Threads, p \in PageIds : p # next_page_id =>
            (want'[u] = p /\ pc'[u] \in AskPcs => want[u] = p /\ pc[u] \in AskPcs)
      BY <1>4 DEF Asks
    <2> SUFFICES ASSUME NEW u \in Threads, pc'[u] \in RemovePcs PROVE RemoveOK(u)'
      BY DEF RemoveInv
    <2>3. RemoveOK(u)
      BY <2>1 DEF SafeInv, RemoveInv
    <2> QED
      BY <1>1, <2>1, <2>2, <2>3 DEF RemoveOK, Mapped
  <1>14. UseInv'
    BY <1>1, <1>2 DEF SafeInv, UseInv
  <1>15. DataInv'
    <2>1. \A p \in PageIds : Current(p)' => Current(p)
      BY <1>1, <1>3, <1>4 DEF Current
    <2> QED
      BY <1>1, <1>6, <2>1 DEF SafeInv, DataInv, Mapped, LockInv, TypeOK
  <1> QED
    BY <1>8, <1>9, <1>10, <1>11, <1>12, <1>13, <1>14, <1>15 DEF SafeInv

(***************************************************************************)
(* fetch_page pins a frame once more.  The counter is below its largest    *)
(* value, as the thread is not among those with a Pin for the frame.       *)
(***************************************************************************)
LEMMA FetchHitPinSafe ==
  ASSUME IsFiniteSet(Threads), Cardinality(Threads) <= MaxU64,
         LockInv, SafeInv, NEW t \in Threads, FetchHitPin(t)
  PROVE  SafeInv'
  <1>0. PICK i \in Frames, p \in PageIds : i = frame[t] /\ p = want[t]
    BY DEF FetchHitPin, LockInv, LocalInv, At, AskPcs
  <1>1. /\ pc[t] = "hit" /\ pc'[t] = "idle"
        /\ \A u \in Threads \ {t} : /\ pc'[u] = pc[u] /\ want'[u] = want[u] /\ frame'[u] = frame[u]
                                    /\ held'[u] = held[u]
        /\ held'[t] = held[t] \cup {<<i, p>>}
        /\ UNCHANGED <<pages, page_table, free, disk, next_page_id, page_lock, latest, known>>
    BY <1>0 DEF FetchHitPin, At, Return, Goto, TakePin, LockInv, TypeOK, locks, ghosts
  <1>2. Asks(t, p)
    BY <1>0, <1>1 DEF Asks, AskPcs
  <1>3. p \in known /\ page_table[p] = i /\ \A j \in Frames : <<j, p>> \notin held[t]
    BY <1>0, <1>1, <1>2 DEF SafeInv, AskInv
  <1>4. Mapped(p) /\ pages[i].id = p /\ pins[i] # Untracked /\ p < next_page_id
    BY <1>3, ThreadsAssumption DEF SafeInv, TableInv, Mapped
  <1>5. \A u \in Threads : pc[u] \notin SwapPcs
    BY ThreadsAssumption DEF FetchHitPin, LockInv, MutexInv
  <1>6. t \notin Holders(i)
    BY <1>3, <1>4 DEF Holders, Counted, SafeInv, HeldInv, HeldOK
  <1>7. /\ Cardinality(Holders(i)) \in Nat /\ IsFiniteSet(Holders(i))
        /\ pins[i] = Cardinality(Holders(i))
        /\ Cardinality(Holders(i)) < Cardinality(Threads)
    <2>1. Cardinality(Holders(i)) \in Nat /\ IsFiniteSet(Holders(i))
      BY HoldersFinite
    <2>2. pins[i] = Cardinality(Holders(i)) + 0
      BY <1>4, <1>5 DEF SafeInv, PinInv, Swapping
    <2> QED
      BY <1>6, <2>1, <2>2, HoldersFinite
  <1>8. pins[i] # MaxU64
    BY <1>7, MaxU64Assumption, FS_CardinalityType
  <1>9. pins' = [pins EXCEPT ![i] = pins[i] + 1]
    BY <1>0, <1>4, <1>8, PinEffects DEF FetchHitPin, LockInv, TypeOK
  <1>10. \A u \in Threads, j \in Frames, r \in PageIds :
            Counted(u, j, r)' <=> Counted(u, j, r) \/ (u = t /\ j = i /\ r = p)
    BY <1>1, <1>3 DEF Counted, Removing
  <1>11. Holders(i)' = Holders(i) \cup {t} /\ \A j \in Frames : j # i => Holders(j)' = Holders(j)
    BY <1>10 DEF Holders
  <1>12. \A j \in Frames : ~Swapping(j) /\ ~Swapping(j)'
    BY <1>1, <1>5 DEF Swapping, SwapPcs
  <1>13. \A u \in Threads, r \in PageIds : Asks(u, r)' => u # t /\ Asks(u, r)
    BY <1>1 DEF Asks, AskPcs, TakePcs, OwnPcs
  <1>14. pins[i] + 1 # Untracked /\ \A j \in Frames : pins'[j] = Untracked <=> pins[j] = Untracked
    BY <1>4, <1>7, <1>9 DEF Untracked, LockInv, TypeOK, PinCounters
  <1>15. TableInv'
    BY <1>1, <1>14 DEF SafeInv, TableInv, Mapped, LockInv, TypeOK
  <1>16. OrphanInv'
    BY <1>1, <1>13 DEF SafeInv, OrphanInv, Mapped, Asks
  <1>17. HeldInv'
    <2>1. \A u \in Threads, j \in Frames, r \in PageIds :
            <<j, r>> \in held'[u] => <<j, r>> \in held[u] \/ r = p
      BY <1>1
    <2>2. \A u \in Threads, j \in Frames, r \in PageIds : Counted(u, j, r)' =>
            \/ u = t /\ j = i /\ r = p
            \/ Counted(u, j, r) /\ (Leaving(u, j, r) => Leaving(u, j, r)')
      BY <1>1, <1>10 DEF Leaving
    <2> SUFFICES ASSUME NEW u \in Threads, NEW j \in Frames, NEW r \in PageIds
                 PROVE  HeldOK(u, j, r)'
      BY DEF HeldInv
    <2>3. HeldOK(u, j, r)
      BY DEF SafeInv, HeldInv, HeldOK
    <2> QED
      BY <1>1, <1>3, <1>4, <2>1, <2>2, <2>3 DEF HeldOK
  <1>18. PinInv'
    <2>1. Cardinality(Holders(i)') = Cardinality(Holders(i)) + 1
      BY <1>6, <1>7, <1>11, FS_AddElement
    <2> QED
      <3>1. ASSUME NEW j \in Frames, j # i
            PROVE  pins'[j] = pins[j] /\ Holders(j)' = Holders(j)
        BY <1>9, <1>11, <3>1 DEF LockInv, TypeOK, PinCounters
      <3>2. pins'[i] = pins[i] + 1
        BY <1>9 DEF LockInv, TypeOK, PinCounters
      <3>3. pins'[i] = Cardinality(Holders(i)') /\ pins'[i] # Untracked /\ i \notin free
        BY <1>4, <1>7, <1>14, <2>1, <3>2 DEF SafeInv, PinInv
      <3> QED
        BY <1>1, <1>12, <3>1, <3>3, <1>7, <2>1 DEF SafeInv, PinInv
  <1>19. AskInv'
    <2>1. \A u \in Threads, r \in PageIds : Asks(u, r)' => r # p \/ p \in known
      BY <1>3
    <2> QED
      BY <1>1, <1>3, <1>13 DEF SafeInv, AskInv
  <1>20. RemoveInv'
    <2>1. \A u \in Threads : pc'[u] \in RemovePcs =>
            /\ u # t /\ pc[u] \in RemovePcs /\ pc'[u] = pc[u]
            /\ want'[u] = want[u] /\ frame'[u] = frame[u] /\ held'[u] = held[u]
            /\ want[u] \in PageIds /\ frame[u] \in Frames
      BY <1>1 DEF RemovePcs, LockInv, LocalInv
    <2> SUFFICES ASSUME NEW u \in Threads, pc'[u] \in RemovePcs PROVE RemoveOK(u)'
      BY DEF RemoveInv
    <2>2. RemoveOK(u)
      BY <2>1 DEF SafeInv, RemoveInv
    <2> QED
      BY <1>1, <1>13, <1>14, <2>1, <2>2 DEF RemoveOK, Mapped, Asks
  <1>21. UseInv'
    BY <1>1 DEF SafeInv, UseInv
  <1>22. DataInv'
    BY <1>1, <1>12, <1>13 DEF SafeInv, DataInv, Current, Mapped, LockInv, TypeOK
  <1> QED
    BY <1>15, <1>16, <1>17, <1>18, <1>19, <1>20, <1>21, <1>22 DEF SafeInv


(***************************************************************************)
(* try_get_page takes a frame that nobody has a Pin for (no race "stolen") *)
(* and writes its page back; the mutex keeps everybody else out.           *)
(***************************************************************************)
LEMMA LockReplacerSafe ==
  ASSUME IsFiniteSet(Threads), LockInv, SafeInv, NEW t \in Threads, LockReplacer(t), races' = {}
  PROVE  SafeInv'
  <1>0. PICK i \in Frames, p \in PageIds : i = frame[t] /\ p = want[t]
    BY DEF LockReplacer, LockInv, LocalInv, At, AskPcs, TakePcs, OwnPcs
  <1>1. /\ pc[t] = "lock_replacer" /\ pc'[t] = "swap" /\ want' = want /\ frame' = frame
        /\ \A u \in Threads \ {t} : pc'[u] = pc[u]
        /\ UNCHANGED <<pages, page_table, free, next_page_id, page_lock, held, latest, known>>
        /\ ~(pins[i] > 0) /\ i \notin free
    BY <1>0 DEF LockReplacer, At, Goto, LockInv, TypeOK
  <1>2. \A u \in Threads : pc[u] \notin SwapPcs
    BY ThreadsAssumption DEF LockReplacer, LockInv, MutexInv
  <1>3. Holders(i) = {}
    <2>1. CASE pins[i] = Untracked
      BY <2>1 DEF SafeInv, PinInv
    <2>2. CASE pins[i] # Untracked
      <3>1. pins[i] = Cardinality(Holders(i)) + 0
        BY <1>2, <2>2 DEF SafeInv, PinInv, Swapping
      <3>2. Cardinality(Holders(i)) = 0
        BY <1>1, <3>1, HoldersFinite
      <3> QED
        BY <3>2, HoldersFinite
    <2> QED
      BY <2>1, <2>2
  <1>4. pins' = [pins EXCEPT ![i] = 1] /\ disk' = WriteBackDisk(disk, pages[i])
    BY <1>0, PinEffects DEF LockReplacer, LockInv, TypeOK
  <1>5. \A u \in Threads, j \in Frames, r \in PageIds : Counted(u, j, r)' <=> Counted(u, j, r)
    BY <1>1 DEF Counted, Removing
  <1>6. \A j \in Frames : Holders(j)' = Holders(j)
    BY <1>5 DEF Holders
  <1>7. \A j \in Frames : ~Swapping(j) /\ (Swapping(j)' <=> j = i)
    BY <1>0, <1>1, <1>2 DEF Swapping, SwapPcs
  <1>8. \A u \in Threads, r \in PageIds : Asks(u, r)' <=> Asks(u, r)
    BY <1>1 DEF Asks, AskPcs, TakePcs, OwnPcs
  <1>9. TableInv'
    BY <1>1, <1>4 DEF SafeInv, TableInv, Mapped, Untracked, LockInv, TypeOK, PinCounters
  <1>10. OrphanInv'
    BY <1>1, <1>8 DEF SafeInv, OrphanInv, Mapped, Asks
  <1>11. HeldInv'
    <2> SUFFICES ASSUME NEW u \in Threads, NEW j \in Frames, NEW r \in PageIds
                 PROVE  HeldOK(u, j, r)'
      BY DEF HeldInv
    <2>1. Leaving(u, j, r)' <=> Leaving(u, j, r)
      BY <1>1 DEF Leaving
    <2> QED
      BY <1>1, <1>5, <2>1 DEF SafeInv, HeldInv, HeldOK
  <1>12. PinInv'
    <2>1. Cardinality(Holders(i)) = 0
      BY <1>3, FS_EmptySet
    <2>2. pins'[i] = 1 /\ \A j \in Frames : j # i => pins'[j] = pins[j]
      BY <1>4 DEF LockInv, TypeOK, PinCounters
    <2> QED
      BY <1>1, <1>3, <1>6, <1>7, <2>1, <2>2 DEF SafeInv, PinInv, Untracked
  <1>13. AskInv'
    BY <1>1, <1>8 DEF SafeInv, AskInv
  <1>14. RemoveInv'
    <2>1. page_lock[i] = t
      BY <1>0, <1>1 DEF LockInv, LatchInv, OwnPcs
    <2>2. \A u \in Threads : pc'[u] \in RemovePcs =>
            /\ u # t /\ pc[u] \in RemovePcs /\ pc'[u] = pc[u]
            /\ want[u] \in PageIds /\ frame[u] \in Frames /\ frame[u] # i
      BY <1>1, <2>1 DEF RemovePcs, LockInv, LocalInv, SafeInv, RemoveInv, RemoveOK
    <2> SUFFICES ASSUME NEW u \in Threads, pc'[u] \in RemovePcs PROVE RemoveOK(u)'
      BY DEF RemoveInv
    <2>3. RemoveOK(u) /\ pins'[frame[u]] = pins[frame[u]]
      BY <1>4, <2>2 DEF SafeInv, RemoveInv, LockInv, TypeOK, PinCounters
    <2> QED
      BY <1>1, <1>8, <2>2, <2>3 DEF RemoveOK, Mapped, Asks
  <1>15. UseInv'
    BY <1>1 DEF SafeInv, UseInv
  <1>16. DataInv'
    <2> SUFFICES ASSUME NEW r \in PageIds, Current(r)
                 PROVE  /\ \A j \in Frames : page_table[r] = j =>
                              /\ pages[j].data = latest[r]
                              /\ ~pages[j].dirty \/ j = i => disk'[r] = latest[r]
                        /\ ~Mapped(r) => disk'[r] = latest[r]
      <3>1. \A r \in PageIds : Current(r)' <=> Current(r)
        BY <1>1, <1>8 DEF Current
      <3> QED
        BY <1>1, <1>7, <3>1 DEF DataInv, Mapped
    <2>1. \A j \in Frames : page_table[r] = j => pages[j].data = latest[r] /\ pages[j].id = r
      BY ThreadsAssumption DEF SafeInv, DataInv, TableInv, Mapped
    <2>2. /\ ~Mapped(r) => disk[r] = latest[r]
          /\ \A j \in Frames : page_table[r] = j /\ ~pages[j].dirty => disk[r] = latest[r]
      BY DEF SafeInv, DataInv
    <2>3. CASE pages[i].dirty /\ pages[i].id = r
      <3>1. page_table[r] = i
        BY <2>3, PageIdsAssumption DEF SafeInv, OrphanInv, Current, Asks, LockInv, TypeOK
      <3>2. disk'[r] = pages[i].data
        BY <1>4, <2>3 DEF WriteBackDisk, WriteDisk, LockInv, TypeOK
      <3> QED
        BY <2>1, <3>1, <3>2, ThreadsAssumption DEF Mapped
    <2>4. CASE ~(pages[i].dirty /\ pages[i].id = r)
      <3>1. disk'[r] = disk[r]
        BY <1>4, <2>4 DEF WriteBackDisk, WriteDisk, LockInv, TypeOK
      <3>2. page_table[r] = i => ~pages[i].dirty
        BY <2>1, <2>4
      <3> QED
        BY <2>1, <2>2, <3>1, <3>2
    <2> QED
      BY <2>3, <2>4
  <1> QED
    BY <1>9, <1>10, <1>11, <1>12, <1>13, <1>14, <1>15, <1>16 DEF SafeInv

(***************************************************************************)
(* The swap: the frame's old page leaves the table, and the new one, which *)
(* has no entry yet (no race "loaded_twice") and is in no other frame,     *)
(* takes its place.                                                        *)
(***************************************************************************)
LEMMA SwapSafe ==
  ASSUME LockInv, SafeInv, NEW t \in Threads, Swap(t), races' = {}
  PROVE  SafeInv'
  <1>0. PICK i \in Frames, p \in PageIds : i = frame[t] /\ p = want[t]
    BY DEF Swap, LockInv, LocalInv, AskPcs, TakePcs, OwnPcs
  <1> DEFINE q == pages[i].id
  <1>1. /\ pc[t] \in SwapPcs /\ pc'[t] = "idle"
        /\ \A u \in Threads \ {t} : /\ pc'[u] = pc[u] /\ want'[u] = want[u] /\ frame'[u] = frame[u]
                                    /\ held'[u] = held[u]
        /\ held'[t] = held[t] \cup {<<i, p>>}
        /\ known' = known \cup {p} /\ page_table[p] = NoFrame
        /\ UNCHANGED <<free, disk, next_page_id, pins, latest>>
    BY <1>0 DEF Swap, Return, Goto, TakePin, Mapped, SwapPcs, LockInv, TypeOK
  <1>2. /\ page_table'[p] = i
        /\ q \in PageIds /\ q # p => page_table'[q] = NoFrame
        /\ \A r \in PageIds : r # p /\ r # q => page_table'[r] = page_table[r]
    BY <1>0 DEF Swap
  <1>3. /\ pages'[i].id = p /\ ~pages'[i].dirty /\ pages'[i].data = disk[p]
        /\ \A j \in Frames : j # i => pages'[j] = pages[j]
        /\ \A j \in Frames : j # i => page_lock'[j] = page_lock[j]
    BY <1>0 DEF Swap, Loaded, LockInv, TypeOK
  <1>4. \A u \in Threads : pc[u] \notin {"hit", "flush", "flush_all", "flush_all_page"}
    BY DEF Swap, CanWrite, Readers
  <1>5. Asks(t, p) /\ p < next_page_id
    BY <1>0, <1>1 DEF Asks, AskPcs, TakePcs, OwnPcs, SwapPcs, SafeInv, AskInv
  <1>6. \A u \in Threads : pc[u] \in SwapPcs => u = t
    BY <1>1 DEF LockInv, MutexInv
  <1>7. \A j \in Frames : ~Swapping(j)' /\ (Swapping(j) <=> j = i)
    BY <1>0, <1>1, <1>6 DEF Swapping, SwapPcs
  <1>8. Holders(i) = {} /\ pins[i] # Untracked /\ i \notin free
    BY <1>7 DEF SafeInv, PinInv
  \* No frame has the page that comes in, and only this one has an entry for its old page.
  <1>9. \A j \in Frames : pages[j].id # p
    BY <1>1, <1>5, ThreadsAssumption DEF SafeInv, OrphanInv, Asks
  <1>10. \A r \in PageIds : page_table[r] = i => r = q
    BY ThreadsAssumption DEF SafeInv, TableInv, Mapped
  <1>11. \A j \in Frames : q \in PageIds /\ page_table[q] = j => j = i
    BY ThreadsAssumption DEF SafeInv, OrphanInv, Mapped
  <1>12. \A u \in Threads, j \in Frames, r \in PageIds :
            Counted(u, j, r)' <=> Counted(u, j, r) \/ (u = t /\ j = i /\ r = p)
    <2>1. \A u \in Threads, r \in PageIds : Removing(u, r)' <=> Removing(u, r)
      BY <1>1 DEF Removing, SwapPcs
    <2>2. p \notin known => \A u \in Threads, j \in Frames : <<j, p>> \notin held[u]
      BY <1>5 DEF SafeInv, AskInv
    <2> QED
      BY <1>1, <2>1, <2>2 DEF Counted
  <1>13. Holders(i)' = {t} /\ \A j \in Frames : j # i => Holders(j)' = Holders(j)
    BY <1>8, <1>12 DEF Holders
  <1>14. \A u \in Threads, r \in PageIds : Asks(u, r)' => u # t /\ Asks(u, r)
    BY <1>1 DEF Asks, AskPcs, TakePcs, OwnPcs
  <1>15. TableInv'
    <2>1. ASSUME NEW r \in PageIds, page_table'[r] # NoFrame
          PROVE  /\ pages'[page_table'[r]].id = r
                 /\ pins[page_table'[r]] # Untracked /\ r < next_page_id
      <3>1. CASE r = p
        BY <1>2, <1>3, <1>5, <1>8, <3>1
      <3>2. CASE r # p
        <4>1. r # q /\ page_table'[r] = page_table[r] /\ page_table[r] # i
          BY <1>2, <1>10, <2>1, <3>2
        <4>2. page_table[r] \in Frames
          BY <2>1, <4>1 DEF LockInv, TypeOK
        <4> QED
          BY <1>3, <2>1, <4>1, <4>2 DEF SafeInv, TableInv, Mapped
      <3> QED
        BY <3>1, <3>2
    <2>2. \A r \in known' : r < next_page_id
      BY <1>1, <1>5 DEF SafeInv, TableInv
    <2> QED
      BY <1>1, <2>1, <2>2 DEF TableInv, Mapped
  <1>16. OrphanInv'
    <2> SUFFICES ASSUME NEW j \in Frames, j # i
                 PROVE  /\ pages[j].dirty => pages[j].id \in PageIds
                        /\ pages[j].id \in PageIds => pages[j].id < next_page_id
                        /\ pages[j].id \in PageIds /\ page_table'[pages[j].id] # j =>
                              /\ page_table'[pages[j].id] = NoFrame /\ pages[j].id \notin known'
                              /\ \A u \in Threads :
                                    want'[u] = pages[j].id => pc'[u] \notin AskPcs
      BY <1>1, <1>2, <1>3, <1>5 DEF OrphanInv, Mapped
    <2>1. pages[j].id # p
      BY <1>9
    <2>5. \A u \in Threads, r \in PageIds :
            want'[u] = r /\ pc'[u] \in AskPcs => want[u] = r /\ pc[u] \in AskPcs
      BY <1>14 DEF Asks
    <2>2. CASE pages[j].id \in PageIds /\ pages[j].id # q
      <3>1. page_table'[pages[j].id] = page_table[pages[j].id]
        BY <1>2, <2>1, <2>2
      <3> QED
        BY <1>1, <2>1, <2>2, <2>5, <3>1 DEF SafeInv, OrphanInv, Mapped
    <2>3. CASE pages[j].id \in PageIds /\ pages[j].id = q
      <3>1. page_table[q] # j
        BY <1>11, <2>3
      <3> QED
        BY <1>1, <1>2, <2>1, <2>3, <2>5, <3>1 DEF SafeInv, OrphanInv, Mapped
    <2>4. CASE pages[j].id \notin PageIds
      BY <2>4 DEF SafeInv, OrphanInv
    <2> QED
      BY <2>2, <2>3, <2>4
  <1>17. HeldInv'
    <2>1. \A u \in Threads, j \in Frames, r \in PageIds :
            <<j, r>> \in held'[u] => r < next_page_id
      BY <1>1, <1>5 DEF SafeInv, HeldInv, HeldOK
    <2>2. ASSUME NEW u \in Threads, NEW j \in Frames, NEW r \in PageIds, Counted(u, j, r)'
          PROVE  /\ pages'[j].id = r
                 /\ page_table'[r] = j \/ Leaving(u, j, r)'
      <3>1. CASE u = t /\ j = i /\ r = p
        BY <1>2, <1>3, <3>1
      <3>2. CASE Counted(u, j, r)
        <4>1. j # i
          BY <1>8, <3>2 DEF Holders
        <4>2. /\ pages[j].id = r /\ r # p
              /\ page_table[r] = j \/ Leaving(u, j, r)
          BY <1>9, <3>2 DEF SafeInv, HeldInv, HeldOK
        <4>3. CASE page_table[r] = j
          BY <1>2, <1>3, <1>11, <4>1, <4>2, <4>3
        <4>4. CASE Leaving(u, j, r)
          BY <1>1, <1>3, <4>1, <4>2, <4>4 DEF SwapPcs, Leaving
        <4> QED
          BY <4>2, <4>3, <4>4
      <3> QED
        BY <1>12, <2>2, <3>1, <3>2
    <2> QED
      BY <1>1, <2>1, <2>2 DEF HeldInv, HeldOK
  <1>18. PinInv'
    <2>1. Cardinality(Holders(i)') = 1
      BY <1>13, FS_Singleton
    <2>2. pins[i] = 1
      <3>1. Cardinality(Holders(i)) = 0
        BY <1>8, FS_EmptySet
      <3>2. pins[i] = Cardinality(Holders(i)) + 1
        BY <1>7, <1>8 DEF SafeInv, PinInv
      <3> QED
        BY <3>1, <3>2
    <2>3. \A j \in Frames : j # i => ~Swapping(j) /\ Holders(j)' = Holders(j)
      BY <1>7, <1>13
    <2> QED
      BY <1>1, <1>7, <1>8, <2>1, <2>2, <2>3 DEF SafeInv, PinInv, Untracked
  <1>19. AskInv'
    <2> SUFFICES ASSUME NEW u \in Threads, NEW r \in PageIds, u # t, Asks(u, r)
                 PROVE  /\ r < next_page_id
                        /\ pc[u] \in {"fetch", "hit"} =>
                              r \in known' /\ \A j \in Frames : <<j, r>> \notin held[u]
                        /\ r \notin known' =>
                              /\ \A j \in Frames : pages'[j].id # r
                              /\ \A v \in Threads, j \in Frames : <<j, r>> \notin held'[v]
      BY <1>1, <1>4, <1>14 DEF AskInv
    <2>1. r \notin known' => r # p /\ r \notin known
      BY <1>1
    <2> QED
      BY <1>1, <1>3, <2>1 DEF SafeInv, AskInv
  <1>20. RemoveInv'
    <2>1. page_lock[i] = t
      BY <1>0, <1>1 DEF LockInv, LatchInv, OwnPcs, SwapPcs
    <2>2. \A u \in Threads : pc'[u] \in RemovePcs =>
            /\ u # t /\ pc[u] \in RemovePcs /\ pc'[u] = pc[u]
            /\ want'[u] = want[u] /\ frame'[u] = frame[u] /\ held'[u] = held[u]
            /\ want[u] \in PageIds /\ frame[u] \in Frames /\ frame[u] # i /\ want[u] # p
      <3>1. pc[t] \notin RemovePcs /\ pc'[t] \notin RemovePcs
        BY <1>1 DEF RemovePcs, SwapPcs
      <3>2. \A u \in Threads : pc[u] \in RemovePcs => want[u] # p /\ page_lock[frame[u]] = u
        BY <1>5 DEF SafeInv, RemoveInv, RemoveOK, Asks
      <3>3. \A u \in Threads : pc[u] \in RemovePcs => want[u] \in PageIds /\ frame[u] \in Frames
        BY DEF LockInv, LocalInv
      <3> QED
        BY <1>1, <2>1, <3>1, <3>2, <3>3
    <2>3. \A r \in PageIds : r # p /\ page_table[r] = NoFrame => page_table'[r] = NoFrame
      BY <1>2
    <2>4. \A u \in Threads, r \in PageIds :
            want'[u] = r /\ pc'[u] \in AskPcs => want[u] = r /\ pc[u] \in AskPcs
      BY <1>14 DEF Asks
    <2> SUFFICES ASSUME NEW u \in Threads, pc'[u] \in RemovePcs PROVE RemoveOK(u)'
      BY DEF RemoveInv
    <2>5. RemoveOK(u)
      BY <2>2 DEF SafeInv, RemoveInv
    <2> QED
      BY <1>1, <1>3, <2>2, <2>3, <2>4, <2>5 DEF RemoveOK, Mapped
  <1>21. UseInv'
    BY <1>1, <1>4 DEF SafeInv, UseInv
  <1>22. DataInv'
    <2> SUFFICES ASSUME NEW r \in PageIds, Current(r)
                 PROVE  /\ \A j \in Frames : page_table'[r] = j =>
                              /\ pages'[j].data = latest[r]
                              /\ ~pages'[j].dirty => disk[r] = latest[r]
                        /\ page_table'[r] = NoFrame => disk[r] = latest[r]
      <3>1. \A r \in PageIds : Current(r)' => Current(r)
        BY <1>1, <1>5, <1>14 DEF Current
      <3> QED
        BY <1>1, <1>7, <3>1 DEF DataInv, Mapped
    <2>1. CASE r = p
      <3>1. disk[p] = latest[p]
        BY <1>1, <2>1 DEF SafeInv, DataInv, Mapped
      <3> QED
        BY <1>2, <1>3, <2>1, <3>1
    <2>2. CASE r # p /\ r = q
      <3>1. page_table[r] = i
        BY <2>2, PageIdsAssumption DEF SafeInv, OrphanInv, Current, Asks, LockInv, TypeOK
      <3>2. disk[r] = latest[r]
        BY <1>7, <3>1 DEF SafeInv, DataInv
      <3> QED
        BY <1>2, <2>2, <3>2, ThreadsAssumption
    <2>3. CASE r # p /\ r # q
      <3>1. page_table'[r] = page_table[r] /\ page_table[r] # i
        BY <1>2, <1>10, <2>3
      <3> QED
        BY <1>3, <3>1 DEF SafeInv, DataInv, Mapped
    <2> QED
      BY <2>1, <2>2, <2>3
  <1> QED
    BY <1>15, <1>16, <1>17, <1>18, <1>19, <1>20, <1>21, <1>22 DEF SafeInv


\* A write under a Pin goes to the frame that the table has for the page.
LEMMA LatchSafe ==
  ASSUME LockInv, SafeInv, NEW t \in Threads, NEW d \in Data, Latch(t, d)
  PROVE  SafeInv'
  <1>0. PICK i \in Frames, p \in PageIds : i = frame[t] /\ p = want[t]
    BY DEF Latch, LockInv, LocalInv, At, PinPcs
  <1>1. /\ pc[t] = "write" /\ pc'[t] = "idle" /\ pages[i].id = p
        /\ \A u \in Threads \ {t} : pc'[u] = pc[u] /\ want'[u] = want[u] /\ frame'[u] = frame[u]
        /\ UNCHANGED <<page_table, free, disk, next_page_id, pins, held, known>>
    BY <1>0 DEF Latch, At, Return, Goto, LockInv, TypeOK
  <1>2. /\ page_lock[i] = NoThread
        /\ \A j \in Frames : j # i => page_lock'[j] = page_lock[j] /\ pages'[j] = pages[j]
        /\ pages'[i].id = p /\ pages'[i].data = d
        /\ latest'[p] = d /\ \A r \in PageIds : r # p => latest'[r] = latest[r]
    BY <1>0, <1>1 DEF Latch, PageFree, Written, LockInv, TypeOK, PageInner
  <1>3. p \in known
    BY <1>0, <1>1 DEF SafeInv, UseInv
  <1>4. page_table[p] = i
    BY <1>1, <1>3 DEF SafeInv, OrphanInv
  <1>5. ~Swapping(i)
    BY <1>2, ThreadsAssumption DEF Swapping, LockInv, LatchInv, OwnPcs, SwapPcs
  <1>6. \A j \in Frames : pages'[j].id = pages[j].id
    BY <1>1, <1>2
  <1>7. \A u \in Threads, r \in PageIds : Asks(u, r)' => Asks(u, r)
    BY <1>1 DEF Asks, AskPcs, TakePcs, OwnPcs
  <1>8. \A u \in Threads, j \in Frames, r \in PageIds : Counted(u, j, r)' <=> Counted(u, j, r)
    BY <1>1 DEF Counted, Removing
  <1>9. \A j \in Frames : Holders(j)' = Holders(j)
    BY <1>8 DEF Holders
  <1>10. \A j \in Frames : Swapping(j)' <=> Swapping(j)
    BY <1>1 DEF Swapping, SwapPcs
  <1>11. TableInv'
    BY <1>1, <1>6 DEF SafeInv, TableInv, Mapped, LockInv, TypeOK
  <1>12. OrphanInv'
    <2>1. \A j \in Frames : pages'[j].dirty => pages[j].id \in PageIds
      BY <1>1, <1>2 DEF SafeInv, OrphanInv
    <2> QED
      BY <1>1, <1>6, <1>7, <2>1 DEF SafeInv, OrphanInv, Mapped, Asks
  <1>13. HeldInv'
    <2> SUFFICES ASSUME NEW u \in Threads, NEW j \in Frames, NEW r \in PageIds
                 PROVE  HeldOK(u, j, r)'
      BY DEF HeldInv
    <2>1. Leaving(u, j, r)' <=> Leaving(u, j, r)
      BY <1>1 DEF Leaving
    <2> QED
      BY <1>1, <1>6, <1>8, <2>1 DEF SafeInv, HeldInv, HeldOK
  <1>14. PinInv'
    BY <1>1, <1>9, <1>10 DEF SafeInv, PinInv
  <1>15. AskInv'
    BY <1>1, <1>6, <1>7 DEF SafeInv, AskInv
  <1>16. RemoveInv'
    <2> SUFFICES ASSUME NEW u \in Threads, pc'[u] \in RemovePcs PROVE RemoveOK(u)'
      BY DEF RemoveInv
    <2>1. /\ u # t /\ pc[u] \in RemovePcs /\ pc'[u] = pc[u]
          /\ want'[u] = want[u] /\ frame'[u] = frame[u]
          /\ want[u] \in PageIds /\ frame[u] \in Frames /\ RemoveOK(u)
      BY <1>1 DEF RemovePcs, LockInv, LocalInv, SafeInv, RemoveInv
    <2>2. frame[u] # i
      BY <1>2, <2>1, ThreadsAssumption DEF RemoveOK
    <2>3. \A v \in Threads : want'[v] = want[u] =>
            pc'[v] \notin AskPcs /\ (pc'[v] \in RemovePcs => v = u)
      BY <1>1, <1>7, <2>1 DEF RemoveOK, Asks, RemovePcs
    <2> QED
      BY <1>1, <1>2, <2>1, <2>2, <2>3 DEF RemoveOK, Mapped
  <1>17. UseInv'
    BY <1>1 DEF SafeInv, UseInv
  <1>18. DataInv'
    <2> SUFFICES ASSUME NEW r \in PageIds, Current(r)
                 PROVE  /\ \A j \in Frames : page_table[r] = j =>
                              /\ pages'[j].data = latest'[r]
                              /\ ~pages'[j].dirty \/ Swapping(j) => disk[r] = latest'[r]
                        /\ ~Mapped(r) => disk[r] = latest'[r]
      <3>1. \A r \in PageIds : Current(r)' => Current(r)
        BY <1>1, <1>7 DEF Current
      <3> QED
        BY <1>1, <1>10, <3>1 DEF DataInv, Mapped
    <2>1. CASE r = p
      <3>1. pages'[i].dirty
        BY <1>0 DEF Latch, Written, LockInv, TypeOK, PageInner
      <3> QED
        BY <1>2, <1>4, <1>5, <2>1, <3>1, ThreadsAssumption DEF Mapped
    <2>2. CASE r # p
      <3>1. page_table[r] # i
        BY <1>1, <2>2, ThreadsAssumption DEF SafeInv, TableInv, Mapped
      <3> QED
        BY <1>2, <2>2, <3>1 DEF SafeInv, DataInv
    <2> QED
      BY <2>1, <2>2
  <1> QED
    BY <1>11, <1>12, <1>13, <1>14, <1>15, <1>16, <1>17, <1>18 DEF SafeInv

(***************************************************************************)
(* A Pin is dropped.  That of a page removed is counted nowhere: its frame *)
(* has no new owner (no race "late_drop").                                 *)
(***************************************************************************)
LEMMA DropUnpinSafe ==
  ASSUME IsFiniteSet(Threads), LockInv, SafeInv, NEW t \in Threads, DropUnpin(t), races' = {}
  PROVE  SafeInv'
  <1>0. PICK i \in Frames, p \in PageIds : i = frame[t] /\ p = want[t]
    BY DEF DropUnpin, LockInv, LocalInv, At, PinPcs
  <1>1. /\ pc[t] = "drop" /\ pc'[t] = "idle" /\ <<i, p>> \in held[t]
        /\ \A u \in Threads \ {t} : /\ pc'[u] = pc[u] /\ want'[u] = want[u] /\ frame'[u] = frame[u]
                                    /\ held'[u] = held[u]
        /\ held'[t] = held[t] \ {<<i, p>>}
        /\ p \notin known => pins[i] = Untracked
        /\ UNCHANGED <<pages, page_table, free, disk, next_page_id, page_lock, latest, known>>
    BY <1>0 DEF DropUnpin, At, Return, Goto, LockInv, TypeOK, LatchInv, PinPcs, locks
  <1>2. \A u \in Threads : pc[u] \notin SwapPcs
    BY ThreadsAssumption DEF DropUnpin, LockInv, MutexInv
  <1>3. \A j \in Frames : ~Swapping(j) /\ ~Swapping(j)'
    BY <1>1, <1>2 DEF Swapping, SwapPcs
  <1>4. \A u \in Threads, r \in PageIds : Asks(u, r)' => Asks(u, r)
    BY <1>1 DEF Asks, AskPcs, TakePcs, OwnPcs
  <1>5. \A u \in Threads, j \in Frames, r \in PageIds :
           Counted(u, j, r)' <=> Counted(u, j, r) /\ ~(u = t /\ j = i /\ r = p)
    BY <1>1 DEF Counted, Removing
  <1>6. \A j \in Frames : j # i => Holders(j)' = Holders(j)
    BY <1>5 DEF Holders
  <1>7. PinInv' /\ \A j \in Frames : pins'[j] = Untracked <=> pins[j] = Untracked
    <2>1. CASE p \in known
      <3>1. Counted(t, i, p)
        BY <1>1, <2>1 DEF Counted
      <3>2. /\ pins[i] # Untracked /\ pins[i] # 0 /\ pins[i] = Cardinality(Holders(i))
            /\ \A r \in PageIds : Counted(t, i, r) => r = p
        BY <3>1, CountedFacts
      <3>3. t \in Holders(i) /\ Holders(i)' = Holders(i) \ {t}
        BY <1>5, <3>1, <3>2 DEF Holders
      <3>4. IsFiniteSet(Holders(i)) /\ Cardinality(Holders(i)) \in Nat
        BY HoldersFinite
      <3>5. Cardinality(Holders(i)') = Cardinality(Holders(i)) - 1
        BY <3>3, <3>4, FS_RemoveElement
      <3>6. pins' = [pins EXCEPT ![i] = pins[i] - 1]
        BY <1>0, <3>2, PinEffects DEF DropUnpin, LockInv, TypeOK
      <3>7. pins'[i] = pins[i] - 1 /\ \A j \in Frames : j # i => pins'[j] = pins[j]
        BY <3>6 DEF LockInv, TypeOK, PinCounters
      <3>8. pins'[i] # Untracked
        BY <3>2, <3>4, <3>7 DEF Untracked
      <3> QED
        BY <1>1, <1>3, <1>6, <3>2, <3>4, <3>5, <3>7, <3>8 DEF SafeInv, PinInv
    <2>2. CASE p \notin known
      <3>1. ~Counted(t, i, p)
        BY <1>0, <1>1, <2>2 DEF Counted, Removing
      <3>2. Holders(i)' = Holders(i)
        BY <1>5, <3>1 DEF Holders
      <3>3. pins' = pins
        BY <1>0, <1>1, <2>2, PinEffects DEF DropUnpin, LockInv, TypeOK
      <3> QED
        BY <1>1, <1>3, <1>6, <3>2, <3>3 DEF SafeInv, PinInv
    <2> QED
      BY <2>1, <2>2
  <1>8. TableInv'
    BY <1>1, <1>7 DEF SafeInv, TableInv, Mapped, LockInv, TypeOK
  <1>9. OrphanInv'
    BY <1>1, <1>4 DEF SafeInv, OrphanInv, Mapped, Asks
  <1>10. HeldInv'
    <2> SUFFICES ASSUME NEW u \in Threads, NEW j \in Frames, NEW r \in PageIds
                 PROVE  HeldOK(u, j, r)'
      BY DEF HeldInv
    <2>1. Leaving(u, j, r)' <=> Leaving(u, j, r)
      BY <1>1 DEF Leaving
    <2>2. <<j, r>> \in held'[u] => <<j, r>> \in held[u]
      BY <1>1
    <2> QED
      BY <1>1, <1>5, <2>1, <2>2 DEF SafeInv, HeldInv, HeldOK
  <1>11. AskInv'
    <2>1. \A u \in Threads, j \in Frames, r \in PageIds : <<j, r>> \in held'[u] =>
             <<j, r>> \in held[u]
      BY <1>1
    <2>2. \A u \in Threads : pc'[u] \in {"fetch", "hit"} => pc[u] = pc'[u] /\ frame'[u] = frame[u]
      BY <1>1
    <2> QED
      BY <1>1, <1>4, <2>1, <2>2 DEF SafeInv, AskInv
  <1>12. RemoveInv'
    <2> SUFFICES ASSUME NEW u \in Threads, pc'[u] \in RemovePcs PROVE RemoveOK(u)'
      BY DEF RemoveInv
    <2>1. /\ u # t /\ pc[u] \in RemovePcs /\ pc'[u] = pc[u] /\ held'[u] = held[u]
          /\ want'[u] = want[u] /\ frame'[u] = frame[u]
          /\ want[u] \in PageIds /\ frame[u] \in Frames /\ RemoveOK(u)
      BY <1>1 DEF RemovePcs, LockInv, LocalInv, SafeInv, RemoveInv
    <2>2. \A v \in Threads : want'[v] = want[u] =>
            pc'[v] \notin AskPcs /\ (pc'[v] \in RemovePcs => v = u)
      BY <1>1, <1>4, <2>1 DEF RemoveOK, Asks, RemovePcs
    <2> QED
      BY <1>1, <1>7, <2>1, <2>2 DEF RemoveOK, Mapped
  <1>13. UseInv'
    BY <1>1 DEF SafeInv, UseInv
  <1>14. DataInv'
    <2>1. \A r \in PageIds : Current(r)' => Current(r)
      BY <1>1, <1>4 DEF Current
    <2> QED
      BY <1>1, <1>3, <2>1 DEF SafeInv, DataInv, Mapped
  <1> QED
    BY <1>7, <1>8, <1>9, <1>10, <1>11, <1>12, <1>13, <1>14 DEF SafeInv

\* A flush writes the page that the table has in the frame.
LEMMA WriteOutSafe ==
  ASSUME LockInv, SafeInv, NEW t \in Threads, FlushPageWrite(t) \/ FlushAllWrite(t)
  PROVE  SafeInv'
  <1>0. PICK i \in Frames : i = frame[t]
    BY DEF FlushPageWrite, FlushAllWrite, LockInv, LocalInv, At
  <1>1. /\ pc[t] \in {"flush", "flush_all_page"} /\ pc'[t] \in {"idle", "flush_all"}
        /\ \A u \in Threads \ {t} : pc'[u] = pc[u] /\ want'[u] = want[u] /\ frame'[u] = frame[u]
        /\ UNCHANGED <<page_table, free, next_page_id, pins, page_lock, held, latest, known>>
    BY <1>0 DEF FlushPageWrite, FlushAllWrite, WriteOut, At, Return, Goto, LockInv, TypeOK, locks,
                ghosts
  <1>2. /\ WriteOut(i)
        /\ disk' = WriteDisk(disk, pages[i].id, pages[i].data)
        /\ \A j \in Frames : j # i => pages'[j] = pages[j]
        /\ \A j \in Frames : pages'[j].id = pages[j].id /\ pages'[j].data = pages[j].data
        /\ \A j \in Frames : pages'[j].dirty => pages[j].dirty
    <2>1. WriteOut(i)
      BY <1>0 DEF FlushPageWrite, FlushAllWrite
    <2>2. /\ disk' = WriteDisk(disk, pages[i].id, pages[i].data)
          /\ pages' = [pages EXCEPT ![i] = [pages[i] EXCEPT !.dirty = FALSE]]
          /\ pages \in [Frames -> PageInner]
      BY <2>1 DEF WriteOut, LockInv, TypeOK
    <2>3. /\ \A j \in Frames : j # i => pages'[j] = pages[j]
          /\ pages'[i] = [pages[i] EXCEPT !.dirty = FALSE] /\ pages[i] \in PageInner
      BY <2>2
    <2>4. /\ pages'[i].id = pages[i].id /\ pages'[i].data = pages[i].data
          /\ pages'[i].dirty = FALSE
      BY <2>3 DEF PageInner
    <2> QED
      BY <2>1, <2>2, <2>3, <2>4
  <1>3. PICK p \in PageIds : page_table[p] = i
    BY <1>0, <1>1 DEF SafeInv, UseInv
  <1>4. pages[i].id = p /\ \A r \in PageIds : page_table[r] = i => r = p
    BY <1>3, ThreadsAssumption DEF SafeInv, TableInv, Mapped
  <1>5. ~Swapping(i)
    BY <1>2, ThreadsAssumption
       DEF WriteOut, PageFree, Swapping, LockInv, LatchInv, OwnPcs, SwapPcs
  <1>6. \A u \in Threads, r \in PageIds : Asks(u, r)' => Asks(u, r)
    BY <1>1 DEF Asks, AskPcs, TakePcs, OwnPcs
  <1>7. \A u \in Threads, j \in Frames, r \in PageIds : Counted(u, j, r)' <=> Counted(u, j, r)
    BY <1>1 DEF Counted, Removing
  <1>8. \A j \in Frames : Holders(j)' = Holders(j)
    BY <1>7 DEF Holders
  <1>9. \A j \in Frames : Swapping(j)' <=> Swapping(j)
    BY <1>1 DEF Swapping, SwapPcs
  <1>10. TableInv'
    BY <1>1, <1>2 DEF SafeInv, TableInv, Mapped, LockInv, TypeOK
  <1>11. OrphanInv'
    BY <1>1, <1>2, <1>6 DEF SafeInv, OrphanInv, Mapped, Asks
  <1>12. HeldInv'
    <2> SUFFICES ASSUME NEW u \in Threads, NEW j \in Frames, NEW r \in PageIds
                 PROVE  HeldOK(u, j, r)'
      BY DEF HeldInv
    <2>1. Leaving(u, j, r)' <=> Leaving(u, j, r)
      BY <1>1 DEF Leaving
    <2> QED
      BY <1>1, <1>2, <1>7, <2>1 DEF SafeInv, HeldInv, HeldOK
  <1>13. PinInv'
    BY <1>1, <1>8, <1>9 DEF SafeInv, PinInv
  <1>14. AskInv'
    <2>1. \A u \in Threads : pc'[u] \in {"fetch", "hit"} => pc[u] = pc'[u] /\ frame'[u] = frame[u]
      BY <1>1
    <2> QED
      BY <1>1, <1>2, <1>6, <2>1 DEF SafeInv, AskInv
  <1>15. RemoveInv'
    <2> SUFFICES ASSUME NEW u \in Threads, pc'[u] \in RemovePcs PROVE RemoveOK(u)'
      BY DEF RemoveInv
    <2>1. /\ u # t /\ pc[u] \in RemovePcs /\ pc'[u] = pc[u]
          /\ want'[u] = want[u] /\ frame'[u] = frame[u]
          /\ want[u] \in PageIds /\ frame[u] \in Frames /\ RemoveOK(u)
      BY <1>1 DEF RemovePcs, LockInv, LocalInv, SafeInv, RemoveInv
    <2>2. \A v \in Threads : pc'[v] \in RemovePcs => v # t
      BY <1>1 DEF RemovePcs
    <2> QED
      BY <1>1, <1>2, <1>6, <2>1, <2>2 DEF RemoveOK, Mapped, Asks
  <1>16. UseInv'
    BY <1>1 DEF SafeInv, UseInv
  <1>17. DataInv'
    <2> SUFFICES ASSUME NEW r \in PageIds, Current(r)
                 PROVE  /\ \A j \in Frames : page_table[r] = j =>
                              /\ pages[j].data = latest[r]
                              /\ ~pages'[j].dirty \/ Swapping(j) => disk'[r] = latest[r]
                        /\ ~Mapped(r) => disk'[r] = latest[r]
      <3>1. \A r \in PageIds : Current(r)' => Current(r)
        BY <1>1, <1>6 DEF Current
      <3> QED
        BY <1>1, <1>2, <1>9, <3>1 DEF DataInv, Mapped
    <2>1. CASE r = p
      <3>1. disk'[r] = pages[i].data
        BY <1>2, <1>4, <2>1 DEF WriteDisk, LockInv, TypeOK
      <3>2. pages[i].data = latest[r]
        BY <1>3, <2>1 DEF SafeInv, DataInv
      <3> QED
        BY <1>3, <2>1, <3>1, <3>2, ThreadsAssumption DEF Mapped
    <2>2. CASE r # p
      <3>1. disk'[r] = disk[r] /\ page_table[r] # i
        BY <1>2, <1>4, <2>2 DEF WriteDisk, LockInv, TypeOK
      <3> QED
        BY <1>2, <3>1 DEF SafeInv, DataInv
    <2> QED
      BY <2>1, <2>2
  <1> QED
    BY <1>10, <1>11, <1>12, <1>13, <1>14, <1>15, <1>16, <1>17 DEF SafeInv


(***************************************************************************)
(* remove_page is called for a page that nobody else has or asks for.  Its *)
(* Pin goes on counting until the node is gone.                            *)
(***************************************************************************)
LEMMA RemovePageSafe ==
  ASSUME LockInv, SafeInv, NEW t \in Threads, NEW i \in Frames, NEW p \in PageIds,
         RemovePage(t, i, p)
  PROVE  SafeInv'
  <1>1. /\ pc[t] = "idle" /\ pc'[t] = "remove" /\ want'[t] = p /\ frame'[t] = i
        /\ \A u \in Threads \ {t} : pc'[u] = pc[u] /\ want'[u] = want[u] /\ frame'[u] = frame[u]
        /\ <<i, p>> \in held[t] /\ page_lock[i] = t /\ known' = known \ {p} /\ p \in known
        /\ UNCHANGED <<pages, page_table, free, disk, next_page_id, pins, page_lock, held, latest>>
    BY DEF RemovePage, Starts, At, Call, Goto, LockInv, TypeOK, cache, locks
  <1>2. \A u \in Threads \ {t} :
          /\ \A j \in Frames : <<j, p>> \notin held[u]
          /\ want[u] = p => pc[u] \in {"flush_page", "flush"}
    BY DEF RemovePage, Users
  <1>3. \A u \in Threads, r \in PageIds : Asks(u, r)' => Asks(u, r) /\ r # p
    BY <1>1, <1>2 DEF Asks, AskPcs, TakePcs, OwnPcs
  <1>4. \A u \in Threads, j \in Frames, r \in PageIds : Counted(u, j, r)' <=> Counted(u, j, r)
    <2> SUFFICES ASSUME NEW u \in Threads, NEW j \in Frames, NEW r \in PageIds
                 PROVE  Counted(u, j, r)' <=> Counted(u, j, r)
      OBVIOUS
    <2>1. CASE u # t
      BY <1>1, <1>2, <2>1 DEF Counted, Removing
    <2>2. CASE u = t
      BY <1>1, <2>2 DEF Counted, Removing
    <2> QED
      BY <2>1, <2>2
  <1>5. \A j \in Frames : Holders(j)' = Holders(j)
    BY <1>4 DEF Holders
  <1>6. \A j \in Frames : Swapping(j)' <=> Swapping(j)
    BY <1>1 DEF Swapping, SwapPcs
  <1>7. Counted(t, i, p) /\ pages[i].id = p /\ p < next_page_id
    BY <1>1 DEF Counted, SafeInv, HeldInv, HeldOK
  <1>8. TableInv'
    BY <1>1 DEF SafeInv, TableInv, Mapped
  <1>9. OrphanInv'
    BY <1>1, <1>3 DEF SafeInv, OrphanInv, Mapped, Asks
  <1>10. HeldInv'
    <2> SUFFICES ASSUME NEW u \in Threads, NEW j \in Frames, NEW r \in PageIds
                 PROVE  HeldOK(u, j, r)'
      BY DEF HeldInv
    <2>1. Leaving(u, j, r)' <=> Leaving(u, j, r)
      BY <1>1 DEF Leaving
    <2> QED
      BY <1>1, <1>4, <2>1 DEF SafeInv, HeldInv, HeldOK
  <1>11. PinInv'
    BY <1>1, <1>5, <1>6 DEF SafeInv, PinInv
  <1>12. AskInv'
    <2>1. \A u \in Threads : pc'[u] \in {"fetch", "hit"} => pc[u] = pc'[u] /\ frame'[u] = frame[u]
      BY <1>1
    <2> QED
      BY <1>1, <1>3, <2>1 DEF SafeInv, AskInv
  <1>13. RemoveInv'
    <2> SUFFICES ASSUME NEW u \in Threads, pc'[u] \in RemovePcs PROVE RemoveOK(u)'
      BY DEF RemoveInv
    <2>1. \A v \in Threads : want'[v] = want'[u] =>
            pc'[v] \notin AskPcs /\ (pc'[v] \in RemovePcs => v = u)
      <3>1. \A v \in Threads : want'[v] = want'[u] => pc'[v] \notin AskPcs
        BY <1>1, <1>3 DEF Asks, RemovePcs, SafeInv, RemoveInv, RemoveOK, LockInv, LocalInv
      <3>2. \A v \in Threads : want'[v] = want'[u] /\ pc'[v] \in RemovePcs => v = u
        <4>1. \A v \in Threads \ {t} : pc'[v] \in RemovePcs =>
                pc[v] \in RemovePcs /\ want'[v] = want[v] /\ want[v] # p
          BY <1>1, <1>2 DEF RemovePcs
        <4>2. u # t => \A v \in Threads : want[v] = want[u] /\ pc[v] \in RemovePcs => v = u
          BY <4>1 DEF SafeInv, RemoveInv, RemoveOK
        <4> QED
          BY <1>1, <4>1, <4>2
      <3> QED
        BY <3>1, <3>2
    <2>2. CASE u = t
      BY <1>1, <1>7, <2>1, <2>2 DEF RemoveOK
    <2>3. CASE u # t
      <3>1. RemoveOK(u) /\ pc'[u] = pc[u] /\ want'[u] = want[u] /\ frame'[u] = frame[u]
        BY <1>1, <2>3 DEF SafeInv, RemoveInv
      <3> QED
        BY <1>1, <2>1, <3>1 DEF RemoveOK, Mapped
    <2> QED
      BY <2>2, <2>3
  <1>14. UseInv'
    BY <1>1, <1>2 DEF SafeInv, UseInv
  <1>15. DataInv'
    <2>1. \A r \in PageIds : Current(r)' => Current(r)
      BY <1>1, <1>3 DEF Current
    <2> QED
      BY <1>1, <1>6, <2>1 DEF SafeInv, DataInv, Mapped
  <1> QED
    BY <1>8, <1>9, <1>10, <1>11, <1>12, <1>13, <1>14, <1>15 DEF SafeInv

\* The page's entry leaves the table; its frame is the one the Pin leads to.
LEMMA RemoveEntrySafe ==
  ASSUME LockInv, SafeInv, NEW t \in Threads, RemoveEntry(t)
  PROVE  SafeInv'
  <1>0. PICK i \in Frames, p \in PageIds : i = frame[t] /\ p = want[t]
    BY DEF RemoveEntry, LockInv, LocalInv, RemovePcs
  <1>1. /\ pc[t] \in {"remove", "remove_queued"} /\ pc[t] \in RemovePcs
        /\ RemoveOK(t) /\ <<i, p>> \in held[t] /\ p \notin known /\ p < next_page_id
    BY <1>0 DEF RemoveEntry, RemovePcs, SafeInv, RemoveInv, RemoveOK
  <1>2. page_table[p] = i /\ pages[i].id = p
    <2>1. Counted(t, i, p)
      BY <1>0, <1>1 DEF Counted, Removing
    <2> QED
      BY <1>1, <2>1 DEF SafeInv, HeldInv, HeldOK, Leaving
  <1>3. /\ pc'[t] = "remove_node" /\ want'[t] = p /\ frame'[t] = i
        /\ \A u \in Threads \ {t} : pc'[u] = pc[u] /\ want'[u] = want[u] /\ frame'[u] = frame[u]
        /\ page_table'[p] = NoFrame /\ \A r \in PageIds : r # p => page_table'[r] = page_table[r]
        /\ UNCHANGED <<pages, free, disk, next_page_id, pins, page_lock, held, latest, known>>
    BY <1>0, <1>2, ThreadsAssumption
       DEF RemoveEntry, Mapped, Call, Goto, LockInv, TypeOK, locks, ghosts
  <1>4. \A u \in Threads : pc[u] \notin {"hit", "flush", "flush_all", "flush_all_page"}
    BY DEF RemoveEntry, CanWrite, Readers
  <1>5. \A u \in Threads, r \in PageIds : Asks(u, r)' => Asks(u, r) /\ r # p
    BY <1>0, <1>1, <1>3 DEF Asks, RemoveOK, AskPcs, TakePcs, OwnPcs
  <1>6. \A u \in Threads, j \in Frames, r \in PageIds : Counted(u, j, r)' <=> Counted(u, j, r)
    BY <1>0, <1>1, <1>3 DEF Counted, Removing
  <1>7. \A j \in Frames : Holders(j)' = Holders(j)
    BY <1>6 DEF Holders
  <1>8. \A j \in Frames : Swapping(j)' <=> Swapping(j)
    BY <1>1, <1>3 DEF Swapping, SwapPcs
  <1>9. TableInv'
    BY <1>3 DEF SafeInv, TableInv, Mapped
  <1>10. OrphanInv'
    <2> SUFFICES ASSUME NEW j \in Frames, pages[j].id \in PageIds, page_table'[pages[j].id] # j
                 PROVE  /\ page_table'[pages[j].id] = NoFrame /\ pages[j].id \notin known
                        /\ \A u \in Threads : want'[u] = pages[j].id => pc'[u] \notin AskPcs
      BY <1>3 DEF SafeInv, OrphanInv, Mapped
    <2>1. CASE pages[j].id = p
      BY <1>1, <1>3, <1>5, <2>1 DEF Asks
    <2>2. CASE pages[j].id # p
      BY <1>3, <1>5, <2>2 DEF SafeInv, OrphanInv, Mapped, Asks
    <2> QED
      BY <2>1, <2>2
  <1>11. HeldInv'
    <2> SUFFICES ASSUME NEW u \in Threads, NEW j \in Frames, NEW r \in PageIds
                 PROVE  HeldOK(u, j, r)'
      BY DEF HeldInv
    <2>1. HeldOK(u, j, r)
      BY DEF SafeInv, HeldInv
    <2>2. CASE r # p
      BY <1>0, <1>1, <1>3, <1>6, <2>1, <2>2 DEF HeldOK, Leaving
    <2>3. CASE r = p /\ Counted(u, j, p)
      <3>1. Removing(u, p)
        BY <1>1, <2>3 DEF Counted
      <3>2. u = t
        BY <1>0, <1>1, <3>1 DEF Removing, RemoveOK, RemovePcs
      <3>3. j = i
        BY <1>1, <1>2, <2>1, <2>3, <3>2 DEF HeldOK, Leaving
      <3> QED
        BY <1>1, <1>2, <1>3, <2>3, <3>2, <3>3 DEF HeldOK, Leaving
    <2>4. CASE r = p /\ ~Counted(u, j, p)
      BY <1>3, <1>6, <2>1, <2>4 DEF HeldOK
    <2> QED
      BY <2>2, <2>3, <2>4
  <1>12. PinInv'
    BY <1>3, <1>7, <1>8 DEF SafeInv, PinInv
  <1>13. AskInv'
    <2>1. \A u \in Threads : pc'[u] \in {"fetch", "hit"} => pc[u] = pc'[u] /\ pc'[u] # "hit"
      BY <1>3, <1>4
    <2> QED
      BY <1>3, <1>5, <2>1 DEF SafeInv, AskInv
  <1>14. RemoveInv'
    <2> SUFFICES ASSUME NEW u \in Threads, pc'[u] \in RemovePcs PROVE RemoveOK(u)'
      BY DEF RemoveInv
    <2>1. /\ pc[u] \in RemovePcs /\ RemoveOK(u) /\ want[u] \in PageIds
          /\ want'[u] = want[u] /\ frame'[u] = frame[u]
          /\ u # t => pc'[u] = pc[u]
      BY <1>0, <1>1, <1>3 DEF SafeInv, RemoveInv, LockInv, LocalInv
    <2>2. \A v \in Threads : want'[v] = want[u] =>
            pc'[v] \notin AskPcs /\ (pc'[v] \in RemovePcs => v = u)
      <3>1. \A v \in Threads : want'[v] = want[u] => pc'[v] \notin AskPcs
        BY <1>5, <2>1 DEF RemoveOK, Asks
      <3>2. \A v \in Threads : pc'[v] \in RemovePcs => pc[v] \in RemovePcs /\ want'[v] = want[v]
        BY <1>0, <1>1, <1>3
      <3> QED
        BY <2>1, <3>1, <3>2 DEF RemoveOK
    <2>3. pc'[u] \in {"remove_node", "push"} => page_table'[want[u]] = NoFrame
      BY <1>0, <1>3, <2>1 DEF RemoveOK, Mapped
    <2>4. pc'[u] # "push" => pc[u] # "push"
      BY <1>1, <2>1
    <2>5. pc'[u] = "push" => pc[u] = "push"
      BY <1>3, <2>1
    <2> QED
      BY <1>3, <2>1, <2>2, <2>3, <2>4, <2>5 DEF RemoveOK, Mapped
  <1>15. UseInv'
    BY <1>3, <1>4 DEF SafeInv, UseInv
  <1>16. DataInv'
    <2>1. \A r \in PageIds : Current(r)' => Current(r) /\ r # p
      BY <1>1, <1>3, <1>5, PageIdsAssumption DEF Current, LockInv, TypeOK
    <2> QED
      BY <1>3, <1>8, <2>1 DEF SafeInv, DataInv, Mapped
  <1> QED
    BY <1>9, <1>10, <1>11, <1>12, <1>13, <1>14, <1>15, <1>16 DEF SafeInv

\* The node goes, and with it the count of the only Pin for the frame.
LEMMA RemoveNodeSafe ==
  ASSUME LockInv, SafeInv, NEW t \in Threads, RemoveNode(t)
  PROVE  SafeInv'
  <1>0. PICK i \in Frames, p \in PageIds : i = frame[t] /\ p = want[t]
    BY DEF RemoveNode, LockInv, LocalInv, RemovePcs, At
  <1>1. /\ pc[t] = "remove_node" /\ pc'[t] = "push" /\ want' = want /\ frame' = frame
        /\ \A u \in Threads \ {t} : pc'[u] = pc[u]
        /\ UNCHANGED <<pages, page_table, free, disk, next_page_id, page_lock, held, latest, known>>
        /\ pins' = [pins EXCEPT ![i] = Untracked]
    BY <1>0 DEF RemoveNode, At, Goto, RemovePins, LockInv, TypeOK, locks, ghosts
  <1>2. /\ pins'[i] = Untracked /\ \A j \in Frames : j # i => pins'[j] = pins[j]
    BY <1>1 DEF LockInv, TypeOK, PinCounters
  <1>3. /\ RemoveOK(t) /\ <<i, p>> \in held[t] /\ p \notin known
        /\ pages[i].id = p /\ ~Mapped(p)
    BY <1>0, <1>1 DEF RemovePcs, SafeInv, RemoveInv, RemoveOK
  <1>4. \A u \in Threads : pc[u] \notin SwapPcs
    BY ThreadsAssumption DEF RemoveNode, LockInv, MutexInv
  <1>5. \A j \in Frames : ~Swapping(j) /\ ~Swapping(j)'
    BY <1>1, <1>4 DEF Swapping, SwapPcs
  <1>6. \A u \in Threads, r \in PageIds : Asks(u, r)' => Asks(u, r)
    BY <1>1 DEF Asks, AskPcs, TakePcs, OwnPcs
  <1>7. \A u \in Threads, j \in Frames, r \in PageIds :
           Counted(u, j, r)' <=> Counted(u, j, r) /\ ~(u = t /\ r = p)
    BY <1>0, <1>1, <1>3 DEF Counted, Removing
  \* Only t counts a Pin for the frame, and it no longer does.
  <1>8. \A u \in Threads, r \in PageIds : Counted(u, i, r) => u = t /\ r = p
    <2> SUFFICES ASSUME NEW u \in Threads, NEW r \in PageIds, Counted(u, i, r)
                 PROVE  u = t /\ r = p
      OBVIOUS
    <2>1. r = p
      BY <1>3 DEF SafeInv, HeldInv, HeldOK
    <2>2. Removing(u, p)
      BY <1>3, <2>1 DEF Counted
    <2> QED
      BY <1>0, <1>3, <2>1, <2>2 DEF RemoveOK, Removing, RemovePcs
  <1>9. \A u \in Threads, j \in Frames : Counted(u, j, p) => j = i
    <2> SUFFICES ASSUME NEW u \in Threads, NEW j \in Frames, Counted(u, j, p) PROVE j = i
      OBVIOUS
    <2>1. Removing(u, p)
      BY <1>3 DEF Counted
    <2>2. u = t
      BY <1>0, <1>3, <2>1 DEF RemoveOK, Removing, RemovePcs
    <2>3. page_table[p] = j \/ Leaving(t, j, p)
      BY <2>2 DEF SafeInv, HeldInv, HeldOK
    <2> QED
      BY <1>0, <1>3, <2>3, ThreadsAssumption DEF Leaving, Mapped
  <1>10. Holders(i)' = {} /\ \A j \in Frames : j # i => Holders(j)' = Holders(j)
    BY <1>7, <1>8, <1>9 DEF Holders
  <1>11. TableInv'
    BY <1>1, <1>2, <1>3, ThreadsAssumption DEF SafeInv, TableInv, Mapped, LockInv, TypeOK
  <1>12. OrphanInv'
    BY <1>1, <1>6 DEF SafeInv, OrphanInv, Mapped, Asks
  <1>13. HeldInv'
    <2> SUFFICES ASSUME NEW u \in Threads, NEW j \in Frames, NEW r \in PageIds
                 PROVE  HeldOK(u, j, r)'
      BY DEF HeldInv
    <2>1. HeldOK(u, j, r)
      BY DEF SafeInv, HeldInv
    <2>2. Leaving(u, j, r) /\ ~(u = t /\ r = p) => Leaving(u, j, r)'
      BY <1>0, <1>1 DEF Leaving
    <2> QED
      BY <1>1, <1>7, <2>1, <2>2 DEF HeldOK
  <1>14. PinInv'
    BY <1>1, <1>2, <1>5, <1>10 DEF SafeInv, PinInv
  <1>15. AskInv'
    <2>1. \A u \in Threads : pc'[u] \in {"fetch", "hit"} => pc[u] = pc'[u]
      BY <1>1
    <2> QED
      BY <1>1, <1>6, <2>1 DEF SafeInv, AskInv
  <1>16. RemoveInv'
    <2> SUFFICES ASSUME NEW u \in Threads, pc'[u] \in RemovePcs PROVE RemoveOK(u)'
      BY DEF RemoveInv
    <2>1. /\ pc[u] \in RemovePcs /\ RemoveOK(u) /\ frame[u] \in Frames /\ want[u] \in PageIds
          /\ u # t => pc'[u] = pc[u]
      BY <1>1 DEF RemovePcs, SafeInv, RemoveInv, LockInv, LocalInv
    <2>2. \A v \in Threads : want[v] = want[u] =>
            pc'[v] \notin AskPcs /\ (pc'[v] \in RemovePcs => v = u)
      <3>1. \A v \in Threads : want[v] = want[u] => pc'[v] \notin AskPcs
        BY <1>1, <1>6, <2>1 DEF RemoveOK, Asks
      <3>2. \A v \in Threads : pc'[v] \in RemovePcs => pc[v] \in RemovePcs
        BY <1>1 DEF RemovePcs
      <3> QED
        BY <2>1, <3>1, <3>2 DEF RemoveOK
    <2>3. pc'[u] \in {"remove_node", "push"} => page_table[want[u]] = NoFrame
      BY <1>0, <1>1, <1>3, <2>1 DEF RemoveOK, Mapped
    <2>4. pc'[u] = "push" => pins'[frame[u]] = Untracked
      BY <1>0, <1>1, <1>2, <2>1 DEF RemoveOK
    <2>5. pc'[u] # "push" => pc[u] # "push"
      BY <1>1, <2>1
    <2> QED
      BY <1>1, <2>1, <2>2, <2>3, <2>4, <2>5 DEF RemoveOK, Mapped
  <1>17. UseInv'
    BY <1>1 DEF SafeInv, UseInv
  <1>18. DataInv'
    <2>1. \A r \in PageIds : Current(r)' => Current(r)
      BY <1>1, <1>6 DEF Current
    <2> QED
      BY <1>1, <1>5, <2>1 DEF SafeInv, DataInv, Mapped
  <1> QED
    BY <1>11, <1>12, <1>13, <1>14, <1>15, <1>16, <1>17, <1>18 DEF SafeInv

\* The frame goes back to the free list without a node.
LEMMA PushSafe ==
  ASSUME LockInv, SafeInv, NEW t \in Threads, Push(t)
  PROVE  SafeInv'
  <1>1. /\ pc[t] = "push" /\ pc'[t] = "idle" /\ free' = free \cup {frame[t]}
        /\ \A u \in Threads \ {t} : pc'[u] = pc[u] /\ want'[u] = want[u] /\ frame'[u] = frame[u]
        /\ UNCHANGED <<pages, page_table, disk, next_page_id, pins, page_lock, held, latest, known>>
    BY DEF Push, At, Return, Goto, LockInv, TypeOK, locks, ghosts
  <1>2. pins[frame[t]] = Untracked
    BY <1>1 DEF RemovePcs, SafeInv, RemoveInv, RemoveOK
  <1>3. \A u \in Threads, r \in PageIds : Asks(u, r)' => Asks(u, r)
    BY <1>1 DEF Asks, AskPcs, TakePcs, OwnPcs
  <1>4. \A u \in Threads, j \in Frames, r \in PageIds : Counted(u, j, r)' <=> Counted(u, j, r)
    BY <1>1 DEF Counted, Removing
  <1>5. \A j \in Frames : Holders(j)' = Holders(j)
    BY <1>4 DEF Holders
  <1>6. \A j \in Frames : Swapping(j)' <=> Swapping(j)
    BY <1>1 DEF Swapping, SwapPcs
  <1>7. TableInv'
    BY <1>1 DEF SafeInv, TableInv, Mapped
  <1>8. OrphanInv'
    BY <1>1, <1>3 DEF SafeInv, OrphanInv, Mapped, Asks
  <1>9. HeldInv'
    <2> SUFFICES ASSUME NEW u \in Threads, NEW j \in Frames, NEW r \in PageIds
                 PROVE  HeldOK(u, j, r)'
      BY DEF HeldInv
    <2>1. Leaving(u, j, r)' <=> Leaving(u, j, r)
      BY <1>1 DEF Leaving
    <2> QED
      BY <1>1, <1>4, <2>1 DEF SafeInv, HeldInv, HeldOK
  <1>10. PinInv'
    BY <1>1, <1>2, <1>5, <1>6 DEF SafeInv, PinInv
  <1>11. AskInv'
    <2>1. \A u \in Threads : pc'[u] \in {"fetch", "hit"} => pc[u] = pc'[u] /\ frame'[u] = frame[u]
      BY <1>1
    <2> QED
      BY <1>1, <1>3, <2>1 DEF SafeInv, AskInv
  <1>12. RemoveInv'
    <2> SUFFICES ASSUME NEW u \in Threads, pc'[u] \in RemovePcs PROVE RemoveOK(u)'
      BY DEF RemoveInv
    <2>1. /\ u # t /\ pc[u] \in RemovePcs /\ pc'[u] = pc[u]
          /\ want'[u] = want[u] /\ frame'[u] = frame[u] /\ want[u] \in PageIds /\ RemoveOK(u)
      BY <1>1 DEF RemovePcs, LockInv, LocalInv, SafeInv, RemoveInv
    <2>2. \A v \in Threads : want'[v] = want[u] =>
            pc'[v] \notin AskPcs /\ (pc'[v] \in RemovePcs => v = u)
      BY <1>1, <1>3, <2>1 DEF RemoveOK, Asks, RemovePcs
    <2> QED
      BY <1>1, <2>1, <2>2 DEF RemoveOK, Mapped
  <1>13. UseInv'
    BY <1>1 DEF SafeInv, UseInv
  <1>14. DataInv'
    <2>1. \A r \in PageIds : Current(r)' => Current(r)
      BY <1>1, <1>3 DEF Current
    <2> QED
      BY <1>1, <1>6, <2>1 DEF SafeInv, DataInv, Mapped
  <1> QED
    BY <1>7, <1>8, <1>9, <1>10, <1>11, <1>12, <1>13, <1>14 DEF SafeInv


-----------------------------------------------------------------------------
LEMMA InitSafe == Init => SafeInv
  <1> SUFFICES ASSUME Init PROVE SafeInv
    OBVIOUS
  <1>1. /\ \A t \in Threads : pc[t] = "idle" /\ held[t] = {}
        /\ \A i \in Frames : pages[i] = Blank /\ pins[i] = Untracked
        /\ \A p \in PageIds : page_table[p] = NoFrame /\ disk[p] = Zero /\ latest[p] = Zero
        /\ known = {p \in PageIds : p < FirstPageId} /\ next_page_id = FirstPageId
    BY DEF Init
  <1>2. \A i \in Frames : Holders(i) = {} /\ ~Swapping(i)
    BY <1>1 DEF Holders, Counted, Swapping, SwapPcs
  <1>3. TableInv /\ OrphanInv /\ HeldInv
    BY <1>1, PageIdsAssumption
       DEF TableInv, OrphanInv, HeldInv, HeldOK, Counted, Mapped, Blank, NoPage
  <1>4. PinInv
    BY <1>1, <1>2 DEF PinInv
  <1>5. AskInv /\ RemoveInv /\ UseInv
    BY <1>1 DEF AskInv, Asks, RemoveInv, UseInv, AskPcs, TakePcs, OwnPcs, RemovePcs
  <1>6. DataInv
    BY <1>1, ThreadsAssumption DEF DataInv, Mapped
  <1> QED
    BY <1>3, <1>4, <1>5, <1>6 DEF SafeInv

\* The steps of a call that only move its thread on.
LEMMA ContinueMoves ==
  ASSUME LockInv, SafeInv, NEW t \in Threads,
         \/ FetchMiss(t) \/ FetchHit(t) \/ Pop(t) \/ PopNone(t) \/ Evict(t) \/ LockPage(t)
         \/ SwapQueue(t) \/ LatchPanics(t) \/ LatchShared(t)
         \/ FlushPageLookup(t) \/ FlushAllKeys(t) \/ FlushAllLookup(t) \/ FlushAllReturn(t)
         \/ RemoveQueue(t)
  PROVE  SafeInv'
  <1> USE DEF At, Goto, Call, Return, cache, locks, ghosts, Asks, Removing, LockInv, TypeOK,
              AskPcs, TakePcs, OwnPcs, SwapPcs, RemovePcs
  <1>1. CASE FetchMiss(t)
    BY <1>1, MoveSafe DEF FetchMiss
  <1>2. CASE FetchHit(t)
    BY <1>2, MoveSafe DEF FetchHit
  <1>3. CASE Pop(t)
    BY <1>3, MoveSafe DEF Pop
  <1>4. CASE PopNone(t)
    BY <1>4, MoveSafe DEF PopNone
  <1>5. CASE Evict(t)
    BY <1>5, MoveSafe DEF Evict
  <1>6. CASE LockPage(t)
    <2>1. \A u \in Threads : pc[u] \in RemovePcs => page_lock'[frame[u]] = page_lock[frame[u]]
      <3>1. \A u \in Threads : pc[u] \in RemovePcs =>
              frame[u] \in Frames /\ page_lock[frame[u]] = u
        BY DEF LocalInv, SafeInv, RemoveInv, RemoveOK
      <3>2. \A j \in Frames : page_lock'[j] # page_lock[j] => page_lock[j] = NoThread
        BY <1>6 DEF LockPage, PageFree
      <3> QED
        BY <3>1, <3>2, ThreadsAssumption
    <2> QED
      BY <1>6, <2>1, MoveSafe DEF LockPage
  <1>7. CASE SwapQueue(t)
    BY <1>7, MoveSafe DEF SwapQueue
  <1>8. CASE LatchPanics(t)
    BY <1>8, MoveSafe DEF LatchPanics
  <1>9. CASE LatchShared(t)
    BY <1>9, MoveSafe DEF LatchShared
  <1>10. CASE FlushPageLookup(t)
    <2>1. pc[t] = "flush_page" /\ want[t] \in PageIds
      BY <1>10 DEF FlushPageLookup, LocalInv
    <2> QED
      BY <1>10, <2>1, MoveSafe DEF FlushPageLookup
  <1>11. CASE FlushAllKeys(t)
    BY <1>11, MoveSafe DEF FlushAllKeys
  <1>12. CASE FlushAllLookup(t)
    <2>1. PICK p \in todo[t] : frame' = [frame EXCEPT ![t] = page_table[p]]
      BY <1>12 DEF FlushAllLookup
    <2>2. p \in PageIds /\ page_table[p] = frame'[t]
      BY <2>1
    <2> QED
      BY <1>12, <2>2, MoveSafe DEF FlushAllLookup
  <1>13. CASE FlushAllReturn(t)
    BY <1>13, MoveSafe DEF FlushAllReturn
  <1>14. CASE RemoveQueue(t)
    BY <1>14, MoveSafe DEF RemoveQueue
  <1> QED
    BY <1>1, <1>2, <1>3, <1>4, <1>5, <1>6, <1>7, <1>8, <1>9, <1>10, <1>11, <1>12, <1>13, <1>14

\* Calls begin with their thread alone.
LEMMA StartMoves ==
  ASSUME LockInv, SafeInv, NEW t \in Threads,
         \/ FlushAll(t)
         \/ \E p \in PageIds : Fetch(t, p) \/ FlushPage(t, p)
         \/ \E i \in Frames, p \in PageIds :
               PinWrite(t, i, p) \/ PinRead(t, i, p) \/ DropPin(t, i, p)
         \/ \E i \in Frames : Unlatch(t, i)
  PROVE  SafeInv'
  <1> USE DEF At, Goto, Call, Return, cache, locks, locals, ghosts, Asks, Removing,
              LockInv, TypeOK, AskPcs, TakePcs, OwnPcs, SwapPcs, RemovePcs
  <1>1. CASE FlushAll(t)
    BY <1>1, MoveSafe DEF FlushAll, Starts
  <1>2. ASSUME NEW p \in PageIds, Fetch(t, p) PROVE SafeInv'
    BY <1>2, MoveSafe DEF Fetch, CanPin, Starts
  <1>3. ASSUME NEW p \in PageIds, FlushPage(t, p) PROVE SafeInv'
    BY <1>3, MoveSafe DEF FlushPage, Starts
  <1>4. ASSUME NEW i \in Frames, NEW p \in PageIds, PinWrite(t, i, p) PROVE SafeInv'
    BY <1>4, MoveSafe DEF PinWrite, Starts
  <1>5. ASSUME NEW i \in Frames, NEW p \in PageIds, PinRead(t, i, p) PROVE SafeInv'
    BY <1>5, MoveSafe DEF PinRead, Starts
  <1>6. ASSUME NEW i \in Frames, NEW p \in PageIds, DropPin(t, i, p) PROVE SafeInv'
    BY <1>6, MoveSafe DEF DropPin
  <1>7. ASSUME NEW i \in Frames, Unlatch(t, i) PROVE SafeInv'
    <2>1. pc[t] = "idle" /\ UNCHANGED <<pages, page_table, free, disk, next_page_id, pins, held,
                                        latest, known, pc, want, frame>>
      BY <1>7 DEF Unlatch
    <2>2. \A u \in Threads : pc[u] \in RemovePcs => page_lock'[frame[u]] = page_lock[frame[u]]
      <3>1. \A u \in Threads : pc[u] \in RemovePcs =>
              u # t /\ frame[u] \in Frames /\ page_lock[frame[u]] = u
        BY <2>1 DEF LocalInv, SafeInv, RemoveInv, RemoveOK
      <3>2. \A j \in Frames : page_lock'[j] # page_lock[j] => page_lock[j] = t
        BY <1>7 DEF Unlatch
      <3> QED
        BY <3>1, <3>2
    <2> QED
      BY <2>1, <2>2, MoveSafe
  <1> QED
    BY <1>1, <1>2, <1>3, <1>4, <1>5, <1>6, <1>7

\* No action takes a race back.
LEMMA RacesGrow == [Next]_vars => races \subseteq races'
  <1>1. ASSUME NEW t \in Threads, Continue(t), races' # races PROVE races \subseteq races'
    <2>1. LockReplacer(t) \/ Swap(t) \/ DropUnpin(t)
      BY <1>1
         DEF Continue, ghosts, WriteOut, FetchMiss, FetchHit, FetchHitPin, Pop, PopNone, Evict,
             LockPage, SwapQueue, Latch, LatchPanics, LatchShared, FlushPageLookup,
             FlushPageWrite, FlushAllKeys, FlushAllLookup, FlushAllWrite, FlushAllReturn,
             RemoveQueue, RemoveEntry, RemoveNode, Push
    <2>2. CASE LockReplacer(t)
      BY <2>2 DEF LockReplacer
    <2>3. CASE Swap(t)
      BY <2>3 DEF Swap
    <2>4. CASE DropUnpin(t)
      BY <2>4 DEF DropUnpin
    <2> QED
      BY <2>1, <2>2, <2>3, <2>4
  <1>2. ASSUME NEW t \in Threads, Start(t) PROVE races' = races
    BY <1>2 DEF Start, ghosts, NewPage, Fetch, FlushPage, FlushAll, PinWrite, PinRead, DropPin,
                RemovePage, Unlatch
  <1> QED
    BY <1>1, <1>2 DEF Next, vars, ghosts

LEMMA StepSafe ==
  ASSUME IsFiniteSet(Threads), Cardinality(Threads) <= MaxU64,
         LockInv, UntilRace, [Next]_vars
  PROVE  UntilRace'
  <1> SUFFICES ASSUME races' = {} PROVE SafeInv'
    BY DEF UntilRace
  <1>1. SafeInv
    BY RacesGrow DEF UntilRace
  <1>2. ASSUME NEW t \in Threads, Continue(t) PROVE SafeInv'
    BY <1>1, <1>2, ContinueMoves, FetchHitPinSafe, LockReplacerSafe, SwapSafe, LatchSafe,
       DropUnpinSafe, WriteOutSafe, RemoveEntrySafe, RemoveNodeSafe, PushSafe DEF Continue
  <1>3. ASSUME NEW t \in Threads, Start(t) PROVE SafeInv'
    BY <1>1, <1>3, StartMoves, NewPageSafe, RemovePageSafe DEF Start
  <1>4. CASE UNCHANGED vars
    <2> USE <1>1, <1>4 DEF vars, cache, locks, locals, ghosts, SafeInv, Mapped
    <2>1. /\ \A t \in Threads, p \in PageIds : Asks(t, p)' <=> Asks(t, p)
          /\ \A t \in Threads, i \in Frames, p \in PageIds :
                (Counted(t, i, p)' <=> Counted(t, i, p)) /\ (Leaving(t, i, p)' <=> Leaving(t, i, p))
          /\ \A i \in Frames : Holders(i)' = Holders(i) /\ (Swapping(i)' <=> Swapping(i))
          /\ \A p \in PageIds : Current(p)' <=> Current(p)
      BY DEF Asks, Removing, Counted, Leaving, Holders, Swapping, Current
    <2>2. TableInv' /\ OrphanInv' /\ UseInv'
      BY DEF TableInv, OrphanInv, UseInv
    <2>3. HeldInv'
      <3> SUFFICES ASSUME NEW t \in Threads, NEW i \in Frames, NEW p \in PageIds
                   PROVE  HeldOK(t, i, p)'
        BY DEF HeldInv
      <3> QED
        BY <2>1 DEF HeldInv, HeldOK
    <2>4. PinInv' /\ AskInv'
      BY <2>1 DEF PinInv, AskInv
    <2>5. RemoveInv'
      <3> SUFFICES ASSUME NEW t \in Threads, pc[t] \in RemovePcs PROVE RemoveOK(t)'
        BY DEF RemoveInv
      <3> QED
        BY DEF RemoveInv, RemoveOK
    <2>6. DataInv'
      BY <2>1 DEF DataInv
    <2> QED
      BY <2>2, <2>3, <2>4, <2>5, <2>6
  <1> QED
    BY <1>2, <1>3, <1>4 DEF Next

LEMMA UntilRaceInvariance ==
  ASSUME IsFiniteSet(Threads), Cardinality(Threads) <= MaxU64
  PROVE  Spec => [](LockInv /\ UntilRace)
  <1>1. Init => LockInv /\ UntilRace
    BY InitLock, InitSafe DEF UntilRace
  <1>2. LockInv /\ UntilRace /\ [Next]_vars => (LockInv /\ UntilRace)'
    BY StepLock, StepSafe
  <1> QED
    BY <1>1, <1>2, PTL DEF Spec

(***************************************************************************)
(* Under all interleavings of any number of threads, no page is swapped    *)
(* out under a live Pin (the assertion of Pin::write, page_cache.rs:108)   *)
(* until a thread takes a frame pinned or freed since evict() named it,    *)
(* enters a page that another one has entered meanwhile, or drops the Pin  *)
(* of a removed page when its frame has a new owner.                       *)
(***************************************************************************)
THEOREM PinProtectedUntilRaceCorrect ==
  ASSUME IsFiniteSet(Threads), Cardinality(Threads) <= MaxU64
  PROVE  Spec => []PinProtectedUntilRace
  <1>1. LockInv /\ UntilRace => PinProtectedUntilRace
    BY DEF LockInv, TypeOK, UntilRace, PinProtectedUntilRace, PinProtected, SafeInv, HeldInv,
           HeldOK, Counted
  <1> QED
    BY <1>1, UntilRaceInvariance, PTL

\* Until then Pins of a page read what was last written to it (page_cache.rs:190-221).
THEOREM PinReadsLatestWriteUntilRaceCorrect ==
  ASSUME IsFiniteSet(Threads), Cardinality(Threads) <= MaxU64
  PROVE  Spec => []PinReadsLatestWriteUntilRace
  <1>1. ASSUME LockInv, UntilRace, races = {},
               NEW t \in Threads, NEW i \in Frames, NEW p \in PageIds,
               <<i, p>> \in held[t], p \in known, pages[i].id = p
        PROVE  pages[i].data = latest[p]
    <2>1. page_table[p] = i
      BY <1>1 DEF UntilRace, SafeInv, OrphanInv
    <2> QED
      BY <1>1, <2>1 DEF UntilRace, SafeInv, DataInv, Current
  <1>2. LockInv /\ UntilRace => PinReadsLatestWriteUntilRace
    BY <1>1 DEF LockInv, TypeOK, PinReadsLatestWriteUntilRace, PinReadsLatestWrite
  <1> QED
    BY <1>2, UntilRaceInvariance, PTL

=============================================================================
