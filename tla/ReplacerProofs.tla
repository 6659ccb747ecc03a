--------------------------- MODULE ReplacerProofs ---------------------------
(***************************************************************************)
(* Proofs about the LRU-K replacer, for any set of frames and any k.       *)
(***************************************************************************)
EXTENDS Replacer, SequenceTheorems, TLAPS

(***************************************************************************)
(* The inductive invariant: types, the order of the timestamps and that a  *)
(* frame with no node has no pins.                                         *)
(***************************************************************************)
NoNodeNoPins == \A i \in Frames : ~HasNode(i) => pin[i] = 0

IInv == TypeOK /\ ClockInv /\ NoNodeNoPins

LEMMA InitIInv == Init => IInv
  BY MaxU64Assumption, MaxTsAssumption, KAssumption
     DEF Init, IInv, TypeOK, ClockInv, HistoryIncreasing, HistoryBelowClock,
         HistoryDisjoint, NoNodeNoPins, HasNode

\* What appending current_ts does to one history.
LEMMA AppendHistory ==
  ASSUME TypeOK, NEW i \in Frames, RecordAccess(i)
  PROVE  /\ history' \in [Frames -> Seq(0..MaxTs)]
         /\ Len(history'[i]) = Len(history[i]) + 1
         /\ \A a \in 1..Len(history[i]) : history'[i][a] = history[i][a]
         /\ history'[i][Len(history[i]) + 1] = current_ts
         /\ \A j \in Frames : j # i => history'[j] = history[j]
  <1>1. history[i] \in Seq(0..MaxTs) /\ current_ts \in 0..MaxTs
    BY DEF TypeOK
  <1>2. history'[i] = Append(history[i], current_ts)
    BY DEF TypeOK, RecordAccess
  <1>3. Append(history[i], current_ts) \in Seq(0..MaxTs)
    BY <1>1, AppendProperties
  <1>4. /\ Len(history'[i]) = Len(history[i]) + 1
        /\ \A a \in 1..Len(history[i]) : history'[i][a] = history[i][a]
        /\ history'[i][Len(history[i]) + 1] = current_ts
    BY <1>1, <1>2, AppendProperties
  <1>5. \A j \in Frames : j # i => history'[j] = history[j]
    BY DEF TypeOK, RecordAccess
  <1>6. history' \in [Frames -> Seq(0..MaxTs)]
    BY <1>2, <1>3 DEF TypeOK, RecordAccess
  <1> QED
    BY <1>4, <1>5, <1>6

LEMMA RecordAccessIInv ==
  ASSUME IInv, NEW i \in Frames, RecordAccess(i)
  PROVE  IInv'
  <1> USE MaxTsAssumption DEF IInv
  <1>1. /\ history' \in [Frames -> Seq(0..MaxTs)]
        /\ Len(history'[i]) = Len(history[i]) + 1
        /\ \A a \in 1..Len(history[i]) : history'[i][a] = history[i][a]
        /\ history'[i][Len(history[i]) + 1] = current_ts
        /\ \A j \in Frames : j # i => history'[j] = history[j]
    BY AppendHistory
  <1>2. /\ current_ts' = current_ts + 1
        /\ current_ts \in 0..MaxTs /\ current_ts < MaxTs
        /\ UNCHANGED <<pin, victim>>
    BY DEF RecordAccess, TypeOK
  <1>3. \A j \in Frames : /\ Len(history[j]) \in Nat
                          /\ \A a \in 1..Len(history[j]) : history[j][a] \in 0..MaxTs
    BY LenProperties, ElementOfSeq DEF TypeOK
  <1>4. TypeOK'
    BY <1>1, <1>2 DEF TypeOK
  \* An entry of a new history is an old one, or current_ts at the end of i's.
  <1> DEFINE Old(j, a) == /\ a \in 1..Len(history[j])
                          /\ history'[j][a] = history[j][a]
             New(j, a) == /\ j = i /\ a = Len(history[i]) + 1
                          /\ history'[j][a] = current_ts
  <1>e. ASSUME NEW j \in Frames, NEW a \in 1..Len(history'[j])
        PROVE  Old(j, a) \/ New(j, a)
    <2>1. CASE j = i
      BY <1>1, <1>3, <2>1
    <2>2. CASE j # i
      BY <1>1, <2>2
    <2> QED
      BY <2>1, <2>2
  <1>f. ASSUME NEW j \in Frames, NEW a, Old(j, a)
        PROVE  /\ history[j][a] < current_ts
               /\ history[j][a] \in Int /\ current_ts \in Int
    BY <1>2, <1>3, <1>f DEF ClockInv, HistoryBelowClock
  <1>5. HistoryIncreasing'
    <2> SUFFICES ASSUME NEW j \in Frames,
                        NEW a \in 1..Len(history'[j]), NEW b \in 1..Len(history'[j]),
                        a < b
                 PROVE  history'[j][a] < history'[j][b]
      BY DEF HistoryIncreasing
    <2>1. CASE Old(j, a) /\ Old(j, b)
      BY <2>1 DEF ClockInv, HistoryIncreasing
    <2>2. CASE Old(j, a) /\ New(j, b)
      BY <2>2, <1>f
    <2>3. CASE New(j, a)
      BY <2>3, <1>1, <1>3
    <2> QED
      BY <1>e, <2>1, <2>2, <2>3
  <1>6. HistoryBelowClock'
    <2> SUFFICES ASSUME NEW j \in Frames, NEW a \in 1..Len(history'[j])
                 PROVE  history'[j][a] < current_ts'
      BY DEF HistoryBelowClock
    <2>1. CASE Old(j, a)
      BY <2>1, <1>2, <1>f
    <2>2. CASE New(j, a)
      BY <2>2, <1>2
    <2> QED
      BY <1>e, <2>1, <2>2
  <1>7. HistoryDisjoint'
    <2> SUFFICES ASSUME NEW j \in Frames, NEW k \in Frames,
                        NEW a \in 1..Len(history'[j]), NEW b \in 1..Len(history'[k]),
                        history'[j][a] = history'[k][b]
                 PROVE  j = k
      BY DEF HistoryDisjoint
    <2>1. CASE Old(j, a) /\ Old(k, b)
      BY <2>1 DEF ClockInv, HistoryDisjoint
    <2>2. CASE Old(j, a) /\ New(k, b)
      <3>1. history[j][a] < current_ts /\ current_ts \in Int
        BY <2>2, <1>f
      <3>2. history[j][a] = current_ts
        BY <2>2
      <3> QED
        BY <3>1, <3>2
    <2>3. CASE New(j, a) /\ Old(k, b)
      <3>1. history[k][b] < current_ts /\ current_ts \in Int
        BY <2>3, <1>f
      <3>2. history[k][b] = current_ts
        BY <2>3
      <3> QED
        BY <3>1, <3>2
    <2>4. CASE New(j, a) /\ New(k, b)
      BY <2>4
    <2> QED
      BY <1>e, <2>1, <2>2, <2>3, <2>4
  <1>8. NoNodeNoPins'
    BY <1>1, <1>2, <1>3 DEF NoNodeNoPins, HasNode
  <1> QED
    BY <1>4, <1>5, <1>6, <1>7, <1>8 DEF ClockInv

LEMMA RemoveIInv ==
  ASSUME IInv, NEW i \in Frames, Remove(i)
  PROVE  IInv'
  <1>1. /\ history' = [history EXCEPT ![i] = <<>>]
        /\ pin' = [pin EXCEPT ![i] = 0]
        /\ UNCHANGED <<current_ts, victim>>
    BY DEF Remove
  <1>2. /\ history'[i] = <<>>
        /\ \A j \in Frames : j # i => history'[j] = history[j]
    BY <1>1 DEF IInv, TypeOK
  <1>3. TypeOK'
    BY <1>1, MaxU64Assumption DEF IInv, TypeOK
  <1>4. ClockInv'
    BY <1>1, <1>2 DEF IInv, ClockInv, HistoryIncreasing, HistoryBelowClock, HistoryDisjoint
  <1>5. NoNodeNoPins'
    BY <1>1, <1>2 DEF IInv, TypeOK, NoNodeNoPins, HasNode
  <1> QED
    BY <1>3, <1>4, <1>5 DEF IInv

\* Pin, Unpin and Evict leave the histories and the clock alone.
LEMMA CountersIInv ==
  ASSUME IInv, UNCHANGED <<history, current_ts>>,
         \/ \E i \in Frames : Pin(i) \/ Unpin(i)
         \/ Evict
         \/ UNCHANGED vars
  PROVE  IInv'
  <1>1. ClockInv'
    BY DEF IInv, ClockInv, HistoryIncreasing, HistoryBelowClock, HistoryDisjoint
  <1>2. CASE \E i \in Frames : Pin(i) \/ Unpin(i)
    <2>1. PICK i \in Frames : Pin(i) \/ Unpin(i)
      BY <1>2
    <2>2. PICK n \in 0..MaxU64 : pin' = IF HasNode(i) THEN [pin EXCEPT ![i] = n] ELSE pin
      <3> DEFINE up   == IF pin[i] = MaxU64 THEN 0 ELSE pin[i] + 1
                 down == IF pin[i] = 0 THEN MaxU64 ELSE pin[i] - 1
      <3>1. pin[i] \in 0..MaxU64
        BY DEF IInv, TypeOK
      <3>2. up \in 0..MaxU64 /\ down \in 0..MaxU64
        BY <3>1, MaxU64Assumption
      <3>3. CASE Pin(i)
        <4>1. pin' = IF HasNode(i) THEN [pin EXCEPT ![i] = up] ELSE pin
          BY <3>3 DEF Pin
        <4> HIDE DEF up
        <4> QED
          BY <3>2, <4>1
      <3>4. CASE Unpin(i)
        <4>1. pin' = IF HasNode(i) THEN [pin EXCEPT ![i] = down] ELSE pin
          BY <3>4 DEF Unpin
        <4> HIDE DEF down
        <4> QED
          BY <3>2, <4>1
      <3> QED
        BY <2>1, <3>3, <3>4
    <2>3. pin \in [Frames -> 0..MaxU64]
      BY DEF IInv, TypeOK
    <2>4. victim' = victim
      BY <2>1 DEF Pin, Unpin
    <2>5. TypeOK'
      BY <2>2, <2>3, <2>4 DEF IInv, TypeOK
    <2>6. \A j \in Frames : ~HasNode(j) => pin'[j] = pin[j]
      BY <2>2, <2>3
    <2>7. NoNodeNoPins'
      BY <2>6 DEF IInv, NoNodeNoPins, HasNode
    <2> QED
      BY <1>1, <2>5, <2>7 DEF IInv
  <1>3. CASE Evict
    <2>1. EvictResults \subseteq Frames \cup {NoVictim}
      BY DEF EvictResults, Distant, SingleAccess, Unpinned
    <2> QED
      BY <1>1, <1>3, <2>1 DEF IInv, TypeOK, NoNodeNoPins, HasNode, Evict
  <1>4. CASE UNCHANGED vars
    BY <1>1, <1>4 DEF IInv, TypeOK, NoNodeNoPins, HasNode, vars
  <1> QED
    BY <1>2, <1>3, <1>4

LEMMA NextIInv == IInv /\ [Next]_vars => IInv'
  <1> SUFFICES ASSUME IInv, [Next]_vars PROVE IInv'
    OBVIOUS
  <1>1. ASSUME NEW i \in Frames, RecordAccess(i) PROVE IInv'
    BY <1>1, RecordAccessIInv
  <1>2. ASSUME NEW i \in Frames, Remove(i) PROVE IInv'
    BY <1>2, RemoveIInv
  <1>3. ASSUME NEW i \in Frames, Pin(i) \/ Unpin(i) PROVE IInv'
    BY <1>3, CountersIInv DEF Pin, Unpin
  <1>4. CASE Evict
    BY <1>4, CountersIInv DEF Evict
  <1>5. CASE UNCHANGED vars
    BY <1>5, CountersIInv DEF vars
  <1> QED
    BY <1>1, <1>2, <1>3, <1>4, <1>5 DEF Next

LEMMA Invariance == Spec => []IInv
  BY InitIInv, NextIInv, PTL DEF Spec

-----------------------------------------------------------------------------
\* record_access never issues a timestamp twice, in one history or in two.
THEOREM ClockCorrect == Spec => []ClockInv
  <1>1. IInv => ClockInv
    BY DEF IInv
  <1> QED
    BY <1>1, Invariance, PTL

-----------------------------------------------------------------------------
\* For k >= 2 a frame with k accesses has a positive k-distance.
LEMMA KDistancePositive ==
  ASSUME K >= 2, IInv, NEW i \in Frames, HasKDistance(i)
  PROVE  KDistance(i) > 0
  <1>1. history[i] \in Seq(0..MaxTs) /\ Len(history[i]) \in Nat /\ K \in Nat
    BY LenProperties, KAssumption DEF IInv, TypeOK
  <1> DEFINE n == Len(history[i])
             k == Len(history[i]) - K + 1
  <1>2. n \in 1..Len(history[i]) /\ k \in 1..Len(history[i]) /\ k < n
    BY <1>1 DEF HasKDistance
  <1>3. history[i][k] < history[i][n]
    BY <1>2 DEF IInv, ClockInv, HistoryIncreasing
  <1>4. history[i][k] \in 0..MaxTs /\ history[i][n] \in 0..MaxTs
    BY <1>1, <1>2, ElementOfSeq
  <1> QED
    BY <1>3, <1>4, MaxTsAssumption DEF KDistance, Latest

LEMMA EvictTotal ==
  ASSUME K >= 2, IInv
  PROVE  EvictFailsOnlyIfAllPinned
  <1> SUFFICES ASSUME NoVictim \in EvictResults, NEW i \in Frames, HasNode(i), pin[i] = 0
               PROVE  FALSE
    BY DEF EvictFailsOnlyIfAllPinned
  <1>1. Distant = {} /\ SingleAccess = {}
    BY NoVictimAssumption DEF EvictResults, Distant, SingleAccess, Unpinned
  <1>2. i \in Unpinned
    BY DEF Unpinned
  <1>3. HasKDistance(i)
    BY <1>1, <1>2 DEF SingleAccess
  <1>4. KDistance(i) > 0
    BY <1>3, KDistancePositive
  <1> QED
    BY <1>1, <1>2, <1>3, <1>4 DEF Distant

(***************************************************************************)
(* For every k >= 2 evict() returns None only when every tracked frame is  *)
(* pinned.  (For k = 1 this is false: a k-distance is then always 0.)      *)
(***************************************************************************)
THEOREM EvictFailsOnlyIfAllPinnedCorrect ==
  ASSUME K >= 2
  PROVE  Spec => []EvictFailsOnlyIfAllPinned
  <1>1. IInv => EvictFailsOnlyIfAllPinned
    BY EvictTotal
  <1> QED
    BY <1>1, Invariance, PTL

-----------------------------------------------------------------------------
(***************************************************************************)
(* Refinement: each method of the replacer is the method of ReplacerSpec   *)
(* of the same name on PinsOf.                                             *)
(***************************************************************************)
LEMMA RefinesInit == Init => Abstract!Init
  BY DEF Init, Abstract!Init, PinsOf, HasNode, Untracked, Abstract!Untracked

\* A step that changes the counter of frame i only.
LEMMA PinsOfExcept ==
  ASSUME NEW i \in Frames, NEW e,
         \A j \in Frames : j # i => PinsOf'[j] = PinsOf[j],
         PinsOf'[i] = e
  PROVE  PinsOf' = [PinsOf EXCEPT ![i] = e]
  <1>1. PinsOf = [j \in Frames |-> PinsOf[j]]
    BY DEF PinsOf
  <1>2. PinsOf' = [j \in Frames |-> PinsOf'[j]]
    BY DEF PinsOf
  <1> QED
    BY <1>1, <1>2

LEMMA RefinesMethods ==
  ASSUME IInv, NEW i \in Frames,
         RecordAccess(i) \/ Pin(i) \/ Unpin(i) \/ Remove(i)
  PROVE  Abstract!Next
  <1>t. /\ history \in [Frames -> Seq(0..MaxTs)]
        /\ pin \in [Frames -> 0..MaxU64] /\ MaxU64 \in Nat
    BY MaxU64Assumption DEF IInv, TypeOK
  <1>p. /\ PinsOf[i] = IF HasNode(i) THEN pin[i] ELSE -1
        /\ PinsOf'[i] = IF HasNode(i)' THEN pin'[i] ELSE -1
        /\ pin[i] \in 0..MaxU64
    BY <1>t DEF PinsOf, Untracked
  <1>q. ASSUME NEW j \in Frames, history'[j] = history[j], pin'[j] = pin[j]
        PROVE  PinsOf'[j] = PinsOf[j]
    BY <1>q DEF PinsOf, HasNode
  <1>1. CASE RecordAccess(i)
    <2>1. /\ Len(history'[i]) = Len(history[i]) + 1
          /\ \A j \in Frames : j # i => history'[j] = history[j]
          /\ Len(history[i]) \in Nat
      BY <1>1, <1>t, AppendHistory, LenProperties DEF IInv
    <2>n. history'[i] # <<>>
      BY <2>1
    <2>2. HasNode(i)' /\ pin' = pin
      BY <1>1, <2>n DEF HasNode, RecordAccess
    <2>3. ~HasNode(i) => pin[i] = 0
      BY DEF IInv, NoNodeNoPins
    <2>4. PinsOf'[i] = IF PinsOf[i] = -1 THEN 0 ELSE PinsOf[i]
      BY <1>t, <1>p, <2>2, <2>3
    <2>5. PinsOf' = Abstract!RecordAccessPins(PinsOf, i)
      BY <2>1, <2>2, <2>4, <1>q, PinsOfExcept DEF Abstract!RecordAccessPins, Abstract!Untracked
    <2> QED
      BY <1>1, <2>5 DEF RecordAccess, Abstract!RecordAccess, Abstract!Next
  <1>2. CASE Pin(i)
    <2>1. history' = history /\ \A j \in Frames : j # i => pin'[j] = pin[j]
      BY <1>2, <1>t DEF Pin
    <2>2. pin'[i] = IF HasNode(i) THEN IF pin[i] = MaxU64 THEN 0 ELSE pin[i] + 1 ELSE pin[i]
      BY <1>2, <1>t DEF Pin
    <2>3. PinsOf'[i] = CASE PinsOf[i] = -1     -> PinsOf[i]
                         [] PinsOf[i] = MaxU64 -> 0
                         [] OTHER              -> PinsOf[i] + 1
      BY <1>t, <1>p, <2>1, <2>2 DEF HasNode
    <2>4. PinsOf' = Abstract!PinPins(PinsOf, i)
      BY <2>1, <2>3, <1>q, PinsOfExcept DEF Abstract!PinPins, Abstract!Untracked
    <2> QED
      BY <1>2, <2>4 DEF Pin, Abstract!Pin, Abstract!Next
  <1>3. CASE Unpin(i)
    <2>1. history' = history /\ \A j \in Frames : j # i => pin'[j] = pin[j]
      BY <1>3, <1>t DEF Unpin
    <2>2. pin'[i] = IF HasNode(i) THEN IF pin[i] = 0 THEN MaxU64 ELSE pin[i] - 1 ELSE pin[i]
      BY <1>3, <1>t DEF Unpin
    <2>3. PinsOf'[i] = CASE PinsOf[i] = -1 -> PinsOf[i]
                         [] PinsOf[i] = 0  -> MaxU64
                         [] OTHER          -> PinsOf[i] - 1
      BY <1>t, <1>p, <2>1, <2>2 DEF HasNode
    <2>4. PinsOf' = Abstract!UnpinPins(PinsOf, i)
      BY <2>1, <2>3, <1>q, PinsOfExcept DEF Abstract!UnpinPins, Abstract!Untracked
    <2> QED
      BY <1>3, <2>4 DEF Unpin, Abstract!Unpin, Abstract!Next
  <1>4. CASE Remove(i)
    <2>1. /\ \A j \in Frames : j # i => history'[j] = history[j] /\ pin'[j] = pin[j]
          /\ PinsOf'[i] = -1
      BY <1>4, <1>t, <1>p DEF Remove, HasNode
    <2>2. PinsOf' = Abstract!RemovePins(PinsOf, i)
      BY <2>1, <1>q, PinsOfExcept DEF Abstract!RemovePins, Abstract!Untracked
    <2> QED
      BY <1>4, <2>2 DEF Remove, Abstract!Remove, Abstract!Next
  <1> QED
    BY <1>1, <1>2, <1>3, <1>4

\* A frame that evict() names is unpinned; it names none only if all are pinned.
LEMMA RefinesEvict ==
  ASSUME K >= 2, IInv, Evict
  PROVE  Abstract!Next
  <1>1. victim' \in Unpinned \/ victim' = NoVictim
    BY DEF Evict, EvictResults, Distant, SingleAccess
  <1>2. Abstract!Evictable(PinsOf) = Unpinned
    <2>1. \A i \in Frames : PinsOf[i] = IF HasNode(i) THEN pin[i] ELSE -1
      BY DEF PinsOf, Untracked
    <2>2. \A i \in Frames : PinsOf[i] = 0 <=> HasNode(i) /\ pin[i] = 0
      <3> SUFFICES ASSUME NEW i \in Frames
                   PROVE  PinsOf[i] = 0 <=> HasNode(i) /\ pin[i] = 0
        OBVIOUS
      <3>1. CASE HasNode(i)
        BY <2>1, <3>1
      <3>2. CASE ~HasNode(i)
        BY <2>1, <3>2
      <3> QED
        BY <3>1, <3>2
    <2> QED
      BY <2>2 DEF Abstract!Evictable, Unpinned
  <1>3. victim' = NoVictim => Unpinned = {}
    BY EvictTotal DEF Evict, EvictFailsOnlyIfAllPinned, Unpinned
  <1>4. victim' \in Abstract!EvictChoices(PinsOf)
    BY <1>1, <1>2, <1>3 DEF Abstract!EvictChoices
  <1>5. PinsOf' = PinsOf
    BY DEF Evict, HasNode, PinsOf
  <1> QED
    BY <1>4, <1>5 DEF Abstract!Evict, Abstract!Next

(***************************************************************************)
(* For every k >= 2 the LRU-K replacer implements ReplacerSpec: to the     *)
(* page cache it is a table of pin counters and an evict() that returns    *)
(* some tracked frame without pins whenever there is one.                  *)
(***************************************************************************)
THEOREM ReplacerRefinement ==
  ASSUME K >= 2
  PROVE  Spec => RefinesReplacerSpec
  <1>1. IInv /\ [Next]_vars => [Abstract!Next]_(Abstract!vars)
    <2> SUFFICES ASSUME IInv, [Next]_vars
                 PROVE  Abstract!Next \/ UNCHANGED Abstract!vars
      OBVIOUS
    <2>1. CASE UNCHANGED vars
      BY <2>1 DEF vars, Abstract!vars, PinsOf, HasNode
    <2> QED
      BY <2>1, RefinesMethods, RefinesEvict DEF Next
  <1> QED
    BY <1>1, RefinesInit, Invariance, PTL DEF Spec, RefinesReplacerSpec, Abstract!Spec
=============================================================================
