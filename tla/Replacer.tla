------------------------------ MODULE Replacer ------------------------------
(***************************************************************************)
(* The LRU-K replacer, src/src/replacer.rs.  LRU wraps LRUKReplacer in a   *)
(* mutex that every method holds from its first to its last line, so each  *)
(* method is one atomic action.                                            *)
(*                                                                         *)
(* nodes, a HashMap<FrameId, LRUKNode>, is kept as two total functions,    *)
(* history and pin.  LRUKNode::new starts a history with one timestamp and *)
(* no method shortens it, so a frame has a node exactly when its history   *)
(* is not empty.                                                           *)
(***************************************************************************)
EXTENDS PinTable, Sequences

CONSTANTS K,        \* the k of LRU-k
          MaxTs     \* bound on current_ts, for model checking

ASSUME KAssumption     == K \in Nat \ {0}
ASSUME MaxTsAssumption == MaxTs \in Nat

VARIABLES history,     \* LRUKNode.history: timestamps of the accesses
          pin,         \* LRUKNode.pin
          current_ts,  \* LRUKReplacer.current_ts
          victim       \* what the last evict() returned

vars == <<history, pin, current_ts, victim>>

HasNode(i) == history[i] # <<>>
Latest(i)  == history[i][Len(history[i])]

\* get_k_distance: None for a frame with fewer than k accesses.
HasKDistance(i) == Len(history[i]) >= K
KDistanceShort(i) == Latest(i) - history[i][Len(history[i]) - K + 2]   \* mutant: off by one
KDistance(i)    == Latest(i) - history[i][Len(history[i]) - K + 1]

(***************************************************************************)
(* evict() walks a HashMap, whose iteration order is arbitrary: between    *)
(* equal distances either frame may be met first and win, so the result is *)
(* a set.  Frames with k accesses go first, by distance; a distance of 0   *)
(* never beats the initial max of (0, 0).  Otherwise the frames with fewer *)
(* than k accesses go, by their last timestamp.                            *)
(***************************************************************************)
UnpinnedOrNot == {i \in Frames : HasNode(i)}   \* mutant: pins are ignored
Unpinned     == {i \in Frames : HasNode(i) /\ pin[i] = 0}
Distant      == {i \in Unpinned : HasKDistance(i) /\ KDistance(i) > 0}
SingleAccess == {i \in Unpinned : ~HasKDistance(i)}

EvictResults ==
    CASE Distant # {} ->
           {i \in Distant : \A j \in Distant : KDistance(i) >= KDistance(j)}
      [] Distant = {} /\ SingleAccess # {} ->
           {i \in SingleAccess : \A j \in SingleAccess : Latest(i) <= Latest(j)}
      [] OTHER -> {NoVictim}

-----------------------------------------------------------------------------
Init == /\ history = [i \in Frames |-> <<>>]
        /\ pin = [i \in Frames |-> 0]
        /\ current_ts = 0
        /\ victim = NoVictim

\* Mutant: a frame that has a node does not advance the clock.
RecordAccessFrozen(i) ==
    /\ current_ts < MaxTs
    /\ history' = [history EXCEPT ![i] = Append(@, current_ts)]
    /\ current_ts' = IF HasNode(i) THEN current_ts ELSE current_ts + 1
    /\ UNCHANGED <<pin, victim>>

\* Both arms of record_access push the timestamp and advance the clock.
RecordAccess(i) ==
    /\ current_ts < MaxTs
    /\ history' = [history EXCEPT ![i] = Append(@, current_ts)]
    /\ current_ts' = current_ts + 1
    /\ UNCHANGED <<pin, victim>>

\* u64 arithmetic of a release build: counters wrap around at the ends of
\* their range, where a dev build panics.
Pin(i) ==
    /\ pin' = IF HasNode(i)
              THEN [pin EXCEPT ![i] = IF @ = MaxU64 THEN 0 ELSE @ + 1]
              ELSE pin
    /\ UNCHANGED <<history, current_ts, victim>>

Unpin(i) ==
    /\ pin' = IF HasNode(i)
              THEN [pin EXCEPT ![i] = IF @ = 0 THEN MaxU64 ELSE @ - 1]
              ELSE pin
    /\ UNCHANGED <<history, current_ts, victim>>

\* A node is dropped whatever its pin counter says (the code only warns).
Remove(i) ==
    /\ history' = [history EXCEPT ![i] = <<>>]
    /\ pin' = [pin EXCEPT ![i] = 0]
    /\ UNCHANGED <<current_ts, victim>>

Evict ==
    /\ victim' \in EvictResults
    /\ UNCHANGED <<history, pin, current_ts>>

Next == \/ \E i \in Frames : RecordAccess(i) \/ Pin(i) \/ Unpin(i) \/ Remove(i)
        \/ Evict

Spec == Init /\ [][Next]_vars

-----------------------------------------------------------------------------
(***************************************************************************)
(* Properties.                                                             *)
(***************************************************************************)
\* Types.  That no Pin takes a counter below 0 or above MaxU64 is up to the
\* callers, and a property of the page cache: PageCache!PinsCounted.
TypeOK == /\ history \in [Frames -> Seq(0..MaxTs)]
          /\ pin \in [Frames -> 0..MaxU64]
          /\ current_ts \in 0..MaxTs
          /\ victim \in Frames \cup {NoVictim}

(***************************************************************************)
(* record_access never issues a timestamp twice: every history is strictly *)
(* increasing, lies below current_ts, and no two frames share a timestamp. *)
(* This is what makes a k-distance positive for k >= 2, and the oldest     *)
(* frame with fewer than k accesses unique.                                *)
(***************************************************************************)
HistoryIncreasing ==
    \A i \in Frames : \A a, b \in 1..Len(history[i]) :
        a < b => history[i][a] < history[i][b]

HistoryBelowClock ==
    \A i \in Frames : \A a \in 1..Len(history[i]) : history[i][a] < current_ts

HistoryDisjoint ==
    \A i, j \in Frames : \A a \in 1..Len(history[i]), b \in 1..Len(history[j]) :
        history[i][a] = history[j][b] => i = j

ClockInv == HistoryIncreasing /\ HistoryBelowClock /\ HistoryDisjoint

(***************************************************************************)
(* evict() gives up only when every tracked frame is pinned, the meaning   *)
(* page_cache.rs:193 ("All pages are pinned") gives to its None.           *)
(***************************************************************************)
EvictFailsOnlyIfAllPinned ==
    NoVictim \in EvictResults => \A i \in Frames : HasNode(i) => pin[i] # 0

\* The policy implements the pin table the page cache relies on.
PinsOf == [i \in Frames |-> IF HasNode(i) THEN pin[i] ELSE Untracked]

Abstract == INSTANCE ReplacerSpec WITH pins <- PinsOf

RefinesReplacerSpec == Abstract!Spec
=============================================================================
