------------------------------ MODULE PinTable ------------------------------
(***************************************************************************)
(* The pin counters of src/src/replacer.rs as functions from counters to   *)
(* counters.  This is all the page cache sees of its replacer: which       *)
(* frames are tracked, how often each is pinned, and an evict() that names *)
(* some tracked frame without pins, or none when every one is pinned.      *)
(* Module Replacer has the LRU-K policy and is shown to implement this.    *)
(***************************************************************************)
EXTENDS Integers

CONSTANTS Frames,   \* frame ids, the indices of PageCache.pages
          MaxU64,   \* largest value of the u64 pin counter
          NoVictim  \* evict() returned None

ASSUME MaxU64Assumption   == MaxU64 \in Nat \ {0}
ASSUME NoVictimAssumption == NoVictim \notin Frames

Untracked   == -1    \* the counter of a frame with no entry in nodes
PinCounters == [Frames -> 0..MaxU64 \cup {Untracked}]

\* A frame met for the first time gets a node with no pins.
RecordAccessPins(ps, i) ==
    [ps EXCEPT ![i] = IF @ = Untracked THEN 0 ELSE @]

\* pin += 1 and pin -= 1 on a u64 wrap around at the ends of its range in a
\* release build; a dev build panics there.
PinPins(ps, i) ==
    [ps EXCEPT ![i] = CASE @ = Untracked -> @
                        [] @ = MaxU64    -> 0
                        [] OTHER         -> @ + 1]

UnpinPins(ps, i) ==
    [ps EXCEPT ![i] = CASE @ = Untracked -> @
                        [] @ = 0         -> MaxU64
                        [] OTHER         -> @ - 1]

\* A node is dropped whatever its counter says (the code only warns).
RemovePins(ps, i) == [ps EXCEPT ![i] = Untracked]

\* Mutant: the frame is not pinned.
TakeFrameUnpinned(ps, i) == RecordAccessPins(RemovePins(ps, i), i)

\* try_get_page starts over with the counter of the frame it takes.
TakeFramePins(ps, i) == PinPins(RecordAccessPins(RemovePins(ps, i), i), i)

Evictable(ps) == {i \in Frames : ps[i] = 0}

EvictChoices(ps) == IF Evictable(ps) = {} THEN {NoVictim} ELSE Evictable(ps)
=============================================================================
