------------------------------ MODULE FreeList ------------------------------
(***************************************************************************)
(* FreeList of src/src/page_cache.rs: a stack of frame ids in an           *)
(* UnsafeCell, whose top index is claimed with compare_exchange.  A pop    *)
(* reads its slot after the claim and a push writes its slot after the     *)
(* claim, so each call is a load, a loop of claims and a slot access, and  *)
(* other threads run between any two of them.                              *)
(*                                                                         *)
(* Spec has the discipline of test_free_list (pops and pushes in separate  *)
(* phases); SpecMixed is how PageCache uses the list, where a thread in    *)
(* try_get_page pops while a thread in remove_page pushes.                 *)
(***************************************************************************)
EXTENDS Integers, FiniteSets

CONSTANTS Threads,
          SIZE     \* the const parameter of FreeList

ASSUME SIZEAssumption == SIZE \in Nat \ {0}

Slots == 0..SIZE - 1   \* array indices; the frame ids are 0..SIZE - 1 too

VARIABLES slots,   \* FreeList.free
          tail,    \* FreeList.tail
          pc,      \* where each thread is in pop or push
          seen,    \* the local tail of pop and push
          arg,     \* the argument of push
          got      \* frames each thread popped and has not pushed back

vars == <<slots, tail, pc, seen, arg, got>>

PopPcs  == {"pop", "pop_slot"}
PushPcs == {"push", "push_slot"}

Init == /\ slots = [n \in Slots |-> n]
        /\ tail = SIZE
        /\ pc = [t \in Threads |-> "idle"]
        /\ seen = [t \in Threads |-> 0]
        /\ arg = [t \in Threads |-> 0]
        /\ got = [t \in Threads |-> {}]

Goto(t, label) == pc' = [pc EXCEPT ![t] = label]

\* The call returns and its locals go out of scope.
Return(t) == /\ Goto(t, "idle")
             /\ seen' = [seen EXCEPT ![t] = 0]
             /\ arg' = [arg EXCEPT ![t] = 0]

-----------------------------------------------------------------------------
PopLoad(t) ==
    /\ pc[t] = "idle"
    /\ seen' = [seen EXCEPT ![t] = tail]
    /\ Goto(t, "pop")
    /\ UNCHANGED <<slots, tail, arg, got>>

PopNone(t) ==
    /\ pc[t] = "pop" /\ seen[t] = 0
    /\ Return(t)
    /\ UNCHANGED <<slots, tail, got>>

\* Mutant: the tail found is not loaded.
ExchangeFailsStale(t) ==
    /\ tail # seen[t]
    /\ UNCHANGED vars

\* A compare_exchange that fails loads the tail it found.
ExchangeFails(t) ==
    /\ tail # seen[t]
    /\ seen' = [seen EXCEPT ![t] = tail]
    /\ UNCHANGED <<slots, tail, pc, arg, got>>

PopRetry(t) == pc[t] = "pop" /\ seen[t] # 0 /\ ExchangeFails(t)

\* Mutants: the tail is stored whatever it became; the tail is left as it was.
PopClaimStore(t) ==
    /\ pc[t] = "pop" /\ seen[t] # 0
    /\ tail' = seen[t] - 1
    /\ Goto(t, "pop_slot")
    /\ UNCHANGED <<slots, seen, arg, got>>

PopClaimKeep(t) ==
    /\ pc[t] = "pop" /\ seen[t] # 0
    /\ tail = seen[t]
    /\ Goto(t, "pop_slot")
    /\ UNCHANGED <<slots, tail, seen, arg, got>>

PopClaim(t) ==
    /\ pc[t] = "pop" /\ seen[t] # 0
    /\ tail = seen[t]
    /\ tail' = tail - 1
    /\ Goto(t, "pop_slot")
    /\ UNCHANGED <<slots, seen, arg, got>>

PopSlot(t) ==
    /\ pc[t] = "pop_slot"
    /\ got' = [got EXCEPT ![t] = @ \cup {slots[seen[t] - 1]}]
    /\ Return(t)
    /\ UNCHANGED <<slots, tail>>

-----------------------------------------------------------------------------
\* Only frames that came out of pop go back.
PushLoad(t, f) ==
    /\ pc[t] = "idle"
    /\ f \in got[t]
    /\ got' = [got EXCEPT ![t] = @ \ {f}]
    /\ arg' = [arg EXCEPT ![t] = f]
    /\ seen' = [seen EXCEPT ![t] = tail]
    /\ Goto(t, "push")
    /\ UNCHANGED <<slots, tail>>

\* With seen = SIZE the assertion of push panics: see PushHasRoom.
PushRetry(t) == pc[t] = "push" /\ seen[t] # SIZE /\ ExchangeFails(t)

PushClaim(t) ==
    /\ pc[t] = "push" /\ seen[t] # SIZE
    /\ tail = seen[t]
    /\ tail' = tail + 1
    /\ Goto(t, "push_slot")
    /\ UNCHANGED <<slots, seen, arg, got>>

\* Mutant: the slot is not written.
PushSlotLost(t) ==
    /\ pc[t] = "push_slot"
    /\ Return(t)
    /\ UNCHANGED <<slots, tail, got>>

PushSlot(t) ==
    /\ pc[t] = "push_slot"
    /\ slots' = [slots EXCEPT ![seen[t]] = arg[t]]
    /\ Return(t)
    /\ UNCHANGED <<tail, got>>

-----------------------------------------------------------------------------
\* Steps of a call under way; a thread between calls may stay there.
Continue(t) == \/ PopNone(t) \/ PopRetry(t) \/ PopClaim(t) \/ PopSlot(t)
               \/ PushRetry(t) \/ PushClaim(t) \/ PushSlot(t)

NoneIn(labels) == \A t \in Threads : pc[t] \notin labels

NextPhased ==
    \E t \in Threads :
        \/ Continue(t)
        \/ NoneIn(PushPcs) /\ PopLoad(t)
        \/ NoneIn(PopPcs) /\ \E f \in Slots : PushLoad(t, f)

NextMixed ==
    \E t \in Threads :
        \/ Continue(t)
        \/ PopLoad(t)
        \/ \E f \in Slots : PushLoad(t, f)

Fairness == \A t \in Threads : WF_vars(Continue(t))

Spec      == Init /\ [][NextPhased]_vars /\ Fairness
SpecMixed == Init /\ [][NextMixed]_vars

-----------------------------------------------------------------------------
(***************************************************************************)
(* Properties.                                                             *)
(***************************************************************************)
(***************************************************************************)
(* No frame is handed to two threads: the assertions of test_free_list     *)
(* (page_cache.rs:369), which its two phases rely on, and what             *)
(* try_get_page needs of pop.                                              *)
(***************************************************************************)
NoFrameHandedOutTwice ==
    \A t, u \in Threads : t # u => got[t] \cap got[u] = {}

\* The assertion of push (page_cache.rs:61) holds: no push finds a full list.
PushHasRoom == \A t \in Threads : pc[t] = "push" => seen[t] # SIZE

(***************************************************************************)
(* Phased use implements FramePool.  A pop takes its frame and a push      *)
(* gives it back at the claim: a frame popped but not yet read belongs to  *)
(* the popper, a frame pushed but not yet written is already in the pool.  *)
(***************************************************************************)
Avail == {slots[n] : n \in {m \in Slots : /\ m < tail
                                          /\ \A t \in Threads : pc[t] = "push_slot" => seen[t] # m}}
         \cup {arg[t] : t \in {u \in Threads : pc[u] = "push_slot"}}

Owned == [t \in Threads |->
            got[t] \cup CASE pc[t] = "pop_slot" -> {slots[seen[t] - 1]}
                          [] pc[t] = "push"     -> {arg[t]}
                          [] OTHER              -> {}]

FramePool == INSTANCE FramePool WITH Pool <- Slots, avail <- Avail, owned <- Owned

RefinesFramePool == FramePool!PoolSpec

(***************************************************************************)
(* Every call returns: each failed claim means another thread took a slot, *)
(* which within a phase can only happen SIZE times.                        *)
(***************************************************************************)
CallsReturn == \A t \in Threads : pc[t] # "idle" ~> pc[t] = "idle"
=============================================================================
