--------------------------- MODULE FreeListProofs ---------------------------
(***************************************************************************)
(* Proofs about the free list in its two phases, for any number of threads *)
(* and frames: no frame is handed out twice, a push never finds the list   *)
(* full, and the list implements FramePool.                                *)
(***************************************************************************)
EXTENDS FreeList, FiniteSetTheorems, TLAPS

TypeOK == /\ slots \in [Slots -> Slots]
          /\ tail \in 0..SIZE
          /\ pc \in [Threads -> {"idle"} \cup PopPcs \cup PushPcs]
          /\ seen \in [Threads -> 0..SIZE]
          /\ arg \in [Threads -> Slots]
          /\ got \in [Threads -> SUBSET Slots]

\* Pops and pushes do not overlap.
PhaseInv == NoneIn(PushPcs) \/ NoneIn(PopPcs)

Popping(t) == pc[t] = "pop_slot"    \* t claimed a slot that it has not read
Pushing(t) == pc[t] = "push_slot"   \* t claimed a slot that it has not written

(***************************************************************************)
(* While threads pop, the tail only falls, and a slot that was claimed is  *)
(* at or above it; while threads push it only rises, and a slot that was   *)
(* claimed is below it.  No two threads have claimed the same slot.        *)
(***************************************************************************)
ClaimInv ==
    \A t \in Threads :
        /\ pc[t] = "pop" => tail <= seen[t]
        /\ Popping(t) => /\ tail < seen[t]
                         /\ \A u \in Threads \ {t} : Popping(u) => seen[u] # seen[t]
        /\ pc[t] = "push" => seen[t] <= tail
        /\ Pushing(t) => /\ seen[t] < tail
                         /\ \A u \in Threads \ {t} : Pushing(u) => seen[u] # seen[t]

\* The slots whose frame is in the list.
Settled(n) == n < tail /\ \A t \in Threads : Pushing(t) => seen[t] # n

\* A frame is in one slot of the list, or on its way there, or owned by one thread.
OneOwner ==
    /\ \A m, n \in Slots : m # n /\ Settled(m) /\ Settled(n) => slots[m] # slots[n]
    /\ \A t \in Threads : Pushing(t) =>
          /\ \A n \in Slots : Settled(n) => slots[n] # arg[t]
          /\ \A u \in Threads \ {t} : Pushing(u) => arg[u] # arg[t]
    /\ \A t \in Threads :
          /\ \A n \in Slots : Settled(n) => slots[n] \notin Owned[t]
          /\ \A u \in Threads : Pushing(u) => arg[u] \notin Owned[t]
          /\ \A u \in Threads \ {t} : Owned[u] \cap Owned[t] = {}
          /\ pc[t] = "push" => arg[t] \notin got[t]

IInv == TypeOK /\ PhaseInv /\ ClaimInv /\ OneOwner

-----------------------------------------------------------------------------
LEMMA SlotFacts ==
  /\ SIZE \in Nat /\ SIZE > 0 /\ 0 \in Slots
  /\ \A n \in 1..SIZE : n - 1 \in Slots
  /\ \A n \in Nat : n < SIZE => n \in Slots
  BY SIZEAssumption DEF Slots

LEMMA OwnedFacts ==
  ASSUME NEW t \in Threads
  PROVE  /\ Popping(t) => Owned[t] = got[t] \cup {slots[seen[t] - 1]}
         /\ pc[t] = "push" => Owned[t] = got[t] \cup {arg[t]}
         /\ ~Popping(t) /\ pc[t] # "push" => Owned[t] = got[t]
  BY DEF Owned, Popping

LEMMA InitIInv == Init => IInv
  <1> SUFFICES ASSUME Init PROVE IInv
    OBVIOUS
  <1>1. TypeOK /\ PhaseInv /\ ClaimInv
    BY SlotFacts
       DEF Init, TypeOK, PhaseInv, NoneIn, ClaimInv, Popping, Pushing, PopPcs, PushPcs, Slots
  <1>2. \A t \in Threads : pc[t] = "idle" /\ Owned[t] = {}
    BY OwnedFacts DEF Init, Popping
  <1>3. OneOwner
    BY <1>2 DEF Init, OneOwner, Pushing
  <1> QED
    BY <1>1, <1>3 DEF IInv

-----------------------------------------------------------------------------
LEMMA StepType ==
  ASSUME TypeOK, ClaimInv, NEW t \in Threads,
         Continue(t) \/ PopLoad(t) \/ (\E f \in Slots : PushLoad(t, f))
  PROVE  TypeOK'
  <1> USE SlotFacts DEF TypeOK, PopPcs, PushPcs
  <1>1. CASE PopLoad(t)
    BY <1>1 DEF PopLoad, Goto
  <1>2. CASE PopNone(t)
    BY <1>2 DEF PopNone, Return, Goto
  <1>3. CASE PopRetry(t) \/ PushRetry(t)
    BY <1>3 DEF PopRetry, PushRetry, ExchangeFails
  <1>4. CASE PopClaim(t)
    BY <1>4 DEF PopClaim, Goto
  <1>5. CASE PopSlot(t)
    <2>1. slots[seen[t] - 1] \in Slots
      BY <1>5 DEF PopSlot, ClaimInv, Popping
    <2> QED
      BY <1>5, <2>1 DEF PopSlot, Return, Goto
  <1>6. ASSUME NEW f \in Slots, PushLoad(t, f) PROVE TypeOK'
    BY <1>6 DEF PushLoad, Goto
  <1>7. CASE PushClaim(t)
    BY <1>7 DEF PushClaim, Goto
  <1>8. CASE PushSlot(t)
    <2>1. slots' = [slots EXCEPT ![seen[t]] = arg[t]] /\ arg[t] \in Slots
      BY <1>8 DEF PushSlot
    <2>2. slots' \in [Slots -> Slots]
      BY <2>1
    <2> QED
      BY <1>8, <2>2 DEF PushSlot, Return, Goto
  <1> QED
    BY <1>1, <1>2, <1>3, <1>4, <1>5, <1>6, <1>7, <1>8 DEF Continue

\* Pops start only while nobody pushes, pushes only while nobody pops.
LEMMA StepPhase ==
  ASSUME TypeOK, PhaseInv, NextPhased
  PROVE  PhaseInv'
  <1> USE DEF TypeOK, PhaseInv, NoneIn, PopPcs, PushPcs, Goto
  <1> PICK t \in Threads : \/ Continue(t)
                           \/ NoneIn(PushPcs) /\ PopLoad(t)
                           \/ NoneIn(PopPcs) /\ \E f \in Slots : PushLoad(t, f)
    BY DEF NextPhased
  <1>1. CASE Continue(t)
    BY <1>1 DEF Continue, PopNone, PopRetry, PopClaim, PopSlot, PushRetry, PushClaim, PushSlot,
                ExchangeFails, Return
  <1>2. CASE NoneIn(PushPcs) /\ PopLoad(t)
    BY <1>2 DEF PopLoad
  <1>3. CASE NoneIn(PopPcs) /\ \E f \in Slots : PushLoad(t, f)
    BY <1>3 DEF PushLoad
  <1> QED
    BY <1>1, <1>2, <1>3

LEMMA StepClaim ==
  ASSUME TypeOK, PhaseInv, ClaimInv, NEW t \in Threads,
         \/ Continue(t)
         \/ NoneIn(PushPcs) /\ PopLoad(t)
         \/ NoneIn(PopPcs) /\ \E f \in Slots : PushLoad(t, f)
  PROVE  ClaimInv'
  <1> USE SlotFacts DEF TypeOK, ClaimInv, Popping, Pushing, Goto
  <1>1. CASE PopLoad(t)
    BY <1>1 DEF PopLoad
  <1>2. CASE PopNone(t)
    BY <1>2 DEF PopNone, Return
  <1>3. CASE PopRetry(t)
    BY <1>3 DEF PopRetry, ExchangeFails
  <1>4. CASE PopClaim(t)
    <2>1. NoneIn(PushPcs)
      BY <1>4 DEF PopClaim, PhaseInv, NoneIn, PopPcs
    <2> QED
      BY <1>4, <2>1 DEF PopClaim, NoneIn, PushPcs
  <1>5. CASE PopSlot(t)
    BY <1>5 DEF PopSlot, Return
  <1>6. CASE \E f \in Slots : PushLoad(t, f)
    BY <1>6 DEF PushLoad
  <1>7. CASE PushRetry(t)
    BY <1>7 DEF PushRetry, ExchangeFails
  <1>8. CASE PushClaim(t)
    <2>1. NoneIn(PopPcs)
      BY <1>8 DEF PushClaim, PhaseInv, NoneIn, PushPcs
    <2> QED
      BY <1>8, <2>1 DEF PushClaim, NoneIn, PopPcs
  <1>9. CASE PushSlot(t)
    BY <1>9 DEF PushSlot, Return
  <1> QED
    BY <1>1, <1>2, <1>3, <1>4, <1>5, <1>6, <1>7, <1>8, <1>9 DEF Continue

-----------------------------------------------------------------------------
(***************************************************************************)
(* Steps that move no frame between the list and a thread.                 *)
(***************************************************************************)
Quiet == /\ slots' = slots /\ tail' = tail
         /\ Owned' = Owned
         /\ \A u \in Threads : /\ Pushing(u)' <=> Pushing(u)
                               /\ Pushing(u) => seen'[u] = seen[u] /\ arg'[u] = arg[u]
                               /\ pc'[u] = "push" => arg'[u] \notin got'[u]

LEMMA QuietSteps ==
  ASSUME TypeOK, OneOwner, NEW t \in Threads,
         \/ PopLoad(t) \/ PopNone(t) \/ PopRetry(t) \/ PopSlot(t)
         \/ PushRetry(t) \/ (\E f \in Slots : PushLoad(t, f))
  PROVE  Quiet
  <1> USE DEF TypeOK, Goto
  <1>1. /\ slots' = slots /\ tail' = tail
        /\ \A u \in Threads \ {t} : /\ pc'[u] = pc[u] /\ seen'[u] = seen[u]
                                    /\ arg'[u] = arg[u] /\ got'[u] = got[u]
        /\ ~Pushing(t) /\ ~Pushing(t)'
    BY DEF PopLoad, PopNone, PopRetry, PopSlot, PushRetry, PushLoad, ExchangeFails, Return, Pushing
  <1>2. Owned[t]' = Owned[t] /\ (pc'[t] = "push" => arg'[t] \notin got'[t])
    <2>1. CASE PopLoad(t) \/ PopNone(t) \/ PopRetry(t)
      <3>1. pc[t] \in {"idle", "pop"} /\ pc'[t] \in {"idle", "pop"} /\ got' = got
        BY <2>1 DEF PopLoad, PopNone, PopRetry, ExchangeFails, Return
      <3> QED
        BY <3>1, OwnedFacts DEF Owned
    <2>2. CASE PopSlot(t)
      <3>1. /\ pc[t] = "pop_slot" /\ pc'[t] = "idle"
            /\ got'[t] = got[t] \cup {slots[seen[t] - 1]}
        BY <2>2 DEF PopSlot, Return
      <3> QED
        BY <3>1 DEF Owned
    <2>3. CASE PushRetry(t)
      <3>1. pc' = pc /\ pc[t] = "push" /\ got' = got /\ arg' = arg
        BY <2>3 DEF PushRetry, ExchangeFails
      <3> QED
        BY <3>1 DEF Owned, OneOwner
    <2>4. ASSUME NEW f \in Slots, PushLoad(t, f)
          PROVE  Owned[t]' = Owned[t] /\ arg'[t] \notin got'[t]
      <3>1. /\ pc[t] = "idle" /\ pc'[t] = "push"
            /\ f \in got[t] /\ got'[t] = got[t] \ {f} /\ arg'[t] = f
        BY <2>4 DEF PushLoad
      <3> QED
        BY <3>1 DEF Owned
    <2> QED
      BY <2>1, <2>2, <2>3, <2>4
  <1>3. \A u \in Threads \ {t} : Owned[u]' = Owned[u]
    BY <1>1 DEF Owned
  <1>4. Owned' = Owned
    BY <1>2, <1>3 DEF Owned
  <1>5. \A u \in Threads \ {t} : pc'[u] = "push" => arg'[u] \notin got'[u]
    BY <1>1 DEF OneOwner
  <1> QED
    BY <1>1, <1>2, <1>4, <1>5 DEF Quiet, Pushing

LEMMA QuietOwners ==
  ASSUME OneOwner, Quiet
  PROVE  OneOwner'
  <1>1. \A n \in Slots : Settled(n)' <=> Settled(n)
    BY DEF Quiet, Settled
  <1> QED
    BY <1>1 DEF OneOwner, Quiet

LEMMA QuietPool ==
  ASSUME Quiet
  PROVE  UNCHANGED FramePool!poolVars
  BY DEF Quiet, FramePool!poolVars, Avail, Pushing

(***************************************************************************)
(* The steps that do: a claim of pop takes the last frame of the list, a   *)
(* claim of push gives one back, and the write of a pushed frame puts it   *)
(* where the claim said.                                                   *)
(***************************************************************************)
LEMMA PopClaimFacts ==
  ASSUME IInv, NEW t \in Threads, PopClaim(t)
  PROVE  /\ tail - 1 \in Slots /\ tail' = tail - 1 /\ slots' = slots
         /\ \A u \in Threads : ~Pushing(u) /\ ~Pushing(u)'
         /\ \A u \in Threads : pc[u] # "push" /\ pc'[u] # "push"
         /\ Owned' = [Owned EXCEPT ![t] = @ \cup {slots[tail - 1]}]
         /\ \A n \in Slots : Settled(n)' <=> Settled(n) /\ n # tail - 1
         /\ Settled(tail - 1)
  <1> USE SlotFacts DEF IInv, TypeOK
  <1>1. /\ pc[t] = "pop" /\ seen[t] # 0 /\ tail = seen[t]
        /\ tail' = tail - 1 /\ slots' = slots /\ seen' = seen /\ arg' = arg /\ got' = got
        /\ pc' = [pc EXCEPT ![t] = "pop_slot"]
    BY DEF PopClaim, Goto
  <1>2. \A u \in Threads : pc[u] \notin PushPcs
    BY <1>1 DEF PhaseInv, NoneIn, PopPcs
  <1>3. \A u \in Threads : /\ ~Pushing(u) /\ ~Pushing(u)'
                           /\ pc[u] # "push" /\ pc'[u] # "push"
    BY <1>1, <1>2 DEF PushPcs, Pushing
  <1>4. tail - 1 \in Slots
    BY <1>1
  <1>5. Owned' = [Owned EXCEPT ![t] = @ \cup {slots[tail - 1]}]
    BY <1>1 DEF Owned
  <1>6. /\ \A n \in Slots : Settled(n)' <=> Settled(n) /\ n # tail - 1
        /\ Settled(tail - 1)
    <2>1. \A n \in Slots : n < tail - 1 <=> n < tail /\ n # tail - 1
      BY DEF Slots
    <2>2. tail - 1 < tail
      OBVIOUS
    <2> QED
      BY <1>1, <1>3, <1>4, <2>1, <2>2 DEF Settled
  <1> QED
    BY <1>1, <1>3, <1>4, <1>5, <1>6

LEMMA PopClaimOwners ==
  ASSUME IInv, NEW t \in Threads, PopClaim(t)
  PROVE  OneOwner'
  <1> DEFINE f == slots[tail - 1]
  <1>1. /\ tail - 1 \in Slots /\ slots' = slots
        /\ \A u \in Threads : ~Pushing(u)' /\ pc'[u] # "push"
        /\ \A n \in Slots : Settled(n)' <=> Settled(n) /\ n # tail - 1
        /\ Settled(tail - 1)
    BY PopClaimFacts
  <1>2. \A u \in Threads : Owned'[u] = IF u = t THEN Owned[t] \cup {f} ELSE Owned[u]
    BY PopClaimFacts DEF Owned
  <1>3. \A n \in Slots : Settled(n)' => slots[n] # f
    BY <1>1 DEF IInv, OneOwner
  <1>4. \A u \in Threads : f \notin Owned[u]
    BY <1>1 DEF IInv, OneOwner
  <1>5. \A u \in Threads, n \in Slots : Settled(n)' => slots'[n] \notin Owned'[u]
    BY <1>1, <1>2, <1>3 DEF IInv, OneOwner
  <1>6. \A u \in Threads : \A v \in Threads \ {u} : Owned'[v] \cap Owned'[u] = {}
    BY <1>2, <1>4 DEF IInv, OneOwner
  <1>7. \A m, n \in Slots : m # n /\ Settled(m)' /\ Settled(n)' => slots'[m] # slots'[n]
    BY <1>1 DEF IInv, OneOwner
  <1> QED
    BY <1>1, <1>5, <1>6, <1>7 DEF OneOwner

LEMMA PopClaimPool ==
  ASSUME IInv, NEW t \in Threads, PopClaim(t)
  PROVE  FramePool!PoolNext
  <1> DEFINE f == slots[tail - 1]
  <1>1. /\ tail - 1 \in Slots /\ tail' = tail - 1 /\ slots' = slots
        /\ \A u \in Threads : ~Pushing(u) /\ ~Pushing(u)'
        /\ Owned' = [Owned EXCEPT ![t] = @ \cup {f}]
        /\ \A n \in Slots : Settled(n)' <=> Settled(n) /\ n # tail - 1
        /\ Settled(tail - 1)
    BY PopClaimFacts
  <1>2. Avail = {slots[n] : n \in {m \in Slots : Settled(m)}}
    BY <1>1 DEF Avail, Settled, Pushing
  <1>3. Avail' = {slots[n] : n \in {m \in Slots : Settled(m) /\ m # tail - 1}}
    <2>1. Avail' = {slots'[n] : n \in {m \in Slots : Settled(m)'}}
      BY <1>1 DEF Avail, Settled, Pushing
    <2> QED
      BY <1>1, <2>1
  <1>4. \A n \in Slots : Settled(n) /\ n # tail - 1 => slots[n] # f
    BY <1>1 DEF IInv, OneOwner
  <1>5. f \in Avail /\ Avail' = Avail \ {f}
    BY <1>1, <1>2, <1>3, <1>4
  <1>6. f \in Slots
    BY <1>1 DEF IInv, TypeOK
  <1>7. FramePool!Take(t, f)
    BY <1>1, <1>5 DEF FramePool!Take
  <1> QED
    BY <1>6, <1>7 DEF FramePool!PoolNext

LEMMA PushClaimFacts ==
  ASSUME IInv, NEW t \in Threads, PushClaim(t)
  PROVE  /\ slots' = slots /\ arg' = arg /\ got' = got /\ arg[t] \in Slots
         /\ pc[t] = "push" /\ ~Pushing(t) /\ Pushing(t)' /\ pc'[t] # "push"
         /\ \A u \in Threads \ {t} : (Pushing(u)' <=> Pushing(u)) /\ pc'[u] = pc[u]
         /\ Owned' = [Owned EXCEPT ![t] = @ \ {arg[t]}]
         /\ arg[t] \in Owned[t]
         /\ \A n \in Slots : Settled(n)' <=> Settled(n)
  <1> USE SlotFacts DEF IInv, TypeOK
  <1>1. /\ pc[t] = "push" /\ seen[t] # SIZE /\ tail = seen[t]
        /\ tail' = tail + 1 /\ slots' = slots /\ seen' = seen /\ arg' = arg /\ got' = got
        /\ pc' = [pc EXCEPT ![t] = "push_slot"]
    BY DEF PushClaim, Goto
  <1>2. /\ ~Pushing(t) /\ Pushing(t)' /\ pc'[t] # "push"
        /\ \A u \in Threads \ {t} : (Pushing(u)' <=> Pushing(u)) /\ pc'[u] = pc[u]
    BY <1>1 DEF Pushing
  <1>3. arg[t] \notin got[t]
    BY <1>1 DEF OneOwner
  <1>4. Owned' = [Owned EXCEPT ![t] = @ \ {arg[t]}] /\ arg[t] \in Owned[t]
    <2>1. Owned[t] = got[t] \cup {arg[t]}
      BY <1>1 DEF Owned
    <2>2. Owned'[t] = got[t]
      BY <1>1 DEF Owned
    <2>3. Owned'[t] = Owned[t] \ {arg[t]}
      BY <1>3, <2>1, <2>2
    <2>4. \A u \in Threads \ {t} : Owned'[u] = Owned[u]
      BY <1>1 DEF Owned
    <2> QED
      BY <2>1, <2>3, <2>4 DEF Owned
  <1>5. \A n \in Slots : Settled(n)' <=> Settled(n)
    <2> SUFFICES ASSUME NEW n \in Slots PROVE Settled(n)' <=> Settled(n)
      OBVIOUS
    <2>1. n < tail + 1 /\ n # tail <=> n < tail
      BY DEF Slots
    <2> QED
      BY <1>1, <1>2, <2>1 DEF Settled
  <1> QED
    BY <1>1, <1>2, <1>4, <1>5

LEMMA PushClaimOwners ==
  ASSUME IInv, NEW t \in Threads, PushClaim(t)
  PROVE  OneOwner'
  <1>1. /\ slots' = slots /\ arg' = arg /\ got' = got
        /\ pc[t] = "push" /\ ~Pushing(t) /\ Pushing(t)' /\ pc'[t] # "push"
        /\ \A u \in Threads \ {t} : (Pushing(u)' <=> Pushing(u)) /\ pc'[u] = pc[u]
        /\ arg[t] \in Owned[t]
        /\ \A n \in Slots : Settled(n)' <=> Settled(n)
    BY PushClaimFacts
  <1>2. \A u \in Threads : Owned'[u] = IF u = t THEN Owned[t] \ {arg[t]} ELSE Owned[u]
    BY PushClaimFacts DEF Owned
  <1>3. \A n \in Slots : Settled(n) => slots[n] # arg[t]
    BY <1>1 DEF IInv, OneOwner
  <1>4. \A u \in Threads : Pushing(u) => arg[u] # arg[t]
    BY <1>1 DEF IInv, OneOwner
  <1>5. \A u \in Threads : arg[t] \notin Owned'[u]
    BY <1>1, <1>2 DEF IInv, OneOwner
  <1>6. \A u \in Threads : Owned'[u] \subseteq Owned[u]
    BY <1>2
  <1>7. \A u, v \in Threads : Pushing(u)' => arg'[u] \notin Owned'[v]
    BY <1>1, <1>5, <1>6 DEF IInv, OneOwner
  <1>8. \A u \in Threads : Pushing(u)' =>
          /\ \A n \in Slots : Settled(n)' => slots'[n] # arg'[u]
          /\ \A v \in Threads \ {u} : Pushing(v)' => arg'[v] # arg'[u]
    BY <1>1, <1>3, <1>4 DEF IInv, OneOwner
  <1>9. \A u \in Threads :
          /\ \A n \in Slots : Settled(n)' => slots'[n] \notin Owned'[u]
          /\ \A v \in Threads \ {u} : Owned'[v] \cap Owned'[u] = {}
          /\ pc'[u] = "push" => arg'[u] \notin got'[u]
    BY <1>1, <1>6 DEF IInv, OneOwner
  <1>10. \A m, n \in Slots : m # n /\ Settled(m)' /\ Settled(n)' => slots'[m] # slots'[n]
    BY <1>1 DEF IInv, OneOwner
  <1> QED
    BY <1>7, <1>8, <1>9, <1>10 DEF OneOwner

LEMMA PushClaimPool ==
  ASSUME IInv, NEW t \in Threads, PushClaim(t)
  PROVE  FramePool!PoolNext
  <1>1. /\ slots' = slots /\ arg' = arg /\ arg[t] \in Slots
        /\ ~Pushing(t) /\ Pushing(t)'
        /\ \A u \in Threads \ {t} : Pushing(u)' <=> Pushing(u)
        /\ Owned' = [Owned EXCEPT ![t] = @ \ {arg[t]}]
        /\ arg[t] \in Owned[t]
        /\ \A n \in Slots : Settled(n)' <=> Settled(n)
    BY PushClaimFacts
  <1>2. /\ Avail = {slots[n] : n \in {m \in Slots : Settled(m)}}
                   \cup {arg[u] : u \in {v \in Threads : Pushing(v)}}
        /\ Avail' = {slots'[n] : n \in {m \in Slots : Settled(m)'}}
                    \cup {arg'[u] : u \in {v \in Threads : Pushing(v)'}}
    BY DEF Avail, Settled, Pushing
  <1>3. Avail' = Avail \cup {arg[t]}
    BY <1>1, <1>2
  <1>4. FramePool!Give(t, arg[t])
    BY <1>1, <1>3 DEF FramePool!Give
  <1> QED
    BY <1>1, <1>4 DEF FramePool!PoolNext

LEMMA PushSlotFacts ==
  ASSUME IInv, NEW t \in Threads, PushSlot(t)
  PROVE  /\ seen[t] \in Slots /\ slots'[seen[t]] = arg[t]
         /\ \A n \in Slots : n # seen[t] => slots'[n] = slots[n]
         /\ Pushing(t) /\ ~Pushing(t)' /\ pc'[t] # "push" /\ got' = got
         /\ \A u \in Threads \ {t} : /\ Pushing(u)' <=> Pushing(u)
                                     /\ pc'[u] = pc[u]
                                     /\ seen'[u] = seen[u] /\ arg'[u] = arg[u]
         /\ Owned' = Owned
         /\ ~Settled(seen[t])
         /\ \A n \in Slots : Settled(n)' <=> Settled(n) \/ n = seen[t]
  <1> USE SlotFacts DEF IInv, TypeOK
  <1>1. /\ pc[t] = "push_slot" /\ slots' = [slots EXCEPT ![seen[t]] = arg[t]]
        /\ pc' = [pc EXCEPT ![t] = "idle"]
        /\ seen' = [seen EXCEPT ![t] = 0] /\ arg' = [arg EXCEPT ![t] = 0]
        /\ tail' = tail /\ got' = got
    BY DEF PushSlot, Return, Goto
  <1>2. /\ Pushing(t) /\ ~Pushing(t)' /\ pc'[t] # "push"
        /\ \A u \in Threads \ {t} : /\ Pushing(u)' <=> Pushing(u)
                                    /\ pc'[u] = pc[u]
                                    /\ seen'[u] = seen[u] /\ arg'[u] = arg[u]
    BY <1>1 DEF Pushing
  <1>3. /\ seen[t] < tail
        /\ \A u \in Threads \ {t} : Pushing(u) => seen[u] # seen[t]
    BY <1>2 DEF ClaimInv
  <1>4. seen[t] \in Slots
    BY <1>3
  <1>5. \A u \in Threads : ~Popping(u) /\ ~Popping(u)'
    BY <1>1 DEF PhaseInv, NoneIn, PushPcs, PopPcs, Popping
  <1>6. Owned' = Owned
    BY <1>1, <1>5 DEF Owned, Popping
  <1>7. ~Settled(seen[t]) /\ \A n \in Slots : Settled(n)' <=> Settled(n) \/ n = seen[t]
    BY <1>1, <1>2, <1>3 DEF Settled
  <1> QED
    BY <1>1, <1>2, <1>4, <1>6, <1>7

LEMMA PushSlotOwners ==
  ASSUME IInv, NEW t \in Threads, PushSlot(t)
  PROVE  OneOwner'
  <1> DEFINE s == seen[t]
  <1>1. /\ s \in Slots /\ slots'[s] = arg[t]
        /\ \A n \in Slots : n # s => slots'[n] = slots[n]
        /\ Pushing(t) /\ ~Pushing(t)' /\ pc'[t] # "push" /\ got' = got
        /\ \A u \in Threads \ {t} : /\ Pushing(u)' <=> Pushing(u)
                                    /\ pc'[u] = pc[u]
                                    /\ arg'[u] = arg[u]
        /\ Owned' = Owned
        /\ ~Settled(s)
        /\ \A n \in Slots : Settled(n)' <=> Settled(n) \/ n = s
    BY PushSlotFacts
  <1> HIDE DEF s
  <1>2. /\ \A n \in Slots : Settled(n) => slots[n] # arg[t]
        /\ \A u \in Threads \ {t} : Pushing(u) => arg[u] # arg[t]
        /\ \A u \in Threads : arg[t] \notin Owned[u]
    BY <1>1 DEF IInv, OneOwner
  <1>3. \A m, n \in Slots : m # n /\ Settled(m)' /\ Settled(n)' => slots'[m] # slots'[n]
    BY <1>1, <1>2 DEF IInv, OneOwner
  <1>4. \A u \in Threads : Pushing(u)' =>
          /\ \A n \in Slots : Settled(n)' => slots'[n] # arg'[u]
          /\ \A v \in Threads \ {u} : Pushing(v)' => arg'[v] # arg'[u]
    BY <1>1, <1>2 DEF IInv, OneOwner
  <1>5. \A u \in Threads : \A n \in Slots : Settled(n)' => slots'[n] \notin Owned'[u]
    BY <1>1, <1>2 DEF IInv, OneOwner
  <1>6. \A u \in Threads :
          /\ \A v \in Threads : Pushing(v)' => arg'[v] \notin Owned'[u]
          /\ \A v \in Threads \ {u} : Owned'[v] \cap Owned'[u] = {}
          /\ pc'[u] = "push" => arg'[u] \notin got'[u]
    BY <1>1 DEF IInv, OneOwner
  <1> QED
    BY <1>3, <1>4, <1>5, <1>6 DEF OneOwner

LEMMA PushSlotPool ==
  ASSUME IInv, NEW t \in Threads, PushSlot(t)
  PROVE  UNCHANGED FramePool!poolVars
  <1>1. /\ seen[t] \in Slots /\ slots'[seen[t]] = arg[t]
        /\ \A n \in Slots : n # seen[t] => slots'[n] = slots[n]
        /\ Pushing(t) /\ ~Pushing(t)'
        /\ \A u \in Threads \ {t} : (Pushing(u)' <=> Pushing(u)) /\ arg'[u] = arg[u]
        /\ Owned' = Owned
        /\ ~Settled(seen[t])
        /\ \A n \in Slots : Settled(n)' <=> Settled(n) \/ n = seen[t]
    BY PushSlotFacts
  <1>2. /\ Avail = {slots[n] : n \in {m \in Slots : Settled(m)}}
                   \cup {arg[u] : u \in {v \in Threads : Pushing(v)}}
        /\ Avail' = {slots'[n] : n \in {m \in Slots : Settled(m)'}}
                    \cup {arg'[u] : u \in {v \in Threads : Pushing(v)'}}
    BY DEF Avail, Settled, Pushing
  <1>3. Avail' = Avail
    BY <1>1, <1>2
  <1> QED
    BY <1>1, <1>3 DEF FramePool!poolVars

-----------------------------------------------------------------------------
LEMMA NextIInv == IInv /\ [NextPhased]_vars => IInv'
  <1> SUFFICES ASSUME IInv, [NextPhased]_vars PROVE IInv'
    OBVIOUS
  <1>1. CASE UNCHANGED vars
    BY <1>1 DEF vars, IInv, TypeOK, PhaseInv, NoneIn, ClaimInv, OneOwner, Popping, Pushing,
                Settled, Owned
  <1>2. CASE NextPhased
    <2> PICK t \in Threads : \/ Continue(t)
                             \/ NoneIn(PushPcs) /\ PopLoad(t)
                             \/ NoneIn(PopPcs) /\ \E f \in Slots : PushLoad(t, f)
      BY <1>2 DEF NextPhased
    <2>1. TypeOK' /\ PhaseInv' /\ ClaimInv'
      BY <1>2, StepType, StepPhase, StepClaim DEF IInv
    <2>2. OneOwner'
      BY QuietSteps, QuietOwners, PopClaimOwners, PushClaimOwners, PushSlotOwners
         DEF IInv, Continue
    <2> QED
      BY <2>1, <2>2 DEF IInv
  <1> QED
    BY <1>1, <1>2

\* The ownership of frames is kept in step, with any number of threads.
THEOREM Invariance == Spec => []IInv
  BY InitIInv, NextIInv, PTL DEF Spec

(***************************************************************************)
(* pop() gives no frame to a thread while another one has it.              *)
(***************************************************************************)
THEOREM NoFrameHandedOutTwiceCorrect == Spec => []NoFrameHandedOutTwice
  <1>1. \A t \in Threads : got[t] \subseteq Owned[t]
    BY OwnedFacts
  <1>2. IInv => NoFrameHandedOutTwice
    BY <1>1 DEF IInv, OneOwner, NoFrameHandedOutTwice
  <1> QED
    BY <1>2, Invariance, PTL

(***************************************************************************)
(* The assertion of push() holds.  With the list full, its SIZE frames and *)
(* the one about to be pushed would be SIZE + 1 different frames.          *)
(***************************************************************************)
THEOREM PushHasRoomCorrect == Spec => []PushHasRoom
  <1>1. ASSUME IInv, NEW t \in Threads, pc[t] = "push", tail = SIZE
        PROVE  FALSE
    <2> DEFINE Pusher == [n \in Slots |-> CHOOSE u \in Threads : Pushing(u) /\ seen[u] = n]
               F == [n \in 0..SIZE |-> CASE n = SIZE -> arg[t]
                                         [] n # SIZE /\ Settled(n) -> slots[n]
                                         [] OTHER -> arg[Pusher[n]]]
    <2>1. arg[t] \in Owned[t]
      BY <1>1, OwnedFacts
    <2>2. ASSUME NEW n \in Slots, ~Settled(n)
          PROVE  Pusher[n] \in Threads /\ Pushing(Pusher[n]) /\ seen[Pusher[n]] = n
      <3>1. n < tail
        BY <1>1, SlotFacts DEF Slots
      <3>2. \E u \in Threads : Pushing(u) /\ seen[u] = n
        BY <2>2, <3>1 DEF Settled
      <3> QED
        BY <3>2
    <2> HIDE DEF Pusher
    <2>3. \A n \in 0..SIZE : n # SIZE => n \in Slots
      BY SlotFacts
    <2>4. F \in [0..SIZE -> Slots]
      BY <1>1, <2>2, <2>3 DEF IInv, TypeOK
    <2>5. \A n \in Slots : n # SIZE /\ F[n] = IF Settled(n) THEN slots[n] ELSE arg[Pusher[n]]
      BY SlotFacts DEF Slots
    <2>6. F[SIZE] = arg[t]
      BY SlotFacts
    <2> HIDE DEF F
    <2>7. \A n \in Slots : F[n] # arg[t]
      BY <1>1, <2>1, <2>2, <2>5 DEF IInv, OneOwner
    <2>8. ASSUME NEW m \in Slots, NEW n \in Slots, m # n
          PROVE  F[m] # F[n]
      BY <1>1, <2>2, <2>5, <2>8 DEF IInv, OneOwner
    <2>9. \A m, n \in 0..SIZE : m # n => F[m] # F[n]
      BY <2>3, <2>6, <2>7, <2>8
    <2>10. /\ IsFiniteSet(0..SIZE) /\ Cardinality(0..SIZE) = SIZE + 1
           /\ IsFiniteSet(Slots) /\ Cardinality(Slots) = SIZE
      BY SlotFacts, FS_Interval DEF Slots
    <2>11. Cardinality(Slots) < Cardinality(0..SIZE)
      BY <2>10, SlotFacts
    <2>12. \E m, n \in 0..SIZE : m # n /\ F[m] = F[n]
      <3> DEFINE S == 0..SIZE
      <3>1. IsFiniteSet(S) /\ IsFiniteSet(Slots) /\ Cardinality(Slots) < Cardinality(S)
        BY <2>10, <2>11
      <3>2. F \in [S -> Slots]
        BY <2>4
      <3> HIDE DEF S
      <3>3. \E m, n \in S : m # n /\ F[m] = F[n]
        BY <3>1, <3>2, FS_PigeonHole
      <3> QED
        BY <3>3 DEF S
    <2> QED
      BY <2>9, <2>12
  <1>2. IInv => PushHasRoom
    <2> SUFFICES ASSUME IInv, NEW t \in Threads, pc[t] = "push", seen[t] = SIZE
                 PROVE  FALSE
      BY DEF PushHasRoom
    <2>1. tail = SIZE
      BY SlotFacts DEF IInv, TypeOK, ClaimInv
    <2> QED
      BY <1>1, <2>1
  <1> QED
    BY <1>2, Invariance, PTL

(***************************************************************************)
(* Used in phases, no push beside a pop, the list is a pool of frames:     *)
(* what the page cache needs of it when it is modelled as a set.  With a   *)
(* pop beside a push it is not (MCFreeListMixed.cfg).                      *)
(***************************************************************************)
THEOREM FramePoolRefinement == Spec => RefinesFramePool
  <1>1. Init => FramePool!PoolInit
    <2> SUFFICES ASSUME Init PROVE FramePool!PoolInit
      OBVIOUS
    <2>1. \A t \in Threads : Owned[t] = {}
      BY OwnedFacts DEF Init, Popping
    <2>2. Owned = [t \in Threads |-> {}]
      BY <2>1 DEF Owned
    <2>3. \A n \in Slots : n < SIZE
      BY SlotFacts DEF Slots
    <2>4. Avail = Slots
      BY <2>3 DEF Init, Avail
    <2> QED
      BY <2>2, <2>4 DEF FramePool!PoolInit
  <1>2. IInv /\ [NextPhased]_vars => [FramePool!PoolNext]_(FramePool!poolVars)
    <2> SUFFICES ASSUME IInv, [NextPhased]_vars
                 PROVE  FramePool!PoolNext \/ UNCHANGED FramePool!poolVars
      OBVIOUS
    <2>1. CASE UNCHANGED vars
      BY <2>1 DEF vars, FramePool!poolVars, Avail, Owned
    <2>2. CASE NextPhased
      <3> PICK t \in Threads : \/ Continue(t)
                               \/ NoneIn(PushPcs) /\ PopLoad(t)
                               \/ NoneIn(PopPcs) /\ \E f \in Slots : PushLoad(t, f)
        BY <2>2 DEF NextPhased
      <3> QED
        BY QuietSteps, QuietPool, PopClaimPool, PushClaimPool, PushSlotPool DEF IInv, Continue
    <2> QED
      BY <2>1, <2>2
  <1> QED
    BY <1>1, <1>2, Invariance, PTL DEF Spec, RefinesFramePool, FramePool!PoolSpec
=============================================================================
