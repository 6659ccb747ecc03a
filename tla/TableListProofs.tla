--------------------------- MODULE TableListProofs ----------------------------
(***************************************************************************)
(* Proofs about TableList: whatever is inserted and however iterators      *)
(* interleave with it, a tuple reads back from its RId, no slot runs into  *)
(* a tuple, an iterator stays within the pages, and what it returns is a   *)
(* prefix of the inserts.                                                  *)
(*                                                                         *)
(* The invariant has four parts.  StoreInv says what a page holds and that *)
(* a page not handed out yet is empty, ChainInv that next_page_id leads    *)
(* from each page to the next larger one in use, LogInv that the RIds of   *)
(* the inserts are those of the slots, in order, and IterInv how far an    *)
(* iterator has got.                                                       *)
(***************************************************************************)
EXTENDS TableList, FiniteSetTheorems, TLAPS

-----------------------------------------------------------------------------
\* A node as insert() leaves it.
GoodNode(node) ==
    /\ node \in TableNodes
    /\ node.slots # <<>> => HEADER_SIZE + SLOT_SIZE * Len(node.slots) <= LastOffset(node)
    /\ \A a \in DOMAIN node.slots :
          /\ node.slots[a].len > 0
          /\ node.slots[a].offset + node.slots[a].len =
                IF a = 1 THEN PAGE_SIZE ELSE node.slots[a - 1].offset
          /\ LastOffset(node) <= node.slots[a].offset
          /\ node.slots[a].offset + node.slots[a].len <= PAGE_SIZE

\* The bytes of slot s are those of the k-th tuple, which has length len.
Holds(node, s, len, k) ==
    /\ s < Len(node.slots)
    /\ node.slots[s + 1].len = len
    /\ \A o \in Offsets :
          o >= node.slots[s + 1].offset /\ o < node.slots[s + 1].offset + len => node.cells[o] = k

Entry == [len : Nat, deleted : BOOLEAN, rid : RId]

IterState == [pc : {"idle", "open", "next", "got", "done", "panicked"}, r_id : RId, end : RId,
              item : Values \cup {Failed}, out : Seq(Values \cup {Failed}),
              before : Nat, goal : Nat]

StateType ==
    /\ last_page_id \in PageIds /\ next_page_id \in Nat /\ last_page_id < next_page_id
    /\ log \in Seq(Entry) /\ DOMAIN log \subseteq Values
    /\ it \in [Iters -> IterState]

StoreInv ==
    /\ nodes \in [PageIds -> TableNodes]
    /\ \A p \in PageIds : GoodNode(nodes[p])
    /\ \A p \in PageIds : p >= next_page_id => nodes[p] = EmptyNode

Linked(p) == nodes[p].next_page_id # 0
OnChain(p) == p = last_page_id \/ Linked(p)

ChainInv ==
    /\ OnChain(FirstPage) /\ ~Linked(last_page_id)
    /\ \A p \in PageIds : OnChain(p) => FirstPage <= p /\ p <= last_page_id
    /\ \A p \in PageIds : Linked(p) =>
          /\ nodes[p].slots # <<>>
          /\ nodes[p].next_page_id \in PageIds /\ p < nodes[p].next_page_id
          /\ OnChain(nodes[p].next_page_id)
          /\ \A q \in PageIds : OnChain(q) /\ p < q => nodes[p].next_page_id <= q

\* The order of iteration.
Precedes(r, s) == r.page_id < s.page_id \/ (r.page_id = s.page_id /\ r.slot_id < s.slot_id)

LogInv ==
    /\ \A k \in DOMAIN log :
          /\ OnChain(log[k].rid.page_id)
          /\ Holds(nodes[log[k].rid.page_id], log[k].rid.slot_id, log[k].len, k)
    /\ \A j, k \in DOMAIN log : j < k => Precedes(log[j].rid, log[k].rid)
    /\ \A p \in PageIds : \A s \in 0..(Len(nodes[p].slots) - 1) :
          \E k \in DOMAIN log : log[k].rid.page_id = p /\ log[k].rid.slot_id = s

\* The first n inserts are those before r.
Position(r, n) ==
    /\ n \in 0..Len(log)
    /\ \A k \in DOMAIN log : k <= n <=> Precedes(log[k].rid, r)

\* out has the first n inserts, in order, save those an error stands for.
OutInv(out, n) ==
    /\ n <= Len(out)
    /\ \A a \in DOMAIN out : out[a] # Failed => out[a] \in 1..n
    /\ \A a, b \in DOMAIN out : a < b /\ out[a] # Failed /\ out[b] # Failed => out[a] < out[b]
    /\ (\A a \in DOMAIN out : out[a] # Failed) => Len(out) = n

\* iter() has read last_page_id.
OpenInv(i) ==
    /\ i.r_id.page_id = FirstPage /\ i.r_id.slot_id = 0
    /\ i.out = <<>>
    /\ OnChain(i.end.page_id)
    /\ i.before <= Len(log)
    /\ \A k \in DOMAIN log : k <= i.before => log[k].rid.page_id <= i.end.page_id

\* next() may be called, or is between its two looks at the page.
WalkInv(i) ==
    /\ OnChain(i.r_id.page_id) /\ OnChain(i.end.page_id)
    /\ i.end.slot_id <= Len(nodes[i.end.page_id].slots)
    /\ i.r_id.page_id <= i.end.page_id
    /\ i.r_id.page_id = i.end.page_id => i.r_id.slot_id <= i.end.slot_id
    /\ i.r_id.page_id < i.end.page_id => i.r_id.slot_id < Len(nodes[i.r_id.page_id].slots)
    /\ i.pc = "got" => i.r_id # i.end
    /\ i.before <= i.goal
    /\ Position(i.end, i.goal)
    /\ \E n \in 0..Len(log) : /\ Position(i.r_id, n)
                              /\ OutInv(i.out, n)
                              /\ i.pc = "got" => i.item \in {Failed, n + 1}

IterInv ==
    \A t \in Iters :
        /\ it[t].pc = "open" => OpenInv(it[t])
        /\ it[t].pc \in {"next", "got"} => WalkInv(it[t])
        /\ it[t].pc = "done" => it[t].before <= it[t].goal /\ OutInv(it[t].out, it[t].goal)

IInv == StateType /\ StoreInv /\ ChainInv /\ LogInv /\ IterInv

-----------------------------------------------------------------------------
(***************************************************************************)
(* What reading and writing a node does to it.                             *)
(***************************************************************************)
\* Reading a node changes nothing but the deleted flags.
LEMMA DecodedFacts ==
  ASSUME NEW node \in TableNodes
  PROVE  /\ Decoded(node) \in TableNodes
         /\ Decoded(node).next_page_id = node.next_page_id
         /\ Decoded(node).cells = node.cells
         /\ Len(Decoded(node).slots) = Len(node.slots)
         /\ \A a \in DOMAIN node.slots :
               /\ Decoded(node).slots[a].offset = node.slots[a].offset
               /\ Decoded(node).slots[a].len = node.slots[a].len
  <1> DEFINE new == [a \in DOMAIN node.slots |-> [node.slots[a] EXCEPT !.deleted = FALSE]]
  <1>1. node.slots \in Seq(Slot) /\ node.next_page_id \in Nat
        /\ node.cells \in [Offsets -> Values \cup {Blanked}]
    BY DEF TableNodes
  <1>2. DOMAIN node.slots = 1..Len(node.slots) /\ Len(node.slots) \in Nat
    BY <1>1
  <1>3. ASSUME NEW a \in DOMAIN node.slots
        PROVE  /\ new[a] \in Slot
               /\ new[a].offset = node.slots[a].offset /\ new[a].len = node.slots[a].len
    <2>1. node.slots[a] \in Slot
      BY <1>1
    <2> QED
      BY <2>1 DEF Slot
  <1>4. new \in Seq(Slot) /\ Len(new) = Len(node.slots)
    <2>1. new \in [1..Len(node.slots) -> Slot]
      BY <1>2, <1>3
    <2> HIDE DEF new
    <2> QED
      BY <1>2, <2>1
  <1>5. Decoded(node) = [node EXCEPT !.slots = new]
    BY DEF Decoded
  <1> HIDE DEF new
  <1>6. Decoded(node).slots = new /\ Decoded(node).next_page_id = node.next_page_id
        /\ Decoded(node).cells = node.cells /\ Decoded(node) \in TableNodes
    BY <1>1, <1>4, <1>5 DEF TableNodes
  <1> QED
    BY <1>3, <1>4, <1>6

\* Writing a node keeps the bytes from the last tuple up.
LEMMA EncodedFacts ==
  ASSUME NEW node \in TableNodes
  PROVE  /\ Encoded(node) \in TableNodes
         /\ Encoded(node).next_page_id = node.next_page_id
         /\ Encoded(node).slots = node.slots
         /\ \A o \in Offsets : o >= LastOffset(node) => Encoded(node).cells[o] = node.cells[o]
  <1> DEFINE new == [o \in Offsets |-> IF o >= LastOffset(node) THEN node.cells[o] ELSE Blanked]
  <1>1. node.slots \in Seq(Slot) /\ node.next_page_id \in Nat
        /\ node.cells \in [Offsets -> Values \cup {Blanked}]
    BY DEF TableNodes
  <1>2. new \in [Offsets -> Values \cup {Blanked}]
    BY <1>1
  <1>3. Encoded(node) = [node EXCEPT !.cells = new]
    BY DEF Encoded
  <1>4. \A o \in Offsets : o >= LastOffset(node) => new[o] = node.cells[o]
    OBVIOUS
  <1> HIDE DEF new
  <1> QED
    BY <1>1, <1>2, <1>3, <1>4 DEF TableNodes

LEMMA GoodOffsets ==
  ASSUME NEW node, GoodNode(node)
  PROVE  /\ node \in TableNodes /\ node.slots \in Seq(Slot) /\ node.next_page_id \in Nat
         /\ node.cells \in [Offsets -> Values \cup {Blanked}]
         /\ Len(node.slots) \in Nat /\ DOMAIN node.slots = 1..Len(node.slots)
         /\ \A a \in DOMAIN node.slots : node.slots[a].offset \in Nat /\ node.slots[a].len \in Nat
         /\ LastOffset(node) \in 0..PAGE_SIZE
  <1>1. node \in TableNodes /\ node.slots \in Seq(Slot) /\ node.next_page_id \in Nat
        /\ node.cells \in [Offsets -> Values \cup {Blanked}]
    BY DEF GoodNode, TableNodes
  <1>2. Len(node.slots) \in Nat /\ DOMAIN node.slots = 1..Len(node.slots)
    BY <1>1
  <1>3. ASSUME NEW a \in DOMAIN node.slots
        PROVE  node.slots[a].offset \in Nat /\ node.slots[a].len \in Nat
    <2>1. node.slots[a] \in Slot
      BY <1>1
    <2> QED
      BY <2>1 DEF Slot
  <1>4. CASE node.slots = <<>>
    <2>1. LastOffset(node) = PAGE_SIZE
      BY <1>4 DEF LastOffset
    <2> QED
      BY <1>1, <1>2, <1>3, <2>1, SizesAssumption
  <1>5. CASE node.slots # <<>>
    <2>1. Len(node.slots) \in DOMAIN node.slots
      BY <1>1, <1>2, <1>5
    <2>2. LastOffset(node) = node.slots[Len(node.slots)].offset
      BY <1>5 DEF LastOffset
    <2>3. node.slots[Len(node.slots)].offset + node.slots[Len(node.slots)].len <= PAGE_SIZE
      BY <2>1 DEF GoodNode
    <2> QED
      BY <1>1, <1>2, <1>3, <2>1, <2>2, <2>3, SizesAssumption
  <1> QED
    BY <1>4, <1>5

\* Only the offsets and lengths of its slots make a node good.
LEMMA SameOffsets ==
  ASSUME NEW node, GoodNode(node),
         NEW m \in TableNodes, Len(m.slots) = Len(node.slots),
         \A a \in DOMAIN node.slots : /\ m.slots[a].offset = node.slots[a].offset
                                      /\ m.slots[a].len = node.slots[a].len
  PROVE  GoodNode(m) /\ LastOffset(m) = LastOffset(node)
  <1>1. m.slots \in Seq(Slot) /\ DOMAIN m.slots = DOMAIN node.slots
        /\ (m.slots = <<>> <=> node.slots = <<>>)
    <2>1. m.slots \in Seq(Slot)
      BY DEF TableNodes
    <2> QED
      BY <2>1, GoodOffsets
  <1>2. LastOffset(m) = LastOffset(node)
    <2>1. node.slots # <<>> => Len(node.slots) \in DOMAIN node.slots
      BY GoodOffsets
    <2> QED
      BY <1>1, <2>1 DEF LastOffset
  <1>3. ASSUME NEW a \in DOMAIN m.slots, a # 1 PROVE a - 1 \in DOMAIN node.slots
    BY <1>1, <1>3, GoodOffsets
  <1> QED
    BY <1>1, <1>2, <1>3 DEF GoodNode

LEMMA EmptyIsGood == GoodNode(EmptyNode) /\ LastOffset(EmptyNode) = PAGE_SIZE
                     /\ EmptyNode.slots = <<>> /\ EmptyNode.next_page_id = 0
  <1>1. EmptyNode.slots = <<>> /\ EmptyNode.next_page_id = 0
    BY DEF EmptyNode
  <1>2. EmptyNode \in TableNodes
    BY DEF EmptyNode, TableNodes
  <1>3. DOMAIN EmptyNode.slots = {}
    BY <1>1
  <1> QED
    BY <1>1, <1>2, <1>3 DEF GoodNode, LastOffset

(***************************************************************************)
(* insert() on a node with room: the tuples of the node stay as they are,  *)
(* the new one is below them, and above the slots.                         *)
(***************************************************************************)
LEMMA InsertFacts ==
  ASSUME NEW node, GoodNode(node), NEW v \in Values, NEW len \in Nat \ {0},
         NEW deleted \in BOOLEAN, HasRoom(node, len)
  PROVE  LET new == NodeInsert(node, v, len, deleted) IN
         /\ GoodNode(new)
         /\ new.next_page_id = node.next_page_id
         /\ Len(new.slots) = Len(node.slots) + 1
         /\ \A a \in DOMAIN node.slots : /\ new.slots[a].offset = node.slots[a].offset
                                         /\ new.slots[a].len = node.slots[a].len
         /\ \A o \in Offsets : o >= LastOffset(node) => new.cells[o] = node.cells[o]
         /\ Holds(new, Len(node.slots), len, v)
  <1> DEFINE offset == LastOffset(node) - len
             slot == [offset |-> offset, len |-> len, deleted |-> deleted]
             slots == Append(Decoded(node).slots, slot)
             cells == [o \in Offsets |->
                          IF o \in offset..(offset + len - 1) THEN v ELSE node.cells[o]]
             raw == [next_page_id |-> node.next_page_id, slots |-> slots, cells |-> cells]
             new == NodeInsert(node, v, len, deleted)
             L == Len(node.slots)
  <1>1. node \in TableNodes /\ L \in Nat /\ DOMAIN node.slots = 1..L
        /\ node.next_page_id \in Nat /\ LastOffset(node) \in 0..PAGE_SIZE
        /\ node.cells \in [Offsets -> Values \cup {Blanked}]
    BY GoodOffsets
  <1>2. PAGE_SIZE \in Nat /\ HEADER_SIZE \in Nat /\ SLOT_SIZE \in Nat
    BY SizesAssumption
  <1>3. offset \in Nat /\ offset < PAGE_SIZE /\ offset + len = LastOffset(node)
        /\ offset >= HEADER_SIZE + SLOT_SIZE * (L + 1)
    BY <1>1, <1>2 DEF HasRoom, OffsetOverflows
  <1>4. new = Encoded(raw)
    BY DEF NodeInsert
  <1>5. slot \in Slot /\ slot.offset = offset /\ slot.len = len
    BY <1>3 DEF Slot
  <1> HIDE DEF slot
  <1>6. Decoded(node).slots \in Seq(Slot) /\ Len(Decoded(node).slots) = L
    BY <1>1, DecodedFacts DEF TableNodes
  <1>7. slots \in Seq(Slot) /\ Len(slots) = L + 1 /\ slots[L + 1] = slot
        /\ \A a \in 1..L : slots[a] = Decoded(node).slots[a]
    BY <1>1, <1>5, <1>6
  <1>8. \A a \in 1..L : /\ slots[a].offset = node.slots[a].offset
                        /\ slots[a].len = node.slots[a].len
    BY <1>1, <1>7, DecodedFacts
  <1> HIDE DEF slots
  <1>9. cells \in [Offsets -> Values \cup {Blanked}]
        /\ (\A o \in Offsets : o >= LastOffset(node) => cells[o] = node.cells[o])
        /\ (\A o \in Offsets : o >= offset /\ o < offset + len => cells[o] = v)
    <2>1. Offsets \subseteq Nat
      BY DEF Offsets
    <2> HIDE DEF offset
    <2> QED
      BY <1>1, <1>3, <2>1
  <1> HIDE DEF cells
  <1>10. raw \in TableNodes /\ raw.slots = slots /\ raw.cells = cells
         /\ raw.next_page_id = node.next_page_id
    BY <1>1, <1>7, <1>9 DEF TableNodes
  <1>11. DOMAIN slots = 1..(L + 1) /\ slots # <<>>
    BY <1>1, <1>7
  <1>12. LastOffset(raw) = offset
    BY <1>5, <1>7, <1>10, <1>11 DEF LastOffset
  <1> HIDE DEF raw, new
  <1>13. new \in TableNodes /\ new.next_page_id = node.next_page_id /\ new.slots = slots
         /\ \A o \in Offsets : o >= offset => new.cells[o] = cells[o]
    BY <1>4, <1>10, <1>12, EncodedFacts
  <1>14. LastOffset(new) = offset
    BY <1>5, <1>7, <1>11, <1>13 DEF LastOffset
  <1>15. ASSUME NEW a \in DOMAIN new.slots
         PROVE  /\ new.slots[a].len > 0
                /\ new.slots[a].offset + new.slots[a].len =
                      IF a = 1 THEN PAGE_SIZE ELSE new.slots[a - 1].offset
                /\ offset <= new.slots[a].offset
                /\ new.slots[a].offset + new.slots[a].len <= PAGE_SIZE
    <2>1. CASE a = L + 1
      <3>1. new.slots[a].offset = offset /\ new.slots[a].len = len
        BY <1>5, <1>7, <1>13, <2>1
      <3>2. CASE L = 0
        <4>1. LastOffset(node) = PAGE_SIZE
          BY <1>1, <3>2, GoodOffsets DEF LastOffset
        <4> HIDE DEF offset
        <4> QED
          BY <1>1, <1>2, <1>3, <2>1, <3>1, <3>2, <4>1
      <3>3. CASE L # 0
        <4>1. L \in 1..L /\ a - 1 = L /\ a # 1 /\ node.slots # <<>>
          BY <1>1, <2>1, <3>3
        <4>2. LastOffset(node) = new.slots[a - 1].offset
          BY <1>8, <1>13, <4>1 DEF LastOffset
        <4> HIDE DEF offset
        <4> QED
          BY <1>1, <1>2, <1>3, <3>1, <4>1, <4>2
      <3> QED
        BY <3>2, <3>3
    <2>2. CASE a # L + 1
      <3>1. a \in 1..L /\ (a # 1 => a - 1 \in 1..L)
        BY <1>1, <1>11, <1>13, <2>2
      <3>2. /\ node.slots[a].len > 0
            /\ node.slots[a].offset + node.slots[a].len =
                  IF a = 1 THEN PAGE_SIZE ELSE node.slots[a - 1].offset
            /\ LastOffset(node) <= node.slots[a].offset
            /\ node.slots[a].offset + node.slots[a].len <= PAGE_SIZE
        BY <1>1, <3>1 DEF GoodNode
      <3>3. node.slots[a].offset \in Nat /\ node.slots[a].len \in Nat
        BY <1>1, <3>1, GoodOffsets
      <3>4. offset <= node.slots[a].offset
        <4> HIDE DEF offset
        <4> QED
          BY <1>1, <1>3, <3>2, <3>3
      <3> QED
        BY <1>8, <1>13, <3>1, <3>2, <3>4
    <2> QED
      BY <2>1, <2>2
  <1>16. HEADER_SIZE + SLOT_SIZE * Len(new.slots) <= LastOffset(new)
    <2>1. Len(new.slots) = L + 1
      BY <1>7, <1>13
    <2>2. SLOT_SIZE * (L + 1) \in Nat
      BY <1>1, <1>2
    <2> HIDE DEF offset, L
    <2> QED
      BY <1>2, <1>3, <1>14, <2>1, <2>2
  <1>17. GoodNode(new)
    BY <1>13, <1>14, <1>15, <1>16 DEF GoodNode
  <1>18. Holds(new, L, len, v)
    <2>1. new.slots[L + 1].offset = offset /\ new.slots[L + 1].len = len /\ Len(new.slots) = L + 1
      BY <1>5, <1>7, <1>13
    <2>2. \A o \in Offsets : o >= offset /\ o < offset + len => new.cells[o] = v
      BY <1>9, <1>13
    <2> HIDE DEF offset
    <2> QED
      BY <1>1, <2>1, <2>2 DEF Holds
  <1>19. \A o \in Offsets : o >= LastOffset(node) => new.cells[o] = node.cells[o]
    <2>1. Offsets \subseteq Nat
      BY DEF Offsets
    <2> HIDE DEF offset
    <2>2. \A o \in Offsets : o >= LastOffset(node) => o >= offset
      BY <1>1, <1>3, <2>1
    <2> QED
      BY <1>9, <1>13, <2>2
  <1> QED
    BY <1>1, <1>7, <1>8, <1>13, <1>17, <1>18, <1>19 DEF new

\* Linking a page to the next one keeps its tuples.
LEMMA LinkFacts ==
  ASSUME NEW node, GoodNode(node), NEW q \in Nat
  PROVE  LET new == Encoded([Decoded(node) EXCEPT !.next_page_id = q]) IN
         /\ GoodNode(new)
         /\ new.next_page_id = q
         /\ Len(new.slots) = Len(node.slots)
         /\ \A a \in DOMAIN node.slots : /\ new.slots[a].offset = node.slots[a].offset
                                         /\ new.slots[a].len = node.slots[a].len
         /\ \A o \in Offsets : o >= LastOffset(node) => new.cells[o] = node.cells[o]
  <1> DEFINE raw == [Decoded(node) EXCEPT !.next_page_id = q]
             new == Encoded(raw)
  <1>1. node \in TableNodes
    BY GoodOffsets
  <1>2. Decoded(node) \in TableNodes
    BY <1>1, DecodedFacts
  <1>3. raw \in TableNodes /\ raw.next_page_id = q /\ raw.slots = Decoded(node).slots
        /\ raw.cells = Decoded(node).cells
    BY <1>2 DEF TableNodes
  <1> HIDE DEF raw
  <1>4. /\ new \in TableNodes /\ new.next_page_id = q
        /\ Len(new.slots) = Len(node.slots)
        /\ \A a \in DOMAIN node.slots : /\ new.slots[a].offset = node.slots[a].offset
                                        /\ new.slots[a].len = node.slots[a].len
    BY <1>1, <1>3, DecodedFacts, EncodedFacts
  <1>5. /\ Len(raw.slots) = Len(node.slots)
        /\ \A a \in DOMAIN node.slots : /\ raw.slots[a].offset = node.slots[a].offset
                                        /\ raw.slots[a].len = node.slots[a].len
    BY <1>1, <1>3, DecodedFacts
  <1>6. LastOffset(raw) = LastOffset(node)
    BY <1>3, <1>5, SameOffsets
  <1>7. \A o \in Offsets : o >= LastOffset(node) => new.cells[o] = node.cells[o]
    BY <1>1, <1>3, <1>6, DecodedFacts, EncodedFacts
  <1>8. GoodNode(new)
    BY <1>4, SameOffsets
  <1> HIDE DEF new
  <1> QED
    BY <1>4, <1>7, <1>8 DEF new, raw

\* Keeping offsets, lengths and the bytes of the tuples keeps what slots hold.
LEMMA HoldsStays ==
  ASSUME NEW node, GoodNode(node), NEW m, Len(m.slots) \in Nat, Len(m.slots) >= Len(node.slots),
         \A a \in DOMAIN node.slots : /\ m.slots[a].offset = node.slots[a].offset
                                      /\ m.slots[a].len = node.slots[a].len,
         \A o \in Offsets : o >= LastOffset(node) => m.cells[o] = node.cells[o],
         NEW s \in Nat, NEW len \in Nat, NEW k, Holds(node, s, len, k)
  PROVE  Holds(m, s, len, k)
  <1>1. s + 1 \in DOMAIN node.slots /\ s < Len(m.slots)
    BY GoodOffsets DEF Holds
  <1>2. LastOffset(node) <= node.slots[s + 1].offset /\ node.slots[s + 1].offset \in Nat
        /\ LastOffset(node) \in Nat
    BY <1>1, GoodOffsets, SizesAssumption DEF GoodNode
  <1>3. ASSUME NEW o \in Offsets, o >= node.slots[s + 1].offset PROVE m.cells[o] = node.cells[o]
    <2>1. o \in Nat
      BY DEF Offsets
    <2> QED
      BY <1>2, <1>3, <2>1
  <1> QED
    BY <1>1, <1>3 DEF Holds

-----------------------------------------------------------------------------
(***************************************************************************)
(* The log, the positions in it and what an iterator has returned.         *)
(***************************************************************************)
LEMMA UptoFinite ==
  ASSUME NEW n \in Nat
  PROVE  IsFiniteSet(1..n) /\ Cardinality(1..n) = n
  <1>1. 1 \in Int /\ n \in Int /\ (1 > n => n = 0)
    OBVIOUS
  <1>2. IsFiniteSet(1..n) /\ Cardinality(1..n) = IF 1 > n THEN 0 ELSE n - 1 + 1
    BY <1>1, FS_Interval
  <1> QED
    BY <1>1, <1>2

LEMMA LogTypes ==
  ASSUME StateType
  PROVE  /\ Len(log) \in Nat /\ DOMAIN log = 1..Len(log)
         /\ \A k \in DOMAIN log :
               /\ log[k] \in Entry /\ log[k].len \in Nat /\ log[k].rid \in RId
               /\ log[k].rid.page_id \in PageIds /\ log[k].rid.page_id \in Nat
               /\ log[k].rid.slot_id \in Nat
  <1>1. log \in Seq(Entry)
    BY DEF StateType
  <1>2. ASSUME NEW k \in DOMAIN log
        PROVE  /\ log[k] \in Entry /\ log[k].len \in Nat /\ log[k].rid \in RId
               /\ log[k].rid.page_id \in PageIds /\ log[k].rid.slot_id \in Nat
    <2>1. log[k] \in Entry
      BY <1>1
    <2>2. log[k].rid \in RId /\ log[k].len \in Nat
      BY <2>1 DEF Entry
    <2> QED
      BY <2>1, <2>2 DEF RId
  <1>3. Len(log) \in Nat /\ DOMAIN log = 1..Len(log)
    BY <1>1
  <1> QED
    BY <1>2, <1>3, TablePagesAssumption

(***************************************************************************)
(* The inserts on pages up to P are the first ones of the log: a set of    *)
(* numbers from 1 that has no gap has as many members as its largest one.  *)
(***************************************************************************)
LEMMA CountIsPrefix ==
  ASSUME StateType, LogInv, NEW P \in Nat
  PROVE  /\ CountUpTo(P) \in 0..Len(log)
         /\ \A k \in DOMAIN log : k <= CountUpTo(P) <=> log[k].rid.page_id <= P
  <1> DEFINE S == {k \in DOMAIN log : log[k].rid.page_id <= P}
             c == Cardinality(S)
  <1>1. Len(log) \in Nat /\ DOMAIN log = 1..Len(log)
    BY LogTypes
  <1>2. S \subseteq 1..Len(log)
    BY <1>1
  <1>3. IsFiniteSet(1..Len(log)) /\ Cardinality(1..Len(log)) = Len(log)
    BY <1>1, UptoFinite
  <1>4. IsFiniteSet(S) /\ c \in Nat /\ c <= Len(log)
    <2> HIDE DEF S
    <2>1. IsFiniteSet(S) /\ Cardinality(S) <= Cardinality(1..Len(log))
      BY <1>2, <1>3, FS_Subset
    <2>2. Cardinality(S) \in Nat
      BY <2>1, FS_CardinalityType
    <2> QED
      BY <1>3, <2>1, <2>2
  <1>5. ASSUME NEW j \in DOMAIN log, NEW k \in S, j < k PROVE j \in S
    <2>1. Precedes(log[j].rid, log[k].rid)
      BY <1>5 DEF LogInv
    <2>2. log[j].rid.page_id \in Nat /\ log[k].rid.page_id \in Nat
      BY LogTypes
    <2> QED
      BY <2>1, <2>2 DEF Precedes
  <1>6. ASSUME NEW k \in S PROVE k <= c
    <2>1. k \in 1..Len(log) /\ 1..k \subseteq S
      BY <1>1, <1>2, <1>5
    <2>2. IsFiniteSet(1..k) /\ Cardinality(1..k) = k
      BY <1>1, <2>1, UptoFinite
    <2> HIDE DEF S
    <2>3. Cardinality(1..k) <= Cardinality(S)
      BY <1>4, <2>1, FS_Subset
    <2> QED
      BY <2>2, <2>3
  <1>7. ASSUME NEW k \in DOMAIN log, k \notin S PROVE c < k
    <2>1. k \in 1..Len(log) /\ S \subseteq 1..(k - 1)
      BY <1>1, <1>2, <1>5, <1>7
    <2>2. IsFiniteSet(1..(k - 1)) /\ Cardinality(1..(k - 1)) = k - 1
      <3>1. k - 1 \in Nat
        BY <1>1, <2>1
      <3> QED
        BY <3>1, UptoFinite
    <2> HIDE DEF S
    <2>3. Cardinality(S) <= Cardinality(1..(k - 1))
      BY <2>1, <2>2, FS_Subset
    <2> QED
      BY <1>1, <1>4, <2>1, <2>2, <2>3
  <1>8. CountUpTo(P) = c
    BY DEF CountUpTo
  <1>9. ASSUME NEW k \in DOMAIN log PROVE k <= c <=> log[k].rid.page_id <= P
    <2>1. k \in S <=> log[k].rid.page_id <= P
      OBVIOUS
    <2> HIDE DEF S
    <2> QED
      BY <1>1, <1>4, <1>6, <1>7, <2>1
  <1> HIDE DEF c
  <1> QED
    BY <1>1, <1>4, <1>8, <1>9

\* The tuple at a position with n inserts before it is that of insert n + 1.
LEMMA EntryAt ==
  ASSUME StateType, StoreInv, LogInv, NEW r \in RId, NEW n, Position(r, n),
         r.slot_id < Len(nodes[r.page_id].slots)
  PROVE  n + 1 \in DOMAIN log /\ log[n + 1].rid = r
  <1>1. r.page_id \in PageIds /\ r.slot_id \in Nat /\ r.page_id \in Nat
    BY TablePagesAssumption DEF RId
  <1>2. GoodNode(nodes[r.page_id]) /\ Len(nodes[r.page_id].slots) \in Nat
    BY <1>1, GoodOffsets DEF StoreInv
  <1>3. PICK k \in DOMAIN log : log[k].rid.page_id = r.page_id /\ log[k].rid.slot_id = r.slot_id
    BY <1>1, <1>2 DEF LogInv
  <1>4. log[k].rid = r
    BY <1>3, LogTypes DEF RId
  <1>5. Len(log) \in Nat /\ DOMAIN log = 1..Len(log) /\ n \in 0..Len(log)
    BY LogTypes DEF Position
  <1>6. ~(k <= n)
    BY <1>1, <1>4 DEF Position, Precedes
  <1>7. n + 1 \in DOMAIN log
    BY <1>5, <1>6
  <1>8. ~(n + 1 < k)
    <2>1. n + 1 < k => Precedes(log[n + 1].rid, r)
      BY <1>4, <1>7 DEF LogInv
    <2>2. Precedes(log[n + 1].rid, r) => n + 1 <= n
      BY <1>7 DEF Position
    <2> QED
      BY <1>5, <2>1, <2>2
  <1>9. n + 1 = k
    BY <1>5, <1>6, <1>8
  <1> QED
    BY <1>4, <1>7, <1>9

\* The same position has the same inserts before it.
LEMMA PositionUnique ==
  ASSUME StateType, NEW r, NEW n, NEW m, Position(r, n), Position(r, m)
  PROVE  n = m
  <1>1. Len(log) \in Nat /\ DOMAIN log = 1..Len(log) /\ n \in 0..Len(log) /\ m \in 0..Len(log)
    BY LogTypes DEF Position
  <1>2. \A k \in 1..Len(log) : k <= n <=> k <= m
    BY <1>1 DEF Position
  <1>3. ~(n < m)
    BY <1>1, <1>2
  <1>4. ~(m < n)
    BY <1>1, <1>2
  <1> QED
    BY <1>1, <1>3, <1>4

\* The next tuple, or an error in its place, is returned.
LEMMA OutAdvances ==
  ASSUME NEW n \in Nat, NEW out \in Seq(Values \cup {Failed}), OutInv(out, n),
         NEW x \in Values \cup {Failed}, x \in {Failed, n + 1}
  PROVE  OutInv(Append(out, x), n + 1)
  <1> DEFINE new == Append(out, x)
  <1>1. Len(out) \in Nat /\ DOMAIN out = 1..Len(out)
    OBVIOUS
  <1>2. Len(new) = Len(out) + 1 /\ DOMAIN new = 1..(Len(out) + 1) /\ new[Len(out) + 1] = x
        /\ \A a \in DOMAIN out : new[a] = out[a]
    OBVIOUS
  <1> HIDE DEF new
  <1>3. n + 1 <= Len(new)
    <2>1. n <= Len(out)
      BY DEF OutInv
    <2> QED
      BY <1>1, <1>2, <2>1
  <1>4. ASSUME NEW a \in DOMAIN new, new[a] # Failed PROVE new[a] \in 1..(n + 1)
    <2>1. a \in DOMAIN out \/ new[a] = x
      BY <1>1, <1>2
    <2>2. a \in DOMAIN out => new[a] \in 1..n
      BY <1>2, <1>4 DEF OutInv
    <2> QED
      BY <1>4, <2>1, <2>2
  <1>5. ASSUME NEW a \in DOMAIN new, NEW b \in DOMAIN new, a < b,
               new[a] # Failed, new[b] # Failed
        PROVE  new[a] < new[b]
    <2>1. a \in DOMAIN out /\ (b \in DOMAIN out \/ b = Len(out) + 1)
      BY <1>1, <1>2, <1>5
    <2>2. new[a] \in 1..n
      BY <1>2, <1>5, <2>1 DEF OutInv
    <2>3. CASE b \in DOMAIN out
      BY <1>2, <1>5, <2>1, <2>3 DEF OutInv
    <2>4. CASE b = Len(out) + 1
      BY <1>2, <1>5, <2>2, <2>4
    <2> QED
      BY <2>1, <2>3, <2>4
  <1>6. ASSUME \A a \in DOMAIN new : new[a] # Failed PROVE Len(new) = n + 1
    <2>1. \A a \in DOMAIN out : out[a] # Failed
      BY <1>1, <1>2, <1>6
    <2> QED
      BY <1>2, <2>1 DEF OutInv
  <1> QED
    BY <1>3, <1>4, <1>5, <1>6 DEF OutInv, new

\* An error is returned and the position stays.
LEMMA OutFails ==
  ASSUME NEW n \in Nat, NEW out \in Seq(Values \cup {Failed}), OutInv(out, n)
  PROVE  OutInv(Append(out, Failed), n)
  <1> DEFINE new == Append(out, Failed)
  <1>1. Len(out) \in Nat /\ DOMAIN out = 1..Len(out)
    OBVIOUS
  <1>2. Len(new) = Len(out) + 1 /\ DOMAIN new = 1..(Len(out) + 1)
        /\ new[Len(out) + 1] = Failed /\ Len(out) + 1 \in DOMAIN new
        /\ \A a \in DOMAIN out : new[a] = out[a]
    OBVIOUS
  <1> HIDE DEF new
  <1>3. \A a \in DOMAIN new : new[a] # Failed => a \in DOMAIN out
    BY <1>1, <1>2
  <1>4. n <= Len(new)
    <2>1. n <= Len(out)
      BY DEF OutInv
    <2> QED
      BY <1>1, <1>2, <2>1
  <1>5. ~\A a \in DOMAIN new : new[a] # Failed
    BY <1>2
  <1> QED
    BY <1>2, <1>3, <1>4, <1>5 DEF OutInv, new

-----------------------------------------------------------------------------
(***************************************************************************)
(* What an insert may do, and that it leaves iterators where they are: the *)
(* slots and the pages it adds are behind every position they can be at.   *)
(***************************************************************************)
Grows ==
    /\ \A p \in PageIds : OnChain(p) => OnChain(p)'
    /\ \A p \in PageIds : Len(nodes'[p].slots) \in Nat
                          /\ Len(nodes[p].slots) <= Len(nodes'[p].slots)
    /\ Len(log) <= Len(log')
    /\ \A k \in DOMAIN log : k \in DOMAIN log' /\ log'[k] = log[k]
    /\ \A k \in DOMAIN log' \ DOMAIN log :
          \/ last_page_id < log'[k].rid.page_id
          \/ /\ log'[k].rid.page_id = last_page_id
             /\ Len(nodes[last_page_id].slots) <= log'[k].rid.slot_id

LEMMA LogTypesNext ==
  ASSUME StateType'
  PROVE  /\ Len(log') \in Nat /\ DOMAIN log' = 1..Len(log')
         /\ \A k \in DOMAIN log' :
               /\ log'[k] \in Entry /\ log'[k].len \in Nat /\ log'[k].rid \in RId
               /\ log'[k].rid.page_id \in PageIds /\ log'[k].rid.page_id \in Nat
               /\ log'[k].rid.slot_id \in Nat
  <1>1. log' \in Seq(Entry)
    BY DEF StateType
  <1>2. ASSUME NEW k \in DOMAIN log'
        PROVE  /\ log'[k] \in Entry /\ log'[k].len \in Nat /\ log'[k].rid \in RId
               /\ log'[k].rid.page_id \in PageIds /\ log'[k].rid.slot_id \in Nat
    <2>1. log'[k] \in Entry
      BY <1>1
    <2>2. log'[k].rid \in RId /\ log'[k].len \in Nat
      BY <2>1 DEF Entry
    <2> QED
      BY <2>1, <2>2 DEF RId
  <1>3. Len(log') \in Nat /\ DOMAIN log' = 1..Len(log')
    BY <1>1
  <1> QED
    BY <1>2, <1>3, TablePagesAssumption

LEMMA PageTypes ==
  ASSUME StateType, StoreInv, NEW p \in PageIds
  PROVE  p \in Nat /\ last_page_id \in PageIds /\ last_page_id \in Nat
         /\ GoodNode(nodes[p]) /\ Len(nodes[p].slots) \in Nat
  BY TablePagesAssumption, GoodOffsets DEF StateType, StoreInv

LEMMA PositionStays ==
  ASSUME IInv, StateType', Grows, NEW r \in RId, NEW n, Position(r, n),
         OnChain(r.page_id),
         r.page_id = last_page_id => r.slot_id <= Len(nodes[last_page_id].slots)
  PROVE  Position(r, n)'
  <1> USE DEF IInv
  <1>1. r.page_id \in PageIds /\ r.page_id \in Nat /\ r.slot_id \in Nat
    BY TablePagesAssumption DEF RId
  <1>2. r.page_id <= last_page_id
    BY <1>1 DEF ChainInv
  <1>3. n \in 0..Len(log) /\ n \in 0..Len(log')
    BY LogTypes, LogTypesNext DEF Position, Grows
  <1>4. ASSUME NEW k \in DOMAIN log' PROVE k <= n <=> Precedes(log'[k].rid, r)
    <2>1. CASE k \in DOMAIN log
      BY <2>1 DEF Position, Grows
    <2>2. CASE k \notin DOMAIN log
      <3>1. ~(k <= n)
        BY <1>3, <2>2, LogTypes, LogTypesNext
      <3>2. last_page_id \in Nat /\ Len(nodes[last_page_id].slots) \in Nat
        BY <1>1, PageTypes
      <3>3. log'[k].rid.page_id \in Nat /\ log'[k].rid.slot_id \in Nat
        BY LogTypesNext
      <3>4. \/ last_page_id < log'[k].rid.page_id
            \/ /\ log'[k].rid.page_id = last_page_id
               /\ Len(nodes[last_page_id].slots) <= log'[k].rid.slot_id
        BY <2>2 DEF Grows
      <3>5. ~Precedes(log'[k].rid, r)
        BY <1>1, <1>2, <3>2, <3>3, <3>4 DEF Precedes
      <3> QED
        BY <3>1, <3>5
    <2> QED
      BY <2>1, <2>2
  <1> QED
    BY <1>3, <1>4 DEF Position

LEMMA IterTypes ==
  ASSUME NEW i \in IterState
  PROVE  /\ i.r_id \in RId /\ i.end \in RId
         /\ i.r_id.page_id \in PageIds /\ i.r_id.page_id \in Nat /\ i.r_id.slot_id \in Nat
         /\ i.end.page_id \in PageIds /\ i.end.page_id \in Nat /\ i.end.slot_id \in Nat
         /\ i.item \in Values \cup {Failed} /\ i.out \in Seq(Values \cup {Failed})
         /\ i.before \in Nat /\ i.goal \in Nat
  <1>1. i.r_id \in RId /\ i.end \in RId
         /\ i.item \in Values \cup {Failed} /\ i.out \in Seq(Values \cup {Failed})
         /\ i.before \in Nat /\ i.goal \in Nat
    BY DEF IterState
  <1> QED
    BY <1>1, TablePagesAssumption DEF RId

LEMMA OpenStays ==
  ASSUME IInv, StateType', Grows, NEW i \in IterState, OpenInv(i)
  PROVE  OpenInv(i)'
  <1> USE DEF IInv
  <1>1. OnChain(i.end.page_id)'
    BY IterTypes DEF OpenInv, Grows
  <1>2. i.before \in Nat /\ i.before <= Len(log) /\ i.before <= Len(log')
    BY IterTypes, LogTypes, LogTypesNext DEF OpenInv, Grows
  <1>3. ASSUME NEW k \in DOMAIN log', k <= i.before PROVE log'[k].rid.page_id <= i.end.page_id
    <2>1. k \in DOMAIN log
      BY <1>2, <1>3, LogTypes, LogTypesNext
    <2> QED
      BY <1>3, <2>1 DEF OpenInv, Grows
  <1> QED
    BY <1>1, <1>2, <1>3 DEF OpenInv

LEMMA WalkStays ==
  ASSUME IInv, StateType', Grows, NEW i \in IterState, WalkInv(i)
  PROVE  WalkInv(i)'
  <1> USE DEF IInv
  <1> DEFINE r == i.r_id
             end == i.end
  <1>1. r \in RId /\ end \in RId /\ r.page_id \in PageIds /\ end.page_id \in PageIds
        /\ r.page_id \in Nat /\ end.page_id \in Nat /\ r.slot_id \in Nat /\ end.slot_id \in Nat
    BY IterTypes
  <1>2. OnChain(r.page_id)' /\ OnChain(end.page_id)'
    BY <1>1 DEF WalkInv, Grows
  <1>3. end.page_id <= last_page_id /\ r.page_id <= end.page_id /\ last_page_id \in Nat
    BY <1>1, PageTypes DEF WalkInv, ChainInv
  <1>4. ASSUME NEW p \in PageIds
        PROVE  /\ Len(nodes[p].slots) \in Nat /\ Len(nodes'[p].slots) \in Nat
               /\ Len(nodes[p].slots) <= Len(nodes'[p].slots)
    BY PageTypes DEF Grows
  <1>5. /\ end.slot_id <= Len(nodes[end.page_id].slots)
        /\ end.slot_id <= Len(nodes'[end.page_id].slots)
    <2>1. end.slot_id <= Len(nodes[end.page_id].slots)
      BY DEF WalkInv
    <2>2. /\ Len(nodes[end.page_id].slots) \in Nat /\ Len(nodes'[end.page_id].slots) \in Nat
          /\ Len(nodes[end.page_id].slots) <= Len(nodes'[end.page_id].slots)
      BY <1>1, <1>4
    <2> HIDE DEF end
    <2> QED
      BY <1>1, <2>1, <2>2
  <1>6. r.page_id < end.page_id => r.slot_id < Len(nodes'[r.page_id].slots)
    <2>1. r.page_id < end.page_id => r.slot_id < Len(nodes[r.page_id].slots)
      BY DEF WalkInv
    <2> QED
      BY <1>1, <1>4, <2>1
  <1>7. Position(end, i.goal)'
    BY <1>1, <1>5, PositionStays DEF WalkInv
  <1>8. r.page_id = last_page_id => r.slot_id <= Len(nodes[last_page_id].slots)
    <2>1. r.page_id = end.page_id => r.slot_id <= end.slot_id
      BY DEF WalkInv
    <2> QED
      BY <1>1, <1>3, <1>4, <1>5, <2>1
  <1>9. PICK n \in 0..Len(log) : /\ Position(r, n) /\ OutInv(i.out, n)
                                 /\ i.pc = "got" => i.item \in {Failed, n + 1}
    BY DEF WalkInv
  <1>10. Position(r, n)'
    BY <1>1, <1>8, <1>9, PositionStays DEF WalkInv
  <1>11. n \in 0..Len(log')
    BY <1>10 DEF Position
  <1> QED
    BY <1>2, <1>5, <1>6, <1>7, <1>9, <1>10, <1>11 DEF WalkInv, OutInv

LEMMA IterStays ==
  ASSUME IInv, StateType', Grows, it' = it
  PROVE  IterInv'
  <1> SUFFICES ASSUME NEW t \in Iters
               PROVE  /\ it'[t].pc = "open" => OpenInv(it[t])'
                      /\ it'[t].pc \in {"next", "got"} => WalkInv(it[t])'
                      /\ it'[t].pc = "done" => it'[t].before <= it'[t].goal
                                               /\ OutInv(it'[t].out, it'[t].goal)
    BY DEF IterInv, OutInv
  <1>1. PICK i \in IterState : i = it[t]
    BY DEF IInv, StateType
  <1>2. i = it'[t]
    BY <1>1
  <1>3. i.pc = "open" => OpenInv(i)'
    BY <1>1, OpenStays DEF IInv, IterInv
  <1>4. i.pc \in {"next", "got"} => WalkInv(i)'
    BY <1>1, WalkStays DEF IInv, IterInv
  <1>5. i.pc = "done" => i.before <= i.goal /\ OutInv(i.out, i.goal)
    BY <1>1 DEF IInv, IterInv
  <1>6. OpenInv(i)' => OpenInv(it[t])'
    BY <1>2 DEF OpenInv
  <1>7. WalkInv(i)' => WalkInv(it[t])'
    BY <1>2 DEF WalkInv
  <1> QED
    BY <1>2, <1>3, <1>4, <1>5, <1>6, <1>7

-----------------------------------------------------------------------------
(***************************************************************************)
(* Inserts.                                                                *)
(***************************************************************************)
\* m has the tuples of node, and perhaps more.
KeepsTuples(node, m) ==
    /\ Len(m.slots) \in Nat /\ Len(node.slots) <= Len(m.slots)
    /\ \A a \in DOMAIN node.slots : /\ m.slots[a].offset = node.slots[a].offset
                                    /\ m.slots[a].len = node.slots[a].len
    /\ \A o \in Offsets : o >= LastOffset(node) => m.cells[o] = node.cells[o]

LEMMA KeepsItself == ASSUME NEW node, GoodNode(node) PROVE KeepsTuples(node, node)
  BY GoodOffsets DEF KeepsTuples

\* A tuple is appended to a page that becomes, or is, the last one.
LEMMA LogAppends ==
  ASSUME IInv, StateType', NEW p \in PageIds, OnChain(p)', last_page_id <= p,
         NEW e \in Entry, log' = Append(log, e),
         e.rid.page_id = p, e.rid.slot_id = Len(nodes[p].slots),
         \A q \in PageIds : OnChain(q) => OnChain(q)',
         \A q \in PageIds : KeepsTuples(nodes[q], nodes'[q]),
         \A q \in PageIds \ {p} : Len(nodes'[q].slots) = Len(nodes[q].slots),
         Len(nodes'[p].slots) = Len(nodes[p].slots) + 1,
         Holds(nodes'[p], e.rid.slot_id, e.len, Len(log) + 1)
  PROVE  LogInv' /\ Grows
  <1> USE DEF IInv
  <1> DEFINE L == Len(log)
  <1>1. L \in Nat /\ DOMAIN log = 1..L /\ Len(log') = L + 1 /\ DOMAIN log' = 1..(L + 1)
        /\ log'[L + 1] = e /\ \A k \in DOMAIN log : log'[k] = log[k]
    BY DEF StateType
  <1> HIDE DEF L
  <1>2. p \in Nat /\ last_page_id \in Nat /\ Len(nodes[p].slots) \in Nat
    BY PageTypes
  <1>3. ASSUME NEW k \in DOMAIN log'
        PROVE  /\ OnChain(log[k].rid.page_id)'
               /\ Holds(nodes'[log'[k].rid.page_id], log'[k].rid.slot_id, log'[k].len, k)
    <2>1. CASE k = L + 1
      BY <1>1, <2>1 DEF L
    <2>2. CASE k # L + 1
      <3>1. k \in DOMAIN log /\ log'[k] = log[k]
        BY <1>1, <2>2
      <3>2. PICK q \in PageIds, s \in Nat, len \in Nat :
                q = log[k].rid.page_id /\ s = log[k].rid.slot_id /\ len = log[k].len
        BY <3>1, LogTypes
      <3>3. OnChain(q) /\ Holds(nodes[q], s, len, k)
        BY <3>1, <3>2 DEF LogInv
      <3>4. Holds(nodes'[q], s, len, k)
        BY <3>3, PageTypes, HoldsStays DEF KeepsTuples
      <3>5. OnChain(q)'
        BY <3>3
      <3>6. log'[k].rid.page_id = q
        BY <3>1, <3>2
      <3> QED
        BY <3>1, <3>2, <3>4, <3>5, <3>6 DEF OnChain, Linked
    <2> QED
      BY <2>1, <2>2
  <1>4. ASSUME NEW j \in DOMAIN log', NEW k \in DOMAIN log', j < k
        PROVE  Precedes(log'[j].rid, log'[k].rid)
    <2>1. j \in DOMAIN log /\ log'[j] = log[j]
      BY <1>1, <1>4
    <2>2. CASE k = L + 1
      <3>1. PICK q \in PageIds : q = log[j].rid.page_id
        BY <2>1, LogTypes
      <3>2. q <= last_page_id /\ q \in Nat
        BY <2>1, <3>1, PageTypes DEF LogInv, ChainInv
      <3>3. log[j].rid.slot_id < Len(nodes[q].slots) /\ log[j].rid.slot_id \in Nat
        BY <2>1, <3>1, LogTypes DEF LogInv, Holds
      <3>4. Precedes(log[j].rid, e.rid)
        BY <1>2, <3>1, <3>2, <3>3 DEF Precedes
      <3> QED
        BY <1>1, <2>1, <2>2, <3>4
    <2>3. CASE k # L + 1
      <3>1. k \in DOMAIN log /\ log'[k] = log[k]
        BY <1>1, <2>3
      <3> QED
        BY <1>4, <2>1, <3>1 DEF LogInv
    <2> QED
      BY <2>2, <2>3
  <1>5. ASSUME NEW q \in PageIds, NEW s \in 0..(Len(nodes'[q].slots) - 1)
        PROVE  \E k \in DOMAIN log' : log'[k].rid.page_id = q /\ log'[k].rid.slot_id = s
    <2>1. CASE q = p /\ s = Len(nodes[p].slots)
      BY <1>1, <2>1
    <2>2. CASE ~(q = p /\ s = Len(nodes[p].slots))
      <3>1. s \in 0..(Len(nodes[q].slots) - 1)
        <4>1. CASE q = p
          BY <1>2, <2>2, <4>1
        <4>2. CASE q # p
          BY <4>2
        <4> QED
          BY <4>1, <4>2
      <3>2. PICK k \in DOMAIN log : log[k].rid.page_id = q /\ log[k].rid.slot_id = s
        BY <3>1 DEF LogInv
      <3> QED
        BY <1>1, <3>2
    <2> QED
      BY <2>1, <2>2
  <1>6. LogInv'
    BY <1>3, <1>4, <1>5 DEF LogInv, OnChain, Linked
  <1>7. Grows
    <2>1. \A q \in PageIds :
             Len(nodes'[q].slots) \in Nat /\ Len(nodes[q].slots) <= Len(nodes'[q].slots)
      BY DEF KeepsTuples
    <2>2. Len(log) <= Len(log') /\ \A k \in DOMAIN log : k \in DOMAIN log' /\ log'[k] = log[k]
      BY <1>1 DEF L
    <2>3. ASSUME NEW k \in DOMAIN log' \ DOMAIN log
          PROVE  \/ last_page_id < log'[k].rid.page_id
                 \/ /\ log'[k].rid.page_id = last_page_id
                    /\ Len(nodes[last_page_id].slots) <= log'[k].rid.slot_id
      <3>1. k = L + 1
        BY <1>1
      <3>2. log'[k].rid.page_id = p /\ log'[k].rid.slot_id = Len(nodes[p].slots)
        BY <1>1, <3>1
      <3>3. last_page_id < p \/ p = last_page_id
        BY <1>2
      <3> QED
        BY <1>2, <3>2, <3>3
    <2> QED
      BY <2>1, <2>2, <2>3 DEF Grows
  <1> QED
    BY <1>6, <1>7

\* Nothing is appended and no tuple changes.
LEMMA LogStays ==
  ASSUME IInv, StateType', log' = log,
         \A q \in PageIds : OnChain(q) => OnChain(q)',
         \A q \in PageIds : KeepsTuples(nodes[q], nodes'[q]),
         \A q \in PageIds : Len(nodes'[q].slots) = Len(nodes[q].slots)
  PROVE  LogInv' /\ Grows
  <1> USE DEF IInv
  <1>1. ASSUME NEW k \in DOMAIN log
        PROVE  /\ OnChain(log[k].rid.page_id)'
               /\ Holds(nodes'[log[k].rid.page_id], log[k].rid.slot_id, log[k].len, k)
    <2>1. PICK q \in PageIds, s \in Nat, len \in Nat :
              q = log[k].rid.page_id /\ s = log[k].rid.slot_id /\ len = log[k].len
      BY LogTypes
    <2>2. OnChain(q) /\ Holds(nodes[q], s, len, k)
      BY <2>1 DEF LogInv
    <2>3. Holds(nodes'[q], s, len, k)
      BY <2>2, PageTypes, HoldsStays DEF KeepsTuples
    <2>4. OnChain(q)' /\ log'[k].rid.page_id = q
      BY <2>1, <2>2
    <2> QED
      BY <2>1, <2>3, <2>4 DEF OnChain, Linked
  <1>2. LogInv'
    BY <1>1 DEF LogInv, OnChain, Linked
  <1>3. Grows
    <2>1. \A q \in PageIds :
             Len(nodes'[q].slots) \in Nat /\ Len(nodes[q].slots) <= Len(nodes'[q].slots)
      BY DEF KeepsTuples
    <2>2. Len(log) <= Len(log')
      BY LogTypes
    <2> QED
      BY <2>1, <2>2 DEF Grows
  <1> QED
    BY <1>2, <1>3

LEMMA InsertLastKeeps ==
  ASSUME IInv, NEW len \in Lens, NEW deleted \in BOOLEAN, InsertLast(len, deleted)
  PROVE  IInv'
  <1> USE DEF IInv
  <1>1. PICK p \in PageIds : p = last_page_id
    BY DEF StateType
  <1>2. GoodNode(nodes[p]) /\ Len(nodes[p].slots) \in Nat /\ p \in Nat
    BY PageTypes
  <1>3. len \in Nat \ {0} /\ HasRoom(nodes[p], len) /\ NewValue \in Values
    BY <1>1, LensAssumption DEF InsertLast, CanInsert, Last
  <1> DEFINE new == NodeInsert(nodes[p], NewValue, len, deleted)
             e == [len |-> len, deleted |-> deleted,
                   rid |-> [page_id |-> p, slot_id |-> Len(nodes[p].slots)]]
  <1>4. /\ GoodNode(new)
        /\ new.next_page_id = nodes[p].next_page_id
        /\ Len(new.slots) = Len(nodes[p].slots) + 1
        /\ \A a \in DOMAIN nodes[p].slots : /\ new.slots[a].offset = nodes[p].slots[a].offset
                                            /\ new.slots[a].len = nodes[p].slots[a].len
        /\ \A o \in Offsets : o >= LastOffset(nodes[p]) => new.cells[o] = nodes[p].cells[o]
        /\ Holds(new, Len(nodes[p].slots), len, NewValue)
    BY <1>2, <1>3, InsertFacts
  <1>5. nodes' = [nodes EXCEPT ![p] = new] /\ last_page_id' = last_page_id
        /\ next_page_id' = next_page_id /\ it' = it /\ log' = Append(log, e)
    BY <1>1 DEF InsertLast, Inserted, Last
  <1> HIDE DEF new
  <1>6. new \in TableNodes /\ KeepsTuples(nodes[p], new) /\ new.slots # <<>>
    BY <1>2, <1>4, GoodOffsets DEF KeepsTuples
  <1>7. e \in Entry /\ e.rid.page_id = p /\ e.rid.slot_id = Len(nodes[p].slots) /\ e.len = len
    BY <1>2, <1>3 DEF Entry, RId
  <1> HIDE DEF e
  <1>8. nodes' \in [PageIds -> TableNodes] /\ nodes'[p] = new
        /\ \A q \in PageIds \ {p} : nodes'[q] = nodes[q]
    BY <1>5, <1>6 DEF StoreInv
  <1>9. StateType'
    <2>1. log \in Seq(Entry) /\ Len(log) \in Nat
      BY DEF StateType
    <2>2. log' \in Seq(Entry) /\ DOMAIN log' = 1..(Len(log) + 1) /\ DOMAIN log = 1..Len(log)
      BY <1>5, <1>7, <2>1
    <2>3. DOMAIN log' \subseteq Values
      BY <1>3, <2>1, <2>2 DEF StateType, NewValue
    <2> QED
      BY <1>5, <2>2, <2>3 DEF StateType
  <1>10. StoreInv'
    <2>1. \A q \in PageIds : GoodNode(nodes'[q])
      BY <1>4, <1>8 DEF StoreInv
    <2>2. \A q \in PageIds : q >= next_page_id => nodes'[q] = EmptyNode
      <3>1. ~(p >= next_page_id)
        BY <1>1, <1>2 DEF StateType
      <3> QED
        BY <1>8, <3>1 DEF StoreInv
    <2> QED
      BY <1>5, <1>8, <2>1, <2>2 DEF StoreInv
  <1>11. \A q \in PageIds : /\ nodes'[q].next_page_id = nodes[q].next_page_id
                            /\ Linked(q)' <=> Linked(q)
                            /\ OnChain(q)' <=> OnChain(q)
    BY <1>4, <1>5, <1>8 DEF Linked, OnChain
  <1>12. ChainInv'
    <2>1. OnChain(FirstPage)' /\ ~Linked(p)'
      BY <1>1, <1>11, TablePagesAssumption DEF ChainInv
    <2>2. \A q \in PageIds : OnChain(q)' => FirstPage <= q /\ q <= last_page_id'
      BY <1>5, <1>11 DEF ChainInv
    <2>3. ASSUME NEW q \in PageIds, Linked(q)'
          PROVE  /\ nodes'[q].slots # <<>>
                 /\ nodes'[q].next_page_id \in PageIds /\ q < nodes'[q].next_page_id
                 /\ OnChain(nodes[q].next_page_id)'
                 /\ \A x \in PageIds : OnChain(x)' /\ q < x => nodes'[q].next_page_id <= x
      <3>1. Linked(q) /\ q # p
        BY <1>1, <1>11, <2>3 DEF ChainInv
      <3>2. PICK y \in PageIds : y = nodes[q].next_page_id
        BY <3>1 DEF ChainInv
      <3>3. q < y /\ OnChain(y) /\ \A x \in PageIds : OnChain(x) /\ q < x => y <= x
        BY <3>1, <3>2 DEF ChainInv
      <3>4. OnChain(y)'
        BY <1>11, <3>3
      <3>5. nodes'[q].next_page_id = y /\ nodes'[q].slots # <<>>
        BY <1>8, <3>1, <3>2 DEF ChainInv
      <3>6. OnChain(nodes[q].next_page_id)'
        BY <1>8, <3>1, <3>2, <3>4, <3>5 DEF OnChain, Linked
      <3> QED
        BY <1>11, <3>2, <3>3, <3>5, <3>6
    <2>4. (last_page_id = p)'
      BY <1>1, <1>5
    <2> QED
      BY <2>1, <2>2, <2>3, <2>4, <1>11 DEF ChainInv, OnChain, Linked
  <1>13. LogInv' /\ Grows
    <2>1. OnChain(p)' /\ last_page_id <= p
      BY <1>1, <1>2, <1>11 DEF OnChain
    <2>2. \A q \in PageIds : KeepsTuples(nodes[q], nodes'[q])
      BY <1>6, <1>8, KeepsItself, PageTypes
    <2>3. Holds(nodes'[p], e.rid.slot_id, e.len, Len(log) + 1)
      BY <1>4, <1>7, <1>8 DEF NewValue
    <2>4. Len(nodes'[p].slots) = Len(nodes[p].slots) + 1
      BY <1>4, <1>8
    <2> QED
      BY <1>5, <1>7, <1>8, <1>9, <1>11, <2>1, <2>2, <2>3, <2>4, LogAppends
  <1> QED
    BY <1>5, <1>9, <1>10, <1>12, <1>13, IterStays

\* The last page p is linked to the page q that new_page() returned.
LEMMA LinkKeeps ==
  ASSUME IInv, NEW p \in PageIds, NEW q \in PageIds, p = last_page_id, q = next_page_id,
         nodes[p].slots # <<>>, NEW m, GoodNode(m), m.next_page_id = 0,
         nodes' \in [PageIds -> TableNodes], nodes'[p] = LinkedLast, nodes'[q] = m,
         \A x \in PageIds \ {p, q} : nodes'[x] = nodes[x],
         last_page_id' = q, next_page_id' = q + 1
  PROVE  /\ StoreInv' /\ ChainInv'
         /\ p < q /\ nodes[q] = EmptyNode
         /\ \A x \in PageIds : OnChain(x)' <=> (OnChain(x) \/ x = q)
         /\ KeepsTuples(nodes[p], nodes'[p]) /\ Len(nodes'[p].slots) = Len(nodes[p].slots)
  <1> USE DEF IInv
  <1>1. p \in Nat /\ q \in Nat /\ p < q
    BY TablePagesAssumption DEF StateType
  <1>2. nodes[q] = EmptyNode /\ GoodNode(nodes[p])
    BY <1>1 DEF StoreInv
  <1>3. LinkedLast = Encoded([Decoded(nodes[p]) EXCEPT !.next_page_id = q])
    BY DEF LinkedLast, Last
  <1>4. /\ GoodNode(nodes'[p]) /\ nodes'[p].next_page_id = q
        /\ Len(nodes'[p].slots) = Len(nodes[p].slots)
        /\ KeepsTuples(nodes[p], nodes'[p])
    <2>1. /\ GoodNode(LinkedLast) /\ LinkedLast.next_page_id = q
          /\ Len(LinkedLast.slots) = Len(nodes[p].slots)
          /\ \A a \in DOMAIN nodes[p].slots :
                /\ LinkedLast.slots[a].offset = nodes[p].slots[a].offset
                /\ LinkedLast.slots[a].len = nodes[p].slots[a].len
          /\ \A o \in Offsets : o >= LastOffset(nodes[p]) => LinkedLast.cells[o] = nodes[p].cells[o]
      BY <1>1, <1>2, <1>3, LinkFacts
    <2>2. Len(nodes[p].slots) \in Nat
      BY <1>2, GoodOffsets
    <2> QED
      BY <2>1, <2>2 DEF KeepsTuples
  <1>5. nodes'[p].slots # <<>>
    <2>1. Len(nodes[p].slots) # 0
      BY <1>2, GoodOffsets
    <2>2. nodes'[p].slots \in Seq(Slot)
      BY <1>4, GoodOffsets
    <2> QED
      BY <1>4, <2>1, <2>2
  <1>6. StoreInv'
    <2>1. \A x \in PageIds : GoodNode(nodes'[x])
      BY <1>4 DEF StoreInv
    <2>2. ASSUME NEW x \in PageIds, x >= q + 1 PROVE nodes'[x] = EmptyNode
      <3>1. x \notin {p, q} /\ x >= next_page_id
        BY <1>1, <2>2, TablePagesAssumption
      <3> QED
        BY <3>1 DEF StoreInv
    <2> QED
      BY <2>1, <2>2 DEF StoreInv
  <1>7. /\ Linked(p)' /\ ~Linked(q)' /\ ~Linked(q) /\ ~Linked(p)
        /\ \A x \in PageIds \ {p, q} : Linked(x)' <=> Linked(x)
    BY <1>1, <1>2, <1>4, EmptyIsGood DEF Linked, ChainInv
  <1>8. ASSUME NEW x \in PageIds PROVE OnChain(x)' <=> (OnChain(x) \/ x = q)
    BY <1>1, <1>7 DEF OnChain
  <1>9. ASSUME NEW x \in PageIds, OnChain(x) PROVE FirstPage <= x /\ x <= p /\ x \in Nat /\ x # q
    <2>1. FirstPage <= x /\ x <= p
      BY <1>9 DEF ChainInv
    <2> QED
      BY <1>1, <2>1, TablePagesAssumption
  <1>10. OnChain(FirstPage)' /\ FirstPage <= q /\ FirstPage \in Nat
    <2>1. FirstPage \in PageIds /\ FirstPage \in Nat
      BY TablePagesAssumption
    <2> QED
      BY <1>1, <1>8, <1>9, <2>1 DEF ChainInv
  <1>11. ASSUME NEW x \in PageIds, Linked(x)'
         PROVE  /\ nodes'[x].slots # <<>>
                /\ nodes'[x].next_page_id \in PageIds /\ x < nodes'[x].next_page_id
                /\ OnChain(nodes[x].next_page_id)'
                /\ \A z \in PageIds : OnChain(z)' /\ x < z => nodes'[x].next_page_id <= z
    <2>1. CASE x = p
      <3>1. OnChain(q)'
        BY <1>8
      <3>2. OnChain(nodes[x].next_page_id)'
        BY <1>4, <2>1, <3>1 DEF OnChain, Linked
      <3>3. ASSUME NEW z \in PageIds, OnChain(z)', x < z PROVE q <= z
        <4>1. ~(z <= p) /\ z \in Nat
          BY <1>1, <2>1, <3>3, TablePagesAssumption
        <4>2. z = q
          BY <1>8, <1>9, <3>3, <4>1
        <4> QED
          BY <1>1, <4>2
      <3> QED
        BY <1>1, <1>4, <1>5, <2>1, <3>2, <3>3
    <2>2. CASE x # p
      <3>1. Linked(x) /\ x \notin {p, q} /\ OnChain(x)
        BY <1>7, <1>11, <2>2 DEF OnChain
      <3>2. PICK y \in PageIds : y = nodes[x].next_page_id
        BY <3>1 DEF ChainInv
      <3>3. x < y /\ OnChain(y) /\ \A z \in PageIds : OnChain(z) /\ x < z => y <= z
        BY <3>1, <3>2 DEF ChainInv
      <3>4. OnChain(y)' /\ y <= q
        BY <1>1, <1>8, <1>9, <3>3
      <3>5. nodes'[x].next_page_id = y /\ nodes'[x].slots # <<>>
        BY <3>1, <3>2 DEF ChainInv
      <3>6. OnChain(nodes[x].next_page_id)'
        BY <3>4, <3>5 DEF OnChain, Linked
      <3>7. \A z \in PageIds : OnChain(z)' /\ x < z => y <= z
        BY <1>8, <3>3, <3>4
      <3> QED
        BY <3>2, <3>3, <3>5, <3>6, <3>7
    <2> QED
      BY <2>1, <2>2
  <1>12. \A x \in PageIds : OnChain(x)' => FirstPage <= x /\ x <= q
    BY <1>1, <1>8, <1>9, <1>10
  <1>13. ChainInv'
    BY <1>7, <1>10, <1>11, <1>12 DEF ChainInv, OnChain, Linked
  <1> QED
    BY <1>1, <1>2, <1>4, <1>6, <1>8, <1>13

LEMMA InsertNewPageKeeps ==
  ASSUME IInv, NEW len \in Lens, NEW deleted \in BOOLEAN, InsertNewPage(len, deleted)
  PROVE  IInv'
  <1> USE DEF IInv
  <1>1. PICK p \in PageIds : p = last_page_id
    BY DEF StateType
  <1>2. PICK q \in PageIds : q = next_page_id
    BY DEF InsertNewPage, NeedsPage
  <1> DEFINE new == NodeInsert(EmptyNode, NewValue, len, deleted)
             e == [len |-> len, deleted |-> deleted, rid |-> [page_id |-> q, slot_id |-> 0]]
  <1>3. len \in Nat \ {0} /\ HasRoom(EmptyNode, len) /\ NewValue \in Values
        /\ nodes[p].slots # <<>> /\ p \in Nat /\ q \in Nat /\ p < q
    BY <1>1, <1>2, LensAssumption, TablePagesAssumption
       DEF InsertNewPage, NeedsPage, CanInsert, Last, StateType
  <1>4. /\ nodes' = [nodes EXCEPT ![p] = LinkedLast, ![q] = new]
        /\ last_page_id' = q /\ next_page_id' = q + 1 /\ it' = it /\ log' = Append(log, e)
    BY <1>1, <1>2 DEF InsertNewPage, NeedsPage, Inserted
  <1>5. /\ GoodNode(new) /\ new.next_page_id = 0 /\ Len(new.slots) = 1
        /\ Holds(new, 0, len, NewValue)
    <2>1. GoodNode(EmptyNode) /\ Len(EmptyNode.slots) = 0 /\ EmptyNode.next_page_id = 0
      BY EmptyIsGood
    <2>2. /\ GoodNode(new) /\ new.next_page_id = EmptyNode.next_page_id
          /\ Len(new.slots) = Len(EmptyNode.slots) + 1
          /\ Holds(new, Len(EmptyNode.slots), len, NewValue)
      BY <1>3, <2>1, InsertFacts
    <2> HIDE DEF new
    <2> QED
      BY <2>1, <2>2
  <1> HIDE DEF new
  <1>6. GoodNode(nodes[p]) /\ LinkedLast \in TableNodes
    <2>1. GoodNode(nodes[p])
      BY DEF StoreInv
    <2>2. LinkedLast = Encoded([Decoded(nodes[p]) EXCEPT !.next_page_id = q])
      BY <1>1, <1>2 DEF LinkedLast, Last
    <2>3. GoodNode(LinkedLast)
      BY <1>3, <2>1, <2>2, LinkFacts
    <2> QED
      BY <2>1, <2>3 DEF GoodNode
  <1>7. /\ nodes' \in [PageIds -> TableNodes] /\ nodes'[p] = LinkedLast /\ nodes'[q] = new
        /\ \A x \in PageIds \ {p, q} : nodes'[x] = nodes[x]
    <2>1. p # q /\ new \in TableNodes
      BY <1>3, <1>5 DEF GoodNode
    <2> HIDE DEF LinkedLast
    <2> QED
      BY <1>4, <1>6, <2>1 DEF StoreInv
  <1>8. /\ StoreInv' /\ ChainInv'
        /\ nodes[q] = EmptyNode
        /\ \A x \in PageIds : OnChain(x)' <=> (OnChain(x) \/ x = q)
        /\ KeepsTuples(nodes[p], nodes'[p]) /\ Len(nodes'[p].slots) = Len(nodes[p].slots)
    BY <1>1, <1>2, <1>3, <1>4, <1>5, <1>7, LinkKeeps
  <1>9. e \in Entry /\ e.rid.page_id = q /\ e.rid.slot_id = 0 /\ e.len = len
    BY <1>3 DEF Entry, RId
  <1> HIDE DEF e
  <1>10. StateType'
    <2>1. log \in Seq(Entry) /\ Len(log) \in Nat
      BY DEF StateType
    <2>2. log' \in Seq(Entry) /\ DOMAIN log' = 1..(Len(log) + 1) /\ DOMAIN log = 1..Len(log)
      BY <1>4, <1>9, <2>1
    <2>3. DOMAIN log' \subseteq Values
      BY <1>3, <2>1, <2>2 DEF StateType, NewValue
    <2> QED
      BY <1>3, <1>4, <2>2, <2>3 DEF StateType
  <1>11. nodes[q].slots = <<>> /\ Len(nodes[q].slots) = 0
    BY <1>8, EmptyIsGood
  <1>12. KeepsTuples(nodes[q], nodes'[q])
    <2>1. DOMAIN nodes[q].slots = {}
      BY <1>11
    <2>2. LastOffset(nodes[q]) = PAGE_SIZE
      BY <1>8, EmptyIsGood
    <2>3. \A o \in Offsets : ~(o >= PAGE_SIZE)
      BY SizesAssumption DEF Offsets
    <2> QED
      BY <1>5, <1>7, <1>11, <2>1, <2>2, <2>3 DEF KeepsTuples
  <1>13. LogInv' /\ Grows
    <2>1. OnChain(q)' /\ last_page_id <= q
      BY <1>1, <1>3, <1>8
    <2>2. \A x \in PageIds : KeepsTuples(nodes[x], nodes'[x])
      BY <1>7, <1>8, <1>12, KeepsItself, PageTypes
    <2>3. \A x \in PageIds \ {q} : Len(nodes'[x].slots) = Len(nodes[x].slots)
      BY <1>7, <1>8
    <2>4. Len(nodes'[q].slots) = Len(nodes[q].slots) + 1
      BY <1>5, <1>7, <1>11
    <2>5. Holds(nodes'[q], e.rid.slot_id, e.len, Len(log) + 1)
      BY <1>5, <1>7, <1>9 DEF NewValue
    <2>6. e.rid.slot_id = Len(nodes[q].slots)
      BY <1>9, <1>11
    <2>7. \A x \in PageIds : OnChain(x) => OnChain(x)'
      BY <1>8
    <2> QED
      BY <1>4, <1>9, <1>10, <2>1, <2>2, <2>3, <2>4, <2>5, <2>6, <2>7, LogAppends
  <1> QED
    BY <1>4, <1>8, <1>10, <1>13, IterStays

LEMMA InsertPanicsLinkedKeeps ==
  ASSUME IInv, NEW len \in Lens, InsertPanicsLinked(len)
  PROVE  IInv'
  <1> USE DEF IInv
  <1>1. PICK p \in PageIds : p = last_page_id
    BY DEF StateType
  <1>2. PICK q \in PageIds : q = next_page_id
    BY DEF InsertPanicsLinked, NeedsPage
  <1>3. nodes[p].slots # <<>> /\ p \in Nat /\ q \in Nat /\ p < q
    BY <1>1, <1>2, TablePagesAssumption DEF InsertPanicsLinked, NeedsPage, Last, StateType
  <1>4. /\ nodes' = [nodes EXCEPT ![p] = LinkedLast]
        /\ last_page_id' = q /\ next_page_id' = q + 1 /\ it' = it /\ log' = log
    BY <1>1, <1>2 DEF InsertPanicsLinked, NeedsPage
  <1>5. nodes[q] = EmptyNode
    BY <1>2, <1>3 DEF StoreInv
  <1>6. GoodNode(nodes[p]) /\ LinkedLast \in TableNodes
    <2>1. GoodNode(nodes[p])
      BY DEF StoreInv
    <2>2. LinkedLast = Encoded([Decoded(nodes[p]) EXCEPT !.next_page_id = q])
      BY <1>1, <1>2 DEF LinkedLast, Last
    <2>3. GoodNode(LinkedLast)
      BY <1>3, <2>1, <2>2, LinkFacts
    <2> QED
      BY <2>1, <2>3 DEF GoodNode
  <1>7. /\ nodes' \in [PageIds -> TableNodes] /\ nodes'[p] = LinkedLast
        /\ nodes'[q] = EmptyNode
        /\ \A x \in PageIds \ {p, q} : nodes'[x] = nodes[x]
    <2>1. p # q
      BY <1>3
    <2> HIDE DEF LinkedLast
    <2> QED
      BY <1>4, <1>5, <1>6, <2>1 DEF StoreInv
  <1>8. /\ StoreInv' /\ ChainInv'
        /\ \A x \in PageIds : OnChain(x)' <=> (OnChain(x) \/ x = q)
        /\ KeepsTuples(nodes[p], nodes'[p]) /\ Len(nodes'[p].slots) = Len(nodes[p].slots)
    BY <1>1, <1>2, <1>3, <1>4, <1>7, EmptyIsGood, LinkKeeps
  <1>9. StateType'
    BY <1>3, <1>4 DEF StateType
  <1>10. LogInv' /\ Grows
    <2>1. \A x \in PageIds : x # p => nodes'[x] = nodes[x]
      BY <1>5, <1>7
    <2>2. \A x \in PageIds : /\ KeepsTuples(nodes[x], nodes'[x])
                             /\ Len(nodes'[x].slots) = Len(nodes[x].slots)
      BY <1>8, <2>1, KeepsItself, PageTypes
    <2> QED
      BY <1>4, <1>8, <1>9, <2>2, LogStays
  <1> QED
    BY <1>4, <1>8, <1>9, <1>10, IterStays

\* Neither a failed new_page() nor a panic before it changes the pages.
LEMMA InsertChangesNothing ==
  ASSUME IInv, NEW len \in Lens, InsertNewPageFails(len) \/ InsertPanicsFirst(len)
  PROVE  IInv'
  <1> USE DEF IInv
  <1>1. nodes' = nodes /\ last_page_id' = last_page_id /\ log' = log /\ it' = it
        /\ next_page_id' \in Nat /\ next_page_id <= next_page_id' /\ next_page_id \in Nat
    BY DEF InsertNewPageFails, InsertPanicsFirst, NeedsPage, StateType
  <1>2. StateType'
    BY <1>1, TablePagesAssumption DEF StateType
  <1>3. StoreInv'
    <2>1. ASSUME NEW x \in PageIds, x >= next_page_id' PROVE x >= next_page_id
      BY <1>1, <2>1, TablePagesAssumption
    <2> QED
      BY <1>1, <2>1 DEF StoreInv
  <1>4. ChainInv'
    BY <1>1 DEF ChainInv, OnChain, Linked
  <1>5. LogInv' /\ Grows
    <2>1. \A x \in PageIds : OnChain(x) => OnChain(x)'
      BY <1>1 DEF OnChain, Linked
    <2>2. \A x \in PageIds : KeepsTuples(nodes[x], nodes'[x])
      BY <1>1, KeepsItself, PageTypes
    <2> QED
      BY <1>1, <1>2, <2>1, <2>2, LogStays
  <1> QED
    BY <1>1, <1>2, <1>3, <1>4, <1>5, IterStays

-----------------------------------------------------------------------------
(***************************************************************************)
(* Iterators.                                                              *)
(***************************************************************************)
\* A step of an iterator changes nothing but the iterator.
LEMMA IterMoves ==
  ASSUME IInv, Iterating, NEW t \in Iters, NEW j \in IterState, it' = [it EXCEPT ![t] = j],
         j.pc = "open" => OpenInv(j),
         j.pc \in {"next", "got"} => WalkInv(j),
         j.pc = "done" => j.before <= j.goal /\ OutInv(j.out, j.goal)
  PROVE  IInv'
  <1> USE DEF IInv
  <1>1. nodes' = nodes /\ last_page_id' = last_page_id /\ next_page_id' = next_page_id /\ log' = log
    BY DEF Iterating
  <1>2. it' \in [Iters -> IterState] /\ it'[t] = j /\ \A u \in Iters \ {t} : it'[u] = it[u]
    BY DEF StateType
  <1>3. StateType' /\ StoreInv' /\ ChainInv' /\ LogInv'
    BY <1>1, <1>2 DEF StateType, StoreInv, ChainInv, LogInv, OnChain, Linked
  <1>4. \A i \in IterState : (OpenInv(i)' <=> OpenInv(i)) /\ (WalkInv(i)' <=> WalkInv(i))
    BY <1>1 DEF OpenInv, WalkInv, OnChain, Linked, Position
  <1>5. ASSUME NEW u \in Iters
        PROVE  /\ it'[u].pc = "open" => OpenInv(it[u])'
               /\ it'[u].pc \in {"next", "got"} => WalkInv(it[u])'
               /\ it'[u].pc = "done" => it'[u].before <= it'[u].goal
                                        /\ OutInv(it'[u].out, it'[u].goal)
    <2>1. PICK i \in IterState : i = it'[u]
      BY <1>2
    <2>2. /\ i.pc = "open" => OpenInv(i)
          /\ i.pc \in {"next", "got"} => WalkInv(i)
          /\ i.pc = "done" => i.before <= i.goal /\ OutInv(i.out, i.goal)
      BY <1>2, <2>1 DEF IterInv
    <2>3. OpenInv(i)' => OpenInv(it[u])'
      BY <2>1 DEF OpenInv
    <2>4. WalkInv(i)' => WalkInv(it[u])'
      BY <2>1 DEF WalkInv
    <2> QED
      BY <1>4, <2>1, <2>2, <2>3, <2>4
  <1>6. IterInv'
    BY <1>5 DEF IterInv, OutInv
  <1> QED
    BY <1>3, <1>6

LEMMA IterLastKeeps ==
  ASSUME IInv, NEW t \in Iters, IterLast(t)
  PROVE  IInv'
  <1> USE DEF IInv
  <1> DEFINE j == [Idle EXCEPT !.pc = "open", !.end.page_id = last_page_id, !.before = Len(log)]
  <1>1. j \in IterState
    <2>1. Len(log) \in Nat /\ last_page_id \in PageIds /\ FirstPage \in PageIds
          /\ <<>> \in Seq(Values \cup {Failed})
      BY LogTypes, TablePagesAssumption DEF StateType
    <2>2. Idle \in IterState
      BY <2>1 DEF IterState, Idle, RId
    <2> QED
      BY <2>1, <2>2 DEF IterState, RId
  <1>2. /\ j.pc = "open" /\ j.r_id.page_id = FirstPage /\ j.r_id.slot_id = 0 /\ j.out = <<>>
        /\ j.end.page_id = last_page_id /\ j.before = Len(log)
    BY DEF Idle
  <1>3. it' = [it EXCEPT ![t] = j] /\ Iterating
    BY DEF IterLast
  <1> HIDE DEF j
  <1>4. \A k \in DOMAIN log : log[k].rid.page_id <= last_page_id
    BY LogTypes DEF LogInv, ChainInv
  <1>5. OpenInv(j)
    BY <1>2, <1>4, LogTypes DEF OpenInv, OnChain
  <1> QED
    BY <1>1, <1>2, <1>3, <1>5, IterMoves

LEMMA IterOpenKeeps ==
  ASSUME IInv, NEW t \in Iters, IterOpen(t)
  PROVE  IInv'
  <1> USE DEF IInv
  <1>1. PICK i \in IterState : i = it[t]
    BY DEF StateType
  <1>2. i.pc = "open" /\ OpenInv(i)
    BY <1>1 DEF IterOpen, IterInv
  <1>3. PICK P \in PageIds : P = i.end.page_id
    BY IterTypes
  <1>4. P \in Nat /\ last_page_id \in Nat /\ GoodNode(nodes[P]) /\ Len(nodes[P].slots) \in Nat
        /\ OnChain(P) /\ FirstPage <= P /\ P <= last_page_id
        /\ FirstPage \in PageIds /\ FirstPage \in Nat
    BY <1>2, <1>3, PageTypes, TablePagesAssumption DEF OpenInv, ChainInv
  <1>5. /\ CountUpTo(P) \in 0..Len(log) /\ CountUpTo(P) \in Nat
        /\ \A k \in DOMAIN log : k <= CountUpTo(P) <=> log[k].rid.page_id <= P
    BY <1>4, CountIsPrefix, LogTypes
  <1> DEFINE j == [i EXCEPT !.pc = "next", !.end.slot_id = Len(nodes[P].slots),
                            !.goal = CountUpTo(P)]
  <1>6. /\ j \in IterState /\ j.pc = "next" /\ j.r_id = i.r_id /\ j.out = i.out
        /\ j.end.page_id = P /\ j.end.slot_id = Len(nodes[P].slots)
        /\ j.before = i.before /\ j.goal = CountUpTo(P)
    <2> HIDE DEF CountUpTo
    <2> QED
      BY <1>3, <1>4, <1>5 DEF IterState, RId
  <1>7. it' = [it EXCEPT ![t] = j] /\ Iterating
    <2>1. it \in [Iters -> IterState]
      BY DEF StateType
    <2> QED
      BY <1>1, <1>3, <2>1 DEF IterOpen, IterState
  <1> HIDE DEF j
  <1>8. j.r_id.page_id = FirstPage /\ j.r_id.slot_id = 0 /\ j.out = <<>> /\ OnChain(FirstPage)
    BY <1>2, <1>6 DEF OpenInv, ChainInv
  <1>9. FirstPage < P => 0 < Len(nodes[FirstPage].slots)
    <2>1. ASSUME FirstPage < P PROVE Linked(FirstPage)
      BY <1>4, <1>8, <2>1 DEF OnChain
    <2>2. Linked(FirstPage) => nodes[FirstPage].slots # <<>>
      BY <1>4 DEF ChainInv
    <2>3. GoodNode(nodes[FirstPage])
      BY <1>4 DEF StoreInv
    <2> QED
      BY <2>1, <2>2, <2>3, GoodOffsets
  <1>10. j.before <= j.goal
    <2>1. i.before \in Nat /\ i.before <= Len(log)
      BY <1>2, IterTypes DEF OpenInv
    <2>2. CASE i.before = 0
      BY <1>5, <1>6, <2>2
    <2>3. CASE i.before # 0
      <3>1. i.before \in DOMAIN log
        BY <2>1, <2>3, LogTypes
      <3>2. log[i.before].rid.page_id <= P
        BY <1>2, <1>3, <2>1, <3>1 DEF OpenInv
      <3> QED
        BY <1>5, <1>6, <3>1, <3>2
    <2> QED
      BY <2>2, <2>3
  <1>11. Position(j.end, j.goal)
    <2>1. ASSUME NEW k \in DOMAIN log
          PROVE  log[k].rid.page_id <= P <=> Precedes(log[k].rid, j.end)
      <3>1. log[k].rid.page_id \in Nat /\ log[k].rid.slot_id \in Nat
        BY LogTypes
      <3>2. log[k].rid.page_id = P => log[k].rid.slot_id < Len(nodes[P].slots)
        BY DEF LogInv, Holds
      <3> QED
        BY <1>4, <1>6, <3>1, <3>2 DEF Precedes
    <2> QED
      BY <1>5, <1>6, <2>1 DEF Position
  <1>12. Position(j.r_id, 0)
    <2>1. ASSUME NEW k \in DOMAIN log PROVE ~Precedes(log[k].rid, j.r_id) /\ ~(k <= 0)
      <3>1. log[k].rid.page_id \in PageIds /\ log[k].rid.page_id \in Nat
            /\ log[k].rid.slot_id \in Nat /\ k \in 1..Len(log)
        BY LogTypes
      <3>2. FirstPage <= log[k].rid.page_id
        BY <3>1 DEF LogInv, ChainInv
      <3> QED
        BY <1>4, <1>8, <3>1, <3>2 DEF Precedes
    <2> QED
      BY <2>1, LogTypes DEF Position
  <1>13. OutInv(j.out, 0)
    <2>1. Len(<<>>) = 0 /\ DOMAIN <<>> = {}
      OBVIOUS
    <2> QED
      BY <1>8, <2>1 DEF OutInv
  <1>14. WalkInv(j)
    <2>1. 0 \in 0..Len(log)
      BY LogTypes
    <2> QED
      BY <1>4, <1>6, <1>8, <1>9, <1>10, <1>11, <1>12, <1>13, <2>1 DEF WalkInv
  <1> QED
    BY <1>6, <1>7, <1>14, IterMoves

\* An iterator stops: it is idle again, or its thread panics.
LEMMA IterStopsKeeps ==
  ASSUME IInv, NEW t \in Iters, IterOpenFails(t) \/ IterPanics(t)
  PROVE  IInv'
  <1> USE DEF IInv
  <1>1. PICK i \in IterState : i = it[t]
    BY DEF StateType
  <1>2. CASE IterOpenFails(t)
    <2>1. Idle \in IterState /\ Idle.pc = "idle"
      BY TablePagesAssumption DEF IterState, Idle, RId
    <2>2. it' = [it EXCEPT ![t] = Idle] /\ Iterating
      BY <1>2 DEF IterOpenFails
    <2> QED
      BY <2>1, <2>2, IterMoves
  <1>3. CASE IterPanics(t)
    <2> DEFINE j == [i EXCEPT !.pc = "panicked"]
    <2>1. j \in IterState /\ j.pc = "panicked"
      BY DEF IterState
    <2>2. it' = [it EXCEPT ![t] = j] /\ Iterating
      BY <1>1, <1>3 DEF IterPanics, StateType
    <2> HIDE DEF j
    <2> QED
      BY <2>1, <2>2, IterMoves
  <1> QED
    BY <1>2, <1>3

LEMMA NextNoneKeeps ==
  ASSUME IInv, NEW t \in Iters, NextNone(t)
  PROVE  IInv'
  <1> USE DEF IInv
  <1>1. PICK i \in IterState : i = it[t]
    BY DEF StateType
  <1>2. i.pc = "next" /\ i.r_id = i.end /\ WalkInv(i)
    BY <1>1 DEF NextNone, AtEnd, IterInv
  <1> DEFINE j == [i EXCEPT !.pc = "done"]
  <1>3. j \in IterState /\ j.pc = "done" /\ j.before = i.before /\ j.goal = i.goal /\ j.out = i.out
    BY DEF IterState
  <1>4. it' = [it EXCEPT ![t] = j] /\ Iterating
    BY <1>1 DEF NextNone, StateType
  <1> HIDE DEF j
  <1>5. PICK n \in 0..Len(log) : Position(i.r_id, n) /\ OutInv(i.out, n)
    BY <1>2 DEF WalkInv
  <1>6. n = i.goal
    BY <1>2, <1>5, PositionUnique DEF WalkInv
  <1>7. j.before <= j.goal /\ OutInv(j.out, j.goal)
    BY <1>2, <1>3, <1>5, <1>6 DEF WalkInv
  <1> QED
    BY <1>3, <1>4, <1>7, IterMoves

\* Before its end, an iterator is at a slot of its page.
LEMMA WalkInPage ==
  ASSUME IInv, NEW i \in IterState, WalkInv(i), i.r_id # i.end
  PROVE  /\ i.r_id.slot_id < Len(nodes[i.r_id.page_id].slots)
         /\ i.r_id.page_id = i.end.page_id => i.r_id.slot_id < i.end.slot_id
  <1> USE DEF IInv
  <1>1. i.r_id \in RId /\ i.end \in RId /\ i.r_id.page_id \in PageIds /\ i.end.page_id \in PageIds
        /\ i.r_id.page_id \in Nat /\ i.end.page_id \in Nat
        /\ i.r_id.slot_id \in Nat /\ i.end.slot_id \in Nat
    BY IterTypes
  <1>2. Len(nodes[i.end.page_id].slots) \in Nat
    BY <1>1, PageTypes
  <1>3. i.r_id.page_id = i.end.page_id => i.r_id.slot_id # i.end.slot_id
    BY <1>1 DEF RId
  <1>4. i.r_id.page_id = i.end.page_id => i.r_id.slot_id < i.end.slot_id
    BY <1>1, <1>3 DEF WalkInv
  <1>5. i.r_id.page_id = i.end.page_id => i.r_id.slot_id < Len(nodes[i.end.page_id].slots)
    <2>1. i.end.slot_id <= Len(nodes[i.end.page_id].slots)
      BY DEF WalkInv
    <2> QED
      BY <1>1, <1>2, <1>4, <2>1
  <1>6. i.r_id.page_id <= i.end.page_id
        /\ (i.r_id.page_id < i.end.page_id => i.r_id.slot_id < Len(nodes[i.r_id.page_id].slots))
    BY DEF WalkInv
  <1> QED
    BY <1>1, <1>4, <1>5, <1>6

LEMMA NextGetKeeps ==
  ASSUME IInv, NEW t \in Iters, NextGet(t) \/ NextGetFails(t)
  PROVE  IInv'
  <1> USE DEF IInv
  <1>1. PICK i \in IterState : i = it[t]
    BY DEF StateType
  <1>2. i.pc = "next" /\ i.r_id # i.end /\ WalkInv(i)
    BY <1>1 DEF NextGet, NextGetFails, AtEnd, IterInv
  <1>3. PICK n \in 0..Len(log) : Position(i.r_id, n) /\ OutInv(i.out, n)
    BY <1>2 DEF WalkInv
  <1>4. i.r_id \in RId /\ i.r_id.page_id \in PageIds /\ i.r_id.slot_id \in Nat
    BY IterTypes
  <1>5. n + 1 \in DOMAIN log /\ log[n + 1].rid = i.r_id
    BY <1>2, <1>3, <1>4, WalkInPage, EntryAt
  <1>6. PICK x \in {Failed, n + 1} : it' = [it EXCEPT ![t].pc = "got", ![t].item = x]
    <2>1. CASE NextGet(t)
      <3> DEFINE node == nodes[i.r_id.page_id]
                 slot == node.slots[i.r_id.slot_id + 1]
      <3>1. Holds(node, i.r_id.slot_id, log[n + 1].len, n + 1)
        BY <1>5 DEF LogInv
      <3>2. GoodNode(node)
        BY <1>4 DEF StoreInv
      <3>3. i.r_id.slot_id + 1 \in DOMAIN node.slots
        BY <1>4, <3>1, <3>2, GoodOffsets DEF Holds
      <3>4. slot.offset \in Nat /\ slot.len \in Nat /\ slot.len > 0 /\ slot.len = log[n + 1].len
            /\ slot.offset + slot.len <= PAGE_SIZE
        BY <3>1, <3>2, <3>3, GoodOffsets DEF GoodNode, Holds
      <3>5. slot.offset \in Offsets
        BY <3>4, SizesAssumption DEF Offsets
      <3>6. node.cells[slot.offset] = n + 1
        <4> HIDE DEF slot
        <4>1. slot.offset >= slot.offset /\ slot.offset < slot.offset + log[n + 1].len
          BY <3>4
        <4> QED
          BY <3>1, <3>5, <4>1 DEF Holds, slot
      <3>7. NodeGet(node, i.r_id.slot_id).data[0] = node.cells[slot.offset]
        <4>1. 0 \in 0..(slot.len - 1) /\ slot.offset + 0 = slot.offset
          BY <3>4
        <4> QED
          BY <4>1 DEF NodeGet
      <3>8. it' = [it EXCEPT ![t].pc = "got",
                             ![t].item = NodeGet(Here(t), it[t].r_id.slot_id).data[0]]
        BY <2>1 DEF NextGet
      <3>9. NodeGet(Here(t), it[t].r_id.slot_id).data[0] = n + 1
        BY <1>1, <3>6, <3>7 DEF Here
      <3> QED
        BY <3>8, <3>9
    <2>2. CASE NextGetFails(t)
      BY <2>2 DEF NextGetFails
    <2> QED
      BY <2>1, <2>2
  <1> DEFINE j == [i EXCEPT !.pc = "got", !.item = x]
  <1>7. x \in Values \cup {Failed}
    BY <1>5 DEF StateType
  <1>8. /\ j \in IterState /\ j.pc = "got" /\ j.item = x /\ j.r_id = i.r_id /\ j.end = i.end
        /\ j.out = i.out /\ j.before = i.before /\ j.goal = i.goal
    BY <1>7 DEF IterState
  <1>9. it' = [it EXCEPT ![t] = j] /\ Iterating
    <2>1. it \in [Iters -> IterState]
      BY DEF StateType
    <2> QED
      BY <1>1, <1>6, <2>1 DEF IterState, NextGet, NextGetFails
  <1> HIDE DEF j
  <1>10. WalkInv(j)
    BY <1>2, <1>3, <1>8 DEF WalkInv
  <1> QED
    BY <1>8, <1>9, <1>10, IterMoves

(***************************************************************************)
(* next() moves on.  An iterator before its end on the end's own page is   *)
(* not at the last slot, so it leaves a page only for the next one on the  *)
(* chain, which the end is on or behind; the item is never dropped.        *)
(***************************************************************************)
LEMMA NextAdvanceKeeps ==
  ASSUME IInv, NEW t \in Iters, NextAdvance(t)
  PROVE  IInv'
  <1> USE DEF IInv
  <1>1. PICK i \in IterState : i = it[t]
    BY DEF StateType
  <1>2. i.pc = "got" /\ i.r_id # i.end /\ WalkInv(i)
    BY <1>1 DEF NextAdvance, IterInv, WalkInv
  <1>3. PICK r \in RId : r = i.r_id
    BY IterTypes
  <1>4. PICK end \in RId : end = i.end
    BY IterTypes
  <1>5. PICK n \in 0..Len(log) : Position(r, n) /\ OutInv(i.out, n) /\ i.item \in {Failed, n + 1}
    BY <1>2, <1>3 DEF WalkInv
  <1>6. /\ r.page_id \in PageIds /\ end.page_id \in PageIds
        /\ r.page_id \in Nat /\ end.page_id \in Nat /\ r.slot_id \in Nat /\ end.slot_id \in Nat
    BY <1>3, <1>4, IterTypes
  <1> DEFINE L == Len(nodes[r.page_id].slots)
             next == nodes[r.page_id].next_page_id
  <1>7. /\ r.slot_id < L /\ L \in Nat
        /\ r.page_id = end.page_id => r.slot_id < end.slot_id /\ end.slot_id <= L
        /\ r.page_id <= end.page_id
    BY <1>2, <1>3, <1>4, <1>6, WalkInPage, PageTypes DEF WalkInv
  <1>8. n + 1 \in DOMAIN log /\ log[n + 1].rid = r /\ n \in Nat /\ n + 1 \in 0..Len(log)
    <2>1. n + 1 \in DOMAIN log /\ log[n + 1].rid = r
      BY <1>5, <1>7, EntryAt
    <2> QED
      BY <1>5, <2>1, LogTypes
  <1>9. StaysInPage(t) <=> \/ r.page_id = end.page_id /\ r.slot_id = end.slot_id - 1
                           \/ r.slot_id + 1 < L
    BY <1>1, <1>3, <1>4 DEF StaysInPage, Here
  <1>10. ~StaysInPage(t) => r.page_id < end.page_id /\ r.slot_id + 1 = L
    <2>1. ~StaysInPage(t) => r.slot_id + 1 = L
      BY <1>6, <1>7, <1>9
    <2>2. ~StaysInPage(t) => r.page_id # end.page_id
      BY <1>6, <1>7, <1>9, <2>1
    <2> QED
      BY <1>6, <1>7, <2>1, <2>2
  <1>11. OnChain(r.page_id) /\ OnChain(end.page_id) /\ last_page_id \in Nat
         /\ end.page_id <= last_page_id
    BY <1>2, <1>3, <1>4, <1>6, PageTypes DEF WalkInv, ChainInv
  <1>12. ASSUME NEW p \in PageIds, OnChain(p), p < end.page_id
         PROVE  Linked(p) /\ 0 < Len(nodes[p].slots)
    <2>1. Linked(p)
      BY <1>6, <1>11, <1>12, TablePagesAssumption DEF OnChain
    <2>2. nodes[p].slots # <<>> /\ GoodNode(nodes[p])
      BY <2>1 DEF ChainInv, StoreInv
    <2> QED
      BY <2>1, <2>2, GoodOffsets
  <1>13. ~StaysInPage(t) =>
            /\ next \in PageIds /\ next # 0 /\ r.page_id < next /\ OnChain(next)
            /\ \A q \in PageIds : OnChain(q) /\ r.page_id < q => next <= q
    <2>1. ~StaysInPage(t) => Linked(r.page_id)
      BY <1>6, <1>10, <1>11, <1>12
    <2> QED
      BY <1>6, <2>1 DEF ChainInv, Linked
  <1>14. PICK s \in RId : s = Advanced(t)
    <2>1. CASE StaysInPage(t)
      <3>1. Advanced(t) = [r EXCEPT !.slot_id = @ + 1]
        BY <1>1, <1>3, <2>1 DEF Advanced
      <3> QED
        BY <1>6, <3>1 DEF RId
    <2>2. CASE ~StaysInPage(t)
      <3>1. Advanced(t) = [page_id |-> next, slot_id |-> 0]
        BY <1>1, <1>3, <2>2 DEF Advanced, Here
      <3> QED
        BY <1>13, <2>2, <3>1 DEF RId
    <2> QED
      BY <2>1, <2>2
  <1>15. StaysInPage(t) => s.page_id = r.page_id /\ s.slot_id = r.slot_id + 1
    BY <1>1, <1>3, <1>14 DEF Advanced, RId
  <1>16. ~StaysInPage(t) => s.page_id = next /\ s.slot_id = 0
    BY <1>1, <1>3, <1>14 DEF Advanced, Here
  <1> DEFINE j == [i EXCEPT !.pc = "next", !.r_id = s, !.out = Append(@, i.item)]
  <1>17. i.item \in Values \cup {Failed} /\ i.out \in Seq(Values \cup {Failed})
         /\ Append(i.out, i.item) \in Seq(Values \cup {Failed})
    <2>1. i.item \in Values \cup {Failed} /\ i.out \in Seq(Values \cup {Failed})
      BY IterTypes
    <2> QED
      BY <2>1
  <1>18. /\ j \in IterState /\ j.pc = "next" /\ j.r_id = s /\ j.end = end
         /\ j.out = Append(i.out, i.item) /\ j.before = i.before /\ j.goal = i.goal
    BY <1>4, <1>17 DEF IterState
  <1>19. it' = [it EXCEPT ![t] = j] /\ Iterating
    <2>1. ~(~StaysInPage(t) /\ Here(t).next_page_id = 0)
      BY <1>1, <1>3, <1>13 DEF Here
    <2>2. it' = [it EXCEPT ![t].pc = "next", ![t].r_id = Advanced(t),
                           ![t].out = Append(@, it[t].item)]
      BY <2>1 DEF NextAdvance
    <2>3. it \in [Iters -> IterState]
      BY DEF StateType
    <2> HIDE DEF Advanced
    <2> QED
      BY <1>1, <1>14, <2>2, <2>3 DEF IterState, NextAdvance
  <1> HIDE DEF j
  <1>20. OutInv(j.out, n + 1)
    BY <1>5, <1>8, <1>17, <1>18, OutAdvances
  <1>21. Position(s, n + 1)
    <2>1. ASSUME NEW k \in DOMAIN log
          PROVE  Precedes(log[k].rid, s) <=> (Precedes(log[k].rid, r) \/ log[k].rid = r)
      <3>1. log[k].rid \in RId /\ log[k].rid.page_id \in PageIds /\ log[k].rid.page_id \in Nat
            /\ log[k].rid.slot_id \in Nat
        BY LogTypes
      <3>2. log[k].rid = r <=> (log[k].rid.page_id = r.page_id /\ log[k].rid.slot_id = r.slot_id)
        BY <3>1 DEF RId
      <3>3. CASE StaysInPage(t)
        BY <1>6, <1>15, <3>1, <3>2, <3>3 DEF Precedes
      <3>4. CASE ~StaysInPage(t)
        <4>1. /\ OnChain(log[k].rid.page_id)
              /\ log[k].rid.slot_id < Len(nodes[log[k].rid.page_id].slots)
          BY DEF LogInv, Holds
        <4>2. next \in PageIds /\ next \in Nat /\ r.page_id < next
          BY <1>13, <3>4, TablePagesAssumption
        <4>3. r.page_id < log[k].rid.page_id => next <= log[k].rid.page_id
          BY <1>13, <3>1, <3>4, <4>1
        <4>4. log[k].rid.page_id = r.page_id => log[k].rid.slot_id <= r.slot_id
          BY <1>6, <1>7, <1>10, <3>1, <3>4, <4>1
        <4>5. s.page_id = next /\ s.slot_id = 0
          BY <1>16, <3>4
        <4> HIDE DEF next, L
        <4> QED
          BY <1>6, <3>1, <3>2, <4>2, <4>3, <4>4, <4>5 DEF Precedes
      <3> QED
        BY <3>3, <3>4
    <2>2. ASSUME NEW k \in DOMAIN log PROVE k <= n + 1 <=> Precedes(log[k].rid, s)
      <3>1. k \in Nat /\ (k <= n + 1 <=> k <= n \/ k = n + 1)
        BY <1>8, LogTypes
      <3>2. k <= n <=> Precedes(log[k].rid, r)
        BY <1>5 DEF Position
      <3>3. k = n + 1 => log[k].rid = r
        BY <1>8
      <3>4. log[k].rid = r => k <= n + 1
        <4>1. ASSUME n + 1 < k, log[k].rid = r PROVE FALSE
          <5>1. Precedes(log[n + 1].rid, log[k].rid)
            BY <1>8, <4>1 DEF LogInv
          <5> QED
            BY <1>6, <1>8, <4>1, <5>1 DEF Precedes
        <4> QED
          BY <1>8, <3>1, <4>1
      <3> QED
        BY <2>1, <3>1, <3>2, <3>3, <3>4
    <2> QED
      BY <1>8, <2>2 DEF Position
  <1>22. OnChain(s.page_id) /\ s.page_id <= end.page_id
    <2>1. CASE StaysInPage(t)
      BY <1>7, <1>11, <1>15, <2>1
    <2>2. CASE ~StaysInPage(t)
      BY <1>6, <1>10, <1>11, <1>13, <1>16, <2>2
    <2> QED
      BY <2>1, <2>2
  <1>23. s.page_id = end.page_id => s.slot_id <= end.slot_id
    <2>1. CASE StaysInPage(t)
      BY <1>6, <1>7, <1>15, <2>1
    <2>2. CASE ~StaysInPage(t)
      BY <1>6, <1>16, <2>2
    <2> QED
      BY <2>1, <2>2
  <1>24. s.page_id < end.page_id => s.slot_id < Len(nodes[s.page_id].slots)
    <2>1. CASE StaysInPage(t)
      BY <1>6, <1>7, <1>9, <1>15, <2>1
    <2>2. CASE ~StaysInPage(t)
      <3>1. s.page_id \in PageIds
        BY DEF RId
      <3> QED
        BY <1>12, <1>16, <1>22, <2>2, <3>1
    <2> QED
      BY <2>1, <2>2
  <1>25. WalkInv(j)
    BY <1>2, <1>4, <1>8, <1>11, <1>18, <1>20, <1>21, <1>22, <1>23, <1>24 DEF WalkInv
  <1> QED
    BY <1>18, <1>19, <1>25, IterMoves

LEMMA NextAdvanceFailsKeeps ==
  ASSUME IInv, NEW t \in Iters, NextAdvanceFails(t)
  PROVE  IInv'
  <1> USE DEF IInv
  <1>1. PICK i \in IterState : i = it[t]
    BY DEF StateType
  <1>2. i.pc = "got" /\ WalkInv(i)
    BY <1>1 DEF NextAdvanceFails, IterInv
  <1>3. PICK n \in 0..Len(log) : Position(i.r_id, n) /\ OutInv(i.out, n)
    BY <1>2 DEF WalkInv
  <1> DEFINE j == [i EXCEPT !.pc = "next", !.out = Append(@, Failed)]
  <1>4. i.out \in Seq(Values \cup {Failed}) /\ Append(i.out, Failed) \in Seq(Values \cup {Failed})
        /\ n \in Nat
    <2>1. i.out \in Seq(Values \cup {Failed}) /\ Failed \in Values \cup {Failed}
      BY IterTypes
    <2> QED
      BY <2>1, LogTypes
  <1>5. /\ j \in IterState /\ j.pc = "next" /\ j.r_id = i.r_id /\ j.end = i.end
        /\ j.out = Append(i.out, Failed) /\ j.before = i.before /\ j.goal = i.goal
    BY <1>4 DEF IterState
  <1>6. it' = [it EXCEPT ![t] = j] /\ Iterating
    <2>1. it \in [Iters -> IterState]
      BY DEF StateType
    <2> QED
      BY <1>1, <2>1 DEF IterState, NextAdvanceFails
  <1> HIDE DEF j
  <1>7. OutInv(j.out, n)
    BY <1>3, <1>4, <1>5, OutFails
  <1>8. WalkInv(j)
    BY <1>2, <1>3, <1>5, <1>7 DEF WalkInv
  <1> QED
    BY <1>5, <1>6, <1>8, IterMoves

-----------------------------------------------------------------------------
(***************************************************************************)
(* The theorems.                                                           *)
(***************************************************************************)
LEMMA InitIInv == ASSUME Init PROVE IInv
  <1>1. FirstPage \in PageIds /\ FirstPage \in Nat
    BY TablePagesAssumption
  <1>2. nodes = [p \in PageIds |-> EmptyNode] /\ last_page_id = FirstPage
        /\ next_page_id = FirstPage + 1 /\ log = <<>> /\ it = [t \in Iters |-> Idle]
    BY DEF Init
  <1>3. GoodNode(EmptyNode) /\ EmptyNode \in TableNodes
        /\ EmptyNode.next_page_id = 0 /\ Len(EmptyNode.slots) = 0
    BY EmptyIsGood DEF GoodNode
  <1>4. Idle \in IterState /\ Idle.pc = "idle"
    BY <1>1 DEF IterState, Idle, RId
  <1>5. log \in Seq(Entry) /\ DOMAIN log = {}
    BY <1>2
  <1>6. StateType
    <2> HIDE DEF Idle
    <2> QED
      BY <1>1, <1>2, <1>4, <1>5 DEF StateType
  <1>7. nodes \in [PageIds -> TableNodes] /\ \A p \in PageIds : nodes[p] = EmptyNode
    <2> HIDE DEF EmptyNode
    <2> QED
      BY <1>2, <1>3
  <1>8. StoreInv
    BY <1>3, <1>7 DEF StoreInv
  <1>9. \A p \in PageIds : ~Linked(p)
    BY <1>3, <1>7 DEF Linked
  <1>10. ChainInv
    <2>1. \A p \in PageIds : OnChain(p) <=> p = FirstPage
      BY <1>2, <1>9 DEF OnChain
    <2>2. FirstPage <= FirstPage
      BY <1>1
    <2> QED
      BY <1>1, <1>2, <1>9, <2>1, <2>2 DEF ChainInv
  <1>11. LogInv
    BY <1>3, <1>5, <1>7 DEF LogInv
  <1>12. IterInv
    BY <1>2, <1>4 DEF IterInv
  <1> QED
    BY <1>6, <1>8, <1>10, <1>11, <1>12 DEF IInv

LEMMA NextIInv == ASSUME IInv, [Next]_vars PROVE IInv'
  <1>1. CASE UNCHANGED vars
    BY <1>1 DEF vars, IInv, StateType, StoreInv, ChainInv, LogInv, IterInv, OpenInv, WalkInv,
                OnChain, Linked, Position, OutInv
  <1>2. ASSUME NEW len \in Lens, NEW deleted \in BOOLEAN, InsertLast(len, deleted) PROVE IInv'
    BY <1>2, InsertLastKeeps
  <1>3. ASSUME NEW len \in Lens, NEW deleted \in BOOLEAN, InsertNewPage(len, deleted) PROVE IInv'
    BY <1>3, InsertNewPageKeeps
  <1>4. ASSUME NEW len \in Lens, InsertNewPageFails(len) \/ InsertPanicsFirst(len) PROVE IInv'
    BY <1>4, InsertChangesNothing
  <1>5. ASSUME NEW len \in Lens, InsertPanicsLinked(len) PROVE IInv'
    BY <1>5, InsertPanicsLinkedKeeps
  <1>6. ASSUME NEW t \in Iters, IterLast(t) PROVE IInv'
    BY <1>6, IterLastKeeps
  <1>7. ASSUME NEW t \in Iters, IterStep(t) PROVE IInv'
    BY <1>7, IterOpenKeeps, IterStopsKeeps, NextNoneKeeps, NextGetKeeps, NextAdvanceKeeps,
       NextAdvanceFailsKeeps DEF IterStep
  <1> QED
    BY <1>1, <1>2, <1>3, <1>4, <1>5, <1>6, <1>7 DEF Next

(***************************************************************************)
(* The pages, the chain, the RIds insert() returned and the iterators      *)
(* agree, whatever the interleaving of inserts and iterators, page cache   *)
(* errors and panics (list.rs).                                            *)
(***************************************************************************)
THEOREM Invariance == Spec => []IInv
  <1>1. Init => IInv
    BY InitIInv
  <1>2. IInv /\ [Next]_vars => IInv'
    BY NextIInv
  <1> QED
    BY <1>1, <1>2, PTL DEF Spec

\* The slots of a page end before its tuples begin, and the tuples are
\* stacked without overlap (the check of Node::next_tuple_offset).
THEOREM SlotsBelowTuplesCorrect == Spec => []SlotsBelowTuples
  <1>1. IInv => SlotsBelowTuples
    BY DEF IInv, StoreInv, GoodNode, SlotsBelowTuples
  <1> QED
    BY <1>1, Invariance, PTL

\* An RId that List::insert returned reads as the tuple inserted, for ever.
THEOREM ReadsBackCorrect == Spec => []ReadsBack
  <1>1. ASSUME IInv PROVE ReadsBack
    <2> SUFFICES ASSUME NEW k \in DOMAIN log
                 PROVE  /\ log[k].rid.slot_id < Len(nodes[log[k].rid.page_id].slots)
                        /\ NodeGet(nodes[log[k].rid.page_id], log[k].rid.slot_id).data =
                              [o \in 0..(log[k].len - 1) |-> k]
      BY DEF ReadsBack
    <2>1. PICK p \in PageIds, s \in Nat, len \in Nat :
              p = log[k].rid.page_id /\ s = log[k].rid.slot_id /\ len = log[k].len
      BY <1>1, LogTypes DEF IInv
    <2>2. Holds(nodes[p], s, len, k) /\ GoodNode(nodes[p])
      BY <1>1, <2>1 DEF IInv, LogInv, StoreInv
    <2> DEFINE slot == nodes[p].slots[s + 1]
    <2>3. s < Len(nodes[p].slots) /\ slot.len = len /\ s + 1 \in DOMAIN nodes[p].slots
      BY <2>2, GoodOffsets DEF Holds
    <2>4. slot.offset \in Nat /\ slot.offset + len <= PAGE_SIZE
      BY <2>2, <2>3, GoodOffsets DEF GoodNode
    <2>5. \A o \in Offsets : o >= slot.offset /\ o < slot.offset + len => nodes[p].cells[o] = k
      BY <2>2 DEF Holds
    <2>6. NodeGet(nodes[p], s).data = [o \in 0..(len - 1) |-> nodes[p].cells[slot.offset + o]]
      BY <2>3 DEF NodeGet
    <2> HIDE DEF slot
    <2>7. ASSUME NEW o \in 0..(len - 1) PROVE nodes[p].cells[slot.offset + o] = k
      <3>1. slot.offset + o \in Offsets /\ slot.offset + o >= slot.offset
            /\ slot.offset + o < slot.offset + len
        BY <2>4, SizesAssumption DEF Offsets
      <3> QED
        BY <2>5, <3>1
    <2> QED
      BY <2>1, <2>3, <2>6, <2>7
  <1> QED
    BY <1>1, Invariance, PTL

(***************************************************************************)
(* Iter::next never asks Node::get for a slot its page does not have: an   *)
(* iterator's thread panics only on a latch that a panic of insert         *)
(* poisoned.                                                               *)
(***************************************************************************)
THEOREM IterPanicsOnlyIfPoisonedCorrect == Spec => []IterPanicsOnlyIfPoisoned
  <1>1. Init => IterPanicsOnlyIfPoisoned
    BY DEF Init, IterPanicsOnlyIfPoisoned, Idle
  <1>2. ASSUME IInv, IterPanicsOnlyIfPoisoned, [Next]_vars PROVE IterPanicsOnlyIfPoisoned'
    <2>1. it \in [Iters -> IterState]
      BY <1>2 DEF IInv, StateType
    <2>2. CASE UNCHANGED vars
      BY <1>2, <2>2 DEF vars, IterPanicsOnlyIfPoisoned
    <2>3. ASSUME NEW len \in Lens, NEW deleted \in BOOLEAN,
                 \/ InsertLast(len, deleted) \/ InsertNewPage(len, deleted)
                 \/ InsertNewPageFails(len) \/ InsertPanicsFirst(len) \/ InsertPanicsLinked(len)
          PROVE  IterPanicsOnlyIfPoisoned'
      <3>1. it' = it /\ (poisoned' = poisoned \/ poisoned' # {})
        BY <2>3 DEF InsertLast, InsertNewPage, InsertNewPageFails, InsertPanicsFirst,
                    InsertPanicsLinked
      <3> QED
        BY <1>2, <3>1 DEF IterPanicsOnlyIfPoisoned
    <2>4. ASSUME NEW t \in Iters, IterLast(t) \/ IterStep(t) PROVE IterPanicsOnlyIfPoisoned'
      <3>1. poisoned' = poisoned /\ \A u \in Iters \ {t} : it'[u] = it[u]
        BY <2>1, <2>4 DEF IterLast, IterStep, IterOpen, IterOpenFails, NextNone, NextGet,
             NextGetFails, NextAdvance, NextAdvanceFails, IterPanics, Iterating
      <3>2. CASE IterPanics(t)
        <4>1. PICK i \in IterState : i = it[t]
          BY <2>1
        <4>2. i.pc = "next" /\ i.r_id # i.end => InPage(t)
          BY <1>2, <4>1, WalkInPage DEF InPage, Here, IInv, IterInv
        <4>3. poisoned # {}
          BY <3>2, <4>1, <4>2 DEF IterPanics, AtEnd
        <4> QED
          BY <3>1, <4>3 DEF IterPanicsOnlyIfPoisoned
      <3>3. CASE ~IterPanics(t)
        <4>1. it[t] \in IterState
          BY <2>1
        <4>2. it'[t].pc # "panicked"
          <5>1. CASE IterLast(t) \/ IterOpen(t) \/ IterOpenFails(t)
            <6>1. CASE IterLast(t)
              BY <2>1, <6>1 DEF IterLast, Idle
            <6>2. CASE IterOpen(t)
              <7> HIDE DEF CountUpTo
              <7> QED
                BY <2>1, <4>1, <6>2 DEF IterOpen, IterState
            <6>3. CASE IterOpenFails(t)
              BY <2>1, <6>3 DEF IterOpenFails, Idle
            <6> QED
              BY <5>1, <6>1, <6>2, <6>3
          <5>2. CASE NextNone(t) \/ NextGet(t) \/ NextGetFails(t) \/ NextAdvanceFails(t)
            BY <2>1, <4>1, <5>2 DEF NextNone, NextGet, NextGetFails, NextAdvanceFails, IterState
          <5>3. CASE NextAdvance(t)
            BY <2>1, <4>1, <5>3 DEF NextAdvance, IterState
          <5> QED
            BY <2>4, <3>3, <5>1, <5>2, <5>3 DEF IterStep
        <4> QED
          BY <1>2, <3>1, <4>2 DEF IterPanicsOnlyIfPoisoned
      <3> QED
        BY <3>2, <3>3
    <2> QED
      BY <1>2, <2>2, <2>3, <2>4 DEF Next
  <1> QED
    BY <1>1, <1>2, Invariance, PTL DEF Spec

(***************************************************************************)
(* An iterator that ends has returned a prefix of the inserts in order:    *)
(* all that returned before List::iter was called, none twice, none from   *)
(* after the end it saw, and an error for each tuple it left out.          *)
(***************************************************************************)
THEOREM IterIsSnapshotCorrect == Spec => []IterIsSnapshot
  <1>1. ASSUME IInv PROVE IterIsSnapshot
    <2> SUFFICES ASSUME NEW t \in Iters, it[t].pc = "done"
                 PROVE  /\ it[t].before <= it[t].goal
                        /\ Len(it[t].out) >= it[t].goal
                        /\ \A a, b \in Returned(t) : a < b => it[t].out[a] < it[t].out[b]
                        /\ \A a \in Returned(t) : it[t].out[a] <= it[t].goal
                        /\ Returned(t) = DOMAIN it[t].out => Len(it[t].out) = it[t].goal
      BY DEF IterIsSnapshot
    <2>1. PICK i \in IterState : i = it[t]
      BY <1>1 DEF IInv, StateType
    <2>2. i.before <= i.goal /\ OutInv(i.out, i.goal)
      BY <1>1, <2>1 DEF IInv, IterInv
    <2>3. i.goal \in Nat /\ Len(i.out) \in Nat
      BY IterTypes
    <2>4. Len(i.out) >= i.goal
      BY <2>2, <2>3 DEF OutInv
    <2>5. \A a \in Returned(t) : a \in DOMAIN i.out /\ i.out[a] # Failed
      BY <2>1 DEF Returned
    <2>6. \A a, b \in Returned(t) : a < b => i.out[a] < i.out[b]
      BY <2>2, <2>5 DEF OutInv
    <2>7. \A a \in Returned(t) : i.out[a] <= i.goal
      BY <2>2, <2>3, <2>5 DEF OutInv
    <2>8. Returned(t) = DOMAIN i.out => Len(i.out) = i.goal
      BY <2>2, <2>5 DEF OutInv
    <2> QED
      BY <2>1, <2>2, <2>4, <2>6, <2>7, <2>8
  <1> QED
    BY <1>1, Invariance, PTL

=============================================================================
