----------------------------- MODULE TableNode ------------------------------
(***************************************************************************)
(* A page of a table, src/src/table/node.rs.  Slots grow up from the       *)
(* header, tuples grow down from the end of the page, each tuple directly  *)
(* below the one before.  Sizes are parameters; the bytes of a tuple are   *)
(* one opaque value each, and cells is the part of the page they are in.   *)
(***************************************************************************)
EXTENDS Integers, Sequences

CONSTANTS PAGE_SIZE, HEADER_SIZE, SLOT_SIZE,
          Values,    \* contents of a tuple
          Blanked    \* a byte of the page no tuple is in

ASSUME SizesAssumption == /\ PAGE_SIZE \in Nat /\ HEADER_SIZE \in Nat
                          /\ SLOT_SIZE \in Nat \ {0}
ASSUME BlankedAssumption == Blanked \notin Values

Offsets == 0..(PAGE_SIZE - 1)

Slot == [offset : Nat, len : Nat, deleted : BOOLEAN]

TableNodes == [next_page_id : Nat, slots : Seq(Slot), cells : [Offsets -> Values \cup {Blanked}]]

\* Node::from of the zeroed buffer new_page() returns.
EmptyNode == [next_page_id |-> 0, slots |-> <<>>, cells |-> [o \in Offsets |-> Blanked]]

LastOffset(node) ==
    IF node.slots = <<>> THEN PAGE_SIZE ELSE node.slots[Len(node.slots)].offset

(***************************************************************************)
(* next_tuple_offset.  The subtraction is on usize: with a tuple longer    *)
(* than the bytes before LastOffset it overflows and the call panics.      *)
(***************************************************************************)
OffsetOverflows(node, len) == len > LastOffset(node)

\* Mutant: the slot of the tuple itself is not counted.
HasRoomForTuple(node, len) ==
    /\ ~OffsetOverflows(node, len)
    /\ LastOffset(node) - len >= HEADER_SIZE + SLOT_SIZE * Len(node.slots)

HasRoom(node, len) ==
    /\ ~OffsetOverflows(node, len)
    /\ LastOffset(node) - len >= HEADER_SIZE + SLOT_SIZE * (Len(node.slots) + 1)

(***************************************************************************)
(* TupleMeta is written as 0 or 1 and read back as "greater than 1", so    *)
(* every node that is read has lost its deleted flags.                     *)
(***************************************************************************)
Decoded(node) == [node EXCEPT !.slots = [s \in DOMAIN @ |-> [@[s] EXCEPT !.deleted = FALSE]]]

\* Mutant: the first byte of the last tuple is not copied.
EncodedShort(node) == [node EXCEPT !.cells = [o \in Offsets |-> IF o > LastOffset(node) THEN @[o] ELSE Blanked]]

\* PageBuf::from(&node) keeps the bytes from the last tuple up.
Encoded(node) == [node EXCEPT !.cells = [o \in Offsets |-> IF o >= LastOffset(node) THEN @[o] ELSE Blanked]]

\* Node::insert on a node with room, which then writes itself to the page.
NodeInsert(node, v, len, deleted) ==
    LET offset == LastOffset(node) - len IN
      Encoded([next_page_id |-> node.next_page_id,
               slots |-> Append(Decoded(node).slots, [offset |-> offset, len |-> len, deleted |-> deleted]),
               cells |-> [o \in Offsets |-> IF o \in offset..(offset + len - 1) THEN v ELSE node.cells[o]]])

\* Node::get: the bytes of one slot.
NodeGet(node, s) ==
    LET slot == node.slots[s + 1] IN
      [meta |-> Decoded(node).slots[s + 1].deleted,
       data |-> [o \in 0..(slot.len - 1) |-> node.cells[slot.offset + o]]]
=============================================================================
