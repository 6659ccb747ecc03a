----------------------------- MODULE BTreeNode ------------------------------
(***************************************************************************)
(* A node of the B+ tree, src/src/btree/node.rs.  Its values are slots in  *)
(* the order of their keys: a key and a value in a leaf; in an internal    *)
(* node a bound above every key of a child and the page of that child.     *)
(***************************************************************************)
EXTENDS Tuple

CONSTANTS PAGE_SIZE,
          NODE_VALUES_START,   \* size of the header of a node
          VALUE_SIZE           \* size_of the values

ASSUME NodeSizesAssumption == {PAGE_SIZE, NODE_VALUES_START, VALUE_SIZE} \subseteq Nat

None == -1   \* no page

EITHER_SIZE == 1 + VALUE_SIZE   \* Either::SIZE, a value or a pointer

\* Either::from decodes a pointer from as many bytes as a value has; an i32 has 4.
PointersReadable == VALUE_SIZE = 4

\* tys has the types of the columns of a key, the schema of the node.
NewNode(t, tys) == [t |-> t, next |-> None, values |-> <<>>, tys |-> tys]

IsLeaf(node) == node.t = "Leaf"

Slot(k, v) == [key |-> k, val |-> v]

LastKey(node) == Last(node.values).key

\* Mutant: the whole page instead of half of it.
Full(node) == Len(node.values) * SumSizes(node.tys) >= PAGE_SIZE

\* almost_full counts the fixed part of the keys only, fits the slots.
AlmostFull(node) == Len(node.values) * SumSizes(node.tys) >= PAGE_SIZE \div 2

\* The bytes of a tuple that are not in its fixed part.
VarBytes(tys, k) ==
    LET sum[n \in 0..Len(tys)] ==
            IF n = 0 THEN 0
            ELSE sum[n - 1] + (IF tys[n] = "Varchar" THEN Len(k[n]) ELSE 0)
    IN  sum[Len(tys)]

\* PageBuf::from panics on a node that does not fit.
FitsPage(node) ==
    LET size[n \in 0..Len(node.values)] ==
            IF n = 0 THEN NODE_VALUES_START
            ELSE size[n - 1] + SumSizes(node.tys) + VarBytes(node.tys, node.values[n].key)
                 + EITHER_SIZE
    IN  size[Len(node.values)] <= PAGE_SIZE

\* Mutant: the leaves are not linked.
LowerHalfUnlinked(node, id) == [node EXCEPT !.values = SubSeq(@, 1, Len(@) \div 2)]

\* split: the lower half stays and, in a leaf, gets the new page as next.
LowerHalf(node, id) ==
    [node EXCEPT !.values = SubSeq(@, 1, Len(@) \div 2),
                 !.next   = IF IsLeaf(node) THEN id ELSE @]

UpperHalf(node) ==
    [node EXCEPT !.values = SubSeq(@, Len(@) \div 2 + 1, Len(@)),
                 !.next   = IF IsLeaf(node) THEN @ ELSE None]

SeparatorInclusive(node, id) == Slot(LastKey(node), id)   \* mutant: last key as it is

\* get_separator, and whether Tuple::next panics in it.
Separator(node, id) ==
    Slot(IF IsLeaf(node) THEN KeyNext(node.tys, LastKey(node)) ELSE LastKey(node), id)

SeparatorPanics(node) == IsLeaf(node) /\ NextPanics(node.tys[1], LastKey(node)[1])

\* The first child whose bound is above the key.
FindChild(node, key) ==
    LET i == SelectInSeq(node.values, LAMBDA s : KeyLess(node.tys, key, s.key))
    IN  IF IsLeaf(node) THEN None
        ELSE IF i = 0 THEN node.next ELSE node.values[i].val

\* The place of a key in a node: the first slot that is not below it, or 0.
PlaceOf(node, key) == SelectInSeq(node.values, LAMBDA s : ~KeyLess(node.tys, s.key, key))

\* Mutant: a slot with the same key is kept beside the new one.
DuplicateSlot(node, slot) ==
    LET i == PlaceOf(node, slot.key)
    IN  [node EXCEPT !.values = IF i = 0 THEN Append(@, slot) ELSE InsertAt(@, i, slot)]

\* insert leaves a slot with the same key alone, replace overwrites it.
InsertSlot(node, slot) ==
    LET i == PlaceOf(node, slot.key)
    IN  [node EXCEPT !.values = IF i = 0 THEN Append(@, slot)
                                ELSE IF @[i].key = slot.key THEN @
                                ELSE InsertAt(@, i, slot)]

ReplaceSlot(node, slot) ==
    LET i == PlaceOf(node, slot.key)
    IN  [node EXCEPT !.values = IF i = 0 THEN Append(@, slot)
                                ELSE IF @[i].key = slot.key THEN ReplaceAt(@, i, slot)
                                ELSE InsertAt(@, i, slot)]

\* The index of a key in a node, 0 without it, for get and remove.
IndexOf(node, key) == SelectInSeq(node.values, LAMBDA s : s.key = key)

RemoveKey(node, key) == [node EXCEPT !.values = RemoveAt(@, IndexOf(node, key))]
=============================================================================
