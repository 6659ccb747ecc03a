------------------------------- MODULE BTree --------------------------------
(***************************************************************************)
(* The B+ tree, src/src/btree/mod.rs, over pages that hold one node each.  *)
(*                                                                         *)
(* insert() takes the tree as &mut, so nothing runs beside it; get and     *)
(* delete keep the latches of their path.  They are one step each.  A scan *)
(* lets go of the nodes behind it, so it is one step per node, and deletes *)
(* run beside it.  A call of the page cache may fail in the middle of an   *)
(* insert, which returns with what it wrote before; Tuple::next may panic, *)
(* after which the tree is not used any more.                              *)
(***************************************************************************)
EXTENDS BTreeNode

CONSTANTS KeyTypes,   \* the types of the columns of a key
          Keys, Values,
          PageIds,    \* pages the cache can hand out
          MaxCalls,   \* bounds: calls of the page cache in an insert,
          MaxFaults,  \* inserts that fail, and deletes beside a scan
          MaxBeside,
          Absent      \* a key that is not in the tree

ASSUME BTreeAssumption ==
    /\ KeyTypes \in Seq(Type) /\ KeyTypes # <<>>
    /\ Absent \notin Values
    /\ PageIds \subseteq Nat
    /\ {MaxCalls, MaxFaults, MaxBeside} \subseteq Nat
    /\ PointersReadable

VARIABLES nodes,         \* the node in each page, as written by writep!
          root,          \* BTree.root
          next_page_id,  \* of the page cache
          map,           \* what the callers wrote last under each key
          deletes,       \* whether delete() removed a key yet
          faults,        \* inserts that failed
          status,        \* "ok", or what a failed insert left behind
          scan           \* a scan in progress

vars == <<nodes, root, next_page_id, map, deletes, faults, status, scan>>

\* page is the next one to latch, had has the keys of the tree at the start.
NoScan == [page |-> None, acc |-> <<>>, had |-> {}]

Init == /\ nodes = [p \in PageIds |-> NewNode("Leaf", KeyTypes)]
        /\ root = None
        /\ next_page_id = 0
        /\ map = [k \in Keys |-> Absent]
        /\ deletes = FALSE
        /\ faults = 0
        /\ status = "ok"
        /\ scan = NoScan

-----------------------------------------------------------------------------
(***************************************************************************)
(* An insert in progress: the nodes as written so far, next_page_id, how   *)
(* many more calls of the page cache succeed, whether it went to the upper *)
(* half of a node it split, and how it ended if it did not go on.          *)
(***************************************************************************)
Progress(calls) == [nodes |-> nodes, np |-> next_page_id, calls |-> calls,
                    upper |-> FALSE, end |-> "ok"]

\* The bounds that an internal node may hold, nodes, and inserts in progress.
Bounds == Keys \cup {KeyNext(KeyTypes, k) : k \in Keys}

Node == [t      : {"Leaf", "Internal"},
         next   : PageIds \cup {None},
         values : Seq([key : Bounds, val : Values \cup PageIds]),
         tys    : {KeyTypes}]

InProgress == [nodes : [PageIds -> Node], np : Nat, calls : 0..MaxCalls,
               upper : BOOLEAN, end : {"ok", "error", "panicked"}]

Going(st) == st.end = "ok"

Fail(st) == [st EXCEPT !.end = "error"]

Panic(st) == [st EXCEPT !.end = "panicked"]

FetchPage(st) == IF st.calls = 0 THEN Fail(st) ELSE [st EXCEPT !.calls = @ - 1]

NewPage(st) == [FetchPage(st) EXCEPT !.np = @ + 1]

\* node becomes the node of page p.  If it does not fit, PageBuf::from panics
\* there and then: Left.
Store(st, p, node) == [st EXCEPT !.nodes[p] = node]

(***************************************************************************)
(* _insert.  A node that is almost full is split on the way down; its two  *)
(* separators go to the caller.  below is the call of _insert for a child, *)
(* with the same key and value.                                            *)
(***************************************************************************)
InsertFetched(below, st, p) ==
    IF Going(st) THEN below[[st |-> st, p |-> p]] ELSE [st |-> st, seps |-> <<>>]

\* The separators of a child that was split go into its parent.
Replaced(node, seps) ==
    IF seps = <<>> THEN node ELSE ReplaceSlot(ReplaceSlot(node, seps[1]), seps[2])

WithSeparators(r, p, node) ==
    IF ~Going(r.st) THEN r.st ELSE Store(r.st, p, Replaced(node, r.seps))

InsertChild(below, st, p, node, key) ==
    WithSeparators(InsertFetched(below, FetchPage(st), FindChild(node, key)), p, node)

\* The last bound of an internal node is raised when the key is above all.
AboveAll(node, key) == FindChild(node, key) = None

Bumped(node, key) ==
    IF ~AboveAll(node, key) THEN node
    ELSE InsertSlot([node EXCEPT !.values = Front(@)],
                    Slot(KeyNext(node.tys, key), Last(node.values).val))

\* Find and insert: key goes into node, which is to be page p, or below it.
InsertInto(below, st, p, node, key, val) ==
    IF IsLeaf(node) THEN Store(st, p, ReplaceSlot(node, Slot(key, val)))
    ELSE IF AboveAll(node, key) /\ NextPanics(node.tys[1], key[1]) THEN Panic(st)
    ELSE InsertChild(below, st, p, Bumped(node, key), key)

\* Mutant: the lower half is written at once too when the key goes to it.
InsertHalfLowerFirst(below, st, lower, upper, right, key, val) ==
    LET done == IF right THEN st ELSE Store(st, upper.page, upper.node)
        todo == IF right THEN upper ELSE lower
    IN  InsertInto(below, [Store(done, lower.page, lower.node) EXCEPT !.upper = @ \/ right],
                   todo.page, todo.node, key, val)

\* One half is written at once, the other after the key went into it.
InsertHalf(below, st, lower, upper, right, key, val) ==
    LET done == IF right THEN lower ELSE upper
        todo == IF right THEN upper ELSE lower
    IN  InsertInto(below, [Store(st, done.page, done.node) EXCEPT !.upper = @ \/ right],
                   todo.page, todo.node, key, val)

\* get_separators: of the two halves as they are after the insert.
Separated(st, p, n) ==
    IF ~Going(st) THEN [st |-> st, seps |-> <<>>]
    ELSE IF SeparatorPanics(st.nodes[p]) \/ SeparatorPanics(st.nodes[n])
         THEN [st |-> Panic(st), seps |-> <<>>]
    ELSE [st |-> st, seps |-> <<Separator(st.nodes[p], p), Separator(st.nodes[n], n)>>]

\* The side of a split that the key goes to.
GoesRight(left, key) == ~KeyLess(left.tys, key, LastKey(left))

InsertSplit(below, st, p, n, key, val) ==
    IF ~Going(st) THEN [st |-> st, seps |-> <<>>]
    ELSE LET lower == [page |-> p, node |-> LowerHalf(st.nodes[p], n)]
             upper == [page |-> n, node |-> UpperHalf(st.nodes[p])]
         IN  Separated(InsertHalf(below, st, lower, upper, GoesRight(lower.node, key), key, val),
                       p, n)

InsertPage(below, st, p, key, val) ==
    IF AlmostFull(st.nodes[p]) THEN InsertSplit(below, NewPage(st), p, st.np, key, val)
    ELSE [st |-> InsertInto(below, st, p, st.nodes[p], key, val), seps |-> <<>>]

\* _insert with at most n calls of itself below; each of them fetches a page.
InsertBelow(st, p, key, val) ==
    LET Args == [st : InProgress, p : PageIds]
        below[n \in 0..MaxCalls] ==
            IF n = 0 THEN [x \in Args |-> [st |-> Fail(x.st), seps |-> <<>>]]
            ELSE [x \in Args |-> InsertPage(below[n - 1], x.st, x.p, key, val)]
    IN  below[MaxCalls][[st |-> st, p |-> p]]

\* insert() makes the first leaf or fetches the root, and makes a new root
\* when the old one was split.
Top == IF root = None THEN next_page_id ELSE root

RootPage(st) ==
    IF root # None THEN FetchPage(st)
    ELSE IF ~Going(NewPage(st)) THEN NewPage(st)
    ELSE Store(NewPage(st), next_page_id, NewNode("Leaf", KeyTypes))

NewRoot(st, n, seps) ==
    IF ~Going(st) THEN [st |-> st, root |-> Top]
    ELSE [st   |-> Store(st, n, InsertSlot(InsertSlot(NewNode("Internal", KeyTypes), seps[1]),
                                           seps[2])),
          root |-> n]

WithRoot(r) ==
    IF r.seps = <<>> THEN [st |-> r.st, root |-> Top]
    ELSE NewRoot([NewPage(r.st) EXCEPT !.upper = TRUE], r.st.np, r.seps)

Inserted(st, key, val) ==
    IF Going(st) THEN WithRoot(InsertBelow(st, Top, key, val)) ELSE [st |-> st, root |-> root]

\* Some node does not fit its page.
Oversized(nd) == \E p \in PageIds : ~FitsPage(nd[p])

\* What an insert that did not return Ok leaves: it may have lost the upper
\* half of a node it split.  An insert that made a node that does not fit got
\* no further than that; what it would have written then is of no account, as
\* a tree with a poisoned latch is not used any more.
Left(st) == CASE st.end = "panicked" \/ Oversized(st.nodes) -> "panicked"
              [] st.end = "error" /\ st.upper /\ ~Oversized(st.nodes) -> "torn"
              [] OTHER -> status

Become(r) == /\ nodes' = r.st.nodes
             /\ next_page_id' = r.st.np
             /\ root' = r.root
             /\ status' = Left(r.st)

\* It returns Ok or panics.
InsertOk(key, val, r) ==
    /\ r.st.end # "error"
    /\ Become(r)
    /\ map' = [map EXCEPT ![key] = val]
    /\ UNCHANGED <<deletes, faults, scan>>

Insert(key, val) ==
    /\ status # "panicked" /\ scan = NoScan
    /\ InsertOk(key, val, Inserted(RootPage(Progress(MaxCalls)), key, val))

InsertErr(r) ==
    /\ r.st.end = "error"
    /\ Become(r)
    /\ UNCHANGED <<map, deletes, scan>>

\* The call of the page cache after the first n fails.
InsertFails(key, val, n) ==
    /\ status # "panicked" /\ scan = NoScan /\ faults < MaxFaults
    /\ InsertErr(Inserted(RootPage(Progress(n)), key, val))
    /\ faults' = faults + 1

-----------------------------------------------------------------------------
\* The page get and delete end at: a leaf, or an internal node without a
\* child for the key.
Descend(p, key) ==
    LET down[n \in 0..next_page_id] ==
            IF n = 0 THEN [q \in PageIds |-> q]
            ELSE [q \in PageIds |-> LET child == FindChild(nodes[q], key)
                                    IN  IF child = None THEN q ELSE down[n - 1][child]]
    IN  down[next_page_id][p]

InLeaf(p, key) == IsLeaf(nodes[p]) /\ IndexOf(nodes[p], key) # 0

Get(key) ==
    IF root = None THEN Absent
    ELSE LET p == Descend(root, key)
         IN  IF InLeaf(p, key) THEN nodes[p].values[IndexOf(nodes[p], key)].val ELSE Absent

Delete(key) ==
    /\ root # None /\ status # "panicked"
    /\ LET p == Descend(root, key) IN
         /\ InLeaf(p, key)
         /\ nodes' = [nodes EXCEPT ![p] = RemoveKey(@, key)]
    /\ map' = [map EXCEPT ![key] = Absent]
    /\ deletes' = TRUE
    /\ UNCHANGED <<root, next_page_id, faults, status, scan>>

\* _scan: down the first pointers, then along next.
ScanPage(rest, node) ==
    IF ~IsLeaf(node) THEN rest[Head(node.values).val]
    ELSE IF node.next = None THEN node.values
    ELSE node.values \o rest[node.next]

\* No page is met twice.
Scan ==
    LET from[n \in 0..next_page_id] ==
            IF n = 0 THEN [p \in PageIds |-> <<>>]
            ELSE [p \in PageIds |-> ScanPage(from[n - 1], nodes[p])]
    IN  IF root = None THEN <<>> ELSE from[next_page_id][root]

\* The same, latch by latch.
Present == {k \in Keys : map[k] # Absent}

ScanBegin ==
    /\ root # None /\ status # "panicked" /\ scan = NoScan
    /\ scan' = [page |-> root, acc |-> <<>>, had |-> Present]
    /\ UNCHANGED <<nodes, root, next_page_id, map, deletes, faults, status>>

\* Mutant: a leaf that has no keys any more ends the scan.
ScanHopEnds(node) ==
    IF ~IsLeaf(node) THEN [scan EXCEPT !.page = Head(node.values).val]
    ELSE [scan EXCEPT !.acc = @ \o node.values,
                      !.page = IF node.values = <<>> THEN None ELSE node.next]

ScanHop(node) ==
    IF ~IsLeaf(node) THEN [scan EXCEPT !.page = Head(node.values).val]
    ELSE [scan EXCEPT !.acc = @ \o node.values, !.page = node.next]

ScanNode ==
    /\ scan.page # None
    /\ scan' = ScanHop(nodes[scan.page])
    /\ UNCHANGED <<nodes, root, next_page_id, map, deletes, faults, status>>

ScanReturn ==
    /\ scan # NoScan /\ scan.page = None
    /\ scan' = NoScan
    /\ UNCHANGED <<nodes, root, next_page_id, map, deletes, faults, status>>

Less(k, l) == KeyLess(KeyTypes, k, l)

\* skip_while: the pairs of a leaf from the first one on that is not below from.
SkipBelow(node, from) ==
    LET i == PlaceOf(node, from)
    IN  IF i = 0 THEN <<>> ELSE SubSeq(node.values, i, Len(node.values))

\* take_while: the pairs before the i-th, all of them for 0.
TakeBefore(pairs, i) == IF i = 0 THEN pairs ELSE SubSeq(pairs, 1, i - 1)

\* Mutant: the upper end is left out.
PartOpen(node, from, to) ==
    LET behind == SkipBelow(node, from)
    IN  TakeBefore(behind, SelectInSeq(behind, LAMBDA s : ~Less(s.key, to)))

\* The pairs of a leaf between from and to.
Part(node, from, to) ==
    LET behind == SkipBelow(node, from)
    IN  TakeBefore(behind, SelectInSeq(behind, LAMBDA s : Less(to, s.key)))

\* _range: a leaf that adds nothing ends it.
RangePage(rest, node, from, to) ==
    IF Part(node, from, to) = <<>> \/ node.next = None THEN Part(node, from, to)
    ELSE Part(node, from, to) \o rest[node.next]

RangeOf(from, to) ==
    LET p == Descend(root, from)
        range[n \in 0..next_page_id] ==
            IF n = 0 THEN [q \in PageIds |-> <<>>]
            ELSE [q \in PageIds |-> RangePage(range[n - 1], nodes[q], from, to)]
    IN  IF IsLeaf(nodes[p]) THEN range[next_page_id][p] ELSE <<>>

-----------------------------------------------------------------------------
\* Room for the pages one insert may need.
RoomToInsert == next_page_id..(next_page_id + MaxCalls - 1) \subseteq PageIds

InsertNew(k, v) == RoomToInsert /\ map[k] = Absent /\ Insert(k, v)

InsertNewFails(k, v, n) == RoomToInsert /\ map[k] = Absent /\ InsertFails(k, v, n)

(***************************************************************************)
(* A tree is filled with keys that are new to it, as create_index does     *)
(* with a unique key, and then only read and deleted from.  A torn tree is *)
(* not filled any further.                                                 *)
(***************************************************************************)
Filling == ~deletes /\ status = "ok"

MayDelete == scan # NoScan => Cardinality(scan.had \ Present) < MaxBeside

Next == \/ \E k \in Keys, v \in Values : Filling /\ InsertNew(k, v)
        \/ \E k \in Keys, v \in Values, n \in 0..(MaxCalls - 1) :
              Filling /\ InsertNewFails(k, v, n)
        \/ \E k \in Keys : MayDelete /\ Delete(k)
        \/ ~deletes /\ ScanBegin
        \/ ScanNode
        \/ ScanReturn

Spec == Init /\ [][Next]_vars

\* New keys go in between the deletes too.
NextRefill == \/ \E k \in Keys, v \in Values : InsertNew(k, v)
              \/ \E k \in Keys : Delete(k)

SpecRefill == Init /\ [][NextRefill]_vars

\* Nothing is deleted, but a key may be inserted again.
NextOverwrite == \E k \in Keys, v \in Values : RoomToInsert /\ Insert(k, v)

SpecOverwrite == Init /\ [][NextOverwrite]_vars

\* Inserts of keys in ascending order.
NextAscending == \E k \in Keys, v \in Values :
                    /\ \A j \in Keys : Less(j, k) => map[j] # Absent
                    /\ InsertNew(k, v)

SpecAscending == Init /\ [][NextAscending]_vars

-----------------------------------------------------------------------------
(***************************************************************************)
(* Properties.                                                             *)
(***************************************************************************)
(***************************************************************************)
(* get() finds what was written last under a key (btree/mod.rs:494).  An   *)
(* insert that failed changes nothing for it, unless it had gone to the    *)
(* upper half of a node it split.                                          *)
(***************************************************************************)
GetExact == status = "ok" => \A k \in Keys : Get(k) = map[k]

Ascending(pairs) == \A i \in 2..Len(pairs) : Less(pairs[i - 1].key, pairs[i].key)

\* pairs is what the map has in a set of keys, in order.
IsMapIn(S, pairs) ==
    Ascending(pairs) /\ Range(pairs) = {Slot(k, map[k]) : k \in S \cap Present}

\* scan() returns every pair once, in the order of the keys (btree/mod.rs:578).
ScanExact == status = "ok" => IsMapIn(Keys, Scan)

(***************************************************************************)
(* A scan beside deletes returns pairs in ascending order, none twice: all *)
(* that are in the tree throughout and none that was not in it at the      *)
(* start, though it has no latch on what is behind it (btree/mod.rs:248).  *)
(***************************************************************************)
ScanBesideDeletes ==
    scan # NoScan /\ scan.page = None /\ status = "ok" =>
        LET keys == {s.key : s \in Range(scan.acc)}
        IN  Ascending(scan.acc) /\ Present \subseteq keys /\ keys \subseteq scan.had

\* range() returns the pairs of the range, in order (btree/mod.rs:655).
RangeExact ==
    status = "ok" /\ root # None =>
        \A from, to \in Keys :
            IsMapIn({k \in Keys : ~Less(k, from) /\ ~Less(to, k)}, RangeOf(from, to))

\* The same as long as nothing was deleted.
RangeExactWhileFilling == ~deletes => RangeExact

(***************************************************************************)
(* A failed insert that loses keys (the ? of btree/mod.rs:135) loses       *)
(* neighbours: all that get() does not find any more lie in one stretch of *)
(* keys, and scan() still returns pairs in ascending order, none twice.    *)
(***************************************************************************)
LosesNeighbours ==
    status # "panicked" =>
        LET lost == {k \in Present : Get(k) = Absent}
        IN  /\ \A j, l \in lost : \A k \in Present : Less(j, k) /\ Less(k, l) => k \in lost
            /\ Ascending(Scan)

(***************************************************************************)
(* A node still fits its page when it is written: almost_full, which does  *)
(* not count the values ("VALUES_START + self.size >= PAGE_SIZE / 2",      *)
(* node.rs:259), splits it in time.                                        *)
(***************************************************************************)
NodesFitPage == ~Oversized(nodes)

(***************************************************************************)
(* insert() panics only if the tree is given the largest key of its type   *)
(* ("TODO: handle overflow", table/tuple.rs:200), where the sizes of key   *)
(* and value let every node fit: writing one that does not panics too.     *)
(***************************************************************************)
PanicsOnlyAtLargestKey ==
    status = "panicked" => \E k \in Keys : map[k] # Absent /\ k[1] = MaxOf(KeyTypes[1])
=============================================================================
