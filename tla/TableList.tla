----------------------------- MODULE TableList ------------------------------
(***************************************************************************)
(* A table, src/src/table/list.rs: a chain of pages that inserts extend    *)
(* while iterators walk it.                                                *)
(*                                                                         *)
(* insert() holds the last_page_id mutex and the write latch of the last   *)
(* page from its first read to its return, and nobody can reach a page it  *)
(* adds before that, so one insert is one step.  An iterator holds no lock *)
(* between its steps: iter() unlocks last_page_id before it latches the    *)
(* page, and next() latches its page twice.                                *)
(*                                                                         *)
(* A panic poisons the locks its thread holds; whoever takes one of them   *)
(* later panics too.  A latch belongs to a frame of the cache, and poison  *)
(* keeps the page in its frame: try_get_page swaps a page out only after   *)
(* it took the latch (page_cache.rs:196), where a poisoned one makes it    *)
(* panic, and a table's pages are not removed.  So poisoned has pages.     *)
(* The k-th tuple ever inserted has the value k.                           *)
(***************************************************************************)
EXTENDS TableNode, FiniteSets

CONSTANTS Iters,       \* iterators
          Lens,        \* lengths of the tuples inserted
          PageIds,     \* pages the cache can hand out
          FirstPage,   \* the page List::default() got
          MaxFaults,   \* bound: calls of the page cache that fail
          Failed       \* an item that is an error

ASSUME LensAssumption == Lens \subseteq Nat \ {0}
ASSUME TablePagesAssumption == PageIds \subseteq Nat /\ FirstPage \in PageIds
ASSUME FailedAssumption == MaxFaults \in Nat /\ Failed \notin Values

VARIABLES nodes,          \* the pages, as nodes
          last_page_id,   \* List.last_page_id
          next_page_id,   \* of the page cache
          poisoned,       \* pages in frames with a poisoned latch; if any, the mutex is too
          log,            \* the inserts that returned: length, deleted and RId
          refused,        \* the length of the tuple whose insert panicked, or 0
          faults,         \* failed calls of the page cache so far
          it              \* the iterators

vars == <<nodes, last_page_id, next_page_id, poisoned, log, refused, faults, it>>

RId == [page_id : PageIds, slot_id : Nat]

Idle == [pc |-> "idle", r_id |-> [page_id |-> FirstPage, slot_id |-> 0],
         end |-> [page_id |-> FirstPage, slot_id |-> 0],
         item |-> Failed, out |-> <<>>, before |-> 0, goal |-> 0]

Init == /\ nodes = [p \in PageIds |-> EmptyNode]
        /\ last_page_id = FirstPage
        /\ next_page_id = FirstPage + 1
        /\ poisoned = {}
        /\ log = <<>>
        /\ refused = 0
        /\ faults = 0
        /\ it = [t \in Iters |-> Idle]

Fault == faults < MaxFaults /\ faults' = faults + 1

-----------------------------------------------------------------------------
Last == nodes[last_page_id]
NewValue == Len(log) + 1

Inserted(p, len, deleted, slot) ==
    log' = Append(log, [len |-> len, deleted |-> deleted,
                        rid |-> [page_id |-> p, slot_id |-> slot]])

CanInsert == poisoned = {} /\ NewValue \in Values

\* The tuple goes to the last page.
InsertLast(len, deleted) ==
    /\ CanInsert /\ HasRoom(Last, len)
    /\ nodes' = [nodes EXCEPT ![last_page_id] = NodeInsert(@, NewValue, len, deleted)]
    /\ Inserted(last_page_id, len, deleted, Len(Last.slots))
    /\ UNCHANGED <<last_page_id, next_page_id, poisoned, refused, faults, it>>

\* There is no room and new_page() is called.
NeedsPage(len) ==
    /\ CanInsert
    /\ ~OffsetOverflows(Last, len) /\ ~HasRoom(Last, len)
    /\ Last.slots # <<>>
    /\ next_page_id \in PageIds
    /\ next_page_id' = next_page_id + 1

LinkedLast == Encoded([Decoded(Last) EXCEPT !.next_page_id = next_page_id])

InsertNewPage(len, deleted) ==
    /\ NeedsPage(len)
    /\ HasRoom(EmptyNode, len)
    /\ nodes' = [nodes EXCEPT ![last_page_id] = LinkedLast,
                              ![next_page_id] = NodeInsert(EmptyNode, NewValue, len, deleted)]
    /\ last_page_id' = next_page_id
    /\ Inserted(next_page_id, len, deleted, 0)
    /\ UNCHANGED <<poisoned, refused, faults, it>>

\* new_page() fails: the page id is spent, the table is as it was.
InsertNewPageFails(len) ==
    /\ NeedsPage(len)
    /\ Fault
    /\ UNCHANGED <<nodes, last_page_id, poisoned, log, refused, it>>

\* Overflow in next_tuple_offset, or todo!() on an empty page.
InsertPanicsFirst(len) ==
    /\ CanInsert
    /\ \/ OffsetOverflows(Last, len)
       \/ ~HasRoom(Last, len) /\ Last.slots = <<>>
    /\ poisoned' = {last_page_id}
    /\ refused' = len
    /\ UNCHANGED <<nodes, last_page_id, next_page_id, log, faults, it>>

\* unreachable!() or overflow on the new page, which is linked by then.
InsertPanicsLinked(len) ==
    /\ NeedsPage(len)
    /\ ~HasRoom(EmptyNode, len)
    /\ nodes' = [nodes EXCEPT ![last_page_id] = LinkedLast]
    /\ last_page_id' = next_page_id
    /\ poisoned' = {last_page_id, next_page_id}
    /\ refused' = len
    /\ UNCHANGED <<log, faults, it>>

-----------------------------------------------------------------------------
Iterating == UNCHANGED <<nodes, last_page_id, next_page_id, poisoned, log, refused>>

\* iter() reads last_page_id under its mutex.
IterLast(t) ==
    /\ it[t].pc = "idle" /\ poisoned = {}
    /\ it' = [it EXCEPT ![t] = [Idle EXCEPT !.pc = "open", !.end.page_id = last_page_id,
                                            !.before = Len(log)]]
    /\ Iterating /\ UNCHANGED faults

\* The inserts so far whose tuple is on a page up to p; the goal of an iterator.
CountUpTo(p) == Cardinality({k \in DOMAIN log : log[k].rid.page_id <= p})

\* Mutant: the end is one slot too far.
IterOpenPastEnd(t) ==
    /\ it[t].pc = "open" /\ it[t].end.page_id \notin poisoned
    /\ it' = [it EXCEPT ![t].pc = "next",
                        ![t].end.slot_id = Len(nodes[it[t].end.page_id].slots) + 1,
                        ![t].goal = CountUpTo(it[t].end.page_id)]
    /\ Iterating /\ UNCHANGED faults

\* iter() takes the length of that page as the end.
IterOpen(t) ==
    /\ it[t].pc = "open" /\ it[t].end.page_id \notin poisoned
    /\ it' = [it EXCEPT ![t].pc = "next",
                        ![t].end.slot_id = Len(nodes[it[t].end.page_id].slots),
                        ![t].goal = CountUpTo(it[t].end.page_id)]
    /\ Iterating /\ UNCHANGED faults

IterOpenFails(t) ==
    /\ it[t].pc = "open"
    /\ Fault
    /\ it' = [it EXCEPT ![t] = Idle]
    /\ Iterating

PastEnd(t) == it[t].r_id.slot_id > it[t].end.slot_id   \* mutant: the end itself is not the end

AtEnd(t) == it[t].r_id = it[t].end

NextNone(t) ==
    /\ it[t].pc = "next" /\ AtEnd(t)
    /\ it' = [it EXCEPT ![t].pc = "done"]
    /\ Iterating /\ UNCHANGED faults

Here(t) == nodes[it[t].r_id.page_id]
InPage(t) == it[t].r_id.slot_id < Len(Here(t).slots)

\* next() calls get(), which panics on a slot the page does not have.
NextGet(t) ==
    /\ it[t].pc = "next" /\ ~AtEnd(t)
    /\ it[t].r_id.page_id \notin poisoned /\ InPage(t)
    /\ it' = [it EXCEPT ![t].pc = "got",
                        ![t].item = NodeGet(Here(t), it[t].r_id.slot_id).data[0]]
    /\ Iterating /\ UNCHANGED faults

NextGetFails(t) ==
    /\ it[t].pc = "next" /\ ~AtEnd(t)
    /\ Fault
    /\ it' = [it EXCEPT ![t].pc = "got", ![t].item = Failed]
    /\ Iterating

\* The iterator's thread meets a poisoned latch or a slot that is not there.
IterPanics(t) ==
    /\ \/ it[t].pc = "open" /\ it[t].end.page_id \in poisoned
       \/ it[t].pc = "next" /\ ~AtEnd(t) /\ (it[t].r_id.page_id \in poisoned \/ ~InPage(t))
       \/ it[t].pc = "got" /\ it[t].r_id.page_id \in poisoned
    /\ it' = [it EXCEPT ![t].pc = "panicked"]
    /\ Iterating /\ UNCHANGED faults

\* Mutant: the last tuple is not told apart.
StaysInFullPage(t) == it[t].r_id.slot_id + 1 < Len(Here(t).slots)

\* next() has its page for the second time: r_id moves within the page, or
\* to the next one; without a next page the item is dropped.
StaysInPage(t) ==
    LET r == it[t].r_id
        end == it[t].end
    IN  \/ r.page_id = end.page_id /\ r.slot_id = end.slot_id - 1
        \/ r.slot_id + 1 < Len(Here(t).slots)

Advanced(t) == IF StaysInPage(t) THEN [it[t].r_id EXCEPT !.slot_id = @ + 1]
               ELSE [page_id |-> Here(t).next_page_id, slot_id |-> 0]

NextAdvance(t) ==
    /\ it[t].pc = "got" /\ it[t].r_id.page_id \notin poisoned
    /\ it' = IF ~StaysInPage(t) /\ Here(t).next_page_id = 0
             THEN [it EXCEPT ![t].pc = "done"]
             ELSE [it EXCEPT ![t].pc = "next", ![t].r_id = Advanced(t),
                             ![t].out = Append(@, it[t].item)]
    /\ Iterating /\ UNCHANGED faults

\* The second fetch fails: the item is the error and r_id stays.
NextAdvanceFails(t) ==
    /\ it[t].pc = "got"
    /\ Fault
    /\ it' = [it EXCEPT ![t].pc = "next", ![t].out = Append(@, Failed)]
    /\ Iterating

IterStep(t) == \/ IterOpen(t) \/ IterOpenFails(t)
               \/ NextNone(t) \/ NextGet(t) \/ NextGetFails(t)
               \/ NextAdvance(t) \/ NextAdvanceFails(t)
               \/ IterPanics(t)

Next == \/ \E len \in Lens :
              \/ \E deleted \in BOOLEAN : InsertLast(len, deleted) \/ InsertNewPage(len, deleted)
              \/ InsertNewPageFails(len)
              \/ InsertPanicsFirst(len) \/ InsertPanicsLinked(len)
        \/ \E t \in Iters : IterLast(t) \/ IterStep(t)

\* A thread in iter() or next() keeps running.
Spec == Init /\ [][Next]_vars /\ \A t \in Iters : WF_vars(IterStep(t))

-----------------------------------------------------------------------------
(***************************************************************************)
(* Properties.                                                             *)
(***************************************************************************)
(***************************************************************************)
(* An RId that insert() returned reads as the tuple inserted, every byte   *)
(* of it, whatever was inserted after it (assertions of test_table,        *)
(* list.rs:253).                                                           *)
(***************************************************************************)
ReadsBack ==
    \A k \in DOMAIN log :
        LET r == log[k].rid IN
          /\ r.slot_id < Len(nodes[r.page_id].slots)
          /\ NodeGet(nodes[r.page_id], r.slot_id).data = [o \in 0..(log[k].len - 1) |-> k]

(***************************************************************************)
(* The slots of a page end before its tuples begin ("Ensure tuple isn't    *)
(* written over header/slots", node.rs:110), and the tuples are stacked    *)
(* without overlap.                                                        *)
(***************************************************************************)
SlotsBelowTuples ==
    \A p \in PageIds :
        LET s == nodes[p].slots IN
          /\ s # <<>> => HEADER_SIZE + SLOT_SIZE * Len(s) <= LastOffset(nodes[p])
          /\ \A a \in DOMAIN s :
                s[a].offset + s[a].len = IF a = 1 THEN PAGE_SIZE ELSE s[a - 1].offset

(***************************************************************************)
(* An iterator that ends without an error has returned a prefix of the     *)
(* inserts, in order: all that returned before iter() was called, none     *)
(* twice, and none from after the end it saw.  With errors each tuple left *)
(* out has at least one in its place.                                      *)
(***************************************************************************)
Returned(t) == {a \in DOMAIN it[t].out : it[t].out[a] # Failed}

IterIsSnapshot ==
    \A t \in Iters : it[t].pc = "done" =>
        /\ it[t].before <= it[t].goal
        /\ Len(it[t].out) >= it[t].goal
        /\ \A a, b \in Returned(t) : a < b => it[t].out[a] < it[t].out[b]
        /\ \A a \in Returned(t) : it[t].out[a] <= it[t].goal
        /\ Returned(t) = DOMAIN it[t].out => Len(it[t].out) = it[t].goal

\* An iterator indexes no slot its page does not have.
IterPanicsOnlyIfPoisoned ==
    \A t \in Iters : it[t].pc = "panicked" => poisoned # {}

(***************************************************************************)
(* An iterator ends, however many tuples are inserted behind it meanwhile, *)
(* unless it meets a latch that an insert poisoned.                        *)
(***************************************************************************)
IterEnds ==
    \A t \in Iters :
        it[t].pc = "next" ~> it[t].pc = "done" \/ (it[t].pc = "panicked" /\ poisoned # {})

(***************************************************************************)
(* insert() gives up only on a tuple too large for any page, the reading   *)
(* of todo!("tuple too large error") and of unreachable!() (list.rs:116,   *)
(* 138).                                                                   *)
(***************************************************************************)
OnlyTooLargeRefused == refused # 0 => ~HasRoom(EmptyNode, refused)

(***************************************************************************)
(* A node reads as it was written, test_from (node.rs:212), here for the   *)
(* deleted flag of each tuple.                                             *)
(***************************************************************************)
DeletedReadsBack ==
    \A k \in DOMAIN log :
        NodeGet(nodes[log[k].rid.page_id], log[k].rid.slot_id).meta = log[k].deleted
=============================================================================
