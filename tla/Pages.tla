------------------------------- MODULE Pages --------------------------------
(***************************************************************************)
(* Pages and the disk under them, src/src/page.rs and src/src/disk.rs.     *)
(* The contents of a page are opaque here.                                 *)
(***************************************************************************)
EXTENDS Integers

CONSTANTS PageIds,      \* page ids the model may allocate
          Data,         \* contents of a page
          Zero,         \* a page of zero bytes
          Gone,         \* what is left of a page that was removed
          FirstPageId   \* the next_page_id that PageCache::new is given

ASSUME DataAssumption == Zero \in Data /\ Gone \notin Data
ASSUME PageIdsAssumption == PageIds \subseteq Nat /\ FirstPageId \in Nat

NoPage == -1   \* the id of PageInner::default()

PageInner == [id : PageIds \cup {NoPage}, dirty : BOOLEAN, data : Data]

Blank == [id |-> NoPage, dirty |-> FALSE, data |-> Zero]

\* reset() followed by the assignments of id and data in try_get_page.
Loaded(p, d) == [id |-> p, dirty |-> FALSE, data |-> d]

\* writep!
Written(page, d) == [page EXCEPT !.data = d, !.dirty = TRUE]

(***************************************************************************)
(* Disks at a start: pread past the end of the file reads nothing into a   *)
(* zeroed buffer, so the pages not yet allocated read as zeroes.           *)
(***************************************************************************)
InitialDisks == {d \in [PageIds -> Data] :
                   \A p \in PageIds : p >= FirstPageId => d[p] = Zero}

WriteDisk(d, p, data) == [d EXCEPT ![p] = data]

WriteBackNothing(d, page) == d   \* mutant: a dirty page is dropped

\* try_get_page writes the page it swaps out if it is dirty.
WriteBackDisk(d, page) ==
    IF page.dirty THEN WriteDisk(d, page.id, page.data) ELSE d
=============================================================================
