----------------------------- MODULE PageStore ------------------------------
(***************************************************************************)
(* What the page cache of src/src/page_cache.rs promises to its callers: a *)
(* store of pages that survives a restart only as far as it was written    *)
(* back.  There are no frames here: caching must not be observable.        *)
(***************************************************************************)
EXTENDS Pages

VARIABLES store,         \* what a reader of each page sees
          durable,       \* what is left of it after a restart
          next_page_id   \* the next id new_page() hands out

storeVars == <<store, durable, next_page_id>>

Live(p) == p < next_page_id /\ store[p] # Gone

StoreInit == /\ store \in InitialDisks
             /\ durable = store
             /\ next_page_id = FirstPageId

\* Pages S are written back.
Sync(S) == durable' = [p \in PageIds |-> IF p \in S THEN store[p] ELSE durable[p]]

Allocate(S) == /\ next_page_id \in PageIds
               /\ next_page_id' = next_page_id + 1
               /\ Sync(S)
               /\ UNCHANGED store

\* new_page() failed: its id is spent and no caller ever learns it.
Spend == /\ next_page_id \in PageIds
         /\ next_page_id' = next_page_id + 1
         /\ store' = [store EXCEPT ![next_page_id] = Gone]
         /\ durable' = [durable EXCEPT ![next_page_id] = Gone]

Write(p, d) == /\ Live(p)
               /\ store' = [store EXCEPT ![p] = d]
               /\ UNCHANGED <<durable, next_page_id>>

WriteBack(S) == Sync(S) /\ UNCHANGED <<store, next_page_id>>

Discard(p) == /\ Live(p)
              /\ store' = [store EXCEPT ![p] = Gone]
              /\ durable' = [durable EXCEPT ![p] = Gone]
              /\ UNCHANGED next_page_id

Lose == /\ store' = durable
        /\ UNCHANGED <<durable, next_page_id>>

StoreNext == \/ \E S \in SUBSET PageIds : Allocate(S) \/ WriteBack(S)
             \/ \E p \in PageIds : Discard(p) \/ \E d \in Data : Write(p, d)
             \/ Spend \/ Lose

StoreSpec == StoreInit /\ [][StoreNext]_storeVars
=============================================================================
