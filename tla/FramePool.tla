----------------------------- MODULE FramePool ------------------------------
(***************************************************************************)
(* What the page cache expects of its free list: a pool that gives each    *)
(* frame to one thread at a time and is found empty only when it is.       *)
(***************************************************************************)
CONSTANTS Threads, Pool

VARIABLES avail,  \* frames in the pool
          owned   \* frames each thread took out of it

poolVars == <<avail, owned>>

PoolInit == /\ avail = Pool
            /\ owned = [t \in Threads |-> {}]

Take(t, f) == /\ f \in avail
              /\ avail' = avail \ {f}
              /\ owned' = [owned EXCEPT ![t] = @ \cup {f}]

Give(t, f) == /\ f \in owned[t]
              /\ avail' = avail \cup {f}
              /\ owned' = [owned EXCEPT ![t] = @ \ {f}]

PoolNext == \E t \in Threads, f \in Pool : Take(t, f) \/ Give(t, f)

PoolSpec == PoolInit /\ [][PoolNext]_poolVars
=============================================================================
