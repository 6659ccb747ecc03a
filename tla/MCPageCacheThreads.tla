------------------------- MODULE MCPageCacheThreads -------------------------
\* The threaded page cache for TLC: threads, and frames, are alike.
EXTENDS PageCacheThreads, TLC

Symmetry == Permutations(Frames) \cup Permutations(Threads)

\* Page 0 is the one whose contents change, and a race is followed as far as
\* to the assertion it breaks.
Bounded == /\ \A p \in PageIds \ {0} : latest[p] = Zero
           /\ races = {} \/ \A t \in Threads : pc[t] \in {"idle", "swap", "write", "panicked"}

\* To see what one of the races does without the others.
OnlyLoadedTwice == races \subseteq {"loaded_twice"}
OnlyLateDrop    == races \subseteq {"late_drop"}
=============================================================================
