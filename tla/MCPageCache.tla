---------------------------- MODULE MCPageCache -----------------------------
\* The page cache for TLC: frames, and contents other than Zero, are alike.
EXTENDS PageCache, TLC

Symmetry == Permutations(Frames) \cup Permutations(Data \ {Zero})

=============================================================================
