----------------------------- MODULE MCReplacer -----------------------------
\* The replacer for TLC: frames are interchangeable, so they are symmetric.
EXTENDS Replacer, TLC

Symmetry == Permutations(Frames)
=============================================================================
