--------------------------- MODULE MCContentCache ---------------------------
(* TLC instance of ContentCache: two processes, two contents.              *)
EXTENDS ContentCache, TLC

Symmetry == Permutations(Contents)
=============================================================================
