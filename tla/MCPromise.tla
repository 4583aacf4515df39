----------------------------- MODULE MCPromise ------------------------------
(* Model checking of Promise.                                              *)
EXTENDS Promise, TLC

(* Values are alike, and so are promises: no action tells them apart.      *)
Symmetry == Permutations(Value) \cup Permutations(Promise)
=============================================================================
