---------------------------- MODULE MCNamespace -----------------------------
(* Model checking of Namespace.                                            *)
EXTENDS Namespace, TLC

(* Libraries are alike, and so are values.                                 *)
Symmetry == Permutations(Value) \cup Permutations(Library)
=============================================================================
