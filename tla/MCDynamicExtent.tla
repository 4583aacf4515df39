-------------------------- MODULE MCDynamicExtent ---------------------------
(* Model checking of DynamicExtent; the .cfg files give the constants.     *)
EXTENDS DynamicExtent
=============================================================================
