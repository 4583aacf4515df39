-------------------------------- MODULE MCGc --------------------------------
(* Instances of Gc for TLC; the .cfg files give the constants.             *)
EXTENDS Gc

=============================================================================
