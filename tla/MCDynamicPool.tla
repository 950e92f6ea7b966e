---------------------------- MODULE MCDynamicPool ----------------------------
(* Instances of DynamicPool for TLC; the .cfg files give the constants. *)
EXTENDS DynamicPool
=============================================================================
