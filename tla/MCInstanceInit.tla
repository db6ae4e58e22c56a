----------------------------- MODULE MCInstanceInit -----------------------------
(***************************************************************************)
(* InstanceInit with two resets in flight and four passwords: what the     *)
(* datadir's root has, what is stored, and one for each reset.             *)
(***************************************************************************)
EXTENDS InstanceInit
=============================================================================
