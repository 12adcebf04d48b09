---------------------------- MODULE MCInstancePool ----------------------------
(* Three workers over pools of one, two or three slots. *)
EXTENDS InstancePool
=============================================================================
