------------------------------ MODULE MCReplay ------------------------------
(* Two events, the second published twice: enough for a handle that still  *)
(* runs when the first consumer is stopped.                                *)
EXTENDS Replay

MCPublished == <<"cus_01", "cus_02", "cus_02">>
=============================================================================
