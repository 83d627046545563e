----------------------------- MODULE MCConsumer -----------------------------
(* MCConsumer.cfg: two processes on one durable consumer, one event that   *)
(* parses and one that does not, two deliveries and two crashes, enough    *)
(* for a redelivery to race the first copy, for a late ack, for a second   *)
(* send by the same process, and for a crash at each step of both          *)
(* deliveries.                                                             *)
EXTENDS Consumer
=============================================================================
