---------------------------- MODULE MCDispatcher ----------------------------
(* The dispatcher on a small instance: two workers that compete for three  *)
(* notifications, one retry each, and a dead-letter channel of capacity 1, *)
(* so that a worker can block on it.                                       *)
EXTENDS Dispatcher
=============================================================================
