----------------------------- MODULE MCCapstone -----------------------------
(* Two processes that serve requests and consume events, one create and    *)
(* one refused request, each at either process, two deliveries, one crash. *)
EXTENDS Capstone
=============================================================================
