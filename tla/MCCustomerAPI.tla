--------------------------- MODULE MCCustomerAPI ----------------------------
(* Three scenarios of five requests. Race: two creates race for one email,  *)
(* a third is for another, one request gets the first ID and one lists a   *)
(* second page.  Failures: among the other requests there is a page whose  *)
(* offset 8 * 4 does not fit into an int of 6 bits, so that its handler    *)
(* panics, a body that does not validate and a request without the token.  *)
(* Pulse, which m10 serves too: racing creates with a loose body, and gets.*)
EXTENDS CustomerAPI

CONSTANTS a, b   \* emails

Default == [op |-> "create", rid |-> TRUE, auth |-> TRUE, body |-> "valid",
            email |-> a, id |-> 1, page |-> 1, size |-> 2]
Generated == [Default EXCEPT !.rid = FALSE]

Race     == <<Default, Generated, [Generated EXCEPT !.email = b],
              [Default EXCEPT !.op = "get"],
              [Default EXCEPT !.op = "list", !.page = 2, !.size = 1]>>
Failures == <<Generated,
              [Generated EXCEPT !.op = "list", !.page = 9, !.size = 4],
              [Generated EXCEPT !.body = "invalid"],
              [Generated EXCEPT !.op = "list", !.auth = FALSE],
              [Default EXCEPT !.op = "list", !.page = 0, !.size = 0]>>

Pulse    == <<Default, Generated, [Default EXCEPT !.body = "loose", !.email = b],
              [Generated EXCEPT !.op = "get"], [Default EXCEPT !.body = "invalid"]>>

MCScenarios == {Race, Failures, Pulse}
=============================================================================
