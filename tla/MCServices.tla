----------------------------- MODULE MCServices -----------------------------
(* Five components that share nothing, checked in one run: part says which *)
(* of them takes the steps, and the others stay as they begin.             *)
(*                                                                         *)
(* Profiles: two upserts race for one customer and a client reads it; or   *)
(* events are recorded, streamed and counted, one of another customer and  *)
(* with an _id that is taken.  Bus: two workers and a plain subscriber get *)
(* three events, one malformed, over a connection that may break.  Paging: *)
(* three customers and page sizes that divide and do not divide them.      *)
(* Notify: budgets from none to three attempts.  Replay: of four publishes *)
(* one repeats an ID.                                                      *)
EXTENDS Profiles, Bus, Paging, Notify, Replay

VARIABLE part

Ask(op, cust, event) == [op |-> op, cust |-> cust, auth |-> TRUE, event |-> event]
NoEvent == [id |-> 0, cust |-> "", type |-> "", time |-> 0]
Ev(id, cust, type, time) == [id |-> id, cust |-> cust, type |-> type, time |-> time]

Race == <<Ask("upsert", "ada", NoEvent), Ask("upsert", "ada", NoEvent),
          Ask("get", "ada", NoEvent)>>
NoCustomer == <<[Ask("upsert", "ada", NoEvent) EXCEPT !.auth = FALSE],
             Ask("get", "", NoEvent), Ask("count", "", NoEvent)>>
Stream == <<Ask("append", "ada", Ev(1, "ada", "view", 5)),
            Ask("append", "ada", Ev(2, "ada", "buy", 3)),
            Ask("list", "ada", NoEvent)>>
Mixed == [Stream EXCEPT ![1] = Ask("append", "bob", Ev(2, "bob", "view", 5))]
Count == [Stream EXCEPT ![3] = Ask("count", "ada", NoEvent)]

MCProfileScenarios == {Race, NoCustomer, Stream, Mixed, Count}
MCBatch == <<"e1", "e2", "e3">>

MCPublished == <<"cus_01", "cus_02", "cus_03", "cus_02">>

vars == <<part, profileVars, busVars, pagingVars, notifyVars, replayVars>>

(* Only the part that takes steps has more than one way to begin. *)
Init == /\ part \in {"profiles", "bus", "paging", "notify", "replay"}
        /\ ProfilesInit /\ BusInit /\ PagingInit /\ NotifyInit /\ ReplayInit
        /\ part # "profiles" => asks = Race /\ store = "memory"
        /\ part # "paging" => lister = "store" /\ size = 1
        /\ part # "notify" => budget = 1 /\ via = "retry" /\ validTo

Next ==
  \/ /\ part = "profiles" /\ ProfilesNext
     /\ UNCHANGED <<part, busVars, pagingVars, notifyVars, replayVars>>
  \/ /\ part = "bus" /\ BusNext
     /\ UNCHANGED <<part, profileVars, pagingVars, notifyVars, replayVars>>
  \/ /\ part = "paging" /\ PagingNext
     /\ UNCHANGED <<part, profileVars, busVars, notifyVars, replayVars>>
  \/ /\ part = "notify" /\ NotifyNext
     /\ UNCHANGED <<part, profileVars, busVars, pagingVars, replayVars>>
  \/ /\ part = "replay" /\ ReplayNext
     /\ UNCHANGED <<part, profileVars, busVars, pagingVars, notifyVars>>

Spec == Init /\ [][Next]_vars
=============================================================================
