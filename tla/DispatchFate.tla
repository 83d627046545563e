---------------------------- MODULE DispatchFate ----------------------------
(***************************************************************************)
(* What the notification dispatcher of m03 promises its callers, without   *)
(* workers, channels or retries: every notification handed to it meets one *)
(* fate, that fate is final, and only a cancelled context may make the     *)
(* dispatcher drop a notification it has accepted.                         *)
(***************************************************************************)
CONSTANT Notifications

VARIABLES fate,      \* what has become of each notification
          stopping   \* the caller has cancelled the context

fvars == <<fate, stopping>>

Fates == {"waiting", "inflight", "delivered", "deadlettered", "dropped"}

Init == /\ fate = [n \in Notifications |-> "waiting"]
        /\ stopping = FALSE

Move(n, from, to) == /\ fate[n] = from
                     /\ fate' = [fate EXCEPT ![n] = to]
                     /\ UNCHANGED stopping

Accept(n)     == Move(n, "waiting", "inflight")
Deliver(n)    == Move(n, "inflight", "delivered")
DeadLetter(n) == Move(n, "inflight", "deadlettered")
Drop(n)       == stopping /\ Move(n, "inflight", "dropped")

Stop == /\ ~stopping
        /\ stopping' = TRUE
        /\ UNCHANGED fate

Next == \/ Stop
        \/ \E n \in Notifications :
             Accept(n) \/ Deliver(n) \/ DeadLetter(n) \/ Drop(n)

Spec == Init /\ [][Next]_fvars
=============================================================================
