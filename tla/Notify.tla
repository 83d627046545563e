------------------------------- MODULE Notify -------------------------------
(***************************************************************************)
(* The notifier of m11-testing.  SendWithRetry ("retry") tries a send up   *)
(* to maxAttempts times, with a wait after every failure that the context  *)
(* may cut short; Welcome ("welcome") checks the customer and sends once.  *)
(* The Sender is the caller's and external; the context is cancelled at    *)
(* any time.                                                               *)
(***************************************************************************)
EXTENDS Naturals, Sequences

CONSTANT Budgets   \* values of maxAttempts to consider

ASSUME BudgetsAssumption == Budgets \subseteq Nat

VARIABLES via,      \* the function called: "retry" or "welcome"
          budget,   \* maxAttempts
          validTo,  \* the customer's email contains an @
          attempt,  \* the loop variable
          sends,    \* what Send returned, oldest first: "ok" or "failed"
          ctxDone,  \* the context is done
          waiting,  \* in the select after a failed send
          outcome   \* "running", or what is returned

notifyVars == <<via, budget, validTo, attempt, sends, ctxDone, waiting, outcome>>

NotifyInit == /\ via \in {"retry", "welcome"} /\ validTo \in BOOLEAN
              /\ budget \in Budgets /\ attempt = 0 /\ sends = <<>>
              /\ ctxDone = FALSE /\ waiting = FALSE /\ outcome = "running"

(* Seeded bug: one attempt too many. *)
MayTry_OneMore == attempt <= budget

MayTry == attempt < budget

Send ==
  /\ via = "retry" /\ outcome = "running" /\ ~waiting /\ MayTry
  /\ \/ sends' = Append(sends, "ok") /\ outcome' = "nil" /\ UNCHANGED waiting
     \/ sends' = Append(sends, "failed") /\ waiting' = TRUE /\ UNCHANGED outcome
  /\ UNCHANGED <<via, budget, validTo, attempt, ctxDone>>

(* The timer ends the wait; the context, when it is done, may win the race. *)
Backoff ==
  /\ outcome = "running" /\ waiting
  /\ \/ waiting' = FALSE /\ attempt' = attempt + 1 /\ UNCHANGED outcome
     \/ ctxDone /\ outcome' = "ctxErr" /\ UNCHANGED <<waiting, attempt>>
  /\ UNCHANGED <<via, budget, validTo, sends, ctxDone>>

(* After the loop err is the last failure; with no attempt made it is nil, *)
(* and err.Error() panics.                                                 *)
Exhausted ==
  /\ via = "retry" /\ outcome = "running" /\ ~waiting /\ ~MayTry
  /\ outcome' = IF sends = <<>> THEN "panic" ELSE "exhausted"
  /\ UNCHANGED <<via, budget, validTo, attempt, sends, ctxDone, waiting>>

CancelNotify == /\ outcome = "running" /\ ~ctxDone /\ ctxDone' = TRUE
                /\ UNCHANGED <<via, budget, validTo, attempt, sends, waiting, outcome>>

(* Welcome: one send, and only to a customer that validates. *)
Welcome ==
  /\ via = "welcome" /\ outcome = "running"
  /\ \/ ~validTo /\ outcome' = "invalid" /\ UNCHANGED sends
     \/ validTo /\ sends' = <<"ok">> /\ outcome' = "nil"
     \/ validTo /\ sends' = <<"failed">> /\ outcome' = "failed"
  /\ UNCHANGED <<via, budget, validTo, attempt, ctxDone, waiting>>

NotifyNext == Welcome \/ Send \/ Backoff \/ Exhausted \/ CancelNotify

NotifySpec == NotifyInit /\ [][NotifyNext]_notifyVars

(* Whatever is returned tells what happened: nil that the last send and no *)
(* other succeeded, "exhausted" that all of maxAttempts sends failed, the  *)
(* context's error that the context was cancelled after a failed send; the *)
(* sender is never called more than maxAttempts times (by Welcome once, or *)
(* not at all), and only a budget of zero panics (notify.go, lines 33-57). *)
RetryOutcome ==
  /\ via = "retry" => Len(sends) <= budget
  /\ via = "welcome" /\ outcome # "running" => Len(sends) = IF validTo THEN 1 ELSE 0
  /\ \A i \in DOMAIN sends : sends[i] = "ok" <=> (outcome = "nil" /\ i = Len(sends))
  /\ outcome = "nil" => sends # <<>>
  /\ outcome = "exhausted" => Len(sends) = budget
  /\ outcome = "ctxErr" => ctxDone /\ sends # <<>>
  /\ outcome = "panic" <=> (outcome # "running" /\ via = "retry" /\ budget = 0)
=============================================================================
