--------------------------- MODULE MCTermination ----------------------------
(* Four components that share nothing and must all come to an end, checked *)
(* in one run: part says which of them takes the steps, and the others     *)
(* stand still at an end, so that TLC reports a part that gets stuck.      *)
(*                                                                         *)
(* pipeline.Run with three workers and four items: enough for two failures *)
(* to race for errCh, for a worker to be blocked on `out` when the context *)
(* is cancelled, and for the feeder to be cancelled with items left.       *)
(* Merge with three inputs of two values each: every interleaving of the   *)
(* forwarders, an input that ends while another is blocked, a reader that  *)
(* stops.  Enrollment with four calls on two connections: two enroll the   *)
(* same customer in the same campaign, a third shares only the campaign, a *)
(* fourth only the customer, and the parents may be created before,        *)
(* between or after the calls.  Lifecycle with all five programs, requests *)
(* enough for one to finish before the shutdown, one during it and one     *)
(* after its deadline, and a queue that two spans fill.                    *)
EXTENDS Pipeline, Merge, Enrollment, Lifecycle

CONSTANTS cus1, cus2, k1, k2, t1, t2, t3, t4

CustomerArgs == [t \in {t1, t2, t3, t4} |-> IF t = t3 THEN cus2 ELSE cus1]
CampaignArgs == [t \in {t1, t2, t3, t4} |-> IF t = t4 THEN k2 ELSE k1]

VARIABLE part

partVars == <<part, vars, mergeVars, enrollmentVars, lifecycleVars>>

(* A Run that found its context cancelled and returned without results. *)
RunReturned ==
  /\ parentDone = TRUE /\ done = TRUE /\ next = 1 /\ jobsClosed = TRUE
  /\ pc = [w \in Workers |-> "returned"] /\ item = [w \in Workers |-> None]
  /\ errCh = None /\ outClosed = TRUE /\ results = [i \in Items |-> None]
  /\ ret = "results" /\ retErr = None /\ called = {} /\ failed = {}

(* A Merge whose reader stopped at once and left the forwarders blocked. *)
MergeAbandoned ==
  /\ upcoming = [c \in Inputs |-> 2] /\ held = [c \in Inputs |-> 1]
  /\ closed = {} /\ exited = {} /\ mergedClosed = FALSE
  /\ got = <<>> /\ reader = "stopped"

(* Calls that found no database: pool.Begin failed for each of them. *)
CallsRefused ==
  /\ customers = {} /\ campaigns = {} /\ enrollments = {}
  /\ enrolledCount = [k \in Campaigns |-> 0] /\ newCount = [k \in Campaigns |-> 0]
  /\ txPc = [t \in Calls |-> "done"] /\ res = [t \in Calls |-> "error"]
  /\ conns = {} /\ keyLock = {} /\ rowLock = [k \in Campaigns |-> NoCall]
  /\ applied = {}

(* A server that a signal killed before it listened. *)
ServerKilled ==
  /\ kind = "api" /\ main = "exited" /\ code = Killed /\ listener = "none"
  /\ runErrCh = FALSE /\ sig = FALSE /\ deadline = FALSE
  /\ req = [r \in Requests |-> "new"] /\ counted = {} /\ greeted = {}
  /\ pending = {} /\ exported = {} /\ dropped = {} /\ overflowed = {}

MCInit ==
  /\ part \in {"run", "merge", "enroll", "server"}
  /\ IF part = "run" THEN Init ELSE RunReturned
  /\ IF part = "merge" THEN MergeInit ELSE MergeAbandoned
  /\ IF part = "enroll" THEN EnrollmentInit ELSE CallsRefused
  /\ IF part = "server" THEN LifecycleInit ELSE ServerKilled

MCNext ==
  \/ /\ part = "run" /\ Next
     /\ UNCHANGED <<part, mergeVars, enrollmentVars, lifecycleVars>>
  \/ /\ part = "merge" /\ MergeNext
     /\ UNCHANGED <<part, vars, enrollmentVars, lifecycleVars>>
  \/ /\ part = "enroll" /\ EnrollmentNext
     /\ UNCHANGED <<part, vars, mergeVars, lifecycleVars>>
  \/ /\ part = "server" /\ LifecycleNext
     /\ UNCHANGED <<part, vars, mergeVars, enrollmentVars>>

MCSpec == /\ MCInit /\ [][MCNext]_partVars
          /\ Fairness /\ MergeFairness /\ EnrollmentFairness /\ LifecycleFairness
=============================================================================
