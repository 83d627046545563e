----------------------------- MODULE Dispatcher -----------------------------
(***************************************************************************)
(* The notification dispatcher of m03-concurrency/solution-dispatcher: a   *)
(* pool of worker goroutines that take notifications from the unbuffered   *)
(* channel `in`, send each one with retry and backoff, and put the ones    *)
(* that exhaust their attempts on the buffered channel `dead`.             *)
(*                                                                         *)
(* A worker's program counter stands for the point of worker/process it    *)
(* has reached.  Steps end where another goroutine can tell the difference:*)
(* at a channel operation, at a call of Sender.Send and at an atomic add.  *)
(***************************************************************************)
EXTENDS Naturals, Sequences, FiniteSets

CONSTANTS Notifications,  \* what the producer offers on `in`
          Workers,        \* the goroutines Run starts (d.workers of them)
          MaxAttempts,    \* d.maxAttempts
          DeadCap,        \* capacity of d.dead (64 in New)
          None            \* "no notification in hand"

ASSUME ConstantsAssumption ==
         /\ IsFiniteSet(Notifications) /\ IsFiniteSet(Workers)
         /\ MaxAttempts \in Nat
         /\ DeadCap \in Nat \ {0}
         /\ None \notin Notifications

VARIABLES
  todo,        \* notifications the producer has not yet handed over
  inClosed,    \* close(in) has happened
  cancelled,   \* ctx is done
  pc,          \* where each worker is
  job,         \* the notification n a worker is processing
  attempt,     \* the loop variable of process
  sentCount, failedCount, deadCount,   \* Metrics
  dead,        \* contents of the channel d.dead
  deadClosed,  \* close(d.dead) has happened, and Run has returned
  drained,     \* dead letters a reader of DeadLetters() has received
  sends,       \* calls of Send that have returned, per notification
  deliveries   \* calls of Send that returned nil, per notification

chans   == <<todo, inClosed, cancelled, deadClosed, drained>>
metrics == <<sentCount, failedCount, deadCount>>
world   == <<sends, deliveries>>
vars    == <<chans, pc, job, attempt, metrics, dead, world>>

PCs == {"select", "backoff", "send", "countSent", "countFailed",
        "exhausted", "enqueue", "returned"}

Init == /\ todo = Notifications
        /\ inClosed = FALSE /\ cancelled = FALSE
        /\ pc = [w \in Workers |-> "select"]
        /\ job = [w \in Workers |-> None]
        /\ attempt = [w \in Workers |-> 0]
        /\ sentCount = 0 /\ failedCount = 0 /\ deadCount = 0
        /\ dead = <<>> /\ deadClosed = FALSE /\ drained = {}
        /\ sends = [n \in Notifications |-> 0]
        /\ deliveries = [n \in Notifications |-> 0]

-----------------------------------------------------------------------------
(* Seeded bug: <= instead of < in the loop condition. *)
LoopHead_OneMore(a) == IF a > MaxAttempts THEN "exhausted"
                       ELSE IF a > 0 THEN "backoff" ELSE "send"

(* The loop head of process: where attempt number a leads. *)
LoopHead(a) == IF a >= MaxAttempts THEN "exhausted"
               ELSE IF a > 0 THEN "backoff" ELSE "send"

GoTo(w, l) == pc' = [pc EXCEPT ![w] = l]

(* process returns to the worker's select with nothing in hand. *)
Finish(w) == /\ GoTo(w, "select")
             /\ job' = [job EXCEPT ![w] = None]
             /\ attempt' = [attempt EXCEPT ![w] = 0]

(* worker: the two cases of the select.  When both are ready either may be *)
(* chosen, so a cancelled worker may still take new work.                  *)
StopOnCancel(w) == /\ pc[w] = "select" /\ cancelled
                   /\ GoTo(w, "returned")
                   /\ UNCHANGED <<chans, job, attempt, metrics, dead, world>>

(* Seeded bug: `break`, which only leaves the select, instead of return. *)
StopOnClose_Break(w) == /\ pc[w] = "select" /\ inClosed
                        /\ UNCHANGED vars

StopOnClose(w) == /\ pc[w] = "select" /\ inClosed
                  /\ GoTo(w, "returned")
                  /\ UNCHANGED <<chans, job, attempt, metrics, dead, world>>

Receive(w) == \E n \in todo :
               /\ pc[w] = "select" /\ ~inClosed
               /\ todo' = todo \ {n}
               /\ job' = [job EXCEPT ![w] = n]
               /\ GoTo(w, LoopHead(0))
               /\ UNCHANGED <<inClosed, cancelled, deadClosed, drained,
                              attempt, metrics, dead, world>>

(* process: the cancellable backoff before attempts 1, 2, ... *)
BackoffElapsed(w) == /\ pc[w] = "backoff"
                     /\ GoTo(w, "send")
                     /\ UNCHANGED <<chans, job, attempt, metrics, dead, world>>

BackoffCancelled(w) == /\ pc[w] = "backoff" /\ cancelled
                       /\ Finish(w)
                       /\ UNCHANGED <<chans, metrics, dead, world>>

(* What Send may return, nil or an error: the sender of the demo waits,    *)
(* fails at random, and may notice that the context is done.               *)
SendResults == BOOLEAN

(* process: Send returns nil or an error, then the metric is bumped. *)
SendReturns(w, ok) ==
  /\ pc[w] = "send"
  /\ sends' = [sends EXCEPT ![job[w]] = @ + 1]
  /\ deliveries' = [deliveries EXCEPT ![job[w]] = IF ok THEN @ + 1 ELSE @]
  /\ GoTo(w, IF ok THEN "countSent" ELSE "countFailed")
  /\ UNCHANGED <<chans, job, attempt, metrics, dead>>

(* Seeded bug: the return after a successful send is missing. *)
CountSent_NoReturn(w) ==
               /\ pc[w] = "countSent"
               /\ sentCount' = sentCount + 1
               /\ attempt' = [attempt EXCEPT ![w] = @ + 1]
               /\ GoTo(w, LoopHead(attempt[w] + 1))
               /\ UNCHANGED <<chans, job, failedCount, deadCount, dead, world>>

CountSent(w) == /\ pc[w] = "countSent"
                /\ sentCount' = sentCount + 1
                /\ Finish(w)
                /\ UNCHANGED <<chans, failedCount, deadCount, dead, world>>

(* Seeded bug: only retries count as failures. *)
CountFailed_RetriesOnly(w) ==
                  /\ pc[w] = "countFailed"
                  /\ failedCount' = failedCount + IF attempt[w] = 0 THEN 0 ELSE 1
                  /\ attempt' = [attempt EXCEPT ![w] = @ + 1]
                  /\ GoTo(w, LoopHead(attempt[w] + 1))
                  /\ UNCHANGED <<chans, job, sentCount, deadCount, dead, world>>

CountFailed(w) == /\ pc[w] = "countFailed"
                  /\ failedCount' = failedCount + 1
                  /\ attempt' = [attempt EXCEPT ![w] = @ + 1]
                  /\ GoTo(w, LoopHead(attempt[w] + 1))
                  /\ UNCHANGED <<chans, job, sentCount, deadCount, dead, world>>

(* process: retries exhausted. *)
CountDead(w) == /\ pc[w] = "exhausted"
                /\ deadCount' = deadCount + 1
                /\ GoTo(w, "enqueue")
                /\ UNCHANGED <<chans, job, attempt, sentCount, failedCount,
                               dead, world>>

(* Seeded bug: a select with a default case, which drops when full. *)
Enqueue_DropWhenFull(w) ==
              /\ pc[w] = "enqueue"
              /\ dead' = IF Len(dead) < DeadCap THEN Append(dead, job[w]) ELSE dead
              /\ Finish(w)
              /\ UNCHANGED <<chans, metrics, world>>

Enqueue(w) == /\ pc[w] = "enqueue" /\ Len(dead) < DeadCap
              /\ dead' = Append(dead, job[w])
              /\ Finish(w)
              /\ UNCHANGED <<chans, metrics, world>>

EnqueueCancelled(w) == /\ pc[w] = "enqueue" /\ cancelled
                       /\ Finish(w)
                       /\ UNCHANGED <<chans, metrics, dead, world>>

(* Run: wg.Wait() and close(d.dead). *)
(* Seeded bug: wg.Add(1) inside the goroutine, so Wait may miss a worker. *)
RunReturns_NoWait ==
              /\ \E w \in Workers : pc[w] = "returned"
              /\ ~deadClosed /\ deadClosed' = TRUE
              /\ UNCHANGED <<todo, inClosed, cancelled, drained, pc, job,
                             attempt, metrics, dead, world>>

RunReturns == /\ \A w \in Workers : pc[w] = "returned"
              /\ ~deadClosed /\ deadClosed' = TRUE
              /\ UNCHANGED <<todo, inClosed, cancelled, drained, pc, job,
                             attempt, metrics, dead, world>>

-----------------------------------------------------------------------------
(* The dispatcher's caller: the producer closes `in` when it has offered   *)
(* everything or has seen the cancellation, the context may be cancelled   *)
(* at any time, and somebody reads DeadLetters().                          *)
CloseIn == /\ ~inClosed /\ (todo = {} \/ cancelled)
           /\ inClosed' = TRUE
           /\ UNCHANGED <<todo, cancelled, deadClosed, drained, pc, job,
                          attempt, metrics, dead, world>>

Cancel == /\ ~cancelled /\ ~deadClosed
          /\ cancelled' = TRUE
          /\ UNCHANGED <<todo, inClosed, deadClosed, drained, pc, job,
                         attempt, metrics, dead, world>>

DrainDead == /\ dead # <<>>
             /\ drained' = drained \cup {Head(dead)}
             /\ dead' = Tail(dead)
             /\ UNCHANGED <<todo, inClosed, cancelled, deadClosed, pc, job,
                            attempt, metrics, world>>

Terminated == /\ deadClosed /\ dead = <<>>
              /\ UNCHANGED vars

WorkerStep(w) ==
  \/ StopOnCancel(w) \/ StopOnClose(w) \/ Receive(w)
  \/ BackoffElapsed(w) \/ BackoffCancelled(w)
  \/ \E ok \in SendResults : SendReturns(w, ok)
  \/ CountSent(w) \/ CountFailed(w) \/ CountDead(w)
  \/ Enqueue(w) \/ EnqueueCancelled(w)

Next == \/ \E w \in Workers : WorkerStep(w)
        \/ RunReturns
        \/ CloseIn \/ Cancel \/ DrainDead
        \/ Terminated

Spec == Init /\ [][Next]_vars

(* The Go scheduler runs every runnable goroutine, a Send returns, a timer *)
(* fires, and the caller keeps its side: it closes `in` when it is done    *)
(* and keeps reading DeadLetters().  Nothing forces a cancellation.        *)
Fairness == /\ \A w \in Workers : WF_vars(WorkerStep(w))
            /\ WF_vars(RunReturns) /\ WF_vars(CloseIn) /\ WF_vars(DrainDead)

FairSpec == Spec /\ Fairness

-----------------------------------------------------------------------------
InHand(n)    == \E w \in Workers : job[w] = n
InDead(n)    == \E i \in 1..Len(dead) : dead[i] = n
Delivered(n) == deliveries[n] > 0
DeadLettered(n) == InDead(n) \/ n \in drained
Dropped(n)   == ~(n \in todo \/ InHand(n) \/ Delivered(n) \/ DeadLettered(n))

TypeOK == /\ todo \subseteq Notifications /\ drained \subseteq Notifications
          /\ inClosed \in BOOLEAN /\ cancelled \in BOOLEAN
          /\ deadClosed \in BOOLEAN
          /\ pc \in [Workers -> PCs]
          /\ job \in [Workers -> Notifications \cup {None}]
          /\ attempt \in [Workers -> 0..MaxAttempts]
          /\ sentCount \in Nat /\ failedCount \in Nat /\ deadCount \in Nat
          /\ dead \in Seq(Notifications)
          /\ sends \in [Notifications -> 0..MaxAttempts]
          /\ deliveries \in [Notifications -> 0..MaxAttempts]

(* A notification has at most one fate: it is delivered at most once, it   *)
(* is never both delivered and dead-lettered, no two workers hold it, it   *)
(* is on the dead-letter channel once, and unless the context has been     *)
(* cancelled it is never dropped (worker and process, lines 91-130).       *)
OneFate ==
  /\ \A n \in Notifications :
       /\ deliveries[n] <= 1
       /\ ~(Delivered(n) /\ DeadLettered(n))
       /\ InHand(n) => n \notin todo /\ ~DeadLettered(n)
       /\ ~(InDead(n) /\ n \in drained)
       /\ Dropped(n) => cancelled
  /\ \A v, w \in Workers : job[v] = job[w] /\ job[v] # None => v = w
  /\ \A i, j \in 1..Len(dead) : dead[i] = dead[j] => i = j

(* A notification reaches the dead-letter channel only after all of its    *)
(* MaxAttempts sends have failed, and no notification is sent more often   *)
(* than that (the loop of process, line 106).                              *)
RetryBudget ==
  \A n \in Notifications : /\ sends[n] <= MaxAttempts
                           /\ DeadLettered(n) => sends[n] = MaxAttempts

(* No worker can send on d.dead after Run has closed it, which would       *)
(* panic, and the channel never holds more than its capacity (lines 87-88  *)
(* and 126-127).                                                           *)
DeadChannelSafe ==
  /\ deadClosed => \A w \in Workers : pc[w] = "returned" /\ job[w] = None
  /\ Len(dead) <= DeadCap

At(l) == Cardinality({w \in Workers : pc[w] = l})
(* The calls f counts per notification, each as <<notification, number>>. *)
Calls(f) == UNION {{n} \X (1..f[n]) : n \in DOMAIN f}
Total(f) == Cardinality(Calls(f))

(* The counters lag what happened by exactly the workers between the event *)
(* and the atomic add; a cancellation makes DeadLettered count letters     *)
(* that never reach the channel, and never the other way round.            *)
MetricsExact ==
  /\ sentCount + At("countSent") = Total(deliveries)
  /\ failedCount + At("countFailed") + Total(deliveries) = Total(sends)
  /\ LET letters == Len(dead) + Cardinality(drained) + At("enqueue")
     IN  /\ letters <= deadCount
         /\ letters < deadCount => cancelled

-----------------------------------------------------------------------------
(* The inductive strengthening of OneFate, RetryBudget and DeadChannelSafe *)
(* (DispatcherProofs): what a worker's program counter says of the         *)
(* notification in its hand, and what being elsewhere rules out.           *)
ControlInv ==
  \A w \in Workers :
    /\ pc[w] \in {"select", "returned"} <=> job[w] = None
    /\ job[w] = None => attempt[w] = 0
    /\ pc[w] \in {"backoff", "send", "countSent", "countFailed"}
         => attempt[w] < MaxAttempts
    /\ pc[w] \in {"exhausted", "enqueue"} => attempt[w] = MaxAttempts

JobInv ==
  \A w \in Workers : job[w] # None =>
    /\ job[w] \notin todo /\ ~DeadLettered(job[w])
    /\ deliveries[job[w]] = IF pc[w] = "countSent" THEN 1 ELSE 0
    /\ sends[job[w]] = IF pc[w] \in {"countSent", "countFailed"}
                         THEN attempt[w] + 1 ELSE attempt[w]
    /\ \A v \in Workers : job[v] = job[w] => v = w

PlaceInv ==
  \A n \in Notifications :
    /\ n \in todo => sends[n] = 0 /\ deliveries[n] = 0 /\ ~DeadLettered(n)
    /\ DeadLettered(n) => sends[n] = MaxAttempts /\ deliveries[n] = 0
    /\ ~(InDead(n) /\ n \in drained)
    /\ deliveries[n] <= 1
    /\ Dropped(n) => cancelled

DeadInv == /\ \A i, j \in 1..Len(dead) : dead[i] = dead[j] => i = j
           /\ Len(dead) <= DeadCap
           /\ deadClosed => \A w \in Workers : pc[w] = "returned"

IInv == TypeOK /\ ControlInv /\ JobInv /\ PlaceInv /\ DeadInv

-----------------------------------------------------------------------------
fateOf == [n \in Notifications |->
             IF n \in todo           THEN "waiting"
             ELSE IF Delivered(n)    THEN "delivered"
             ELSE IF DeadLettered(n) THEN "deadlettered"
             ELSE IF InHand(n)       THEN "inflight"
             ELSE "dropped"]

Fate == INSTANCE DispatchFate WITH fate <- fateOf, stopping <- cancelled

(* The dispatcher implements the abstract fate machine: fates only move    *)
(* forward, are final, and dropping needs a cancelled context.             *)
ImplementsFate == Fate!Spec

(* Run returns once its input is closed or its context is cancelled, as    *)
(* long as Send returns and the dead letters are read (Run, lines 78-89).  *)
RunTerminates == (inClosed \/ cancelled) ~> deadClosed

(* Unless the caller cancels, every notification is delivered or reaches   *)
(* the reader of DeadLetters().                                            *)
EveryNotificationServed ==
  <>cancelled \/ \A n \in Notifications : <>(Delivered(n) \/ n \in drained)

(* M03-concurrency.md:410: on a cancelled ctx the dispatcher stops         *)
(* accepting new work, so nothing more is received from `in`.              *)
StopsAccepting == [][cancelled => UNCHANGED todo]_vars
=============================================================================
