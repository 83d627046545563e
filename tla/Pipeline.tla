------------------------------ MODULE Pipeline ------------------------------
(***************************************************************************)
(* pipeline.Run of m03-concurrency/solution-pipeline: a feeder goroutine,  *)
(* a bounded pool of workers, a closer goroutine and the caller's own      *)
(* goroutine, which collects the results.  `jobs` and `out` are unbuffered *)
(* channels, so a send and its receive are one step of two goroutines;     *)
(* `errCh` holds one error.                                                *)
(***************************************************************************)
EXTENDS Naturals, FiniteSets

CONSTANTS N,        \* len(items); item i stands for items[i-1]
          Workers,  \* the goroutines started; workers < 1 means one of them
          None      \* no item, no error, or the zero value of R

Items == 1..N

ASSUME ConstantsAssumption == /\ N \in Nat
                              /\ IsFiniteSet(Workers) /\ Workers # {}
                              /\ None \notin Nat

VARIABLES
  parentDone,  \* the caller's ctx is cancelled
  done,        \* the derived ctx is done: parent cancelled, or cancel() called
  next,        \* the feeder's loop variable
  jobsClosed,  \* the feeder has closed jobs and exited
  pc, item,    \* where each worker is, and the i it holds
  errCh,       \* content of errCh, None when empty
  outClosed,   \* the closer has closed out and exited
  results,     \* results[i] is i once item i's value has been collected
  ret,         \* what Run returned: "running", "results" or "error"
  retErr,      \* the error returned, named by the item that caused it
  called, failed   \* items work was called for, and failed for

ctx    == <<parentDone, done>>
feeder == <<next, jobsClosed>>
caller == <<results, ret, retErr>>
calls  == <<called, failed>>
vars   == <<ctx, feeder, pc, item, errCh, outClosed, caller, calls>>

PCs == {"range", "work", "report", "cancel", "emit", "returned"}

Init == /\ parentDone \in BOOLEAN /\ done = parentDone
        /\ next = 1 /\ jobsClosed = FALSE
        /\ pc = [w \in Workers |-> "range"]
        /\ item = [w \in Workers |-> None]
        /\ errCh = None /\ outClosed = FALSE
        /\ results = [i \in Items |-> None]
        /\ ret = "running" /\ retErr = None
        /\ called = {} /\ failed = {}

GoTo(w, l) == pc' = [pc EXCEPT ![w] = l]

-----------------------------------------------------------------------------
(* The feeder's `jobs <- i` meets a worker's `range jobs`. *)
HandOver(w) ==
  /\ next <= N /\ ~jobsClosed /\ pc[w] = "range"
  /\ next' = next + 1
  /\ item' = [item EXCEPT ![w] = next] /\ GoTo(w, "work")
  /\ UNCHANGED <<ctx, jobsClosed, errCh, outClosed, caller, calls>>

(* Seeded bug: the feeder stops one item short. *)
CloseJobs_OneShort ==
  /\ ~jobsClosed /\ (next >= N \/ done)
  /\ jobsClosed' = TRUE
  /\ UNCHANGED <<ctx, next, pc, item, errCh, outClosed, caller, calls>>

(* Seeded bug: the feeder sends without a select on ctx.Done(). *)
CloseJobs_IgnoreDone ==
  /\ ~jobsClosed /\ next > N
  /\ jobsClosed' = TRUE
  /\ UNCHANGED <<ctx, next, pc, item, errCh, outClosed, caller, calls>>

(* The feeder ends its loop, or sees ctx.Done(); it closes jobs. *)
CloseJobs ==
  /\ ~jobsClosed /\ (next > N \/ done)
  /\ jobsClosed' = TRUE
  /\ UNCHANGED <<ctx, next, pc, item, errCh, outClosed, caller, calls>>

JobsDrained(w) ==
  /\ pc[w] = "range" /\ jobsClosed
  /\ GoTo(w, "returned")
  /\ UNCHANGED <<ctx, feeder, item, errCh, outClosed, caller, calls>>

(* work(ctx, items[i]) returns a value or an error. *)
WorkReturns(w, ok) ==
  /\ pc[w] = "work"
  /\ called' = called \cup {item[w]}
  /\ failed' = IF ok THEN failed ELSE failed \cup {item[w]}
  /\ GoTo(w, IF ok THEN "emit" ELSE "report")
  /\ UNCHANGED <<ctx, feeder, item, errCh, outClosed, caller>>

(* Seeded bug: an error cancels the rest but is not stored. *)
ReportError_CancelOnly(w) ==
  /\ pc[w] = "report"
  /\ GoTo(w, "cancel")
  /\ UNCHANGED <<ctx, feeder, item, errCh, outClosed, caller, calls>>

(* The select around `errCh <- err`: the first error to get there is kept  *)
(* and goes on to cancel the rest, a later one takes the default case.     *)
ReportError(w) ==
  /\ pc[w] = "report"
  /\ errCh' = IF errCh = None THEN item[w] ELSE errCh
  /\ GoTo(w, IF errCh = None THEN "cancel" ELSE "returned")
  /\ UNCHANGED <<ctx, feeder, item, outClosed, caller, calls>>

CallCancel(w) ==
  /\ pc[w] = "cancel"
  /\ done' = TRUE
  /\ GoTo(w, "returned")
  /\ UNCHANGED <<parentDone, feeder, item, errCh, outClosed, caller, calls>>

(* Seeded bug: results stored in the order they arrive. *)
Emit_ByArrival(w) ==
  /\ pc[w] = "emit" /\ ret = "running"
  /\ LET k == Cardinality({i \in Items : results[i] # None}) + 1
     IN  results' = [results EXCEPT ![k] = item[w]]
  /\ GoTo(w, "range")
  /\ UNCHANGED <<ctx, feeder, item, errCh, outClosed, ret, retErr, calls>>

(* The worker's `out <- result{i, v}` meets the caller's `range out`. *)
Emit(w) ==
  /\ pc[w] = "emit" /\ ret = "running"
  /\ results' = [results EXCEPT ![item[w]] = item[w]]
  /\ GoTo(w, "range")
  /\ UNCHANGED <<ctx, feeder, item, errCh, outClosed, ret, retErr, calls>>

EmitCancelled(w) ==
  /\ pc[w] = "emit" /\ done
  /\ GoTo(w, "returned")
  /\ UNCHANGED <<ctx, feeder, item, errCh, outClosed, caller, calls>>

(* The closer: wg.Wait() and close(out). *)
CloseOut ==
  /\ ~outClosed /\ \A w \in Workers : pc[w] = "returned"
  /\ outClosed' = TRUE
  /\ UNCHANGED <<ctx, feeder, pc, item, errCh, caller, calls>>

(* The caller's goroutine leaves `range out`, reads errCh without blocking *)
(* and returns; the deferred cancel() runs.                                *)
Return ==
  /\ ret = "running" /\ outClosed
  /\ ret' = IF errCh = None THEN "results" ELSE "error"
  /\ retErr' = errCh /\ errCh' = None
  /\ done' = TRUE
  /\ UNCHANGED <<parentDone, feeder, pc, item, outClosed, results, calls>>

(* The caller's context is cancelled from outside. *)
ParentCancel ==
  /\ ~parentDone /\ ret = "running"
  /\ parentDone' = TRUE /\ done' = TRUE
  /\ UNCHANGED <<feeder, pc, item, errCh, outClosed, caller, calls>>

AllGone == ret # "running" /\ jobsClosed /\ outClosed
           /\ \A w \in Workers : pc[w] = "returned"

Terminated == AllGone /\ UNCHANGED vars

WorkerStep(w) ==
  \/ HandOver(w) \/ JobsDrained(w)
  \/ \E ok \in BOOLEAN : WorkReturns(w, ok)
  \/ ReportError(w) \/ CallCancel(w) \/ Emit(w) \/ EmitCancelled(w)

Next == \/ \E w \in Workers : WorkerStep(w)
        \/ CloseJobs \/ CloseOut \/ Return \/ ParentCancel \/ Terminated

Spec == Init /\ [][Next]_vars

(* Every goroutine that can run does, and work returns.  Nothing forces    *)
(* the caller to cancel.                                                   *)
Fairness == /\ \A w \in Workers : WF_vars(WorkerStep(w))
            /\ WF_vars(CloseJobs) /\ WF_vars(CloseOut) /\ WF_vars(Return)

-----------------------------------------------------------------------------
TypeOK == /\ parentDone \in BOOLEAN /\ done \in BOOLEAN
          /\ next \in 1..(N + 1)
          /\ jobsClosed \in BOOLEAN /\ outClosed \in BOOLEAN
          /\ pc \in [Workers -> PCs]
          /\ item \in [Workers -> Items \cup {None}]
          /\ errCh \in Items \cup {None}
          /\ results \in [Items -> Items \cup {None}]
          /\ ret \in {"running", "results", "error"}
          /\ retErr \in Items \cup {None}
          /\ called \subseteq Items /\ failed \subseteq called

(* Work done for an item is never done again, and a value lands in its own *)
(* place however the workers overtake each other (lines 35-69).            *)
EachItemOnce ==
  /\ \A v, w \in Workers :
       /\ pc[v] = "work" => item[v] \notin called
       /\ pc[v] = "work" /\ pc[w] = "work" /\ item[v] = item[w] => v = w
  /\ \A i \in Items : results[i] # None => results[i] = i /\ i \in called \ failed

(* The returned error is the error of an item that failed, and if any item *)
(* failed an error is returned: none is lost in the select/default of      *)
(* lines 38-42, and none is left in errCh.                                 *)
FailureReported ==
  /\ ret = "error" => retErr \in failed
  /\ ret = "results" => failed = {}

(* A nil error stands for complete results, unless the caller cancelled:   *)
(* then Run returns nil with zero values for the items it skipped.         *)
CompleteUnlessCancelled ==
  ret = "results" /\ ~parentDone => \A i \in Items : results[i] = i

(* Run returns and leaves no goroutine behind, whatever fails or is        *)
(* cancelled when, as long as work returns.                                *)
NoGoroutineLeak == <>AllGone
=============================================================================
