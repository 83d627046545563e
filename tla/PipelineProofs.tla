--------------------------- MODULE PipelineProofs ---------------------------
(***************************************************************************)
(* Safety of pipeline.Run for any number of items and workers, and of      *)
(* pipeline.Merge for any number of channels.                              *)
(*                                                                         *)
(* The properties speak of what Run returns; what makes them true is what  *)
(* each goroutine's position says of the item in its hand, of errCh and of *)
(* the context, so the inductive invariant spells that out.                *)
(***************************************************************************)
EXTENDS Pipeline, Merge, FiniteSetTheorems, TLAPS

Holding(w) == pc[w] \in {"work", "report", "cancel", "emit"}

(* The item in a worker's hand was handed over, and whether work has been  *)
(* called or has failed for it can be read off the worker's position.      *)
HandInv ==
  \A w \in Workers :
    /\ Holding(w) => item[w] \in Items /\ item[w] < next
    /\ pc[w] = "emit" => item[w] \in called \ failed
    /\ pc[w] \in {"report", "cancel"} => item[w] \in failed

FedInv == \A i \in called : i < next

(* An error is with the worker that will report it, in errCh, or returned. *)
ErrorInv ==
  /\ errCh # None => errCh \in failed
  /\ failed # {} => \/ errCh # None \/ ret = "error"
                    \/ \E w \in Workers : pc[w] = "report"

(* When out is closed every worker has returned, and Run returns later. *)
EndInv ==
  /\ outClosed => \A w \in Workers : pc[w] = "returned"
  /\ ret # "running" => outClosed

(* Without a failure or a cancellation the workers run until jobs is       *)
(* closed, the feeder to the end, and no item gets lost between them.      *)
FlowInv ==
  /\ done /\ ~parentDone /\ ret = "running" => failed # {}
  /\ ~done => /\ jobsClosed => next > N
              /\ \A w \in Workers : pc[w] = "returned" => jobsClosed \/ failed # {}
              /\ \A i \in Items : i < next /\ results[i] = None =>
                   i \in failed \/ \E w \in Workers : pc[w] \in {"work", "emit"} /\ item[w] = i

IInv == /\ TypeOK /\ HandInv /\ FedInv /\ EachItemOnce /\ ErrorInv /\ EndInv
        /\ FlowInv /\ FailureReported /\ CompleteUnlessCancelled

-----------------------------------------------------------------------------
LEMMA InitInv == Init => IInv
<1> SUFFICES ASSUME Init
             PROVE  IInv
  OBVIOUS
<1>1. TypeOK
  <2>1. parentDone \in BOOLEAN /\ done \in BOOLEAN
    BY Zenon DEF Init
  <2>2. next \in 1..(N + 1)
    BY ConstantsAssumption DEF Init
  <2> QED
    BY <2>1, <2>2 DEF Init, TypeOK, PCs, Items
<1>2. HandInv /\ FedInv /\ EachItemOnce
  BY DEF Init, HandInv, Holding, FedInv, EachItemOnce
<1>3. ErrorInv /\ EndInv /\ FlowInv
  BY ConstantsAssumption DEF Init, ErrorInv, EndInv, FlowInv, Items
<1>4. FailureReported /\ CompleteUnlessCancelled
  BY DEF Init, FailureReported, CompleteUnlessCancelled
<1> QED
  BY <1>1, <1>2, <1>3, <1>4 DEF IInv

(* The feeder hands an item over. *)
LEMMA HandOverInv ==
  ASSUME IInv, NEW w \in Workers, HandOver(w)
  PROVE  IInv'
<1>1. TypeOK'
  BY ConstantsAssumption DEF IInv, TypeOK, PCs, HandInv, Holding, Items, HandOver,
     GoTo, ctx, caller, calls
<1>2. HandInv'
  BY ConstantsAssumption DEF IInv, TypeOK, PCs, HandInv, Holding, Items,
     EachItemOnce, HandOver, GoTo, ctx, caller, calls
<1>3. FedInv'
  BY ConstantsAssumption DEF IInv, TypeOK, HandInv, Holding, FedInv, Items,
     HandOver, GoTo, ctx, caller, calls
<1>4. EachItemOnce'
  BY ConstantsAssumption DEF IInv, TypeOK, HandInv, Holding, FedInv, EachItemOnce,
     Items, HandOver, GoTo, ctx, caller, calls
<1>5. ErrorInv'
  BY ConstantsAssumption DEF IInv, TypeOK, HandInv, ErrorInv, EndInv, Items,
     HandOver, GoTo, ctx, caller, calls
<1>6. EndInv'
  BY ConstantsAssumption DEF IInv, TypeOK, EndInv, HandOver, GoTo, ctx, caller, calls
<1>7. FlowInv'
  BY ConstantsAssumption DEF IInv, TypeOK, HandInv, Holding, EachItemOnce, FlowInv,
     EndInv, Items, HandOver, GoTo, ctx, caller, calls
<1>8. FailureReported'
  BY ConstantsAssumption DEF IInv, TypeOK, ErrorInv, EndInv, FailureReported,
     HandOver, GoTo, ctx, caller, calls
<1>9. CompleteUnlessCancelled'
  BY ConstantsAssumption DEF IInv, TypeOK, ErrorInv, EndInv, FlowInv,
     CompleteUnlessCancelled, EachItemOnce, FailureReported, HandOver, GoTo, ctx,
     caller, calls
<1> QED
  BY <1>1, <1>2, <1>3, <1>4, <1>5, <1>6, <1>7, <1>8, <1>9 DEF IInv

(* A worker's range over jobs ends. *)
LEMMA JobsDrainedInv ==
  ASSUME IInv, NEW w \in Workers, JobsDrained(w)
  PROVE  IInv'
<1>1. TypeOK'
  BY ConstantsAssumption DEF IInv, TypeOK, PCs, HandInv, Holding, Items,
     JobsDrained, GoTo, ctx, feeder, caller, calls
<1>2. HandInv'
  BY ConstantsAssumption DEF IInv, TypeOK, PCs, HandInv, Holding, Items,
     EachItemOnce, JobsDrained, GoTo, ctx, feeder, caller, calls
<1>3. FedInv'
  BY ConstantsAssumption DEF IInv, TypeOK, HandInv, Holding, FedInv, Items,
     JobsDrained, GoTo, ctx, feeder, caller, calls
<1>4. EachItemOnce'
  BY ConstantsAssumption DEF IInv, TypeOK, HandInv, Holding, FedInv, EachItemOnce,
     Items, JobsDrained, GoTo, ctx, feeder, caller, calls
<1>5. ErrorInv'
  BY ConstantsAssumption DEF IInv, TypeOK, HandInv, ErrorInv, EndInv, Items,
     JobsDrained, GoTo, ctx, feeder, caller, calls
<1>6. EndInv'
  BY ConstantsAssumption DEF IInv, TypeOK, EndInv, JobsDrained, GoTo, ctx, feeder,
     caller, calls
<1>7. FlowInv'
  BY ConstantsAssumption DEF IInv, TypeOK, HandInv, Holding, EachItemOnce, FlowInv,
     EndInv, Items, JobsDrained, GoTo, ctx, feeder, caller, calls
<1>8. FailureReported'
  BY ConstantsAssumption DEF IInv, TypeOK, ErrorInv, EndInv, FailureReported,
     JobsDrained, GoTo, ctx, feeder, caller, calls
<1>9. CompleteUnlessCancelled'
  BY ConstantsAssumption DEF IInv, TypeOK, ErrorInv, EndInv, FlowInv,
     CompleteUnlessCancelled, EachItemOnce, FailureReported, JobsDrained, GoTo, ctx,
     feeder, caller, calls
<1> QED
  BY <1>1, <1>2, <1>3, <1>4, <1>5, <1>6, <1>7, <1>8, <1>9 DEF IInv

(* work returns. *)
LEMMA WorkReturnsInv ==
  ASSUME IInv, NEW w \in Workers, NEW ok \in BOOLEAN, WorkReturns(w, ok)
  PROVE  IInv'
<1>1. TypeOK'
  BY ConstantsAssumption DEF IInv, TypeOK, PCs, HandInv, Holding, Items,
     WorkReturns, GoTo, ctx, feeder, caller
<1>2. HandInv'
  BY ConstantsAssumption DEF IInv, TypeOK, PCs, HandInv, Holding, Items,
     EachItemOnce, WorkReturns, GoTo, ctx, feeder, caller
<1>3. FedInv'
  BY ConstantsAssumption DEF IInv, TypeOK, HandInv, Holding, FedInv, Items,
     WorkReturns, GoTo, ctx, feeder, caller
<1>4. EachItemOnce'
  BY ConstantsAssumption DEF IInv, TypeOK, HandInv, Holding, FedInv, EachItemOnce,
     Items, WorkReturns, GoTo, ctx, feeder, caller
<1>5. ErrorInv'
  BY ConstantsAssumption DEF IInv, TypeOK, HandInv, ErrorInv, EndInv, Items,
     WorkReturns, GoTo, ctx, feeder, caller
<1>6. EndInv'
  BY ConstantsAssumption DEF IInv, TypeOK, EndInv, WorkReturns, GoTo, ctx, feeder,
     caller
<1>7. FlowInv'
  BY ConstantsAssumption DEF IInv, TypeOK, HandInv, Holding, EachItemOnce, FlowInv,
     EndInv, Items, WorkReturns, GoTo, ctx, feeder, caller
<1>8. FailureReported'
  BY ConstantsAssumption DEF IInv, TypeOK, ErrorInv, EndInv, FailureReported,
     WorkReturns, GoTo, ctx, feeder, caller
<1>9. CompleteUnlessCancelled'
  BY ConstantsAssumption DEF IInv, TypeOK, ErrorInv, EndInv, FlowInv,
     CompleteUnlessCancelled, EachItemOnce, FailureReported, WorkReturns, GoTo, ctx,
     feeder, caller
<1> QED
  BY <1>1, <1>2, <1>3, <1>4, <1>5, <1>6, <1>7, <1>8, <1>9 DEF IInv

(* The first error is kept in errCh, a later one dropped. *)
LEMMA ReportErrorInv ==
  ASSUME IInv, NEW w \in Workers, ReportError(w)
  PROVE  IInv'
<1>1. TypeOK'
  BY ConstantsAssumption DEF IInv, TypeOK, PCs, HandInv, Holding, Items,
     ReportError, GoTo, ctx, feeder, caller, calls
<1>2. HandInv'
  BY ConstantsAssumption DEF IInv, TypeOK, PCs, HandInv, Holding, Items,
     EachItemOnce, ReportError, GoTo, ctx, feeder, caller, calls
<1>3. FedInv'
  BY ConstantsAssumption DEF IInv, TypeOK, HandInv, Holding, FedInv, Items,
     ReportError, GoTo, ctx, feeder, caller, calls
<1>4. EachItemOnce'
  BY ConstantsAssumption DEF IInv, TypeOK, HandInv, Holding, FedInv, EachItemOnce,
     Items, ReportError, GoTo, ctx, feeder, caller, calls
<1>5. ErrorInv'
  BY ConstantsAssumption DEF IInv, TypeOK, HandInv, ErrorInv, EndInv, Items,
     ReportError, GoTo, ctx, feeder, caller, calls
<1>6. EndInv'
  BY ConstantsAssumption DEF IInv, TypeOK, EndInv, ReportError, GoTo, ctx, feeder,
     caller, calls
<1>7. FlowInv'
  BY ConstantsAssumption DEF IInv, TypeOK, HandInv, Holding, EachItemOnce, FlowInv,
     EndInv, Items, ReportError, GoTo, ctx, feeder, caller, calls
<1>8. FailureReported'
  BY ConstantsAssumption DEF IInv, TypeOK, ErrorInv, EndInv, FailureReported,
     ReportError, GoTo, ctx, feeder, caller, calls
<1>9. CompleteUnlessCancelled'
  BY ConstantsAssumption DEF IInv, TypeOK, ErrorInv, EndInv, FlowInv,
     CompleteUnlessCancelled, EachItemOnce, FailureReported, ReportError, GoTo, ctx,
     feeder, caller, calls
<1> QED
  BY <1>1, <1>2, <1>3, <1>4, <1>5, <1>6, <1>7, <1>8, <1>9 DEF IInv

(* The worker whose error was kept cancels the context. *)
LEMMA CallCancelInv ==
  ASSUME IInv, NEW w \in Workers, CallCancel(w)
  PROVE  IInv'
<1>1. TypeOK'
  BY ConstantsAssumption DEF IInv, TypeOK, PCs, HandInv, Holding, Items, CallCancel,
     GoTo, feeder, caller, calls
<1>2. HandInv'
  BY ConstantsAssumption DEF IInv, TypeOK, PCs, HandInv, Holding, Items,
     EachItemOnce, CallCancel, GoTo, feeder, caller, calls
<1>3. FedInv'
  BY ConstantsAssumption DEF IInv, TypeOK, HandInv, Holding, FedInv, Items,
     CallCancel, GoTo, feeder, caller, calls
<1>4. EachItemOnce'
  BY ConstantsAssumption DEF IInv, TypeOK, HandInv, Holding, FedInv, EachItemOnce,
     Items, CallCancel, GoTo, feeder, caller, calls
<1>5. ErrorInv'
  BY ConstantsAssumption DEF IInv, TypeOK, HandInv, ErrorInv, EndInv, Items,
     CallCancel, GoTo, feeder, caller, calls
<1>6. EndInv'
  BY ConstantsAssumption DEF IInv, TypeOK, EndInv, CallCancel, GoTo, feeder, caller,
     calls
<1>7. FlowInv'
  BY ConstantsAssumption DEF IInv, TypeOK, HandInv, Holding, EachItemOnce, FlowInv,
     EndInv, Items, CallCancel, GoTo, feeder, caller, calls
<1>8. FailureReported'
  BY ConstantsAssumption DEF IInv, TypeOK, ErrorInv, EndInv, FailureReported,
     CallCancel, GoTo, feeder, caller, calls
<1>9. CompleteUnlessCancelled'
  BY ConstantsAssumption DEF IInv, TypeOK, ErrorInv, EndInv, FlowInv,
     CompleteUnlessCancelled, EachItemOnce, FailureReported, CallCancel, GoTo, feeder,
     caller, calls
<1> QED
  BY <1>1, <1>2, <1>3, <1>4, <1>5, <1>6, <1>7, <1>8, <1>9 DEF IInv

(* A value is collected. *)
LEMMA EmitInv ==
  ASSUME IInv, NEW w \in Workers, Emit(w)
  PROVE  IInv'
<1>1. TypeOK'
  BY ConstantsAssumption DEF IInv, TypeOK, PCs, HandInv, Holding, Items, Emit, GoTo,
     ctx, feeder, calls
<1>2. HandInv'
  BY ConstantsAssumption DEF IInv, TypeOK, PCs, HandInv, Holding, Items,
     EachItemOnce, Emit, GoTo, ctx, feeder, calls
<1>3. FedInv'
  BY ConstantsAssumption DEF IInv, TypeOK, HandInv, Holding, FedInv, Items, Emit,
     GoTo, ctx, feeder, calls
<1>4. EachItemOnce'
  BY ConstantsAssumption DEF IInv, TypeOK, HandInv, Holding, FedInv, EachItemOnce,
     Items, Emit, GoTo, ctx, feeder, calls
<1>5. ErrorInv'
  BY ConstantsAssumption DEF IInv, TypeOK, HandInv, ErrorInv, EndInv, Items, Emit,
     GoTo, ctx, feeder, calls
<1>6. EndInv'
  BY ConstantsAssumption DEF IInv, TypeOK, EndInv, Emit, GoTo, ctx, feeder, calls
<1>7. FlowInv'
  BY ConstantsAssumption DEF IInv, TypeOK, HandInv, Holding, EachItemOnce, FlowInv,
     EndInv, Items, Emit, GoTo, ctx, feeder, calls
<1>8. FailureReported'
  BY ConstantsAssumption DEF IInv, TypeOK, ErrorInv, EndInv, FailureReported, Emit,
     GoTo, ctx, feeder, calls
<1>9. CompleteUnlessCancelled'
  BY ConstantsAssumption DEF IInv, TypeOK, ErrorInv, EndInv, FlowInv,
     CompleteUnlessCancelled, EachItemOnce, FailureReported, Emit, GoTo, ctx, feeder,
     calls
<1> QED
  BY <1>1, <1>2, <1>3, <1>4, <1>5, <1>6, <1>7, <1>8, <1>9 DEF IInv

(* A worker gives its value up. *)
LEMMA EmitCancelledInv ==
  ASSUME IInv, NEW w \in Workers, EmitCancelled(w)
  PROVE  IInv'
<1>1. TypeOK'
  BY ConstantsAssumption DEF IInv, TypeOK, PCs, HandInv, Holding, Items,
     EmitCancelled, GoTo, ctx, feeder, caller, calls
<1>2. HandInv'
  BY ConstantsAssumption DEF IInv, TypeOK, PCs, HandInv, Holding, Items,
     EachItemOnce, EmitCancelled, GoTo, ctx, feeder, caller, calls
<1>3. FedInv'
  BY ConstantsAssumption DEF IInv, TypeOK, HandInv, Holding, FedInv, Items,
     EmitCancelled, GoTo, ctx, feeder, caller, calls
<1>4. EachItemOnce'
  BY ConstantsAssumption DEF IInv, TypeOK, HandInv, Holding, FedInv, EachItemOnce,
     Items, EmitCancelled, GoTo, ctx, feeder, caller, calls
<1>5. ErrorInv'
  BY ConstantsAssumption DEF IInv, TypeOK, HandInv, ErrorInv, EndInv, Items,
     EmitCancelled, GoTo, ctx, feeder, caller, calls
<1>6. EndInv'
  BY ConstantsAssumption DEF IInv, TypeOK, EndInv, EmitCancelled, GoTo, ctx, feeder,
     caller, calls
<1>7. FlowInv'
  BY ConstantsAssumption DEF IInv, TypeOK, HandInv, Holding, EachItemOnce, FlowInv,
     EndInv, Items, EmitCancelled, GoTo, ctx, feeder, caller, calls
<1>8. FailureReported'
  BY ConstantsAssumption DEF IInv, TypeOK, ErrorInv, EndInv, FailureReported,
     EmitCancelled, GoTo, ctx, feeder, caller, calls
<1>9. CompleteUnlessCancelled'
  BY ConstantsAssumption DEF IInv, TypeOK, ErrorInv, EndInv, FlowInv,
     CompleteUnlessCancelled, EachItemOnce, FailureReported, EmitCancelled, GoTo, ctx,
     feeder, caller, calls
<1> QED
  BY <1>1, <1>2, <1>3, <1>4, <1>5, <1>6, <1>7, <1>8, <1>9 DEF IInv

(* The feeder ends. *)
LEMMA CloseJobsInv ==
  ASSUME IInv, CloseJobs
  PROVE  IInv'
<1>1. TypeOK'
  BY DEF IInv, TypeOK, CloseJobs, ctx, caller, calls
<1>2. FlowInv'
  BY ConstantsAssumption DEF IInv, TypeOK, FlowInv, CloseJobs, ctx, caller, calls
<1>3. (HandInv /\ FedInv /\ EachItemOnce /\ ErrorInv /\ EndInv)'
  BY DEF IInv, HandInv, Holding, FedInv, EachItemOnce, ErrorInv, EndInv, CloseJobs,
     ctx,
     caller, calls
<1>4. (FailureReported /\ CompleteUnlessCancelled)'
  BY DEF IInv, FailureReported, CompleteUnlessCancelled, CloseJobs, ctx, caller, calls
<1> QED
  BY <1>1, <1>2, <1>3, <1>4 DEF IInv

(* The closer ends. *)
LEMMA CloseOutInv ==
  ASSUME IInv, CloseOut
  PROVE  IInv'
<1>1. TypeOK'
  BY DEF IInv, TypeOK, CloseOut, ctx, feeder, caller, calls
<1>2. EndInv'
  BY DEF IInv, EndInv, CloseOut, ctx, feeder, caller, calls
<1>3. (HandInv /\ FedInv /\ EachItemOnce /\ ErrorInv /\ FlowInv)'
  BY DEF IInv, HandInv, Holding, FedInv, EachItemOnce, ErrorInv, FlowInv, CloseOut,
     ctx,
     feeder, caller, calls
<1>4. (FailureReported /\ CompleteUnlessCancelled)'
  BY DEF IInv, FailureReported, CompleteUnlessCancelled, CloseOut, ctx, caller, calls
<1> QED
  BY <1>1, <1>2, <1>3, <1>4 DEF IInv

(* Run returns. *)
LEMMA ReturnInv ==
  ASSUME IInv, Return
  PROVE  IInv'
<1>1. TypeOK'
  BY ConstantsAssumption DEF IInv, TypeOK, PCs, HandInv, Holding, Items, Return,
     feeder, calls
<1>2. HandInv'
  BY ConstantsAssumption DEF IInv, TypeOK, PCs, HandInv, Holding, Items,
     EachItemOnce, Return, feeder, calls
<1>3. FedInv'
  BY ConstantsAssumption DEF IInv, TypeOK, HandInv, Holding, FedInv, Items, Return,
     feeder, calls
<1>4. EachItemOnce'
  BY ConstantsAssumption DEF IInv, TypeOK, HandInv, Holding, FedInv, EachItemOnce,
     Items, Return, feeder, calls
<1>5. ErrorInv'
  BY ConstantsAssumption DEF IInv, TypeOK, HandInv, ErrorInv, EndInv, Items, Return,
     feeder, calls
<1>6. EndInv'
  BY ConstantsAssumption DEF IInv, TypeOK, EndInv, Return, feeder, calls
<1>7. FlowInv'
  BY ConstantsAssumption DEF IInv, TypeOK, HandInv, Holding, EachItemOnce, FlowInv,
     EndInv, Items, Return, feeder, calls
<1>8. FailureReported'
  BY ConstantsAssumption DEF IInv, TypeOK, ErrorInv, EndInv, FailureReported,
     Return, feeder, calls
<1>9. CompleteUnlessCancelled'
  <2> SUFFICES ASSUME ret' = "results", ~parentDone, NEW i \in Items
               PROVE  results[i] = i
    BY DEF Return, CompleteUnlessCancelled
  <2>1. errCh = None /\ \A w \in Workers : pc[w] = "returned"
    BY DEF IInv, EndInv, Return
  <2>2. failed = {}
    BY <2>1 DEF IInv, ErrorInv, Return
  <2>3. ~done
    BY <2>2 DEF IInv, FlowInv, Return
  <2>4. jobsClosed /\ next > N
    BY <2>1, <2>2, <2>3, ConstantsAssumption DEF IInv, FlowInv
  <2>5. i < next
    BY <2>4, ConstantsAssumption DEF IInv, TypeOK, Items
  <2>6. results[i] # None
    BY <2>1, <2>2, <2>3, <2>5 DEF IInv, FlowInv
  <2> QED
    BY <2>6 DEF IInv, EachItemOnce
<1> QED
  BY <1>1, <1>2, <1>3, <1>4, <1>5, <1>6, <1>7, <1>8, <1>9 DEF IInv

(* The caller cancels. *)
LEMMA ParentCancelInv ==
  ASSUME IInv, ParentCancel
  PROVE  IInv'
<1>1. TypeOK'
  BY DEF IInv, TypeOK, ParentCancel, feeder, caller, calls
<1>2. FlowInv'
  BY DEF IInv, FlowInv, ParentCancel, feeder, caller, calls
<1>3. (HandInv /\ FedInv /\ EachItemOnce /\ ErrorInv /\ EndInv)'
  BY DEF IInv, HandInv, Holding, FedInv, EachItemOnce, ErrorInv, EndInv, ParentCancel,
     feeder, caller, calls
<1>4. (FailureReported /\ CompleteUnlessCancelled)'
  BY DEF IInv, FailureReported, CompleteUnlessCancelled, ParentCancel, feeder, caller,
     calls
<1> QED
  BY <1>1, <1>2, <1>3, <1>4 DEF IInv

(* Nothing happens. *)
LEMMA StutterInv ==
  ASSUME IInv, UNCHANGED vars
  PROVE  IInv'
<1>1. (TypeOK /\ HandInv /\ FedInv /\ EachItemOnce)'
  BY DEF IInv, TypeOK, HandInv, Holding, FedInv, EachItemOnce, vars, ctx, feeder,
     caller,
     calls
<1>2. (ErrorInv /\ EndInv /\ FlowInv)'
  BY DEF IInv, ErrorInv, EndInv, FlowInv, vars, ctx, feeder, caller, calls
<1>3. (FailureReported /\ CompleteUnlessCancelled)'
  BY DEF IInv, FailureReported, CompleteUnlessCancelled, vars, ctx, caller, calls
<1> QED
  BY <1>1, <1>2, <1>3 DEF IInv

LEMMA StepInv == IInv /\ [Next]_vars => IInv'
BY HandOverInv, JobsDrainedInv, WorkReturnsInv, ReportErrorInv, CallCancelInv, EmitInv,
   EmitCancelledInv, CloseJobsInv, CloseOutInv, ReturnInv, ParentCancelInv, StutterInv
   DEF Next, WorkerStep, Terminated

(* The invariant holds in every reachable state. *)
THEOREM Invariant == Spec => []IInv
BY InitInv, StepInv, PTL DEF Spec

(* The variables of Run keep their types. *)
THEOREM TypeCorrect == Spec => []TypeOK
<1>1. IInv => TypeOK
  BY DEF IInv
<1> QED
  BY <1>1, Invariant, PTL

(* However many workers overtake each other, work is called once for an item
   and its value lands in the item's own place. *)
THEOREM EachItemOnceHolds == Spec => []EachItemOnce
<1>1. IInv => EachItemOnce
  BY DEF IInv
<1> QED
  BY <1>1, Invariant, PTL

(* Run returns the error of an item that failed whenever an item failed, and
   only then. *)
THEOREM FailureReportedHolds == Spec => []FailureReported
<1>1. IInv => FailureReported
  BY DEF IInv
<1> QED
  BY <1>1, Invariant, PTL

(* A nil error means complete results, unless the caller cancelled. *)
THEOREM CompleteUnlessCancelledHolds == Spec => []CompleteUnlessCancelled
<1>1. IInv => CompleteUnlessCancelled
  BY DEF IInv
<1> QED
  BY <1>1, Invariant, PTL

-----------------------------------------------------------------------------
(* Merge: where the values of one input are. *)
MergeTypeOK ==
  /\ upcoming \in [Inputs -> 1..(K + 1)] /\ held \in [Inputs -> 0..K]
  /\ closed \subseteq Inputs /\ exited \subseteq Inputs
  /\ mergedClosed \in BOOLEAN /\ reader \in {"reading", "stopped", "finished"}
  /\ got \in Seq(Inputs \X (1..K))

(* A forwarder holds the last value its owner sent, and goes home when it  *)
(* has passed on all; the closer and the reader come after it.             *)
ForwarderInv ==
  /\ \A c \in Inputs : /\ held[c] # 0 => held[c] = upcoming[c] - 1
                       /\ c \in closed => upcoming[c] = K + 1
                       /\ c \in exited => c \in closed /\ held[c] = 0
  /\ mergedClosed => exited = Inputs
  /\ reader = "finished" => mergedClosed

(* The part of MergeFaithful about what has been received. *)
ReceivedInv ==
  \A c \in Inputs : /\ \A i \in From(c) : got[i][2] \in 1..Sent(c)
                    /\ \A v \in 1..Sent(c) : \E i \in From(c) : got[i][2] = v
OrderInv == \A i, j \in DOMAIN got : i < j /\ got[i][1] = got[j][1] => got[i][2] < got[j][2]

MergeInv == MergeTypeOK /\ ForwarderInv /\ ReceivedInv /\ OrderInv

LEMMA MergeInitInv == MergeInit => MergeInv
<1> SUFFICES ASSUME MergeInit
             PROVE  MergeInv
  OBVIOUS
<1> USE MergeAssumption DEF MergeInit
<1>1. MergeTypeOK
  <2>1. got \in Seq(Inputs \X (1..K))
    OBVIOUS
  <2>2. mergedClosed \in BOOLEAN
    BY Zenon
  <2>3. upcoming \in [Inputs -> 1..(K + 1)] /\ held \in [Inputs -> 0..K]
    OBVIOUS
  <2> QED
    BY <2>1, <2>2, <2>3 DEF MergeTypeOK
<1>2. ForwarderInv /\ OrderInv
  BY DEF ForwarderInv, OrderInv
<1>3. ReceivedInv
  BY DEF ReceivedInv, From, Sent
<1> QED
  BY <1>1, <1>2, <1>3 DEF MergeInv

(* An owner's value moves into the forwarder's hand. *)
LEMMA ReceiveInputInv ==
  ASSUME MergeInv, NEW c \in Inputs, ReceiveInput(c)
  PROVE  MergeInv'
<1> USE MergeAssumption DEF MergeInv, ReceiveInput
<1>1. MergeTypeOK'
  BY DEF MergeTypeOK
<1>2. ForwarderInv'
  BY DEF MergeTypeOK, ForwarderInv
<1>3. ReceivedInv'
  <2>1. \A d \in Inputs : Sent(d)' = Sent(d)
    BY DEF MergeTypeOK, Sent
  <2> QED
    BY <2>1 DEF ReceivedInv, From
<1>4. OrderInv'
  BY DEF OrderInv
<1> QED
  BY <1>1, <1>2, <1>3, <1>4

(* A value in a forwarder's hand is larger than all received from it. *)
LEMMA ForwardInv ==
  ASSUME MergeInv, NEW c \in Inputs, Forward(c)
  PROVE  MergeInv'
<1> USE MergeAssumption DEF MergeInv, Forward
<1>0. /\ got' \in Seq(Inputs \X (1..K)) /\ Len(got') = Len(got) + 1
      /\ DOMAIN got' = 1..(Len(got) + 1) /\ DOMAIN got = 1..Len(got) /\ Len(got) \in Nat
      /\ got'[Len(got) + 1] = <<c, held[c]>>
      /\ \A i \in 1..Len(got) : got'[i] = got[i]
  BY DEF MergeTypeOK
<1>1. MergeTypeOK'
  BY <1>0 DEF MergeTypeOK
<1>2. ForwarderInv'
  BY DEF MergeTypeOK, ForwarderInv
<1>3. Sent(c) \in Nat /\ Sent(c)' = Sent(c) + 1 /\ held[c] = Sent(c) + 1
  <2>1. /\ upcoming[c] \in 1..(K + 1) /\ held[c] \in 1..K /\ held[c] = upcoming[c] - 1
        /\ upcoming'[c] = upcoming[c] /\ held'[c] = 0
    BY DEF MergeTypeOK, ForwarderInv
  <2>2. Sent(c) = upcoming[c] - 2 /\ Sent(c)' = upcoming[c] - 1
    BY <2>1 DEF Sent
  <2> QED
    BY <2>1, <2>2
<1>4. ASSUME NEW d \in Inputs
      PROVE  /\ \A i \in From(d)' : got'[i][2] \in 1..Sent(d)'
             /\ \A v \in 1..Sent(d)' : \E i \in From(d)' : got'[i][2] = v
  <2>1. CASE d # c
    <3>1. From(d)' = From(d) /\ \A i \in From(d) : got'[i] = got[i]
      BY <2>1, <1>0 DEF From
    <3>2. Sent(d)' = Sent(d)
      BY <2>1 DEF Sent, MergeTypeOK
    <3>3. /\ \A i \in From(d) : got[i][2] \in 1..Sent(d)
          /\ \A v \in 1..Sent(d) : \E i \in From(d) : got[i][2] = v
      BY DEF ReceivedInv
    <3> QED
      BY <3>1, <3>2, <3>3
  <2>2. CASE d = c
    <3>1. From(c)' = From(c) \cup {Len(got) + 1} /\ \A i \in From(c) : got'[i] = got[i]
      BY <1>0 DEF From
    <3>0. /\ \A x \in 1..Sent(c) : x \in 1..(Sent(c) + 1)
          /\ \A x \in 1..(Sent(c) + 1) : x \in 1..Sent(c) \/ x = Sent(c) + 1
      <4>1. \A n \in Nat : /\ \A x \in 1..n : x \in 1..(n + 1)
                          /\ \A x \in 1..(n + 1) : x \in 1..n \/ x = n + 1
        OBVIOUS
      <4>2. Sent(c) \in Nat
        BY <1>3
      <4> QED
        BY <4>1, <4>2, Zenon
    <3>2. got'[Len(got) + 1][2] = Sent(c) + 1
      BY <1>0, <1>3
    <3>3. ASSUME NEW i \in From(c)'
          PROVE  got'[i][2] \in 1..(Sent(c) + 1)
      <4>1. CASE i \in From(c)
        <5>1. got'[i][2] \in 1..Sent(c)
          BY <3>1, <4>1 DEF ReceivedInv
        <5> QED
          BY <5>1, <3>0, Zenon
      <4>2. CASE i = Len(got) + 1
        BY <3>2, <4>2, <1>3
      <4> QED
        BY <3>1, <4>1, <4>2
    <3>4. ASSUME NEW v \in 1..(Sent(c) + 1)
          PROVE  \E i \in From(c)' : got'[i][2] = v
      <4>1. CASE v \in 1..Sent(c)
        <5>1. PICK i \in From(c) : got[i][2] = v
          BY <4>1 DEF ReceivedInv
        <5> QED
          BY <3>1, <5>1
      <4>2. CASE v = Sent(c) + 1
        BY <3>1, <3>2, <4>2
      <4> QED
        BY <3>0, <4>1, <4>2, Zenon
    <3> QED
      BY <2>2, <3>3, <3>4, <1>3
  <2> QED
    BY <2>1, <2>2
<1>5. ASSUME NEW i \in DOMAIN got', NEW j \in DOMAIN got', i < j, got'[i][1] = got'[j][1]
      PROVE  got'[i][2] < got'[j][2]
  <2>1. CASE j \in DOMAIN got
    BY <1>0, <1>5, <2>1 DEF OrderInv
  <2>2. CASE j = Len(got) + 1
    <3>1. i \in From(c) /\ got'[i] = got[i]
      BY <1>0, <1>5, <2>2 DEF From
    <3>2. got[i][2] \in 1..Sent(c)
      BY <3>1 DEF ReceivedInv
    <3> QED
      BY <1>0, <1>3, <2>2, <3>1, <3>2
  <2> QED
    BY <1>0, <2>1, <2>2
<1>6. ReceivedInv'
  BY <1>4 DEF ReceivedInv
<1>7. OrderInv'
  BY <1>5 DEF OrderInv
<1> QED
  BY <1>1, <1>2, <1>6, <1>7

(* Steps that move no value. *)
LEMMA QuietInv ==
  ASSUME MergeInv, UNCHANGED <<upcoming, held, got>>, MergeTypeOK', ForwarderInv'
  PROVE  MergeInv'
<1>1. ReceivedInv'
  BY DEF MergeInv, ReceivedInv, From, Sent
<1>2. OrderInv'
  BY DEF MergeInv, OrderInv
<1> QED
  BY <1>1, <1>2 DEF MergeInv

LEMMA OtherMergeInv ==
  ASSUME MergeInv,
         \/ \E c \in Inputs : CloseInput(c) \/ ForwarderExits(c)
         \/ CloseMerged \/ ReaderFinishes \/ ReaderStops
  PROVE  MergeInv'
<1> USE MergeAssumption
        DEF CloseInput, ForwarderExits, CloseMerged, ReaderFinishes, ReaderStops
<1>1. UNCHANGED <<upcoming, held, got>>
  OBVIOUS
<1>2. MergeTypeOK'
  BY DEF MergeInv, MergeTypeOK
<1>3. ForwarderInv'
  BY DEF MergeInv, MergeTypeOK, ForwarderInv
<1> QED
  BY <1>1, <1>2, <1>3, QuietInv

LEMMA MergeStepInv == MergeInv /\ [MergeNext]_mergeVars => MergeInv'
<1> SUFFICES ASSUME MergeInv, [MergeNext]_mergeVars
             PROVE  MergeInv'
  OBVIOUS
<1>1. CASE UNCHANGED mergeVars
  BY <1>1 DEF MergeInv, MergeTypeOK, ForwarderInv, ReceivedInv, OrderInv, From, Sent, mergeVars
<1>2. CASE MergeNext
  BY <1>1, <1>2, ReceiveInputInv, ForwardInv, OtherMergeInv
     DEF MergeNext, InputStep, MergeEnded
<1> QED
  BY <1>1, <1>2

(* When the reader is finished it has each value of each input at one      *)
(* place of got, so got is as long as there are values.                    *)
LEMMA AllReceived ==
  ASSUME MergeInv, reader = "finished"
  PROVE  Len(got) = K * Cardinality(Inputs)
<1> DEFINE All == Inputs \X (1..K)
<1>1. /\ got \in [1..Len(got) -> All] /\ Len(got) \in Nat /\ DOMAIN got = 1..Len(got)
      /\ \A i \in 1..Len(got) : got[i] = <<got[i][1], got[i][2]>> /\ got[i][2] \in 1..K
  BY DEF MergeInv, MergeTypeOK
<1>2. ASSUME NEW c \in Inputs
      PROVE  Sent(c) = K
  <2>1. held[c] = 0 /\ upcoming[c] = K + 1
    BY DEF MergeInv, ForwarderInv
  <2> QED
    BY <2>1, MergeAssumption DEF Sent
<1>3. ASSUME NEW x \in All
      PROVE  \E i \in 1..Len(got) : got[i] = x
  <2>1. PICK c \in Inputs, v \in 1..K : x = <<c, v>>
    OBVIOUS
  <2>3. PICK i \in From(c) : got[i][2] = v
    BY <1>2 DEF MergeInv, ReceivedInv
  <2> QED
    BY <1>1, <2>1, <2>3 DEF From
<1>4. ASSUME NEW i \in 1..Len(got), NEW j \in 1..Len(got), got[i] = got[j]
      PROVE  i = j
  <2>1. got[i][1] = got[j][1] /\ ~(got[i][2] < got[j][2]) /\ ~(got[j][2] < got[i][2])
    BY <1>1, <1>4
  <2>2. ~(i < j) /\ ~(j < i)
    BY <1>1, <2>1 DEF MergeInv, OrderInv
  <2> QED
    BY <1>1, <2>2
<1>5. got \in Bijection(1..Len(got), All)
  BY <1>1, <1>3, <1>4 DEF Bijection, Injection, Surjection, IsInjective
<1>6. ExistsBijection(1..Len(got), All)
  BY <1>5 DEF ExistsBijection
<1>7. IsFiniteSet(1..Len(got)) /\ Cardinality(1..Len(got)) = Len(got)
  BY <1>1, FS_Interval
<1>8. Cardinality(All) = Len(got)
  BY <1>6, <1>7, FS_Bijection
<1>9. IsFiniteSet(1..K) /\ Cardinality(1..K) = K
  BY MergeAssumption, FS_Interval
<1>10. Cardinality(All) = Cardinality(Inputs) * K
  BY <1>9, MergeAssumption, FS_Product
<1>11. Cardinality(Inputs) \in Nat
  BY MergeAssumption, FS_CardinalityType
<1> QED
  BY <1>8, <1>10, <1>11, MergeAssumption

(* Where each value is holds in every reachable state. *)
THEOREM MergeInvariant == MergeSpec => []MergeInv
BY MergeInitInv, MergeStepInv, PTL DEF MergeSpec

(* Merge loses, repeats and reorders nothing and closes its output last,   *)
(* for any number of inputs and of values (pipeline.go, lines 83-93).      *)
THEOREM MergeFaithfulHolds == MergeSpec => []MergeFaithful
<1>1. MergeInv => MergeFaithful
  <2> SUFFICES ASSUME MergeInv
               PROVE  MergeFaithful
    OBVIOUS
  <2>1. ASSUME NEW c \in Inputs
        PROVE  {got[i][2] : i \in From(c)} = 1..Sent(c)
    BY DEF MergeInv, ReceivedInv
  <2>2. mergedClosed => \A c \in Inputs : held[c] = 0 /\ c \in closed
    BY DEF MergeInv, ForwarderInv
  <2> QED
    BY <2>1, <2>2, AllReceived DEF MergeInv, OrderInv, MergeFaithful
<1> QED
  BY <1>1, MergeInvariant, PTL
=============================================================================
