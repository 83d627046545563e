--------------------------- MODULE CapstoneProofs ---------------------------
(***************************************************************************)
(* The capstone for any number of requests, processes, deliveries and      *)
(* crashes.  It implements Consumer, but not step by step from every       *)
(* state: m14's handle has no guard on NumDelivered, and takes m09's path  *)
(* only because no message carries more than MaxDeliver.  So the           *)
(* simulation and Consumer's inductive invariant are carried through the   *)
(* induction together (StepImplements, ConsumerInvStep): the invariant     *)
(* makes this step one of Consumer's, which in turn keeps the invariant.   *)
(* From the types this gives, an invariant of the capstone's own links     *)
(* each event to the request that made it.                                 *)
(***************************************************************************)
EXTENDS Capstone, TLAPS

(* Consumer's theorems, about the consumer inside the capstone. *)
CP == INSTANCE ConsumerProofs

Reqs == {"none", "stored", "published", "created", "rejected", "aborted"}

ApiTypeOK == /\ req \in [Events -> Reqs] /\ home \in [Events -> Procs]
             /\ byID \in [Procs -> SUBSET Events] /\ pubFailed \subseteq Events

(* Whatever is prefetched, handled or sent has been stored. *)
DeliveredInv ==
  /\ \A p \in Procs : /\ pc[p] # "idle" => cur[p].event \in stored
                      /\ \A i \in 1..Len(inbox[p]) : inbox[p][i].event \in stored
  /\ \A e \in Events : sent[e] > 0 => e \in stored

(* What the progress of a request says of its event and of its customer. *)
RequestInv ==
  \A e \in Events :
    /\ e \in stored \cup pubFailed => req[e] \in {"published", "created", "aborted"}
    /\ req[e] \in {"published", "created"} => e \in stored \cup pubFailed
    /\ req[e] \notin {"none", "rejected"} => e \notin Invalid
    /\ req[e] = "aborted" => crashes > 0
    /\ req[e] \in {"stored", "published", "created"} /\ crashes = 0 => e \in byID[home[e]]

IInv == ApiTypeOK /\ DeliveredInv /\ RequestInv

-----------------------------------------------------------------------------
(* The two instances speak of the same specification. *)
LEMMA SameInit == C!Init <=> CP!Init
BY DEF C!Init, CP!Init, C!BrokerInit, CP!BrokerInit, C!NoMsg, CP!NoMsg

LEMMA SameNext == C!Next <=> CP!Next
BY DEF C!Next, CP!Next, C!Publish, CP!Publish, C!ProcStep, CP!ProcStep,
   C!Crash, CP!Crash, C!BrokerStep, CP!BrokerStep, C!Quiet, CP!Quiet,
   C!vars, CP!vars, C!broker, CP!broker, C!Store, CP!Store,
   C!BeginHandle, CP!BeginHandle, C!SendOK, CP!SendOK, C!SendFails, CP!SendFails,
   C!Mark, CP!Mark, C!DeadLetter, CP!DeadLetter, C!Settle, CP!Settle,
   C!Receive, CP!Receive, C!Settled, CP!Settled, C!GoTo, CP!GoTo,
   C!AfterChecks, CP!AfterChecks, C!NoMsg, CP!NoMsg,
   C!AckWaitExpires, CP!AckWaitExpires, C!Deliver, CP!Deliver,
   C!Over, CP!Over, C!Held, CP!Held, C!GivenUp, CP!GivenUp

LEMMA SameSpec == C!Spec <=> CP!Spec
<1>1. [C!Next]_(C!vars) <=> [CP!Next]_(CP!vars)
  BY SameNext DEF C!vars, CP!vars, C!broker, CP!broker
<1> QED
  BY SameInit, <1>1, PTL DEF C!Spec, CP!Spec

LEMMA SameTypes == C!TypeOK <=> CP!TypeOK
BY DEF C!TypeOK, CP!TypeOK, C!BrokerTypeOK, CP!BrokerTypeOK, C!Msgs, CP!Msgs,
   C!PCs, CP!PCs, C!NoMsg, CP!NoMsg

-----------------------------------------------------------------------------
LEMMA InitImplements == Init => C!Init
BY DEF Init, C!Init, B!BrokerInit, C!BrokerInit, NoMsg, C!NoMsg

(* m14's first step of handle, which does not look at NumDelivered, is     *)
(* m09's, which does: what is prefetched carries at most MaxDeliver.       *)
LEMMA ChecksImplement ==
  ASSUME C!TypeOK, NEW p \in Procs, HandleChecks(p)
  PROVE  C!BeginHandle(p)
<1>1. inbox[p] \in Seq(C!Msgs) /\ inbox[p] # <<>>
  BY DEF C!TypeOK, C!BrokerTypeOK, HandleChecks
<1>2. Head(inbox[p]) \in C!Msgs
  BY <1>1
<1>3. ~(Head(inbox[p]).num > MaxDeliver)
  BY <1>2, CapstoneAssumption DEF C!Msgs
<1> QED
  BY <1>3 DEF HandleChecks, C!BeginHandle, C!AfterChecks, C!GoTo

LEMMA SendImplements ==
  ASSUME NEW p \in Procs, NEW ok \in BOOLEAN, HandleSend(p, ok)
  PROVE  C!SendOK(p) \/ C!SendFails(p)
BY DEF HandleSend, C!SendOK, C!SendFails, C!GoTo, broker, C!broker

(* The rest of handle, where the two agree on the step itself. *)
LEMMA HandleImplements ==
  ASSUME NEW p \in Procs,
         \/ HandleMark(p)
         \/ \E ok \in BOOLEAN : HandleDeadLetter(p, ok) \/ HandleSettle(p, ok)
  PROVE  C!ProcStep(p)
<1>1. CASE HandleMark(p)
  BY <1>1 DEF HandleMark, C!Mark, C!GoTo, broker, C!broker, C!ProcStep
<1>2. ASSUME NEW ok \in BOOLEAN, HandleDeadLetter(p, ok)
      PROVE  C!DeadLetter(p, ok)
  BY <1>2 DEF HandleDeadLetter, C!DeadLetter, C!GoTo, broker, C!broker
<1>3. ASSUME NEW ok \in BOOLEAN, HandleSettle(p, ok)
      PROVE  C!Settle(p, ok)
  BY <1>3 DEF HandleSettle, C!Settle, C!GoTo, B!Receive, C!Receive, B!Settled, C!Settled,
     NoMsg, C!NoMsg
<1> QED
  BY <1>1, <1>2, <1>3 DEF C!ProcStep

(* Every step of the capstone is a step of the consumer or none: storing,  *)
(* rejecting and answering touch the REST side only, a publish stores the  *)
(* event or nothing, and a crash of the process is a crash of its consumer.*)
LEMMA StepImplements == C!TypeOK /\ [Next]_vars => [C!Next]_(C!vars)
<1> SUFFICES ASSUME C!TypeOK, [Next]_vars
             PROVE  C!Next \/ UNCHANGED C!vars
  OBVIOUS
<1>1. UNCHANGED consumer => UNCHANGED C!vars
  BY DEF consumer, broker, handleVars, C!vars, C!broker
<1>2. CASE \E e \in Events : RequestStep(e)
  <2>1. PICK e \in Events : RequestStep(e)
    BY <1>2
  <2>2. CASE Reject(e) \/ StoreCustomer(e) \/ Respond(e)
    BY <2>2, <1>1 DEF Reject, StoreCustomer, Respond
  <2>3. ASSUME NEW persisted \in BOOLEAN, NEW ok \in BOOLEAN,
               PublishCreated(e, persisted, ok)
        PROVE  C!Publish(e) \/ UNCHANGED consumer
    BY <2>3 DEF PublishCreated, B!Store, C!Publish, C!Store, consumer, handleVars
  <2> QED
    BY <2>1, <2>2, <2>3, <1>1 DEF RequestStep, C!Next
<1>3. CASE \E p \in Procs : ConsumerStep(p)
  BY <1>3, ChecksImplement, SendImplements, HandleImplements DEF ConsumerStep, C!Next, C!ProcStep
<1>4. ASSUME NEW p \in Procs, Crash(p)
      PROVE  C!Crash(p)
  BY <1>4 DEF Crash, C!Crash, C!GoTo, NoMsg, C!NoMsg
<1>5. CASE Broker
  BY <1>5 DEF Broker, handleVars, B!AckWaitExpires, C!AckWaitExpires, B!Deliver, C!Deliver,
     C!BrokerStep, C!Next
<1>6. CASE Quiet \/ UNCHANGED vars
  BY <1>6, <1>1 DEF Quiet, vars
<1> QED
  BY <1>2, <1>3, <1>4, <1>5, <1>6 DEF Next, C!Next

(* Consumer's inductive invariant holds in the capstone: each step that    *)
(* starts in it is a step of Consumer, and so ends in it.                  *)
LEMMA ConsumerInvInit == C!Init => CP!IInv
BY SameInit, CP!InitInv, CapstoneAssumption DEF IsFiniteSet, CP!IsFiniteSet

LEMMA ConsumerInvStep == CP!IInv /\ [Next]_vars => CP!IInv'
<1>1. CP!IInv => C!TypeOK
  BY SameTypes DEF CP!IInv
<1>2. [C!Next]_(C!vars) => [CP!Next]_(CP!vars)
  BY SameNext DEF C!vars, CP!vars, C!broker, CP!broker
<1>3. CP!IInv /\ [CP!Next]_(CP!vars) => CP!IInv'
  BY CP!StepInv, CapstoneAssumption DEF IsFiniteSet, CP!IsFiniteSet
<1> QED
  BY <1>1, <1>2, <1>3, StepImplements

LEMMA ConsumerInv == Spec => []CP!IInv
BY InitImplements, ConsumerInvInit, ConsumerInvStep, PTL DEF Spec

LEMMA ConsumerTypes == Spec => []C!TypeOK
<1>1. CP!IInv => C!TypeOK
  BY SameTypes DEF CP!IInv
<1> QED
  BY <1>1, ConsumerInv, PTL

(* m14's consumer without the guard on NumDelivered implements m09's with  *)
(* it, the REST side and its crashes included (events.go, lines 106-128,   *)
(* against stream.go of m09, lines 105-138).                               *)
THEOREM Refinement == Spec => ImplementsConsumer
BY InitImplements, StepImplements, ConsumerTypes, PTL DEF Spec, ImplementsConsumer, C!Spec

-----------------------------------------------------------------------------
(* DeliveredInv under the steps of the consumer and of the broker, none of *)
(* which changes what is stored.                                           *)
LEMMA DeliverInv ==
  ASSUME C!TypeOK, DeliveredInv, NEW p \in Procs, NEW e \in Events, B!Deliver(p, e),
         UNCHANGED <<pc, cur, seen, sent, dlq, dlqFailed, crashes>>
  PROVE  DeliveredInv'
<1> DEFINE m == [event |-> e, num |-> numDelivered[e] + 1]
<1>1. inbox' = [inbox EXCEPT ![p] = Append(inbox[p], m)] /\ m.event \in stored
  BY DEF B!Deliver
<1> HIDE DEF m
<1>2. ASSUME NEW q \in Procs, NEW i \in 1..Len(inbox'[q])
      PROVE  inbox'[q][i].event \in stored
  <2>0. inbox \in [Procs -> Seq(C!Msgs)]
    BY DEF C!TypeOK, C!BrokerTypeOK
  <2>1. CASE q = p /\ i = Len(inbox[p]) + 1
    BY <1>1, <2>0, <2>1
  <2>2. CASE ~(q = p /\ i = Len(inbox[p]) + 1)
    <3>1. i \in 1..Len(inbox[q]) /\ inbox'[q][i] = inbox[q][i]
      BY <1>1, <2>0, <2>2
    <3> QED
      BY <3>1 DEF DeliveredInv
  <2> QED
    BY <2>1, <2>2
<1>3. stored' = stored
  BY DEF B!Deliver
<1> QED
  BY <1>2, <1>3 DEF DeliveredInv

LEMMA ChecksInv ==
  ASSUME C!TypeOK, DeliveredInv, NEW p \in Procs, HandleChecks(p)
  PROVE  DeliveredInv'
<1>1. inbox \in [Procs -> Seq(C!Msgs)] /\ inbox[p] # <<>>
  BY DEF C!TypeOK, C!BrokerTypeOK, HandleChecks
<1>2. Head(inbox[p]).event \in stored
  <2>1. 1 \in 1..Len(inbox[p]) /\ Head(inbox[p]) = inbox[p][1]
    BY <1>1
  <2> QED
    BY <2>1 DEF DeliveredInv
<1>3. ASSUME NEW q \in Procs, NEW i \in 1..Len(inbox'[q])
      PROVE  inbox'[q][i].event \in stored
  <2>1. CASE q = p
    <3>1. i + 1 \in 1..Len(inbox[p]) /\ inbox'[q][i] = inbox[p][i + 1]
      BY <1>1, <2>1 DEF HandleChecks
    <3> QED
      BY <3>1 DEF DeliveredInv
  <2>2. CASE q # p
    BY <1>1, <2>2 DEF HandleChecks, DeliveredInv
  <2> QED
    BY <2>1, <2>2
<1>4. stored' = stored /\ sent' = sent
  BY DEF HandleChecks
<1>5. ASSUME NEW q \in Procs, pc'[q] # "idle"
      PROVE  cur'[q].event \in stored
  BY <1>2, <1>5 DEF HandleChecks, C!TypeOK, DeliveredInv
<1> QED
  BY <1>3, <1>4, <1>5 DEF DeliveredInv

LEMMA HandleInv ==
  ASSUME C!TypeOK, DeliveredInv, NEW p \in Procs, NEW ok \in BOOLEAN,
         HandleMark(p) \/ HandleSend(p, ok) \/ HandleDeadLetter(p, ok) \/ HandleSettle(p, ok)
  PROVE  DeliveredInv'
<1> USE DEF DeliveredInv, C!TypeOK, broker
<1>1. CASE HandleSend(p, ok)
  BY <1>1 DEF HandleSend
<1>2. CASE HandleMark(p)
  BY <1>2 DEF HandleMark
<1>3. CASE HandleDeadLetter(p, ok)
  BY <1>3 DEF HandleDeadLetter
<1>4. CASE HandleSettle(p, ok)
  BY <1>4 DEF HandleSettle
<1> QED
  BY <1>1, <1>2, <1>3, <1>4

LEMMA CrashDelivered ==
  ASSUME C!TypeOK, DeliveredInv, NEW p \in Procs, Crash(p)
  PROVE  DeliveredInv'
<1>1. ASSUME NEW q \in Procs
      PROVE  \/ inbox'[q] = inbox[q] /\ pc'[q] = pc[q] /\ cur'[q] = cur[q]
             \/ inbox'[q] = <<>> /\ pc'[q] = "idle"
  BY DEF Crash, C!TypeOK, C!BrokerTypeOK
<1>2. stored' = stored /\ sent' = sent
  BY DEF Crash
<1>3. Len(<<>>) = 0
  OBVIOUS
<1>4. ASSUME NEW q \in Procs
      PROVE  /\ pc'[q] # "idle" => cur'[q].event \in stored
             /\ \A i \in 1..Len(inbox'[q]) : inbox'[q][i].event \in stored
  <2>1. CASE inbox'[q] = inbox[q] /\ pc'[q] = pc[q] /\ cur'[q] = cur[q]
    BY <2>1 DEF DeliveredInv
  <2>2. CASE inbox'[q] = <<>> /\ pc'[q] = "idle"
    BY <2>2, <1>3
  <2> QED
    BY <1>1, <2>1, <2>2
<1> QED
  BY <1>2, <1>4 DEF DeliveredInv

-----------------------------------------------------------------------------
LEMMA InitInv == Init => IInv
<1> SUFFICES ASSUME Init
             PROVE  IInv
  OBVIOUS
<1>1. ApiTypeOK
  BY DEF Init, HandlerInit, ApiTypeOK, Reqs
<1>2. DeliveredInv
  <2>1. Len(<<>>) = 0
    OBVIOUS
  <2> QED
    BY <2>1 DEF Init, DeliveredInv, B!BrokerInit
<1>3. RequestInv
  BY DEF Init, RequestInv, B!BrokerInit
<1> QED
  BY <1>1, <1>2, <1>3 DEF IInv

(* A step of a request. *)
LEMMA RequestStepInv ==
  ASSUME C!TypeOK, IInv, NEW e \in Events, RequestStep(e)
  PROVE  IInv'
<1> USE DEF IInv, ApiTypeOK, Reqs, broker, handleVars
<1>1. CASE Reject(e)
  BY <1>1 DEF Reject, consumer, DeliveredInv, RequestInv
<1>2. CASE StoreCustomer(e)
  BY <1>2 DEF StoreCustomer, consumer, DeliveredInv, RequestInv
<1>3. CASE Respond(e)
  BY <1>3 DEF Respond, consumer, DeliveredInv, RequestInv
<1>4. ASSUME NEW persisted \in BOOLEAN, NEW ok \in BOOLEAN, PublishCreated(e, persisted, ok)
      PROVE  IInv'
  <2>1. CASE persisted
    <3>1. /\ stored' = stored \cup {e} /\ inbox' = inbox /\ pc' = pc /\ cur' = cur
          /\ sent' = sent /\ crashes' = crashes
      BY <1>4, <2>1 DEF PublishCreated, B!Store
    <3>2. DeliveredInv'
      BY <3>1 DEF DeliveredInv
    <3>3. ApiTypeOK'
      BY <1>4 DEF PublishCreated
    <3>4. RequestInv'
      BY <1>4, <3>1 DEF PublishCreated, RequestInv
    <3> QED
      BY <3>2, <3>3, <3>4
  <2>2. CASE ~persisted
    <3>1. UNCHANGED consumer /\ ~ok
      BY <1>4, <2>2 DEF PublishCreated, consumer
    <3>2. DeliveredInv'
      BY <3>1 DEF DeliveredInv, consumer
    <3>3. ApiTypeOK'
      BY <1>4 DEF PublishCreated
    <3>4. RequestInv'
      BY <1>4, <3>1 DEF PublishCreated, RequestInv, consumer
    <3> QED
      BY <3>2, <3>3, <3>4
  <2> QED
    BY <2>1, <2>2
<1> QED
  BY <1>1, <1>2, <1>3, <1>4 DEF RequestStep

(* The steps that leave the REST side alone. *)
LEMMA ApiStays ==
  ASSUME IInv, UNCHANGED <<apiVars, stored, crashes>>
  PROVE  ApiTypeOK' /\ RequestInv'
BY DEF IInv, ApiTypeOK, RequestInv, apiVars

LEMMA ConsumerStepInv ==
  ASSUME C!TypeOK, IInv, NEW p \in Procs, ConsumerStep(p)
  PROVE  IInv'
<1>1. DeliveredInv'
  BY ChecksInv, HandleInv DEF IInv, ConsumerStep
<1>2. UNCHANGED <<apiVars, stored, crashes>>
  BY DEF ConsumerStep, HandleChecks, HandleSend, HandleDeadLetter, HandleMark,
     HandleSettle, broker
<1> QED
  BY <1>1, <1>2, ApiStays DEF IInv

LEMMA BrokerInv ==
  ASSUME C!TypeOK, IInv, Broker
  PROVE  IInv'
<1>1. UNCHANGED <<apiVars, stored, crashes>>
  BY DEF Broker, handleVars, B!Deliver, B!AckWaitExpires
<1>2. ASSUME NEW e \in Events, B!AckWaitExpires(e),
             UNCHANGED <<pc, cur, seen, sent, dlq, dlqFailed, crashes>>
      PROVE  DeliveredInv'
  BY <1>2 DEF IInv, DeliveredInv, B!AckWaitExpires
<1>3. DeliveredInv'
  BY <1>2, DeliverInv DEF IInv, Broker, handleVars
<1> QED
  BY <1>1, <1>3, ApiStays DEF IInv

(* A crash aborts the requests in the process, and empties its byID. *)
LEMMA CrashInv ==
  ASSUME C!TypeOK, IInv, NEW p \in Procs, Crash(p)
  PROVE  IInv'
<1>1. DeliveredInv'
  BY CrashDelivered DEF IInv, Crash
<1>2. ApiTypeOK'
  BY DEF IInv, ApiTypeOK, Reqs, Crash
<1>3. crashes' > 0 /\ stored' = stored
  BY CapstoneAssumption DEF Crash, C!TypeOK
<1>4. RequestInv'
  BY <1>3 DEF IInv, ApiTypeOK, Reqs, Crash, RequestInv
<1> QED
  BY <1>1, <1>2, <1>4 DEF IInv

LEMMA StepInv == C!TypeOK /\ IInv /\ [Next]_vars => IInv'
<1> SUFFICES ASSUME C!TypeOK, IInv, [Next]_vars
             PROVE  IInv'
  OBVIOUS
<1>1. CASE Quiet \/ UNCHANGED vars
  BY <1>1 DEF Quiet, vars, consumer, broker, handleVars, apiVars, IInv, ApiTypeOK, DeliveredInv, RequestInv
<1> QED
  BY <1>1, RequestStepInv, ConsumerStepInv, BrokerInv, CrashInv DEF Next

(* The invariant holds in every reachable state. *)
THEOREM Invariant == Spec => []IInv
BY InitInv, StepInv, ConsumerTypes, PTL DEF Spec

(* Type correctness of the whole capstone: broker, consumers and REST side. *)
THEOREM TypeCorrect == Spec => [](C!TypeOK /\ ApiTypeOK)
<1>1. IInv => ApiTypeOK
  BY DEF IInv
<1> QED
  BY <1>1, Invariant, ConsumerTypes, PTL

(* Nobody is welcomed, and no event stored, for a request that was refused *)
(* or whose customer is not stored yet (handler.go, lines 50-73).          *)
THEOREM WelcomeIsForCustomerHolds == Spec => []WelcomeIsForCustomer
<1>1. IInv => WelcomeIsForCustomer
  BY DEF IInv, ApiTypeOK, Reqs, DeliveredInv, RequestInv, WelcomeIsForCustomer, Welcomed
<1> QED
  BY <1>1, Invariant, PTL

(* A 201 without an event goes back to an ignored publish error            *)
(* (handler.go, line 71).                                                  *)
THEOREM CreatedMeansPublishedHolds == Spec => []CreatedMeansPublished
<1>1. IInv => CreatedMeansPublished
  BY DEF IInv, RequestInv, CreatedMeansPublished
<1> QED
  BY <1>1, Invariant, PTL

(* The consumer's guarantees hold inside the capstone: an ack never hides  *)
(* an unsent welcome, a term none that was not offered to the DLQ, and     *)
(* the welcomes for one customer are bounded (events.go, lines 106-128).    *)
THEOREM ConsumerGuarantees ==
  Spec => [](C!AckedMeansSent /\ C!TermedMeansOffered /\ C!SendBudget)
<1>1. CP!Spec => []CP!AckedMeansSent
  BY CP!AckedMeansSentHolds, CapstoneAssumption DEF IsFiniteSet, CP!IsFiniteSet
<1>2. CP!Spec => []CP!TermedMeansOffered
  BY CP!TermedMeansOfferedHolds, CapstoneAssumption DEF IsFiniteSet, CP!IsFiniteSet
<1>3. CP!Spec => []CP!SendBudget
  BY CP!SendBudgetHolds, CapstoneAssumption DEF IsFiniteSet, CP!IsFiniteSet
<1>4. /\ C!AckedMeansSent <=> CP!AckedMeansSent
      /\ C!TermedMeansOffered <=> CP!TermedMeansOffered
  BY DEF C!AckedMeansSent, CP!AckedMeansSent, C!TermedMeansOffered, CP!TermedMeansOffered
<1>5. C!SendBudget <=> CP!SendBudget
  BY DEF C!SendBudget, CP!SendBudget, C!Cardinality, CP!Cardinality
<1> QED
  BY <1>1, <1>2, <1>3, <1>4, <1>5, Refinement, SameSpec, PTL DEF ImplementsConsumer
=============================================================================
