-------------------------- MODULE DispatcherProofs --------------------------
(***************************************************************************)
(* Safety of the dispatcher for every set of workers and notifications,    *)
(* every retry budget and every capacity of the dead-letter channel.       *)
(*                                                                         *)
(* OneFate and RetryBudget are not inductive: that a delivered             *)
(* notification is never sent again follows only from what each worker's   *)
(* program counter says of the notification in its hand.  IInv adds that   *)
(* (ControlInv, JobInv) and that a notification found in one place is in   *)
(* no other (PlaceInv, DeadInv).                                           *)
(***************************************************************************)
EXTENDS Dispatcher, FiniteSetTheorems, TLAPS

(* Before Run starts its workers every notification is still to be taken. *)
LEMMA InitInv == Init => IInv
<1> SUFFICES ASSUME Init PROVE IInv
  OBVIOUS
<1>1. TypeOK
  <2>1. 0 \in 0..MaxAttempts
    BY ConstantsAssumption
  <2>2. dead \in Seq(Notifications)
    BY DEF Init
  <2> QED
    BY <2>1, <2>2 DEF Init, TypeOK, PCs
<1>2. ControlInv /\ JobInv
  BY ConstantsAssumption DEF Init, ControlInv, JobInv
<1>3. PlaceInv
  BY ConstantsAssumption
     DEF Init, PlaceInv, InHand, InDead, Delivered, DeadLettered, Dropped
<1>4. DeadInv
  BY ConstantsAssumption DEF Init, DeadInv
<1> QED
  BY <1>1, <1>2, <1>3, <1>4 DEF IInv

(* Taking a notification from `in`: nobody else holds it. *)
LEMMA ReceiveInv ==
  ASSUME IInv, NEW w \in Workers, Receive(w)
  PROVE  IInv'
<1>1. PICK n \in todo : Receive(w)!(n)
  BY DEF Receive
<1>2. n \in Notifications /\ n # None
  BY ConstantsAssumption DEF IInv, TypeOK
<1>3. TypeOK'
  BY <1>1, <1>2, ConstantsAssumption DEF IInv, TypeOK, PCs, GoTo, LoopHead, metrics, world
<1>4. ControlInv' 
  BY <1>1, <1>2, ConstantsAssumption DEF IInv, TypeOK, ControlInv, PCs, GoTo, LoopHead, metrics, world
<1>5. JobInv'
  BY <1>1, <1>2, ConstantsAssumption DEF IInv, TypeOK, ControlInv, JobInv, PlaceInv, PCs, GoTo, LoopHead, metrics, world, InDead, DeadLettered
<1>6. PlaceInv'
  BY <1>1, <1>2, ConstantsAssumption DEF IInv, TypeOK, ControlInv, PlaceInv, PCs, GoTo, LoopHead, metrics, world, InHand, InDead, Delivered, DeadLettered, Dropped
<1>7. DeadInv'
  BY <1>1, <1>2, ConstantsAssumption DEF IInv, TypeOK, DeadInv, PCs, GoTo, LoopHead, metrics, world
<1> QED
  BY <1>3, <1>4, <1>5, <1>6, <1>7 DEF IInv

(* A Send that returns, nil or not, is one more of the attempts the loop   *)
(* has allowed; a nil return is the first delivery of the notification.    *)
LEMMA SendReturnsInv ==
  ASSUME IInv, NEW w \in Workers, NEW ok \in BOOLEAN, SendReturns(w, ok)
  PROVE  IInv'
<1> DEFINE n == job[w]
<1>1. /\ n \in Notifications /\ n # None
      /\ attempt[w] \in 0..MaxAttempts /\ attempt[w] < MaxAttempts
      /\ sends[n] = attempt[w] /\ deliveries[n] = 0
  BY DEF IInv, TypeOK, ControlInv, JobInv, SendReturns
<1> HIDE DEF n
<1>2. TypeOK'
  <2>1. sends' = [sends EXCEPT ![n] = attempt[w] + 1]
    BY <1>1 DEF SendReturns, n, IInv, TypeOK
  <2>2. deliveries' = [deliveries EXCEPT ![n] = IF ok THEN 1 ELSE 0]
    BY <1>1 DEF SendReturns, n, IInv, TypeOK
  <2>3. attempt[w] + 1 \in 0..MaxAttempts /\ 0 \in 0..MaxAttempts /\ 1 \in 0..MaxAttempts
    BY <1>1, ConstantsAssumption
  <2>4. sends' \in [Notifications -> 0..MaxAttempts]
    BY <2>1, <2>3 DEF IInv, TypeOK
  <2>5. deliveries' \in [Notifications -> 0..MaxAttempts]
    BY <2>2, <2>3 DEF IInv, TypeOK
  <2> QED
    BY <2>4, <2>5 DEF IInv, TypeOK, PCs, SendReturns, GoTo, chans, metrics
<1>3. ControlInv'
  BY DEF IInv, TypeOK, ControlInv, PCs, SendReturns, GoTo
<1>4. JobInv'
  BY <1>1 DEF IInv, TypeOK, ControlInv, JobInv, SendReturns, GoTo, chans, InDead, DeadLettered, n
<1>5. PlaceInv'
  <2> SUFFICES ASSUME NEW m \in Notifications PROVE PlaceInv!(m)'
    BY DEF PlaceInv
  <2>1. CASE m = n
    BY <2>1, <1>1 DEF IInv, TypeOK, JobInv, SendReturns, chans, InHand, InDead, Delivered, DeadLettered, Dropped, n
  <2>2. CASE m # n
    BY <2>2, <1>1 DEF IInv, TypeOK, PlaceInv, SendReturns, chans, InHand, InDead, Delivered, DeadLettered, Dropped, n
  <2> QED
    BY <2>1, <2>2
<1>6. DeadInv'
  BY DEF IInv, TypeOK, DeadInv, SendReturns, GoTo, chans
<1> QED
  BY <1>2, <1>3, <1>4, <1>5, <1>6 DEF IInv
(* process returns to its worker: the notification in hand is let go of    *)
(* delivered (CountSent), or dropped after a cancellation.                 *)
LEMMA LetGoInv ==
  ASSUME IInv, NEW w \in Workers,
         CountSent(w) \/ BackoffCancelled(w) \/ EnqueueCancelled(w)
  PROVE  IInv'
<1>1. /\ Finish(w)
      /\ UNCHANGED <<chans, failedCount, deadCount, dead, world>>
      /\ sentCount' = sentCount \/ sentCount' = sentCount + 1
      /\ pc[w] = "countSent" \/ cancelled
      /\ pc[w] \notin {"select", "returned"}
  BY DEF CountSent, BackoffCancelled, EnqueueCancelled, metrics
<1>2. TypeOK'
  <2>1. 0 \in 0..MaxAttempts
    BY ConstantsAssumption
  <2> QED
    BY <1>1, <2>1 DEF IInv, TypeOK, PCs, Finish, GoTo, chans, world
<1>3. ControlInv'
  BY <1>1, ConstantsAssumption DEF IInv, TypeOK, ControlInv, Finish, GoTo
<1>4. JobInv'
  BY <1>1 DEF IInv, TypeOK, JobInv, Finish, GoTo, chans, world,
              InDead, DeadLettered
<1>5. PlaceInv'
  <2> SUFFICES ASSUME NEW m \in Notifications PROVE PlaceInv!(m)'
    BY DEF PlaceInv
  <2>1. Dropped(m)' => cancelled'
    <3>1. CASE job[w] = m
      <4>1. deliveries[m] = 1 \/ cancelled
        BY <3>1, <1>1, ConstantsAssumption DEF IInv, JobInv
      <4> QED
        BY <4>1, <1>1 DEF chans, world, Dropped, Delivered
    <3>2. CASE job[w] # m
      BY <3>2, <1>1, ConstantsAssumption
         DEF IInv, TypeOK, PlaceInv, Finish, GoTo, chans, world,
             InHand, InDead, Delivered, DeadLettered, Dropped
    <3> QED
      BY <3>1, <3>2
  <2> QED
    BY <2>1, <1>1 DEF IInv, PlaceInv, chans, world, InDead, DeadLettered
<1>6. DeadInv'
  BY <1>1 DEF IInv, TypeOK, DeadInv, Finish, GoTo, chans
<1> QED
  BY <1>2, <1>3, <1>4, <1>5, <1>6 DEF IInv

(* Putting the notification in hand on d.dead: it was not there before. *)
LEMMA EnqueueInv ==
  ASSUME IInv, NEW w \in Workers, Enqueue(w)
  PROVE  IInv'
<1> DEFINE n == job[w]
<1>1. /\ n \in Notifications /\ n # None /\ n \notin todo /\ ~DeadLettered(n)
      /\ sends[n] = MaxAttempts /\ deliveries[n] = 0
  BY DEF IInv, TypeOK, ControlInv, JobInv, Enqueue
<1>2. /\ dead' = Append(dead, n) /\ dead \in Seq(Notifications)
      /\ Len(dead') = Len(dead) + 1
      /\ \A i \in 1..Len(dead) : dead'[i] = dead[i]
      /\ dead'[Len(dead) + 1] = n
  BY <1>1 DEF IInv, TypeOK, Enqueue
<1>3. \A m \in Notifications : InDead(m)' <=> InDead(m) \/ m = n
  BY <1>2 DEF InDead
<1> HIDE DEF n
<1>4. TypeOK'
  <2>1. 0 \in 0..MaxAttempts
    BY ConstantsAssumption
  <2> QED
    BY <1>1, <1>2, <2>1
       DEF IInv, TypeOK, PCs, Enqueue, Finish, GoTo, chans, metrics, world
<1>5. ControlInv'
  BY ConstantsAssumption DEF IInv, TypeOK, ControlInv, Enqueue, Finish, GoTo
<1>6. JobInv'
  BY <1>1, <1>3, ConstantsAssumption
     DEF IInv, TypeOK, JobInv, Enqueue, Finish, GoTo, chans, world,
         DeadLettered, n
<1>7. PlaceInv'
  <2> SUFFICES ASSUME NEW m \in Notifications PROVE PlaceInv!(m)'
    BY DEF PlaceInv
  <2>1. CASE m = n
    BY <2>1, <1>1, <1>3
       DEF IInv, TypeOK, Enqueue, chans, world, DeadLettered, Dropped
  <2>2. CASE m # n
    BY <2>2, <1>3, ConstantsAssumption
       DEF IInv, TypeOK, PlaceInv, Enqueue, Finish, GoTo, chans, world,
           InHand, Delivered, DeadLettered, Dropped, n
  <2> QED
    BY <2>1, <2>2
<1>8. DeadInv'
  <2>1. \A i, j \in 1..Len(dead') : dead'[i] = dead'[j] => i = j
    BY <1>1, <1>2 DEF IInv, DeadInv, InDead, DeadLettered
  <2>2. Len(dead') <= DeadCap
    BY <1>2, ConstantsAssumption DEF Enqueue
  <2> QED
    BY <2>1, <2>2 DEF IInv, TypeOK, DeadInv, Enqueue, Finish, GoTo, chans
<1> QED
  BY <1>4, <1>5, <1>6, <1>7, <1>8 DEF IInv

(* Reading a letter moves it from d.dead to the reader. *)
LEMMA DrainDeadInv ==
  ASSUME IInv, DrainDead
  PROVE  IInv'
<1>0. PICK n \in Notifications : n = Head(dead)
  BY DEF IInv, TypeOK, DrainDead
<1>1. /\ dead \in Seq(Notifications) /\ Len(dead) > 0 /\ n = dead[1]
      /\ dead' = Tail(dead) /\ Len(dead') = Len(dead) - 1
      /\ \A i \in 1..Len(dead') : dead'[i] = dead[i + 1]
      /\ drained' = drained \cup {n}
  BY <1>0 DEF IInv, TypeOK, DrainDead
<1>2. InDead(n) /\ ~InDead(n)'
  <2>1. InDead(n)
    BY <1>1 DEF InDead
  <2>2. ASSUME NEW i \in 1..Len(dead'), dead'[i] = n PROVE FALSE
    <3>1. i + 1 \in 1..Len(dead) /\ 1 \in 1..Len(dead) /\ dead[i + 1] = dead[1]
      BY <2>2, <1>1
    <3>2. i + 1 = 1
      BY <3>1 DEF IInv, DeadInv
    <3> QED
      BY <3>2, <1>1
  <2> QED
    BY <2>1, <2>2 DEF InDead
<1>3. \A m \in Notifications : InDead(m) <=> InDead(m)' \/ m = n
  <2> SUFFICES ASSUME NEW m \in Notifications PROVE InDead(m) <=> InDead(m)' \/ m = n
    OBVIOUS
  <2>1. ASSUME InDead(m), m # n PROVE InDead(m)'
    <3>1. PICK i \in 1..Len(dead) : dead[i] = m
      BY <2>1 DEF InDead
    <3>2. i - 1 \in 1..Len(dead') /\ dead'[i - 1] = m
      BY <3>1, <2>1, <1>1
    <3> QED
      BY <3>2 DEF InDead
  <2>2. ASSUME InDead(m)' PROVE InDead(m)
    BY <2>2, <1>1 DEF InDead
  <2> QED
    BY <2>1, <2>2, <1>2
<1>4. \A m \in Notifications : DeadLettered(m)' <=> DeadLettered(m)
  BY <1>1, <1>2, <1>3 DEF DeadLettered
<1>5. TypeOK'
  BY <1>1, <1>2 DEF IInv, TypeOK, DrainDead, metrics, world
<1>6. ControlInv'
  BY DEF IInv, ControlInv, DrainDead
<1>7. JobInv'
  BY <1>4 DEF IInv, TypeOK, JobInv, DrainDead, world
<1>8. PlaceInv'
  <2> SUFFICES ASSUME NEW m \in Notifications PROVE PlaceInv!(m)'
    BY DEF PlaceInv
  <2>1. ~(InDead(m)' /\ m \in drained')
    BY <1>1, <1>2, <1>3 DEF IInv, PlaceInv
  <2>2. Dropped(m)' => cancelled'
    BY <1>4 DEF IInv, PlaceInv, DrainDead, world, InHand, Delivered, Dropped
  <2> QED
    BY <2>1, <2>2, <1>4 DEF IInv, PlaceInv, DrainDead, world
<1>9. DeadInv'
  <2>1. ASSUME NEW i \in 1..Len(dead'), NEW j \in 1..Len(dead'),
               dead'[i] = dead'[j]
        PROVE  i = j
    <3>1. i + 1 \in 1..Len(dead) /\ j + 1 \in 1..Len(dead)
          /\ dead[i + 1] = dead[j + 1]
      BY <2>1, <1>1
    <3>2. i + 1 = j + 1
      BY <3>1 DEF IInv, DeadInv
    <3> QED
      BY <3>2, <1>1
  <2>2. Len(dead') <= DeadCap
    BY <1>1, ConstantsAssumption DEF IInv, DeadInv
  <2> QED
    BY <2>1, <2>2 DEF IInv, DeadInv, DrainDead
<1> QED
  BY <1>5, <1>6, <1>7, <1>8, <1>9 DEF IInv

(* The steps that leave every notification where it is. *)
LEMMA StayInv ==
  ASSUME IInv,
         UNCHANGED <<todo, drained, job, dead, world>>,
         cancelled => cancelled',
         TypeOK', ControlInv', DeadInv',
         \A w \in Workers : job[w] # None =>
           /\ pc'[w] = "countSent" <=> pc[w] = "countSent"
           /\ sends[job[w]] = IF pc'[w] \in {"countSent", "countFailed"}
                               THEN attempt'[w] + 1 ELSE attempt'[w]
  PROVE  IInv'
<1>1. JobInv'
  BY DEF IInv, JobInv, world, InDead, DeadLettered
<1>2. PlaceInv'
  BY DEF IInv, TypeOK, PlaceInv, world, InHand, InDead, Delivered, DeadLettered, Dropped
<1> QED
  BY <1>1, <1>2 DEF IInv

(* Every step of the dispatcher and of its callers keeps the invariant. *)
LEMMA StepInv == IInv /\ [Next]_vars => IInv'
<1> SUFFICES ASSUME IInv, [Next]_vars PROVE IInv'
  OBVIOUS
<1>1. ASSUME NEW w \in Workers, StopOnCancel(w) \/ StopOnClose(w) PROVE IInv'
  <2>1. /\ pc[w] = "select" /\ GoTo(w, "returned")
        /\ UNCHANGED <<chans, job, attempt, metrics, dead, world>>
    BY <1>1 DEF StopOnCancel, StopOnClose
  <2>2. TypeOK' /\ ControlInv' /\ DeadInv'
    BY <2>1 DEF IInv, TypeOK, PCs, ControlInv, DeadInv, GoTo, chans, metrics, world
  <2> QED
    BY <2>1, <2>2, StayInv DEF IInv, TypeOK, ControlInv, JobInv, GoTo, chans
<1>2. ASSUME NEW w \in Workers, BackoffElapsed(w) \/ CountDead(w) PROVE IInv'
  <2>1. TypeOK'
    <3>1. /\ GoTo(w, "send") \/ GoTo(w, "enqueue")
          /\ deadCount' \in Nat
          /\ UNCHANGED <<chans, job, attempt, sentCount, failedCount, dead, world>>
      BY <1>2 DEF IInv, TypeOK, BackoffElapsed, CountDead, metrics
    <3>2. pc' \in [Workers -> PCs]
      BY <3>1 DEF IInv, TypeOK, PCs, GoTo
    <3> QED
      BY <3>1, <3>2 DEF IInv, TypeOK, chans, world
  <2>2. ControlInv'
    BY <1>2 DEF IInv, TypeOK, ControlInv, BackoffElapsed, CountDead, GoTo, chans
  <2>3. DeadInv'
    BY <1>2 DEF IInv, TypeOK, DeadInv, BackoffElapsed, CountDead, GoTo, chans
  <2> QED
    BY <1>2, <2>1, <2>2, <2>3, StayInv
       DEF IInv, TypeOK, JobInv, BackoffElapsed, CountDead, GoTo, chans
<1>3. ASSUME NEW w \in Workers, CountFailed(w) PROVE IInv'
  <2>1. /\ attempt[w] \in 0..MaxAttempts /\ attempt[w] < MaxAttempts
        /\ attempt[w] + 1 \in 0..MaxAttempts
    BY <1>3, ConstantsAssumption DEF IInv, TypeOK, ControlInv, CountFailed
  <2>2. TypeOK'
    BY <1>3, <2>1 DEF IInv, TypeOK, PCs, CountFailed, GoTo, LoopHead, chans, world
  <2>3. ControlInv'
    BY <1>3, <2>1, ConstantsAssumption
       DEF IInv, TypeOK, ControlInv, CountFailed, GoTo, LoopHead
  <2>4. DeadInv'
    BY <1>3 DEF IInv, TypeOK, DeadInv, CountFailed, GoTo, chans
  <2> QED
    BY <1>3, <2>1, <2>2, <2>3, <2>4, StayInv
       DEF IInv, TypeOK, JobInv, CountFailed, GoTo, LoopHead, chans
<1>4. CASE RunReturns \/ CloseIn \/ Cancel
  <2>1. TypeOK'
    BY <1>4 DEF IInv, TypeOK, RunReturns, CloseIn, Cancel, metrics, world
  <2>2. ControlInv'
    BY <1>4 DEF IInv, ControlInv, RunReturns, CloseIn, Cancel
  <2>3. DeadInv'
    BY <1>4 DEF IInv, DeadInv, RunReturns, CloseIn, Cancel
  <2> QED
    BY <1>4, <2>1, <2>2, <2>3, StayInv DEF IInv, JobInv, RunReturns, CloseIn, Cancel
<1>5. CASE UNCHANGED vars
  <2>1. TypeOK' /\ ControlInv' /\ DeadInv'
    BY <1>5 DEF IInv, TypeOK, ControlInv, DeadInv, vars, chans, metrics, world
  <2> QED
    BY <1>5, <2>1, StayInv DEF IInv, JobInv, vars, chans
<1> QED
  BY <1>1, <1>2, <1>3, <1>4, <1>5, ReceiveInv, SendReturnsInv, LetGoInv,
     EnqueueInv, DrainDeadInv DEF Next, WorkerStep, SendResults, Terminated

(* The inductive invariant says what the run's invariants say. *)
LEMMA IInvSuffices == IInv => OneFate /\ RetryBudget /\ DeadChannelSafe
<1> SUFFICES ASSUME IInv PROVE OneFate /\ RetryBudget /\ DeadChannelSafe
  OBVIOUS
<1>1. OneFate
  <2>1. \A n \in Notifications : InHand(n) => n \notin todo /\ ~DeadLettered(n)
    BY ConstantsAssumption DEF IInv, JobInv, InHand
  <2>2. \A n \in Notifications : ~(Delivered(n) /\ DeadLettered(n))
    BY DEF IInv, PlaceInv, Delivered
  <2>3. \A v, w \in Workers : job[v] = job[w] /\ job[v] # None => v = w
    BY DEF IInv, JobInv
  <2> QED
    BY <2>1, <2>2, <2>3 DEF IInv, PlaceInv, DeadInv, OneFate
<1>2. RetryBudget
  BY ConstantsAssumption DEF IInv, TypeOK, PlaceInv, RetryBudget
<1>3. DeadChannelSafe
  BY DEF IInv, ControlInv, DeadInv, DeadChannelSafe
<1> QED
  BY <1>1, <1>2, <1>3

(* The invariant holds in every state the dispatcher reaches. *)
THEOREM Invariant == Spec => []IInv
BY InitInv, StepInv, PTL DEF Spec

(* Type correctness of the dispatcher's state: in particular process never *)
(* runs an attempt beyond maxAttempts (dispatcher.go, line 106).           *)
THEOREM TypeCorrect == Spec => []TypeOK
<1>1. IInv => TypeOK
  BY DEF IInv
<1> QED
  BY <1>1, Invariant, PTL

(* However many workers compete, a notification is delivered at most once, *)
(* never both delivered and dead-lettered, and never dropped unless the    *)
(* context has been cancelled (dispatcher.go, lines 91-130).               *)
THEOREM OneFateHolds == Spec => []OneFate
BY Invariant, IInvSuffices, PTL

(* Only a notification whose every attempt failed is dead-lettered         *)
(* (dispatcher.go, lines 106-127).                                         *)
THEOREM RetryBudgetHolds == Spec => []RetryBudget
BY Invariant, IInvSuffices, PTL

(* No worker can send on the dead-letter channel once Run has closed it    *)
(* (dispatcher.go, lines 87-88 and 127).                                   *)
THEOREM DeadChannelSafeHolds == Spec => []DeadChannelSafe
BY Invariant, IInvSuffices, PTL

-----------------------------------------------------------------------------
(* A worker that moves changes what its old and its new place count. *)
LEMMA AtMoves ==
  ASSUME TypeOK, NEW w \in Workers, NEW a, GoTo(w, a), NEW l
  PROVE  /\ At(l) \in Nat /\ At(l)' \in Nat
         /\ pc[w] # l /\ a = l => At(l)' = At(l) + 1
         /\ pc[w] = l /\ a # l => At(l) = At(l)' + 1
         /\ (pc[w] = l <=> a = l) => At(l)' = At(l)
<1> DEFINE S == {v \in Workers : pc[v] = l}
           T == {v \in Workers : pc'[v] = l}
<1>1. IsFiniteSet(S) /\ IsFiniteSet(T)
  BY FS_Subset, ConstantsAssumption
<1>2. At(l) = Cardinality(S) /\ At(l)' = Cardinality(T)
  BY DEF At
<1>3. Cardinality(S) \in Nat /\ Cardinality(T) \in Nat
  BY <1>1, FS_CardinalityType
<1>4. pc'[w] = a /\ \A v \in Workers \ {w} : pc'[v] = pc[v]
  BY DEF TypeOK, GoTo
<1>5. ASSUME pc[w] # l, a = l
      PROVE  Cardinality(T) = Cardinality(S) + 1
  <2>1. T = S \cup {w} /\ w \notin S
    BY <1>4, <1>5
  <2> HIDE DEF S, T
  <2> QED
    BY <1>1, <2>1, FS_AddElement
<1>6. ASSUME pc[w] = l, a # l
      PROVE  Cardinality(S) = Cardinality(T) + 1
  <2>1. S = T \cup {w} /\ w \notin T
    BY <1>4, <1>6
  <2> HIDE DEF S, T
  <2> QED
    BY <1>1, <2>1, FS_AddElement
<1>7. ASSUME pc[w] = l <=> a = l
      PROVE  T = S
  BY <1>4, <1>7
<1> HIDE DEF S, T
<1> QED
  BY <1>2, <1>3, <1>5, <1>6, <1>7

(* One more call for a notification is one more call in all. *)
LEMMA TotalGrows ==
  ASSUME NEW f \in [Notifications -> 0..MaxAttempts], NEW n \in Notifications
  PROVE  /\ Total(f) \in Nat
         /\ Total([f EXCEPT ![n] = f[n] + 1]) = Total(f) + 1
<1> DEFINE g == [f EXCEPT ![n] = f[n] + 1]
<1>1. IsFiniteSet(Calls(f))
  <2>1. IsFiniteSet(Notifications \X (1..MaxAttempts))
    <3>1. IsFiniteSet(1..MaxAttempts)
      BY FS_Interval, ConstantsAssumption
    <3> QED
      BY <3>1, FS_Product, ConstantsAssumption
  <2>2. Calls(f) \subseteq Notifications \X (1..MaxAttempts)
    BY ConstantsAssumption DEF Calls
  <2> QED
    BY <2>1, <2>2, FS_Subset
<1>2. Calls(g) = Calls(f) \cup {<<n, f[n] + 1>>} /\ <<n, f[n] + 1>> \notin Calls(f)
  <2>1. f[n] \in Nat /\ g \in [Notifications -> Nat] /\ g[n] = f[n] + 1
        /\ \A q \in Notifications \ {n} : g[q] = f[q]
    BY ConstantsAssumption
  <2> HIDE DEF g
  <2>2. \A h \in [Notifications -> Nat] : \A x :
          x \in Calls(h) <=> \E q \in Notifications : \E k \in 1..h[q] : x = <<q, k>>
    BY DEF Calls
  <2>3. f \in [Notifications -> Nat]
    BY ConstantsAssumption
  <2>4. <<n, f[n] + 1>> \notin Calls(f)
    <3>1. \A k \in 1..f[n] : k # f[n] + 1
      BY <2>1
    <3> QED
      BY <2>2, <2>3, <3>1
  <2>5. ASSUME NEW x
        PROVE  x \in Calls(g) <=> x \in Calls(f) \/ x = <<n, f[n] + 1>>
    <3>1. \A k : k \in 1..g[n] <=> k \in 1..f[n] \/ k = f[n] + 1
      BY <2>1
    <3>2. ASSUME x \in Calls(g)
          PROVE  x \in Calls(f) \/ x = <<n, f[n] + 1>>
      <4>1. PICK q \in Notifications : \E k \in 1..g[q] : x = <<q, k>>
        BY <2>1, <2>2, <3>2
      <4>2. PICK k \in 1..g[q] : x = <<q, k>>
        BY <4>1
      <4>3. CASE q = n
        BY <2>2, <2>3, <3>1, <4>2, <4>3
      <4>4. CASE q # n
        BY <2>1, <2>2, <2>3, <4>2, <4>4
      <4> QED
        BY <4>3, <4>4
    <3>3. ASSUME x \in Calls(f)
          PROVE  x \in Calls(g)
      <4>1. PICK q \in Notifications : \E k \in 1..f[q] : x = <<q, k>>
        BY <2>2, <2>3, <3>3
      <4>2. PICK k \in 1..f[q] : x = <<q, k>>
        BY <4>1
      <4>3. k \in 1..g[q]
        <5>1. CASE q = n
          BY <3>1, <5>1
        <5>2. CASE q # n
          BY <2>1, <5>2
        <5> QED
          BY <5>1, <5>2
      <4> QED
        BY <2>1, <2>2, <4>2, <4>3
    <3>4. <<n, f[n] + 1>> \in Calls(g)
      <4>1. f[n] + 1 \in 1..g[n]
        BY <3>1
      <4> QED
        BY <2>1, <2>2, <4>1
    <3> QED
      BY <3>2, <3>3, <3>4
  <2> QED
    BY <2>4, <2>5
<1> HIDE DEF g
<1>3. Total(f) \in Nat
  BY <1>1, FS_CardinalityType DEF Total
<1>4. Total(g) = Total(f) + 1
  BY <1>1, <1>2, FS_AddElement DEF Total
<1> QED
  BY <1>3, <1>4 DEF g

LEMMA MetricsInit == Init => MetricsExact
<1> SUFFICES ASSUME Init PROVE MetricsExact
  OBVIOUS
<1>1. \A l : l # "select" => At(l) = 0
  <2> SUFFICES ASSUME NEW l, l # "select"
               PROVE  At(l) = 0
    OBVIOUS
  <2>1. {w \in Workers : pc[w] = l} = {}
    BY DEF Init
  <2> QED
    BY <2>1, FS_EmptySet DEF At
<1>2. Total(deliveries) = 0 /\ Total(sends) = 0
  <2>1. Calls(deliveries) = {} /\ Calls(sends) = {}
    BY DEF Init, Calls
  <2> QED
    BY <2>1, FS_EmptySet DEF Total
<1>3. Len(dead) = 0 /\ Cardinality(drained) = 0
  BY FS_EmptySet DEF Init
<1> QED
  BY <1>1, <1>2, <1>3 DEF Init, MetricsExact

(* Each step adds the same to a counter and to what it counts, or makes    *)
(* both wait for a worker on its way from one to the other.                *)
LEMMA MetricsStep ==
  ASSUME IInv, MetricsExact, [Next]_vars
  PROVE  MetricsExact'
<1>1. TypeOK
  BY DEF IInv
<1>2. /\ sentCount \in Nat /\ failedCount \in Nat /\ deadCount \in Nat /\ Len(dead) \in Nat
      /\ Cardinality(drained) \in Nat /\ IsFiniteSet(drained)
  <2>1. IsFiniteSet(drained)
    BY <1>1, FS_Subset, ConstantsAssumption DEF TypeOK
  <2> QED
    BY <1>1, <2>1, FS_CardinalityType DEF TypeOK
<1>3. \A l : At(l) \in Nat
  <2> SUFFICES ASSUME NEW l
               PROVE  At(l) \in Nat
    OBVIOUS
  <2>1. IsFiniteSet({w \in Workers : pc[w] = l})
    BY FS_Subset, ConstantsAssumption
  <2> QED
    BY <2>1, FS_CardinalityType DEF At
<1>4. \A x : LoopHead(x) \notin {"countSent", "countFailed", "enqueue"}
  BY DEF LoopHead
<1>5. ASSUME NEW w \in Workers, NEW a, GoTo(w, a),
             pc[w] \notin {"countSent", "countFailed", "enqueue"},
             a \notin {"countSent", "countFailed", "enqueue"},
             UNCHANGED <<cancelled, drained, metrics, dead, world>>
      PROVE  MetricsExact'
  <2>1. At("countSent")' = At("countSent") /\ At("countFailed")' = At("countFailed")
        /\ At("enqueue")' = At("enqueue")
    BY <1>1, <1>5, AtMoves
  <2> QED
    BY <1>5, <2>1 DEF MetricsExact, metrics, world, Total, Calls
<1>6. ASSUME NEW w \in Workers, StopOnCancel(w) \/ StopOnClose(w) \/ BackoffElapsed(w)
                                \/ BackoffCancelled(w) \/ Receive(w)
      PROVE  MetricsExact'
  BY <1>4, <1>5, <1>6
     DEF StopOnCancel, StopOnClose, BackoffElapsed, BackoffCancelled, Receive, Finish, chans
<1>7. ASSUME NEW w \in Workers, NEW ok \in BOOLEAN, SendReturns(w, ok)
      PROVE  MetricsExact'
  <2> DEFINE n == job[w]
  <2>1. pc[w] = "send" /\ n \in Notifications
    BY <1>7 DEF SendReturns, IInv, TypeOK, ControlInv
  <2>2. GoTo(w, IF ok THEN "countSent" ELSE "countFailed") /\ UNCHANGED <<chans, metrics, dead>>
    BY <1>7 DEF SendReturns
  <2>3. sends' = [sends EXCEPT ![n] = sends[n] + 1] /\ sends \in [Notifications -> 0..MaxAttempts]
        /\ deliveries \in [Notifications -> 0..MaxAttempts]
    BY <1>1, <1>7 DEF SendReturns, TypeOK
  <2>4. Total(sends') = Total(sends) + 1 /\ Total(sends) \in Nat /\ Total(deliveries) \in Nat
    BY <2>1, <2>3, TotalGrows
  <2>5. At("enqueue")' = At("enqueue")
    BY <1>1, <2>1, <2>2, AtMoves
  <2>6. CASE ok
    <3>1. deliveries' = [deliveries EXCEPT ![n] = deliveries[n] + 1]
      BY <1>7, <2>6 DEF SendReturns
    <3>2. Total(deliveries') = Total(deliveries) + 1
      BY <2>1, <2>3, <3>1, TotalGrows
    <3>3. At("countSent")' = At("countSent") + 1 /\ At("countFailed")' = At("countFailed")
      BY <1>1, <2>1, <2>2, <2>6, AtMoves
    <3>4. sentCount + At("countSent")' = Total(deliveries')
      BY <1>2, <1>3, <2>4, <3>2, <3>3 DEF MetricsExact
    <3>5. failedCount + At("countFailed")' + Total(deliveries') = Total(sends')
      <4>1. failedCount + At("countFailed") + Total(deliveries) = Total(sends)
        BY DEF MetricsExact
      <4> QED
        BY <1>2, <1>3, <2>4, <3>2, <3>3, <4>1
    <3> QED
      BY <2>2, <2>5, <3>4, <3>5 DEF MetricsExact, chans, metrics, Total, Calls
  <2>7. CASE ~ok
    <3>1. deliveries' = deliveries
      BY <1>1, <1>7, <2>1, <2>7 DEF SendReturns, TypeOK
    <3>2. At("countFailed")' = At("countFailed") + 1 /\ At("countSent")' = At("countSent")
      BY <1>1, <2>1, <2>2, <2>7, AtMoves
    <3>3. Total(deliveries') = Total(deliveries)
      BY <3>1
    <3>4. sentCount + At("countSent")' = Total(deliveries')
      BY <3>2, <3>3 DEF MetricsExact
    <3>5. failedCount + At("countFailed")' + Total(deliveries') = Total(sends')
      <4>1. failedCount + At("countFailed") + Total(deliveries) = Total(sends)
        BY DEF MetricsExact
      <4> QED
        BY <1>2, <1>3, <2>4, <3>2, <3>3, <4>1
    <3> QED
      BY <2>2, <2>5, <3>4, <3>5 DEF MetricsExact, chans, metrics, Total, Calls
  <2> QED
    BY <2>6, <2>7
<1>8. ASSUME NEW w \in Workers, CountSent(w)
      PROVE  MetricsExact'
  <2>1. pc[w] = "countSent" /\ GoTo(w, "select") /\ sentCount' = sentCount + 1
        /\ UNCHANGED <<chans, failedCount, deadCount, dead, world>>
    BY <1>8 DEF CountSent, Finish
  <2>2. At("countSent") = At("countSent")' + 1 /\ At("countFailed")' = At("countFailed")
        /\ At("enqueue")' = At("enqueue") /\ At("countSent")' \in Nat
    BY <1>1, <2>1, AtMoves
  <2> QED
    BY <1>2, <1>3, <2>1, <2>2 DEF MetricsExact, chans, world, Total, Calls
<1>9. ASSUME NEW w \in Workers, CountFailed(w)
      PROVE  MetricsExact'
  <2>1. pc[w] = "countFailed" /\ GoTo(w, LoopHead(attempt[w] + 1)) /\ failedCount' = failedCount + 1
        /\ UNCHANGED <<chans, sentCount, deadCount, dead, world>>
    BY <1>9 DEF CountFailed
  <2>2. At("countFailed") = At("countFailed")' + 1 /\ At("countSent")' = At("countSent")
        /\ At("enqueue")' = At("enqueue") /\ At("countFailed")' \in Nat
    BY <1>1, <1>4, <2>1, AtMoves
  <2>3. Total(deliveries) \in Nat
    BY <1>2, <1>3 DEF MetricsExact
  <2>4. failedCount' + At("countFailed")' + Total(deliveries)
          = failedCount + At("countFailed") + Total(deliveries)
    BY <1>2, <2>1, <2>2, <2>3
  <2> QED
    BY <2>1, <2>2, <2>4 DEF MetricsExact, chans, world, Total, Calls
<1>10. ASSUME NEW w \in Workers, CountDead(w)
       PROVE  MetricsExact'
  <2>1. pc[w] = "exhausted" /\ GoTo(w, "enqueue") /\ deadCount' = deadCount + 1
        /\ UNCHANGED <<chans, sentCount, failedCount, dead, world>>
    BY <1>10 DEF CountDead
  <2>2. At("enqueue")' = At("enqueue") + 1 /\ At("countSent")' = At("countSent")
        /\ At("countFailed")' = At("countFailed")
    BY <1>1, <2>1, AtMoves
  <2> QED
    BY <1>2, <1>3, <2>1, <2>2 DEF MetricsExact, chans, world, Total, Calls
<1>11. ASSUME NEW w \in Workers, Enqueue(w) \/ EnqueueCancelled(w)
       PROVE  MetricsExact'
  <2>1. pc[w] = "enqueue" /\ GoTo(w, "select") /\ UNCHANGED <<chans, metrics, world>>
    BY <1>11 DEF Enqueue, EnqueueCancelled, Finish
  <2>2. At("enqueue") = At("enqueue")' + 1 /\ At("countSent")' = At("countSent")
        /\ At("countFailed")' = At("countFailed") /\ At("enqueue")' \in Nat
    BY <1>1, <2>1, AtMoves
  <2>3. Len(dead') = Len(dead) + 1 \/ (Len(dead') = Len(dead) /\ cancelled)
    <3>1. job[w] \in Notifications
      BY <2>1 DEF IInv, TypeOK, ControlInv
    <3> QED
      BY <1>1, <1>11, <3>1 DEF Enqueue, EnqueueCancelled, TypeOK
  <2> QED
    BY <1>2, <1>3, <2>1, <2>2, <2>3, SMTT(30) DEF MetricsExact, chans, metrics, world, Total, Calls
<1>12. CASE DrainDead
  <2>1. dead # <<>> /\ drained' = drained \cup {Head(dead)} /\ dead' = Tail(dead)
        /\ UNCHANGED <<cancelled, pc, metrics, world>>
    BY <1>12 DEF DrainDead
  <2>2. Len(dead') = Len(dead) - 1 /\ Head(dead) \in Notifications /\ Head(dead) = dead[1]
        /\ 1 \in 1..Len(dead)
    BY <1>1, <2>1 DEF TypeOK
  <2>3. Head(dead) \notin drained
    BY <2>2 DEF IInv, PlaceInv, InDead
  <2>4. Cardinality(drained') = Cardinality(drained) + 1
    BY <1>2, <2>1, <2>3, FS_AddElement
  <2>5. At("countSent")' = At("countSent") /\ At("countFailed")' = At("countFailed")
        /\ At("enqueue")' = At("enqueue")
    BY <2>1 DEF At
  <2> QED
    BY <1>2, <1>3, <2>1, <2>2, <2>4, <2>5 DEF MetricsExact, metrics, world, Total, Calls
<1>13. CASE RunReturns \/ CloseIn \/ Cancel \/ UNCHANGED vars
  <2>1. UNCHANGED <<pc, metrics, dead, world, drained>> /\ (cancelled => cancelled')
    BY <1>13 DEF RunReturns, CloseIn, Cancel, vars, chans
  <2> QED
    BY <2>1 DEF MetricsExact, At, metrics, world, Total, Calls
<1> QED
  BY <1>6, <1>7, <1>8, <1>9, <1>10, <1>11, <1>12, <1>13
     DEF Next, WorkerStep, SendResults, Terminated

(* The counters of Metrics lag what happened by exactly the workers that   *)
(* are about to add to them, and DeadLettered counts more than reaches the *)
(* channel only after a cancellation (dispatcher.go, lines 113-130).       *)
THEOREM MetricsExactHolds == Spec => []MetricsExact
<1>1. IInv /\ MetricsExact /\ [Next]_vars => MetricsExact'
  BY MetricsStep
<1> QED
  BY <1>1, Invariant, MetricsInit, PTL DEF Spec

-----------------------------------------------------------------------------
(* A step that moves no notification leaves every fate as it is. *)
LEMMA SameFates ==
  ASSUME \A n \in Notifications :
           /\ n \in todo' <=> n \in todo
           /\ Delivered(n)' <=> Delivered(n)
           /\ DeadLettered(n)' <=> DeadLettered(n)
           /\ Delivered(n) \/ (InHand(n)' <=> InHand(n))
  PROVE  fateOf' = fateOf
BY DEF fateOf

(* A step that moves one notification changes its fate and no other. *)
LEMMA OneFateMoves ==
  ASSUME NEW n \in Notifications, NEW to,
         fateOf'[n] = to,
         \A m \in Notifications \ {n} :
           /\ m \in todo' <=> m \in todo
           /\ Delivered(m)' <=> Delivered(m)
           /\ DeadLettered(m)' <=> DeadLettered(m)
           /\ InHand(m)' <=> InHand(m)
  PROVE  fateOf' = [fateOf EXCEPT ![n] = to]
<1>1. \A m \in Notifications \ {n} : fateOf'[m] = fateOf[m]
  BY DEF fateOf
<1>2. /\ fateOf = [m \in Notifications |-> fateOf[m]]
      /\ fateOf' = [m \in Notifications |-> fateOf'[m]]
  BY DEF fateOf
<1> QED
  BY <1>1, <1>2

(* Every notification a worker starts with is waiting. *)
LEMMA FateInit == Init => Fate!Init
BY DEF Init, Fate!Init, fateOf

(* Every step of the dispatcher is a step of the fate machine or none. *)
LEMMA FateStep == IInv /\ IInv' /\ [Next]_vars => [Fate!Next]_(Fate!fvars)
<1> SUFFICES ASSUME IInv, IInv', [Next]_vars PROVE [Fate!Next]_(Fate!fvars)
  OBVIOUS
<1>1. ASSUME NEW w \in Workers, Receive(w) PROVE Fate!Next
  <2>1. PICK n \in todo : Receive(w)!(n)
    BY <1>1 DEF Receive
  <2>2. n \in Notifications /\ fateOf[n] = "waiting"
    BY DEF IInv, TypeOK, fateOf
  <2>3. fateOf'[n] = "inflight"
    <3>1. /\ n \notin todo' /\ InHand(n)' /\ ~Delivered(n)'
          /\ ~DeadLettered(n)'
      BY <2>1, <2>2 DEF IInv, TypeOK, PlaceInv, InHand, InDead, Delivered,
                        DeadLettered, metrics, world
    <3> QED
      BY <3>1, <2>2 DEF fateOf
  <2>4. fateOf' = [fateOf EXCEPT ![n] = "inflight"]
    <3>1. \A m \in Notifications \ {n} : InHand(m)' <=> InHand(m)
      BY <2>1, <2>2, ConstantsAssumption DEF IInv, TypeOK, ControlInv, InHand
    <3> QED
      BY <3>1, <2>1, <2>2, <2>3, OneFateMoves
         DEF Delivered, InDead, DeadLettered, world
  <2> QED
    BY <2>1, <2>2, <2>4 DEF Fate!Next, Fate!Accept, Fate!Move
<1>2. ASSUME NEW w \in Workers, NEW ok \in BOOLEAN, SendReturns(w, ok)
      PROVE  [Fate!Next]_(Fate!fvars)
  <2>1. PICK n \in Notifications : /\ n = job[w] /\ n \notin todo
                                   /\ deliveries[n] = 0 /\ ~DeadLettered(n)
    BY <1>2, ZenonT(60) DEF IInv, TypeOK, ControlInv, JobInv, SendReturns
  <2>2. /\ todo' = todo /\ job' = job /\ cancelled' = cancelled
        /\ \A m \in Notifications : DeadLettered(m)' <=> DeadLettered(m)
        /\ \A m \in Notifications : InHand(m)' <=> InHand(m)
        /\ \A m \in Notifications \ {n} : Delivered(m)' <=> Delivered(m)
        /\ Delivered(n)' <=> ok
    BY <1>2, <2>1 DEF IInv, TypeOK, SendReturns, chans, InHand, InDead,
                      Delivered, DeadLettered
  <2>3. CASE ok
    <3>1. fateOf[n] = "inflight" /\ fateOf'[n] = "delivered"
      BY <2>1, <2>2, <2>3 DEF fateOf, InHand, Delivered
    <3>2. fateOf' = [fateOf EXCEPT ![n] = "delivered"]
      BY <2>2, <3>1, OneFateMoves
    <3> QED
      BY <2>2, <3>1, <3>2 DEF Fate!Next, Fate!Deliver, Fate!Move
  <2>4. CASE ~ok
    <3>1. fateOf' = fateOf
      BY <2>1, <2>2, <2>4, SameFates DEF Delivered
    <3> QED
      BY <2>2, <3>1 DEF Fate!fvars
  <2> QED
    BY <2>3, <2>4
<1>3. ASSUME NEW w \in Workers, CountSent(w) PROVE UNCHANGED Fate!fvars
  <2>1. \A m \in Notifications : Delivered(m) \/ (InHand(m)' <=> InHand(m))
    BY <1>3, ConstantsAssumption
       DEF IInv, TypeOK, ControlInv, JobInv, CountSent, Finish, InHand, Delivered
  <2>2. fateOf' = fateOf
    BY <1>3, <2>1, SameFates
       DEF CountSent, chans, world, Delivered, InDead, DeadLettered
  <2> QED
    BY <1>3, <2>2 DEF CountSent, chans, Fate!fvars
<1>4. ASSUME NEW w \in Workers, BackoffCancelled(w) \/ EnqueueCancelled(w)
      PROVE  Fate!Next
  <2>1. PICK n \in Notifications : /\ n = job[w] /\ n \notin todo
                                   /\ deliveries[n] = 0 /\ ~DeadLettered(n)
    BY <1>4 DEF IInv, TypeOK, ControlInv, JobInv, BackoffCancelled, EnqueueCancelled
  <2>2. /\ cancelled /\ Finish(w)
        /\ UNCHANGED <<todo, drained, dead, sends, deliveries, cancelled>>
    BY <1>4 DEF BackoffCancelled, EnqueueCancelled, chans, world
  <2>3. /\ ~InHand(n)'
        /\ \A m \in Notifications \ {n} : InHand(m)' <=> InHand(m)
    BY <2>1, <2>2, ConstantsAssumption
       DEF IInv, TypeOK, JobInv, Finish, InHand
  <2>4. fateOf[n] = "inflight" /\ fateOf'[n] = "dropped"
    BY <2>1, <2>2, <2>3 DEF fateOf, InHand, Delivered, InDead, DeadLettered
  <2>5. fateOf' = [fateOf EXCEPT ![n] = "dropped"]
    BY <2>2, <2>3, <2>4, OneFateMoves DEF Delivered, InDead, DeadLettered
  <2> QED
    BY <2>2, <2>4, <2>5 DEF Fate!Next, Fate!Drop, Fate!Move
<1>5. ASSUME NEW w \in Workers, Enqueue(w) PROVE Fate!Next
  <2>1. PICK n \in Notifications : /\ n = job[w] /\ n \notin todo
                                   /\ deliveries[n] = 0 /\ ~DeadLettered(n)
    BY <1>5 DEF IInv, TypeOK, ControlInv, JobInv, Enqueue
  <2>2. /\ dead \in Seq(Notifications) /\ dead' = Append(dead, n)
        /\ UNCHANGED <<todo, drained, sends, deliveries, cancelled>> /\ Finish(w)
    BY <1>5, <2>1 DEF IInv, TypeOK, Enqueue, chans, world
  <2>3. \A m \in Notifications : InDead(m)' <=> InDead(m) \/ m = n
    <3>1. /\ Len(dead') = Len(dead) + 1 /\ Len(dead) \in Nat
          /\ \A i \in 1..Len(dead) : dead'[i] = dead[i]
          /\ dead'[Len(dead) + 1] = n
      BY <2>2
    <3> QED
      BY <3>1 DEF InDead
  <2>4. \A m \in Notifications \ {n} : InHand(m)' <=> InHand(m)
    BY <2>1, <2>2, ConstantsAssumption DEF IInv, TypeOK, Finish, InHand
  <2>5. fateOf[n] = "inflight" /\ fateOf'[n] = "deadlettered"
    BY <2>1, <2>2, <2>3 DEF fateOf, InHand, Delivered, DeadLettered
  <2>6. fateOf' = [fateOf EXCEPT ![n] = "deadlettered"]
    BY <2>2, <2>3, <2>4, <2>5, OneFateMoves DEF Delivered, DeadLettered
  <2> QED
    BY <2>2, <2>5, <2>6 DEF Fate!Next, Fate!DeadLetter, Fate!Move
<1>6. CASE DrainDead
  <2>1. PICK n \in Notifications : n = Head(dead)
    BY <1>6 DEF IInv, TypeOK, DrainDead
  <2>2. /\ dead \in Seq(Notifications) /\ Len(dead) > 0 /\ n = dead[1]
        /\ Len(dead') = Len(dead) - 1
        /\ \A i \in 1..Len(dead') : dead'[i] = dead[i + 1]
        /\ drained' = drained \cup {n}
    BY <1>6, <2>1 DEF IInv, TypeOK, DrainDead
  <2>3. \A m \in Notifications : DeadLettered(m)' <=> DeadLettered(m)
    <3> SUFFICES ASSUME NEW m \in Notifications
                 PROVE  DeadLettered(m)' <=> DeadLettered(m)
      OBVIOUS
    <3>1. ASSUME InDead(m), m # n PROVE InDead(m)'
      <4>1. PICK i \in 1..Len(dead) : dead[i] = m
        BY <3>1 DEF InDead
      <4>2. i - 1 \in 1..Len(dead') /\ dead'[i - 1] = m
        BY <4>1, <3>1, <2>2
      <4> QED
        BY <4>2 DEF InDead
    <3>2. InDead(m)' => InDead(m)
      BY <2>2 DEF InDead
    <3>3. InDead(n)
      BY <2>2 DEF InDead
    <3> QED
      BY <3>1, <3>2, <3>3, <2>2 DEF DeadLettered
  <2>4. fateOf' = fateOf
    BY <1>6, <2>3, SameFates DEF DrainDead, world, Delivered, InHand
  <2> QED
    BY <1>6, <2>4 DEF DrainDead, Fate!fvars
<1>7. ASSUME UNCHANGED <<todo, drained, job, dead, world>>
      PROVE  fateOf' = fateOf
  BY <1>7, SameFates DEF world, Delivered, InHand, InDead, DeadLettered
<1>8. CASE Cancel
  BY <1>7, <1>8 DEF Cancel, Fate!Next, Fate!Stop
<1>9. ASSUME \/ \E w \in Workers :
                  \/ StopOnCancel(w) \/ StopOnClose(w) \/ BackoffElapsed(w)
                  \/ CountFailed(w) \/ CountDead(w)
             \/ RunReturns \/ CloseIn \/ UNCHANGED vars
      PROVE  UNCHANGED Fate!fvars
  <2>1. UNCHANGED <<todo, drained, job, dead, world, cancelled>>
    BY <1>9 DEF StopOnCancel, StopOnClose, BackoffElapsed, CountFailed,
                CountDead, RunReturns, CloseIn, vars, chans
  <2> QED
    BY <1>7, <2>1 DEF Fate!fvars
<1> QED
  BY <1>1, <1>2, <1>3, <1>4, <1>5, <1>6, <1>8, <1>9
     DEF Next, WorkerStep, SendResults, Terminated

(* The dispatcher implements the fate machine: fates move forward only and *)
(* are final, whatever the workers, the timers and the caller do.          *)
THEOREM Refinement == Spec => ImplementsFate
<1>1. Spec => Fate!Init
  BY FateInit DEF Spec
<1> QED
  BY <1>1, Invariant, FateStep, PTL DEF Spec, ImplementsFate, Fate!Spec
=============================================================================
