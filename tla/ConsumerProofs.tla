--------------------------- MODULE ConsumerProofs ---------------------------
(***************************************************************************)
(* Safety of the JetStream consumer for every number of processes, events, *)
(* deliveries and crashes.                                                 *)
(*                                                                         *)
(* The three properties need what HandleInv says of a message half way     *)
(* through handle.  DuplicatesBounded also needs a count that survives a   *)
(* crash: the processes that know they have sent an event (Knows), plus    *)
(* the crashes that made one forget.                                       *)
(***************************************************************************)
EXTENDS Consumer, FiniteSetTheorems, TLAPS

USE BrokerAssumption, ConsumerAssumption

(* The set whose size DuplicatesBounded counts is finite. *)
LEMMA KnowsFinite ==
  ASSUME NEW e
  PROVE  /\ IsFiniteSet(Knows(e))
         /\ Cardinality(Knows(e)) \in Nat
         /\ Cardinality(Knows(e)) <= Cardinality(Procs)
         /\ Cardinality(Procs) \in Nat
<1>1. Knows(e) \subseteq Procs
  BY DEF Knows
<1> QED
  BY <1>1, FS_Subset, FS_CardinalityType

(* Initially nothing is stored, sent or known. *)
LEMMA InitInv == Init => IInv
<1> SUFFICES ASSUME Init PROVE IInv
  OBVIOUS
<1>1. TypeOK
  <2>1. BrokerTypeOK
    <3>1. 0 \in 0..MaxDeliver
      OBVIOUS
    <3>2. \A p \in Procs : inbox[p] \in Seq(Msgs)
      BY DEF Init, BrokerInit
    <3> QED
      BY <3>1, <3>2 DEF Init, BrokerInit, BrokerTypeOK
  <2> QED
    BY <2>1 DEF Init, TypeOK, PCs
<1>2. HandleInv /\ SeenInv /\ AckedMeansSent /\ TermedMeansOffered
  BY DEF Init, BrokerInit, HandleInv, SeenInv, AckedMeansSent, TermedMeansOffered
<1>3. DuplicatesBounded
  BY KnowsFinite DEF Init, DuplicatesBounded
<1> QED
  BY <1>1, <1>2, <1>3 DEF IInv

(* Steps that neither send, nor forget, nor learn keep the count. *)
LEMMA DupStay ==
  ASSUME DuplicatesBounded, sent' = sent, crashes' = crashes,
         \A e \in Events : Knows(e)' = Knows(e)
  PROVE  DuplicatesBounded'
BY DEF DuplicatesBounded

(* Publishing an event: only the stream changes. *)
LEMMA PublishInv ==
  ASSUME IInv, NEW e \in Events, Publish(e)
  PROVE  IInv'
<1>1. TypeOK'
  BY DEF IInv, TypeOK, BrokerTypeOK, Publish, Store
<1>2. HandleInv' /\ SeenInv' /\ AckedMeansSent' /\ TermedMeansOffered'
  BY DEF IInv, HandleInv, SeenInv, AckedMeansSent, TermedMeansOffered, Publish, Store
<1>3. DuplicatesBounded'
  BY DupStay DEF IInv, Publish, Knows
<1> QED
  BY <1>1, <1>2, <1>3 DEF IInv

(* The broker delivers a message: its number is the new count. *)
LEMMA DeliverInv ==
  ASSUME IInv, NEW p \in Procs, NEW e \in Events, Deliver(p, e),
         UNCHANGED <<pc, cur, seen, sent, dlq, dlqFailed, crashes>>
  PROVE  IInv'
<1> DEFINE m == [event |-> e, num |-> numDelivered[e] + 1]
<1>1. /\ numDelivered[e] \in 0..MaxDeliver /\ numDelivered[e] < MaxDeliver
      /\ numDelivered'[e] = numDelivered[e] + 1
      /\ \A f \in Events : numDelivered[f] <= numDelivered'[f]
      /\ m \in Msgs
  BY DEF IInv, TypeOK, BrokerTypeOK, Deliver, Msgs
<1>2. /\ inbox[p] \in Seq(Msgs) /\ inbox' = [inbox EXCEPT ![p] = Append(inbox[p], m)]
  BY DEF IInv, TypeOK, BrokerTypeOK, Deliver
<1>3. numDelivered' \in [Events -> 0..MaxDeliver]
  BY <1>1 DEF IInv, TypeOK, BrokerTypeOK, Deliver
<1> HIDE DEF m
<1>4. TypeOK'
  <2>1. inbox' \in [Procs -> Seq(Msgs)]
    BY <1>1, <1>2 DEF IInv, TypeOK, BrokerTypeOK
  <2> QED
    BY <1>3, <2>1 DEF IInv, TypeOK, BrokerTypeOK, Deliver
<1>5. HandleInv'
  <2> SUFFICES ASSUME NEW q \in Procs PROVE HandleInv!(q)'
    BY DEF HandleInv
  <2>1. ASSUME NEW i \in 1..Len(inbox'[q])
        PROVE  inbox'[q][i].num <= numDelivered'[inbox'[q][i].event]
    <3>1. CASE q = p /\ i = Len(inbox[p]) + 1
      BY <3>1, <1>1, <1>2 DEF m, IInv, TypeOK, BrokerTypeOK
    <3>2. CASE ~(q = p /\ i = Len(inbox[p]) + 1)
      <4>1. i \in 1..Len(inbox[q]) /\ inbox'[q][i] = inbox[q][i]
        BY <3>2, <1>2 DEF IInv, TypeOK, BrokerTypeOK
      <4>2. inbox[q][i] \in Msgs
        BY <4>1 DEF IInv, TypeOK, BrokerTypeOK
      <4>3. inbox[q][i].event \in Events /\ inbox[q][i].num \in Nat
        BY <4>2 DEF Msgs
      <4>4. inbox[q][i].num <= numDelivered[inbox[q][i].event]
        BY <4>1 DEF IInv, HandleInv
      <4> QED
        BY <4>1, <4>3, <4>4, <1>1, <1>3 DEF IInv, TypeOK, BrokerTypeOK
    <3> QED
      BY <3>1, <3>2
  <2>2. pc[q] # "idle" => cur[q] \in Msgs /\ cur[q].num <= numDelivered'[cur[q].event]
    <3> SUFFICES ASSUME pc[q] # "idle"
                 PROVE  cur[q] \in Msgs /\ cur[q].num <= numDelivered'[cur[q].event]
      OBVIOUS
    <3>1. /\ cur[q] \in Msgs /\ cur[q].num <= numDelivered[cur[q].event]
      BY DEF IInv, HandleInv
    <3>2. cur[q].event \in Events /\ cur[q].num \in Nat
      BY <3>1 DEF Msgs
    <3> QED
      BY <3>1, <3>2, <1>1, <1>3 DEF IInv, TypeOK, BrokerTypeOK
  <2> QED
    BY <2>1, <2>2 DEF IInv, HandleInv
<1>6. SeenInv' /\ AckedMeansSent'
  BY DEF IInv, TypeOK, BrokerTypeOK, SeenInv, AckedMeansSent, Deliver
<1>7. TermedMeansOffered'
  BY <1>1 DEF IInv, TypeOK, BrokerTypeOK, TermedMeansOffered, Deliver
<1>8. DuplicatesBounded'
  BY DupStay DEF IInv, Knows
<1> QED
  BY <1>4, <1>5, <1>6, <1>7, <1>8 DEF IInv

(* An AckWait timer fires. *)
LEMMA AckWaitInv ==
  ASSUME IInv, NEW e \in Events, AckWaitExpires(e),
         UNCHANGED <<pc, cur, seen, sent, dlq, dlqFailed, crashes>>
  PROVE  IInv'
<1>1. TypeOK'
  BY DEF IInv, TypeOK, BrokerTypeOK, AckWaitExpires
<1>2. HandleInv' /\ SeenInv'
  BY DEF IInv, HandleInv, SeenInv, AckWaitExpires
<1>3. AckedMeansSent' /\ TermedMeansOffered'
  BY DEF IInv, TypeOK, BrokerTypeOK, AckedMeansSent, TermedMeansOffered, AckWaitExpires
<1>4. DuplicatesBounded'
  BY DupStay DEF IInv, Knows
<1> QED
  BY <1>1, <1>2, <1>3, <1>4 DEF IInv

(* handle starts on the oldest message and passes its checks. *)
LEMMA BeginHandleInv ==
  ASSUME IInv, NEW p \in Procs, BeginHandle(p)
  PROVE  IInv'
<1>1. PICK m \in Msgs : /\ m = Head(inbox[p]) /\ m.num <= numDelivered[m.event]
  <2>1. inbox[p] \in Seq(Msgs) /\ inbox[p] # <<>>
    BY DEF IInv, TypeOK, BrokerTypeOK, BeginHandle
  <2>2. 1 \in 1..Len(inbox[p]) /\ Head(inbox[p]) = inbox[p][1] /\ Head(inbox[p]) \in Msgs
    BY <2>1
  <2>3. inbox[p][1].num <= numDelivered[inbox[p][1].event]
    BY <2>2 DEF IInv, HandleInv
  <2> QED
    BY <2>2, <2>3
<1>2. /\ m.event \in Events /\ m.num \in 1..MaxDeliver
  BY <1>1 DEF Msgs
<1>3. /\ pc' = [pc EXCEPT ![p] = AfterChecks(p, m)]
      /\ cur' = [cur EXCEPT ![p] = m]
      /\ inbox' = [inbox EXCEPT ![p] = Tail(inbox[p])]
      /\ UNCHANGED <<stored, numDelivered, status, seen, sent, dlq, dlqFailed,
                     crashes>>
  BY <1>1 DEF BeginHandle, GoTo
<1>4. /\ AfterChecks(p, m) \in {"term", "ack", "send"}
      /\ AfterChecks(p, m) = "term" => m.event \in Malformed
      /\ AfterChecks(p, m) = "ack"  => m.event \in seen[p]
      /\ AfterChecks(p, m) = "send" => m.event \notin seen[p]
  BY <1>2 DEF AfterChecks
<1>5. Tail(inbox[p]) \in Seq(Msgs)
  BY DEF IInv, TypeOK, BrokerTypeOK, BeginHandle
<1>6. TypeOK'
  BY <1>3, <1>4, <1>5 DEF IInv, TypeOK, BrokerTypeOK, PCs
<1>7. HandleInv'
  <2> SUFFICES ASSUME NEW q \in Procs PROVE HandleInv!(q)'
    BY DEF HandleInv
  <2>1. CASE q = p
    <3>1. ASSUME NEW i \in 1..Len(inbox'[p])
          PROVE  inbox'[p][i].num <= numDelivered[inbox'[p][i].event]
      <4>1. i + 1 \in 1..Len(inbox[p]) /\ inbox'[p][i] = inbox[p][i + 1]
        BY <1>3 DEF IInv, TypeOK, BrokerTypeOK, BeginHandle
      <4> QED
        BY <4>1 DEF IInv, HandleInv
    <3>2. pc'[p] = AfterChecks(p, m) /\ cur'[p] = m
      BY <1>3 DEF IInv, TypeOK
    <3>3. AfterChecks(p, m) = "ack" => sent[m.event] > 0
      BY <1>4 DEF IInv, SeenInv
    <3> QED
      BY <2>1, <3>1, <3>2, <3>3, <1>1, <1>3, <1>4
  <2>2. CASE q # p
    BY <2>2, <1>3 DEF IInv, TypeOK, BrokerTypeOK, HandleInv
  <2> QED
    BY <2>1, <2>2
<1>8. SeenInv' /\ AckedMeansSent' /\ TermedMeansOffered'
  BY <1>3 DEF IInv, SeenInv, AckedMeansSent, TermedMeansOffered
<1>9. DuplicatesBounded'
  <2>1. \A e \in Events : Knows(e)' = Knows(e)
    BY <1>3, <1>4 DEF IInv, TypeOK, Knows, BeginHandle
  <2> QED
    BY <2>1, <1>3, DupStay DEF IInv
<1> QED
  BY <1>6, <1>7, <1>8, <1>9 DEF IInv

(* A send succeeds: this process did not know of one before. *)
LEMMA SendOKInv ==
  ASSUME IInv, NEW p \in Procs, SendOK(p)
  PROVE  IInv'
<1>1. PICK e \in Events : e = cur[p].event /\ e \notin seen[p]
  BY DEF IInv, HandleInv, SendOK, Msgs
<1>2. /\ pc[p] = "send"
      /\ sent' = [sent EXCEPT ![e] = sent[e] + 1] /\ sent[e] \in Nat
      /\ pc' = [pc EXCEPT ![p] = "mark"]
      /\ UNCHANGED <<broker, cur, seen, dlq, dlqFailed, crashes>>
  BY <1>1 DEF IInv, TypeOK, SendOK, GoTo
<1>3. TypeOK'
  BY <1>2 DEF IInv, TypeOK, BrokerTypeOK, PCs, broker
<1>4. HandleInv'
  <2> SUFFICES ASSUME NEW q \in Procs PROVE HandleInv!(q)'
    BY DEF HandleInv
  <2>1. pc[q] # "idle" => cur[q].event \in Events
    BY DEF IInv, HandleInv, Msgs
  <2>2. \A f \in Events : sent[f] > 0 => sent'[f] > 0
    BY <1>2 DEF IInv, TypeOK
  <2>3. sent'[e] > 0
    BY <1>2 DEF IInv, TypeOK
  <2>4. CASE q = p
    BY <2>4, <2>3, <1>1, <1>2 DEF IInv, TypeOK, HandleInv, broker
  <2>5. CASE q # p
    BY <2>5, <2>1, <2>2, <1>2 DEF IInv, TypeOK, HandleInv, broker
  <2> QED
    BY <2>4, <2>5
<1>5. SeenInv' /\ AckedMeansSent' /\ TermedMeansOffered'
  BY <1>2 DEF IInv, TypeOK, SeenInv, AckedMeansSent, TermedMeansOffered, broker
<1>6. DuplicatesBounded'
  <2> SUFFICES ASSUME NEW f \in Events
               PROVE  sent'[f] <= Cardinality(Knows(f)') + crashes'
    BY DEF DuplicatesBounded
  <2>1. /\ sent[f] <= Cardinality(Knows(f)) + crashes
        /\ sent[f] \in Nat /\ crashes \in Nat /\ Cardinality(Knows(f)) \in Nat
    BY KnowsFinite DEF IInv, TypeOK, DuplicatesBounded
  <2>2. CASE f = e
    <3>1. p \notin Knows(e)
      BY <1>1, <1>2 DEF Knows
    <3>2. Knows(e)' = Knows(e) \cup {p}
      BY <1>1, <1>2 DEF IInv, TypeOK, Knows
    <3>3. Cardinality(Knows(e)') = Cardinality(Knows(e)) + 1
      BY <3>1, <3>2, KnowsFinite, FS_AddElement
    <3> QED
      BY <2>1, <2>2, <3>3, <1>2 DEF IInv, TypeOK
  <2>3. CASE f # e
    <3>1. Knows(f)' = Knows(f)
      BY <2>3, <1>1, <1>2 DEF IInv, TypeOK, Knows
    <3> QED
      BY <2>1, <2>3, <3>1, <1>2 DEF IInv, TypeOK
  <2> QED
    BY <2>2, <2>3
<1> QED
  BY <1>3, <1>4, <1>5, <1>6 DEF IInv

(* A send fails: on the last delivery the message goes to the DLQ. *)
LEMMA SendFailsInv ==
  ASSUME IInv, NEW p \in Procs, SendFails(p)
  PROVE  IInv'
<1>1. /\ pc[p] = "send"
      /\ cur[p] \in Msgs /\ cur[p].num \in 1..MaxDeliver
  BY DEF IInv, HandleInv, SendFails, Msgs
<1>2. TypeOK'
  BY DEF IInv, TypeOK, BrokerTypeOK, PCs, SendFails, GoTo, broker
<1>3. HandleInv'
  BY <1>1 DEF IInv, TypeOK, HandleInv, SendFails, GoTo, broker
<1>4. SeenInv' /\ AckedMeansSent' /\ TermedMeansOffered'
  BY DEF IInv, SeenInv, AckedMeansSent, TermedMeansOffered, SendFails, broker
<1>5. DuplicatesBounded'
  <2>1. \A e \in Events : Knows(e)' = Knows(e)
    BY <1>1 DEF IInv, TypeOK, Knows, SendFails, GoTo
  <2> QED
    BY <2>1, DupStay DEF IInv, SendFails
<1> QED
  BY <1>2, <1>3, <1>4, <1>5 DEF IInv

(* The dedup store learns what the process already knew. *)
LEMMA MarkInv ==
  ASSUME IInv, NEW p \in Procs, Mark(p)
  PROVE  IInv'
<1>1. /\ pc[p] = "mark" /\ cur[p].event \in Events /\ sent[cur[p].event] > 0
  BY DEF IInv, HandleInv, Mark, Msgs
<1>2. TypeOK'
  BY <1>1 DEF IInv, TypeOK, BrokerTypeOK, PCs, Mark, GoTo, broker
<1>3. HandleInv'
  BY <1>1 DEF IInv, TypeOK, HandleInv, Mark, GoTo, broker
<1>4. SeenInv'
  BY <1>1 DEF IInv, TypeOK, SeenInv, Mark
<1>5. AckedMeansSent' /\ TermedMeansOffered'
  BY DEF IInv, AckedMeansSent, TermedMeansOffered, Mark, broker
<1>6. DuplicatesBounded'
  <2>1. \A e \in Events : Knows(e)' = Knows(e)
    BY <1>1 DEF IInv, TypeOK, Knows, Mark, GoTo
  <2> QED
    BY <2>1, DupStay DEF IInv, Mark
<1> QED
  BY <1>2, <1>3, <1>4, <1>5, <1>6 DEF IInv

(* The message is offered to the DLQ. *)
LEMMA DeadLetterInv ==
  ASSUME IInv, NEW p \in Procs, NEW ok \in BOOLEAN, DeadLetter(p, ok)
  PROVE  IInv'
<1>1. /\ pc[p] = "dlq" /\ cur[p].event \in Events /\ cur[p].num = MaxDeliver
  BY DEF IInv, HandleInv, DeadLetter, Msgs
<1>2. /\ dlq \subseteq dlq' /\ dlqFailed \subseteq dlqFailed'
      /\ dlq' \subseteq Events /\ dlqFailed' \subseteq Events
      /\ cur[p].event \in dlq' \cup dlqFailed'
      /\ pc' = [pc EXCEPT ![p] = "term"]
      /\ UNCHANGED <<broker, cur, seen, sent, crashes>>
  BY <1>1 DEF IInv, TypeOK, DeadLetter, GoTo
<1>3. TypeOK'
  BY <1>2 DEF IInv, TypeOK, BrokerTypeOK, PCs, broker
<1>4. HandleInv'
  BY <1>1, <1>2 DEF IInv, TypeOK, HandleInv, broker
<1>5. SeenInv' /\ AckedMeansSent' /\ TermedMeansOffered'
  BY <1>2 DEF IInv, SeenInv, AckedMeansSent, TermedMeansOffered, broker
<1>6. DuplicatesBounded'
  <2>1. \A e \in Events : Knows(e)' = Knows(e)
    BY <1>1, <1>2 DEF IInv, TypeOK, Knows
  <2> QED
    BY <2>1, <1>2, DupStay DEF IInv
<1> QED
  BY <1>3, <1>4, <1>5, <1>6 DEF IInv

(* The settling call ends handle, whether or not it reaches the broker. *)
LEMMA SettleInv ==
  ASSUME IInv, NEW p \in Procs, NEW arrives \in BOOLEAN, Settle(p, arrives)
  PROVE  IInv'
<1>1. PICK e \in Events :
        /\ e = cur[p].event
        /\ pc[p] = "ack" => sent[e] > 0
        /\ pc[p] = "term" => \/ e \in Malformed
                             \/ numDelivered[e] = MaxDeliver /\ e \in dlq \cup dlqFailed
  BY DEF IInv, TypeOK, BrokerTypeOK, HandleInv, Settle, Msgs
<1>2. /\ pc[p] \in {"ack", "nak", "term"}
      /\ pc' = [pc EXCEPT ![p] = "idle"] /\ cur' = [cur EXCEPT ![p] = NoMsg]
      /\ UNCHANGED <<stored, numDelivered, inbox, seen, sent, dlq, dlqFailed, crashes>>
  BY DEF Settle, GoTo
<1>3. /\ status' \in [Events -> {"ready", "out", "acked", "termed"}]
      /\ \A f \in Events : status'[f] = "acked" =>
           status[f] = "acked" \/ (f = e /\ pc[p] = "ack")
      /\ \A f \in Events : status'[f] = "termed" =>
           status[f] = "termed" \/ (f = e /\ pc[p] = "term")
  BY <1>1, <1>2 DEF IInv, TypeOK, BrokerTypeOK, Settle, Receive
<1>4. TypeOK'
  BY <1>2, <1>3 DEF IInv, TypeOK, BrokerTypeOK, PCs
<1>5. HandleInv'
  BY <1>2 DEF IInv, TypeOK, HandleInv
<1>6. SeenInv' /\ AckedMeansSent' /\ TermedMeansOffered'
  BY <1>1, <1>2, <1>3 DEF IInv, SeenInv, AckedMeansSent, TermedMeansOffered
<1>7. DuplicatesBounded'
  <2>1. \A f \in Events : Knows(f)' = Knows(f)
    BY <1>2 DEF IInv, TypeOK, Knows
  <2> QED
    BY <2>1, <1>2, DupStay DEF IInv
<1> QED
  BY <1>4, <1>5, <1>6, <1>7 DEF IInv

(* A crash makes one process forget, and is counted. *)
LEMMA CrashInv ==
  ASSUME IInv, NEW p \in Procs, Crash(p)
  PROVE  IInv'
<1>1. /\ crashes \in Nat /\ crashes' = crashes + 1 /\ crashes' \in 0..MaxCrashes
      /\ pc' = [pc EXCEPT ![p] = "idle"] /\ cur' = [cur EXCEPT ![p] = NoMsg]
      /\ seen' = [seen EXCEPT ![p] = {}] /\ inbox' = [inbox EXCEPT ![p] = <<>>]
      /\ UNCHANGED <<stored, numDelivered, status, sent, dlq, dlqFailed>>
  BY DEF IInv, TypeOK, Crash, GoTo
<1>2. TypeOK'
  <2>1. inbox' \in [Procs -> Seq(Msgs)]
    BY <1>1 DEF IInv, TypeOK, BrokerTypeOK
  <2> QED
    BY <1>1, <2>1 DEF IInv, TypeOK, BrokerTypeOK, PCs
<1>3. HandleInv'
  BY <1>1 DEF IInv, TypeOK, BrokerTypeOK, HandleInv
<1>4. SeenInv' /\ AckedMeansSent' /\ TermedMeansOffered'
  BY <1>1 DEF IInv, TypeOK, SeenInv, AckedMeansSent, TermedMeansOffered
<1>5. DuplicatesBounded'
  <2> SUFFICES ASSUME NEW e \in Events
               PROVE  sent'[e] <= Cardinality(Knows(e)') + crashes'
    BY DEF DuplicatesBounded
  <2>1. sent[e] \in Nat /\ sent[e] <= Cardinality(Knows(e)) + crashes
    BY DEF IInv, TypeOK, DuplicatesBounded
  <2>2. Knows(e)' = Knows(e) \ {p}
    BY <1>1 DEF IInv, TypeOK, Knows
  <2>3. /\ Cardinality(Knows(e) \ {p}) \in Nat
        /\ Cardinality(Knows(e)) <= Cardinality(Knows(e) \ {p}) + 1
    <3>1. IsFiniteSet(Knows(e)) /\ Cardinality(Knows(e)) \in Nat
      BY KnowsFinite
    <3>2. CASE p \in Knows(e)
      <4>1. /\ IsFiniteSet(Knows(e) \ {p})
            /\ Cardinality(Knows(e) \ {p}) = Cardinality(Knows(e)) - 1
        BY <3>1, <3>2, FS_RemoveElement
      <4>2. Cardinality(Knows(e) \ {p}) \in Nat
        BY <4>1, FS_CardinalityType
      <4> QED
        BY <3>1, <4>1, <4>2
    <3>3. CASE p \notin Knows(e)
      <4>1. Knows(e) \ {p} = Knows(e)
        BY <3>3
      <4> QED
        BY <3>1, <4>1
    <3> QED
      BY <3>2, <3>3
  <2> QED
    BY <1>1, <2>1, <2>2, <2>3, KnowsFinite
<1> QED
  BY <1>2, <1>3, <1>4, <1>5 DEF IInv

(* Every step keeps the invariant. *)
LEMMA StepInv == IInv /\ [Next]_vars => IInv'
<1> SUFFICES ASSUME IInv, [Next]_vars PROVE IInv'
  OBVIOUS
<1>1. CASE BrokerStep
  BY <1>1, DeliverInv, AckWaitInv DEF BrokerStep
<1>2. CASE UNCHANGED vars
  <2>1. TypeOK' /\ HandleInv' /\ SeenInv' /\ AckedMeansSent' /\ TermedMeansOffered'
    BY <1>2 DEF IInv, TypeOK, BrokerTypeOK, HandleInv, SeenInv, AckedMeansSent,
                TermedMeansOffered, vars, broker
  <2>2. DuplicatesBounded'
    BY <1>2, DupStay DEF IInv, Knows, vars
  <2> QED
    BY <2>1, <2>2 DEF IInv
<1>3. ASSUME NEW p \in Procs, ProcStep(p) PROVE IInv'
  BY <1>3, BeginHandleInv, SendOKInv, SendFailsInv, MarkInv, DeadLetterInv, SettleInv
     DEF ProcStep
<1> QED
  BY <1>1, <1>2, <1>3, PublishInv, CrashInv DEF Next, Quiet

(* The invariant holds in every reachable state. *)
THEOREM Invariant == Spec => []IInv
BY InitInv, StepInv, PTL DEF Spec

(* Type correctness of the broker's and the consumers' state, including    *)
(* that NumDelivered never passes MaxDeliver, which makes the first guard  *)
(* of handle (stream.go, line 113) dead code.                              *)
THEOREM TypeCorrect == Spec => []TypeOK
<1>1. IInv => TypeOK
  BY DEF IInv
<1> QED
  BY <1>1, Invariant, PTL

(* An acked event has been sent (stream.go, lines 125-137). *)
THEOREM AckedMeansSentHolds == Spec => []AckedMeansSent
<1>1. IInv => AckedMeansSent
  BY DEF IInv
<1> QED
  BY <1>1, Invariant, PTL

(* A termed event does not parse, or failed its last delivery and was      *)
(* offered to the DLQ (stream.go, lines 106-131).                          *)
THEOREM TermedMeansOfferedHolds == Spec => []TermedMeansOffered
<1>1. IInv => TermedMeansOffered
  BY DEF IInv
<1> QED
  BY <1>1, Invariant, PTL

(* Every send of an event is remembered by a process of its own or was     *)
(* forgotten in a crash of its own (stream.go, lines 120-137).             *)
THEOREM DuplicatesBoundedHolds == Spec => []DuplicatesBounded
<1>1. IInv => DuplicatesBounded
  BY DEF IInv
<1> QED
  BY <1>1, Invariant, PTL

(* The number of welcome messages for one event is bounded by the          *)
(* processes plus the crashes (stream.go, lines 120-137).                  *)
THEOREM SendBudgetHolds == Spec => []SendBudget
<1>1. IInv => SendBudget
  <2> SUFFICES ASSUME IInv, NEW e \in Events
               PROVE  sent[e] <= Cardinality(Procs) + crashes
    BY DEF SendBudget
  <2>1. /\ sent[e] \in Nat /\ crashes \in Nat
        /\ sent[e] <= Cardinality(Knows(e)) + crashes
    BY DEF IInv, TypeOK, DuplicatesBounded
  <2> QED
    BY <2>1, KnowsFinite
<1> QED
  BY <1>1, Invariant, PTL
=============================================================================
