----------------------------- MODULE JetStream ------------------------------
(***************************************************************************)
(* The part of NATS JetStream that m09 and m14 rely on: a stream that      *)
(* stores each MsgID once, and one durable pull consumer (AckExplicit,     *)
(* AckWait, MaxDeliver, filtered to cxm.customer.created) shared by the    *)
(* processes that run it.  External: the broker is not part of the         *)
(* repository; what is modelled is what stream.go configures and uses.     *)
(***************************************************************************)
EXTENDS Naturals, Sequences, FiniteSets

CONSTANTS Events,      \* event IDs, which are also the MsgIDs
          Procs,       \* processes that run the durable consumer
          MaxDeliver   \* ConsumerConfig.MaxDeliver

ASSUME BrokerAssumption == /\ IsFiniteSet(Events) /\ IsFiniteSet(Procs)
                           /\ MaxDeliver \in Nat \ {0}

VARIABLES
  stored,     \* events in the stream on the .created subject
  numDelivered,  \* how often each event has been delivered
  status,     \* "ready" to be delivered, "out" with AckWait running,
              \* "acked" or "termed"
  inbox       \* messages prefetched by each process, oldest first

broker == <<stored, numDelivered, status, inbox>>

Msgs == [event : Events, num : 1..MaxDeliver]

BrokerInit == /\ stored = {}
              /\ numDelivered = [e \in Events |-> 0]
              /\ status = [e \in Events |-> "ready"]
              /\ inbox = [p \in Procs |-> <<>>]

(* js.Publish with a MsgID: the stream keeps one message per MsgID within  *)
(* its duplicate window.                                                   *)
Store(e) == /\ stored' = stored \cup {e}
            /\ UNCHANGED <<numDelivered, status, inbox>>

(* Seeded bug: a consumer without MaxDeliver, whose delivery count saturates. *)
Deliver_Saturating(p, e) ==
  LET num == IF numDelivered[e] < MaxDeliver THEN numDelivered[e] + 1 ELSE MaxDeliver
  IN  /\ e \in stored /\ status[e] = "ready"
      /\ numDelivered' = [numDelivered EXCEPT ![e] = num]
      /\ status' = [status EXCEPT ![e] = "out"]
      /\ inbox' = [inbox EXCEPT ![p] = Append(@, [event |-> e, num |-> num])]
      /\ UNCHANGED stored

(* The broker hands a message to one of the processes, at most MaxDeliver  *)
(* times; Metadata().NumDelivered travels with it.                         *)
Deliver(p, e) ==
  /\ e \in stored /\ status[e] = "ready" /\ numDelivered[e] < MaxDeliver
  /\ numDelivered' = [numDelivered EXCEPT ![e] = @ + 1]
  /\ status' = [status EXCEPT ![e] = "out"]
  /\ inbox' = [inbox EXCEPT ![p] =
                 Append(@, [event |-> e, num |-> numDelivered[e] + 1])]
  /\ UNCHANGED stored

(* AckWait runs out: the message may be redelivered, although the process  *)
(* that has it may be alive and working on it.                             *)
AckWaitExpires(e) == /\ status[e] = "out"
                     /\ status' = [status EXCEPT ![e] = "ready"]
                     /\ UNCHANGED <<stored, numDelivered, inbox>>

(* An ack, nak or term reaches the broker, however late: an ack or a term  *)
(* settles the message for good, a nak only asks for another delivery.     *)
Settled(e) == status[e] \in {"acked", "termed"}

Receive(kind, e) ==
  status' = [status EXCEPT ![e] =
    IF Settled(e) THEN @
    ELSE IF kind = "nak" THEN "ready"
    ELSE IF kind = "ack" THEN "acked" ELSE "termed"]

(* The broker has given up: MaxDeliver deliveries, none of them settled.   *)
GivenUp(e) == status[e] = "ready" /\ numDelivered[e] = MaxDeliver

BrokerTypeOK == /\ stored \subseteq Events
                /\ numDelivered \in [Events -> 0..MaxDeliver]
                /\ status \in [Events -> {"ready", "out", "acked", "termed"}]
                /\ inbox \in [Procs -> Seq(Msgs)]
=============================================================================
