------------------------------ MODULE Consumer ------------------------------
(***************************************************************************)
(* The notification consumer of m09-jetstream/solution-stream, run by a    *)
(* set of processes on one durable JetStream consumer.  Consume calls      *)
(* handle for one message at a time; handle is cut at the points where a   *)
(* crash or the broker can come between two of its effects: after the      *)
(* send, after the mark, after the dead letter, and at the settling call,  *)
(* whose message to the broker may be lost.                                *)
(***************************************************************************)
EXTENDS JetStream

CONSTANTS Malformed,   \* events whose data does not unmarshal
          MaxCrashes   \* bound on the crashes explored

ASSUME ConsumerAssumption == Malformed \subseteq Events /\ MaxCrashes \in Nat

VARIABLES
  pc, cur,   \* where each process is in handle, and the message it handles
  seen,      \* DedupStore.seen of each process, in memory
  sent,      \* welcome messages sent, per event
  dlq,       \* events published on the DLQ subject
  dlqFailed, \* events whose DLQ publish returned the error handle ignores
  crashes    \* crashes so far

vars == <<broker, pc, cur, seen, sent, dlq, dlqFailed, crashes>>

PCs == {"idle", "send", "mark", "ack", "nak", "dlq", "term"}
NoMsg == [event |-> CHOOSE e \in Events : TRUE, num |-> 0]

Init == /\ BrokerInit
        /\ pc = [p \in Procs |-> "idle"]
        /\ cur = [p \in Procs |-> NoMsg]
        /\ seen = [p \in Procs |-> {}]
        /\ sent = [e \in Events |-> 0]
        /\ dlq = {} /\ dlqFailed = {} /\ crashes = 0

GoTo(p, l) == pc' = [pc EXCEPT ![p] = l]

-----------------------------------------------------------------------------
(* Publish: js.Publish with the event ID as MsgID, any number of times. *)
Publish(e) == /\ Store(e)
              /\ UNCHANGED <<pc, cur, seen, sent, dlq, dlqFailed, crashes>>

(* Seeded bug: the dedup store is never consulted. *)
AfterChecks_NoDedup(p, m) == IF m.event \in Malformed THEN "term" ELSE "send"

(* The early returns at the top of handle, down to the call of send. *)
AfterChecks(p, m) == IF m.event \in Malformed THEN "term"
                     ELSE IF m.num > MaxDeliver THEN "dlq"
                     ELSE IF m.event \in seen[p] THEN "ack" ELSE "send"

BeginHandle(p) ==
  /\ pc[p] = "idle" /\ inbox[p] # <<>>
  /\ cur' = [cur EXCEPT ![p] = Head(inbox[p])]
  /\ inbox' = [inbox EXCEPT ![p] = Tail(@)]
  /\ GoTo(p, AfterChecks(p, Head(inbox[p])))
  /\ UNCHANGED <<stored, numDelivered, status, seen, sent, dlq, dlqFailed,
                 crashes>>

(* c.send returns nil. *)
SendOK(p) ==
  /\ pc[p] = "send"
  /\ sent' = [sent EXCEPT ![cur[p].event] = @ + 1]
  /\ GoTo(p, "mark")
  /\ UNCHANGED <<broker, cur, seen, dlq, dlqFailed, crashes>>

(* Seeded bug: off by one, the delivery before the last is dead-lettered. *)
SendFails_TooEarly(p) ==
  /\ pc[p] = "send"
  /\ GoTo(p, IF cur[p].num + 1 >= MaxDeliver THEN "dlq" ELSE "nak")
  /\ UNCHANGED <<broker, cur, seen, sent, dlq, dlqFailed, crashes>>

(* Seeded bug: a failed send is acked. *)
SendFails_Ack(p) ==
  /\ pc[p] = "send"
  /\ GoTo(p, IF cur[p].num >= MaxDeliver THEN "dlq" ELSE "ack")
  /\ UNCHANGED <<broker, cur, seen, sent, dlq, dlqFailed, crashes>>

(* c.send returns an error: dead-letter on the final attempt, else nak. *)
SendFails(p) ==
  /\ pc[p] = "send"
  /\ GoTo(p, IF cur[p].num >= MaxDeliver THEN "dlq" ELSE "nak")
  /\ UNCHANGED <<broker, cur, seen, sent, dlq, dlqFailed, crashes>>

Mark(p) ==
  /\ pc[p] = "mark"
  /\ seen' = [seen EXCEPT ![p] = @ \cup {cur[p].event}]
  /\ GoTo(p, "ack")
  /\ UNCHANGED <<broker, cur, sent, dlq, dlqFailed, crashes>>

(* The DLQ publish, whose error is ignored. *)
DeadLetter(p, ok) ==
  /\ pc[p] = "dlq"
  /\ dlq' = IF ok THEN dlq \cup {cur[p].event} ELSE dlq
  /\ dlqFailed' = IF ok THEN dlqFailed ELSE dlqFailed \cup {cur[p].event}
  /\ GoTo(p, "term")
  /\ UNCHANGED <<broker, cur, seen, sent, crashes>>

(* msg.Ack(), msg.Nak() or msg.Term(); its error is ignored, and it may    *)
(* not reach the broker.                                                   *)
Settle(p, arrives) ==
  /\ pc[p] \in {"ack", "nak", "term"}
  /\ IF arrives THEN Receive(pc[p], cur[p].event) ELSE UNCHANGED status
  /\ GoTo(p, "idle") /\ cur' = [cur EXCEPT ![p] = NoMsg]
  /\ UNCHANGED <<stored, numDelivered, inbox, seen, sent, dlq, dlqFailed,
                 crashes>>

(* The process dies and is started again: what it had in memory is gone,   *)
(* its dedup store included.                                               *)
Crash(p) ==
  /\ crashes < MaxCrashes
  /\ crashes' = crashes + 1
  /\ GoTo(p, "idle") /\ cur' = [cur EXCEPT ![p] = NoMsg]
  /\ seen' = [seen EXCEPT ![p] = {}]
  /\ inbox' = [inbox EXCEPT ![p] = <<>>]
  /\ UNCHANGED <<stored, numDelivered, status, sent, dlq, dlqFailed>>

BrokerStep ==
  /\ \E e \in Events : AckWaitExpires(e) \/ \E p \in Procs : Deliver(p, e)
  /\ UNCHANGED <<pc, cur, seen, sent, dlq, dlqFailed, crashes>>

ProcStep(p) ==
  \/ BeginHandle(p) \/ SendOK(p) \/ SendFails(p) \/ Mark(p)
  \/ \E ok \in BOOLEAN : DeadLetter(p, ok) \/ Settle(p, ok)

(* A copy of e that is still with a process. *)
Held(e) == \E p \in Procs :
             \/ pc[p] # "idle" /\ cur[p].event = e
             \/ \E i \in 1..Len(inbox[p]) : inbox[p][i].event = e

(* Nothing more will ever happen to e. *)
Over(e) == e \in stored /\ ~Held(e) /\ (Settled(e) \/ GivenUp(e))

Quiet == (\A e \in Events : Over(e)) /\ UNCHANGED vars

Next == \/ \E e \in Events : Publish(e)
        \/ \E p \in Procs : ProcStep(p) \/ Crash(p)
        \/ BrokerStep
        \/ Quiet

Spec == Init /\ [][Next]_vars

(* The broker keeps delivering and its AckWait timers fire, processes keep *)
(* running, sends return.  Nothing forces a publish or a crash.            *)
FairSpec == /\ Spec
            /\ WF_vars(BrokerStep)
            /\ \A p \in Procs : WF_vars(ProcStep(p))

-----------------------------------------------------------------------------
TypeOK == /\ BrokerTypeOK
          /\ pc \in [Procs -> PCs]
          /\ cur \in [Procs -> Msgs \cup {NoMsg}]
          /\ seen \in [Procs -> SUBSET Events]
          /\ sent \in [Events -> Nat]
          /\ dlq \subseteq Events /\ dlqFailed \subseteq Events
          /\ crashes \in 0..MaxCrashes

(* An event is acked only after a welcome message for it has been sent:    *)
(* whatever crashes, expires or is delivered twice, an ack never hides an  *)
(* unsent event (handle, lines 120-138).                                   *)
AckedMeansSent == \A e \in Events : status[e] = "acked" => sent[e] > 0

(* Term stops redelivery only of what does not unmarshal and of what has   *)
(* failed its last delivery and has been offered to the DLQ, even when     *)
(* copies of one event are handled by two processes (lines 106-128).       *)
TermedMeansOffered ==
  \A e \in Events : status[e] = "termed" =>
    \/ e \in Malformed
    \/ numDelivered[e] = MaxDeliver /\ e \in dlq \cup dlqFailed

(* The processes that know, in this life, that they have sent e. *)
Knows(e) == {p \in Procs : e \in seen[p] \/ (pc[p] = "mark" /\ cur[p].event = e)}

(* Duplicates come only from a dedup store that cannot know: every send of *)
(* an event is remembered by a process of its own or was forgotten in a    *)
(* crash of its own, however often AckWait expires and whatever acks are   *)
(* lost (lines 120-137).                                                   *)
DuplicatesBounded ==
  \A e \in Events : sent[e] <= Cardinality(Knows(e)) + crashes

(* The number of welcome messages for one event is bounded by the          *)
(* processes and the crashes, whatever the broker repeats (lines 120-137). *)
SendBudget == \A e \in Events : sent[e] <= Cardinality(Procs) + crashes

(* A stored event does not circulate for ever: it is settled, or given up  *)
(* after MaxDeliver deliveries, and no process holds a copy of it.         *)
EventsEnd == \A e \in Events : e \in stored ~> Over(e)

(* M14-capstone.md:82, M09-jetstream.md:134-135: a redelivered event does  *)
(* not send a second welcome message.                                      *)
NoDoubleSend == \A e \in Events : sent[e] <= 1

(* M09-jetstream.md:139-140: events whose deliveries are exhausted are     *)
(* captured "so they're not silently lost".                                *)
NotSilentlyLost ==
  \A e \in Events \ Malformed : Over(e) => sent[e] > 0 \/ e \in dlq

-----------------------------------------------------------------------------
(* The inductive strengthening of the safety properties (ConsumerProofs):  *)
(* what a process's position in handle says of the message it handles.     *)
HandleInv ==
  \A p \in Procs :
    /\ pc[p] # "idle" => cur[p] \in Msgs /\ cur[p].num <= numDelivered[cur[p].event]
    /\ \A i \in 1..Len(inbox[p]) : inbox[p][i].num <= numDelivered[inbox[p][i].event]
    /\ pc[p] = "send" => cur[p].event \notin seen[p]
    /\ pc[p] \in {"mark", "ack"} => sent[cur[p].event] > 0
    /\ pc[p] = "dlq" => cur[p].num = MaxDeliver
    /\ pc[p] = "term" =>
         \/ cur[p].event \in Malformed
         \/ cur[p].num = MaxDeliver /\ cur[p].event \in dlq \cup dlqFailed

SeenInv == \A p \in Procs : \A e \in seen[p] : sent[e] > 0

IInv == /\ TypeOK /\ HandleInv /\ SeenInv /\ DuplicatesBounded
        /\ AckedMeansSent /\ TermedMeansOffered
=============================================================================
