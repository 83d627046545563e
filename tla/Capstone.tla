------------------------------ MODULE Capstone ------------------------------
(***************************************************************************)
(* The capstone slice of m14: POST /v1/customers stores a customer in the  *)
(* memory of the process that serves it and publishes                      *)
(* cxm.customer.created; the consumer of m14/events in each process turns  *)
(* the event into a welcome message.  Its handle is written here from      *)
(* m14's own code, cut where a crash or the broker can come between two    *)
(* effects; it has no first guard on NumDelivered, as m09's handle has,    *)
(* and Consumer, the model of m09, is only what it is compared with.       *)
(*                                                                         *)
(* A process that dies takes its customers and its requests with it; the   *)
(* stream outlives it.  (cmd/pulse is a demo that deletes the stream when  *)
(* it starts; what is modelled is the service, started again without that  *)
(* line.)                                                                  *)
(*                                                                         *)
(* A customer's random ID is the ID of its event and the MsgID; IDs are    *)
(* assumed not to collide, so a request is named by the ID it will get.    *)
(***************************************************************************)
EXTENDS Naturals, Sequences, FiniteSets

CONSTANTS Events, Procs, MaxDeliver, Malformed, MaxCrashes,
          Invalid   \* requests whose body or fields do not validate

ASSUME CapstoneAssumption ==
         /\ IsFiniteSet(Events) /\ IsFiniteSet(Procs) /\ MaxDeliver \in Nat \ {0}
         /\ MaxCrashes \in Nat /\ Invalid \subseteq Events /\ Malformed = {}

VARIABLES
  stored, numDelivered, status, inbox,              \* the broker
  pc, cur, seen, sent, dlq, dlqFailed, crashes,     \* the consumers
  req,        \* progress of each POST: "none", "stored", "published",
              \* "created" (201), "rejected" (400) or "aborted" by a crash
  home,       \* the process that serves the request
  byID,       \* Handler.byID of each process
  pubFailed   \* requests whose publish returned an error, which is ignored

B == INSTANCE JetStream   \* the broker
C == INSTANCE Consumer    \* m09's consumer, for comparison

broker     == <<stored, numDelivered, status, inbox>>
handleVars == <<pc, cur, seen, sent, dlq, dlqFailed>>
consumer   == <<broker, handleVars, crashes>>
apiVars    == <<req, home, byID, pubFailed>>
vars       == <<consumer, apiVars>>

NoMsg == [event |-> CHOOSE e \in Events : TRUE, num |-> 0]

(* NewHandler, in every process. *)
HandlerInit == byID = [p \in Procs |-> {}]

(* main: a fresh stream, the consumer started, then the handler. *)
Init == /\ B!BrokerInit /\ HandlerInit
        /\ pc = [p \in Procs |-> "idle"] /\ cur = [p \in Procs |-> NoMsg]
        /\ seen = [p \in Procs |-> {}] /\ sent = [e \in Events |-> 0]
        /\ dlq = {} /\ dlqFailed = {} /\ crashes = 0
        /\ req = [e \in Events |-> "none"]
        /\ home \in [Events -> Procs]
        /\ pubFailed = {}

(* LoggingSender has counted a send of this event. *)
Welcomed(e) == sent[e] > 0

-----------------------------------------------------------------------------
(* create: the request does not validate. *)
Reject(e) == /\ req[e] = "none" /\ e \in Invalid
             /\ req' = [req EXCEPT ![e] = "rejected"]
             /\ UNCHANGED <<consumer, home, byID, pubFailed>>

(* Seeded bug: the event is published first and the customer stored later. *)
StoreCustomer_Later(e) ==
             /\ req[e] = "none" /\ e \notin Invalid
             /\ req' = [req EXCEPT ![e] = "stored"]
             /\ UNCHANGED <<consumer, home, byID, pubFailed>>

(* create: the customer is stored under the lock. *)
StoreCustomer(e) ==
             /\ req[e] = "none" /\ e \notin Invalid
             /\ byID' = [byID EXCEPT ![home[e]] = @ \cup {e}]
             /\ req' = [req EXCEPT ![e] = "stored"]
             /\ UNCHANGED <<consumer, home, pubFailed>>

(* Seeded bug: the handler does not wait for its publish. *)
PublishCreated_Async(e, persisted, ok) ==
             /\ req[e] = "stored"
             /\ (ok => persisted)
             /\ req' = [req EXCEPT ![e] = "published"]
             /\ UNCHANGED <<consumer, home, byID, pubFailed>>

(* create: PublishCustomerCreated.  The broker may persist the event and   *)
(* the caller still get an error (a lost ack, a cancelled r.Context()).    *)
PublishCreated(e, persisted, ok) ==
             /\ req[e] = "stored"
             /\ (ok => persisted)
             /\ IF persisted THEN B!Store(e) ELSE UNCHANGED broker
             /\ pubFailed' = IF ok THEN pubFailed ELSE pubFailed \cup {e}
             /\ req' = [req EXCEPT ![e] = "published"]
             /\ UNCHANGED <<handleVars, crashes, home, byID>>

Respond(e) == /\ req[e] = "published"
              /\ req' = [req EXCEPT ![e] = "created"]
              /\ UNCHANGED <<consumer, home, byID, pubFailed>>

(* Seeded bug: the event is marked before it is sent, so that a failed     *)
(* send is taken for a success when the event comes back.                  *)
HandleChecks_MarkFirst(p) ==
  LET e == Head(inbox[p]).event
  IN  /\ pc[p] = "idle" /\ inbox[p] # <<>>
      /\ cur' = [cur EXCEPT ![p] = Head(inbox[p])]
      /\ inbox' = [inbox EXCEPT ![p] = Tail(@)]
      /\ pc' = [pc EXCEPT ![p] = IF e \in seen[p] THEN "ack" ELSE "send"]
      /\ seen' = [seen EXCEPT ![p] = @ \cup {e}]
      /\ UNCHANGED <<stored, numDelivered, status, sent, dlq, dlqFailed, crashes, apiVars>>

(* handle takes the oldest message, unmarshals it and asks the dedup store *)
(* for its ID.                                                             *)
HandleChecks(p) ==
  LET e == Head(inbox[p]).event
  IN  /\ pc[p] = "idle" /\ inbox[p] # <<>>
      /\ cur' = [cur EXCEPT ![p] = Head(inbox[p])]
      /\ inbox' = [inbox EXCEPT ![p] = Tail(@)]
      /\ pc' = [pc EXCEPT ![p] = IF e \in Malformed THEN "term"
                                 ELSE IF e \in seen[p] THEN "ack" ELSE "send"]
      /\ UNCHANGED <<stored, numDelivered, status, seen, sent, dlq, dlqFailed, crashes,
                     apiVars>>

(* Seeded bug: the error of send is dropped and the event marked. *)
HandleSend_IgnoreError(p, ok) ==
  /\ pc[p] = "send"
  /\ sent' = IF ok THEN [sent EXCEPT ![cur[p].event] = @ + 1] ELSE sent
  /\ pc' = [pc EXCEPT ![p] = "mark"]
  /\ UNCHANGED <<broker, cur, seen, dlq, dlqFailed, crashes, apiVars>>

(* c.send.  After an error the delivery count decides between the dead     *)
(* letter and a nak.                                                       *)
HandleSend(p, ok) ==
  /\ pc[p] = "send"
  /\ sent' = IF ok THEN [sent EXCEPT ![cur[p].event] = @ + 1] ELSE sent
  /\ pc' = [pc EXCEPT ![p] = IF ok THEN "mark"
                             ELSE IF cur[p].num >= MaxDeliver THEN "dlq" ELSE "nak"]
  /\ UNCHANGED <<broker, cur, seen, dlq, dlqFailed, crashes, apiVars>>

(* The dead letter; the error of its publish is ignored. *)
HandleDeadLetter(p, ok) ==
  /\ pc[p] = "dlq"
  /\ \/ ok  /\ dlq' = dlq \cup {cur[p].event} /\ UNCHANGED dlqFailed
     \/ ~ok /\ dlqFailed' = dlqFailed \cup {cur[p].event} /\ UNCHANGED dlq
  /\ pc' = [pc EXCEPT ![p] = "term"]
  /\ UNCHANGED <<broker, cur, seen, sent, crashes, apiVars>>

HandleMark(p) ==
  /\ pc[p] = "mark"
  /\ seen' = [seen EXCEPT ![p] = @ \cup {cur[p].event}]
  /\ pc' = [pc EXCEPT ![p] = "ack"]
  /\ UNCHANGED <<broker, cur, sent, dlq, dlqFailed, crashes, apiVars>>

(* The Ack, Nak or Term handle ends with; it may be lost on its way. *)
HandleSettle(p, arrives) ==
  /\ pc[p] \in {"ack", "nak", "term"}
  /\ IF arrives THEN B!Receive(pc[p], cur[p].event) ELSE UNCHANGED status
  /\ pc' = [pc EXCEPT ![p] = "idle"] /\ cur' = [cur EXCEPT ![p] = NoMsg]
  /\ UNCHANGED <<stored, numDelivered, inbox, seen, sent, dlq, dlqFailed, crashes, apiVars>>

(* A process dies: what it had prefetched, the message in hand, its dedup  *)
(* store, its customers and the requests in it are gone.                   *)
Crash(p) ==
  /\ crashes < MaxCrashes /\ crashes' = crashes + 1
  /\ inbox' = [inbox EXCEPT ![p] = <<>>]
  /\ pc' = [pc EXCEPT ![p] = "idle"] /\ cur' = [cur EXCEPT ![p] = NoMsg]
  /\ seen' = [seen EXCEPT ![p] = {}]
  /\ byID' = [byID EXCEPT ![p] = {}]
  /\ req' = [e \in Events |->
               IF home[e] = p /\ req[e] \in {"stored", "published"}
               THEN "aborted" ELSE req[e]]
  /\ UNCHANGED <<stored, numDelivered, status, sent, dlq, dlqFailed, home, pubFailed>>

Broker == /\ \E e \in Events : \/ B!AckWaitExpires(e)
                               \/ \E p \in Procs : B!Deliver(p, e)
          /\ UNCHANGED <<handleVars, crashes, apiVars>>

RequestStep(e) ==
  \/ Reject(e) \/ StoreCustomer(e) \/ Respond(e)
  \/ \E persisted, ok \in BOOLEAN : PublishCreated(e, persisted, ok)

ConsumerStep(p) ==
  \/ HandleChecks(p) \/ HandleMark(p)
  \/ \E ok \in BOOLEAN : HandleSend(p, ok) \/ HandleDeadLetter(p, ok) \/ HandleSettle(p, ok)

Answered(e) == req[e] \in {"created", "rejected", "aborted"}

(* Every request is answered and no event is left to deliver or to handle. *)
Quiet == /\ \A e \in Events : /\ Answered(e)
                              /\ e \in stored => B!Settled(e) \/ B!GivenUp(e)
         /\ \A p \in Procs : pc[p] = "idle" /\ inbox[p] = <<>>
         /\ UNCHANGED vars

Next == \/ \E e \in Events : RequestStep(e)
        \/ \E p \in Procs : ConsumerStep(p) \/ Crash(p)
        \/ Broker \/ Quiet

Spec == Init /\ [][Next]_vars

FairSpec == /\ Spec
            /\ \A e \in Events : WF_vars(RequestStep(e))
            /\ \A p \in Procs : WF_vars(ConsumerStep(p))
            /\ WF_vars(Broker)

-----------------------------------------------------------------------------
(* The consumer never meets an event whose customer is not yet stored, and *)
(* nobody is welcomed whose request was refused: store comes before        *)
(* publish (handler.go, lines 50-73).                                      *)
WelcomeIsForCustomer ==
  \A e \in Events : e \in stored \/ Welcomed(e) =>
    /\ e \notin Invalid /\ req[e] \notin {"none", "rejected", "stored"}
    /\ crashes = 0 => e \in byID[home[e]]

(* A 201 without an event in the stream goes back to a publish error that  *)
(* create ignores (handler.go, line 71), never to a crash: the crash would *)
(* have kept the 201 from being sent.                                      *)
CreatedMeansPublished ==
  \A e \in Events : req[e] = "created" => e \in stored \cup pubFailed

(* m14's handle, which has lost the first guard of m09's, still does what  *)
(* m09's does, with the REST side and its crashes around it: no delivery   *)
(* the broker makes can reach that guard, so leaving it out changes        *)
(* nothing, and what is proved of Consumer holds here (events.go, lines    *)
(* 106-128).                                                               *)
ImplementsConsumer == C!Spec

(* A customer created with its event in the stream is welcomed or parked,  *)
(* unless the DLQ publish failed or the last delivery was lost.            *)
CreatedIsWelcomed ==
  \A e \in Events :
    (req[e] = "created" /\ e \in stored) ~>
       (Welcomed(e) \/ e \in dlq \cup dlqFailed \/ B!GivenUp(e))
=============================================================================
