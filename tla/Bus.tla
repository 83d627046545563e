-------------------------------- MODULE Bus ---------------------------------
(***************************************************************************)
(* The typed wrapper over core NATS of m08-nats-core and the demo that     *)
(* drives it: main subscribes a queue group of workers and a responder,    *)
(* publishes a batch, flushes, makes one request, sleeps and prints what   *)
(* the handlers counted.  Plain subscribers, which the demo could have and *)
(* the package's tests do, use the wrapper's Subscribe.                    *)
(*                                                                         *)
(* Every subscription has a goroutine of its own.  NATS is external: what  *)
(* one connection sends is processed in order, a message for a group goes  *)
(* to one member, nothing is stored, and a broken connection loses what is *)
(* on its way.                                                             *)
(***************************************************************************)
EXTENDS Naturals, Sequences, FiniteSets

CONSTANTS Batch,       \* the events main publishes, a sequence without repeats
          Malformed,   \* those whose payload does not decode
          Workers,     \* members of the queue group
          Plain,       \* subscribers outside the group
          MaxBreaks    \* bound on broken connections

BatchEvents == {Batch[i] : i \in DOMAIN Batch}

ASSUME BusAssumption ==
         /\ Batch \in Seq(BatchEvents) /\ "request" \notin BatchEvents
         /\ \A i, j \in DOMAIN Batch : Batch[i] = Batch[j] => i = j
         /\ Malformed \subseteq BatchEvents /\ Workers \cap Plain = {}
         /\ IsFiniteSet(Workers) /\ Workers # {} /\ MaxBreaks \in Nat

VARIABLES
  demo,       \* where main is
  subs,       \* subscriptions made
  published,  \* number of events published
  wire,       \* messages the server has not processed
  inbox,      \* messages waiting in each subscription
  hand,       \* the handler of a worker: <<>> or the event it works on
  byWorker, handled,   \* the demo's counters: a map, and an atomic total
  fnCalls,    \* history: calls of the handlers, as <<subscriber, event>>
  flushed,    \* Flush has returned nil
  request,    \* "none", "sent", "served", "answered" or "timeout"
  printed,    \* what main prints: <<>>, or <<handled, entries of byWorker>>
  due,        \* entries that main's loop over byWorker still has to reach
  breaks      \* connections broken

lookup  == <<flushed, request>>
output  == <<printed, due>>
busVars == <<demo, subs, published, wire, inbox, hand, byWorker, handled,
             fnCalls, lookup, output, breaks>>

Members == subs \cap Workers
Running == demo # "exited"

BusInit == /\ demo = "subscribe" /\ subs = {} /\ published = 0 /\ wire = <<>>
           /\ inbox = [s \in Workers \cup Plain |-> <<>>]
           /\ hand = [w \in Workers |-> <<>>]
           /\ byWorker = [w \in {} |-> 0] /\ handled = 0 /\ fnCalls = {}
           /\ flushed = FALSE /\ request = "none" /\ printed = <<>> /\ due = {}
           /\ breaks = 0

-----------------------------------------------------------------------------
QueueSubscribe(w) ==
  /\ demo = "subscribe" /\ w \in Workers \ subs /\ subs' = subs \cup {w}
  /\ UNCHANGED <<demo, published, wire, inbox, hand, byWorker, handled, fnCalls,
                 lookup, output, breaks>>

Subscribe(s) ==
  /\ demo = "subscribe" /\ s \in Plain \ subs /\ subs' = subs \cup {s}
  /\ UNCHANGED <<demo, published, wire, inbox, hand, byWorker, handled, fnCalls,
                 lookup, output, breaks>>

ServeReply ==
  /\ demo = "subscribe" /\ subs = Workers \cup Plain /\ demo' = "publish"
  /\ UNCHANGED <<subs, published, wire, inbox, hand, byWorker, handled, fnCalls,
                 lookup, output, breaks>>

Publish ==
  /\ demo = "publish" /\ published < Len(Batch)
  /\ wire' = Append(wire, Batch[published + 1]) /\ published' = published + 1
  /\ UNCHANGED <<demo, subs, inbox, hand, byWorker, handled, fnCalls, lookup,
                 output, breaks>>

(* Flush returns nil when the server has processed what was published, or  *)
(* an error when that takes too long; main goes on in either case, and its *)
(* request follows what is still on the wire.                              *)
Flush(ok) ==
  /\ demo = "publish" /\ published = Len(Batch) /\ (ok => wire = <<>>)
  /\ flushed' = ok /\ demo' = "request"
  /\ request' = "sent" /\ wire' = Append(wire, "request")
  /\ UNCHANGED <<subs, published, inbox, hand, byWorker, handled, fnCalls,
                 output, breaks>>

(* Seeded bug: the group is not named, and every worker gets a copy. *)
Recipients_NoGroup(e) == {subs}

(* One member of the group, and every plain subscriber. *)
Recipients(e) == {(subs \cap Plain) \cup {w} : w \in Members}

Route ==
  /\ Running /\ wire # <<>> /\ wire' = Tail(wire)
  /\ \/ /\ Head(wire) = "request" /\ request' = "served"
        /\ UNCHANGED inbox
     \/ /\ Head(wire) # "request" /\ UNCHANGED request
        /\ \E to \in Recipients(Head(wire)) :
             inbox' = [s \in DOMAIN inbox |->
                         IF s \in to THEN Append(inbox[s], Head(wire)) ELSE inbox[s]]
  /\ UNCHANGED <<demo, subs, published, hand, byWorker, handled, fnCalls, flushed,
                 output, breaks>>

(* The connection breaks and comes back: MaxReconnects(-1). *)
Break ==
  /\ Running /\ breaks < MaxBreaks /\ breaks' = breaks + 1 /\ wire' = <<>>
  /\ UNCHANGED <<demo, subs, published, inbox, hand, byWorker, handled, fnCalls,
                 lookup, output>>

-----------------------------------------------------------------------------
Take(s) == inbox' = [inbox EXCEPT ![s] = Tail(@)]

(* The callbacks: a payload that does not decode is dropped. *)
DropMalformed(s) ==
  /\ Running /\ inbox[s] # <<>> /\ Head(inbox[s]) \in Malformed /\ Take(s)
  /\ s \in Workers => hand[s] = <<>>
  /\ UNCHANGED <<demo, subs, published, wire, hand, byWorker, handled, fnCalls,
                 lookup, output, breaks>>

CallPlain(s) ==
  /\ Running /\ inbox[s] # <<>> /\ Head(inbox[s]) \notin Malformed /\ Take(s)
  /\ fnCalls' = fnCalls \cup {<<s, Head(inbox[s])>>}
  /\ UNCHANGED <<demo, subs, published, wire, hand, byWorker, handled, lookup,
                 output, breaks>>

(* Seeded bug: the total is counted first. *)
HandlerCounts_TotalFirst == <<"handled", "byWorker">>

(* The counters of the worker's handler, in the order it increments them:  *)
(* its own under the mutex, then the total.                                *)
HandlerCounts == <<"byWorker", "handled">>

(* byWorker[w]++ makes the entry when there is none. *)
CountOf(w) == IF w \in DOMAIN byWorker THEN byWorker[w] ELSE 0

Increment(counter, w) ==
  /\ byWorker' = IF counter = "byWorker"
                 THEN [v \in DOMAIN byWorker \cup {w} |->
                         IF v = w THEN CountOf(w) + 1 ELSE byWorker[v]]
                 ELSE byWorker
  /\ handled' = IF counter = "handled" THEN handled + 1 ELSE handled

(* The handler of w is about to be called, and to write to the map. *)
MayCall(w) == hand[w] = <<>> /\ inbox[w] # <<>> /\ Head(inbox[w]) \notin Malformed

CallWorker(w) ==
  /\ Running /\ MayCall(w)
  /\ Take(w) /\ hand' = [hand EXCEPT ![w] = <<Head(inbox[w])>>]
  /\ Increment(HandlerCounts[1], w)
  /\ fnCalls' = fnCalls \cup {<<w, Head(inbox[w])>>}
  /\ UNCHANGED <<demo, subs, published, wire, lookup, output, breaks>>

HandlerReturns(w) ==
  /\ Running /\ hand[w] # <<>> /\ hand' = [hand EXCEPT ![w] = <<>>]
  /\ Increment(HandlerCounts[2], w)
  /\ UNCHANGED <<demo, subs, published, wire, inbox, fnCalls, lookup, output,
                 breaks>>

-----------------------------------------------------------------------------
(* The responder runs and the reply reaches the waiting Request. *)
Respond ==
  /\ demo = "request" /\ request = "served" /\ request' = "answered" /\ demo' = "sleep"
  /\ UNCHANGED <<subs, published, wire, inbox, hand, byWorker, handled, fnCalls,
                 flushed, output, breaks>>

(* Request times out, and log.Fatalf exits without the deferred Drain. *)
RequestTimesOut ==
  /\ demo = "request" /\ request' = "timeout" /\ demo' = "exited"
  /\ UNCHANGED <<subs, published, wire, inbox, hand, byWorker, handled, fnCalls,
                 flushed, output, breaks>>

(* After the sleep main loads the total and then goes over the map without *)
(* the mutex.  The entries there are when it begins are reached, each      *)
(* once, and one that is made meanwhile may be.                            *)
LoadHandled ==
  /\ demo = "sleep" /\ printed = <<>>
  /\ printed' = <<handled, {}>> /\ due' = DOMAIN byWorker
  /\ UNCHANGED <<demo, subs, published, wire, inbox, hand, byWorker, handled,
                 fnCalls, lookup, breaks>>

(* What main may find for w: its count or, because of the race, an entry   *)
(* the handler is about to set to one.                                     *)
EntryOf(w) == IF w \in DOMAIN byWorker THEN {byWorker[w]}
              ELSE IF MayCall(w) THEN {0} ELSE {}

PrintByWorker(w) ==
  /\ demo = "sleep" /\ printed # <<>> /\ w \notin {x[1] : x \in printed[2]}
  /\ \E n \in EntryOf(w) : printed' = <<printed[1], printed[2] \cup {<<w, n>>}>>
  /\ due' = due \ {w}
  /\ UNCHANGED <<demo, subs, published, wire, inbox, hand, byWorker, handled,
                 fnCalls, lookup, breaks>>

MainReturns ==
  /\ demo = "sleep" /\ printed # <<>> /\ due = {} /\ demo' = "exited"
  /\ UNCHANGED <<subs, published, wire, inbox, hand, byWorker, handled, fnCalls,
                 lookup, output, breaks>>

(* A handler that writes to the map meanwhile can end the process with a   *)
(* fatal error of the runtime.                                             *)
ConcurrentMapWrite(w) ==
  /\ demo = "sleep" /\ printed # <<>> /\ MayCall(w) /\ demo' = "exited"
  /\ UNCHANGED <<subs, published, wire, inbox, hand, byWorker, handled, fnCalls,
                 lookup, output, breaks>>

DemoMain == \/ \E w \in Workers : QueueSubscribe(w)
            \/ \E s \in Plain : Subscribe(s)
            \/ ServeReply \/ Publish \/ Respond \/ RequestTimesOut
            \/ LoadHandled \/ MainReturns \/ \E ok \in BOOLEAN : Flush(ok)
            \/ \E w \in Workers : PrintByWorker(w) \/ ConcurrentMapWrite(w)

BusNext == \/ DemoMain \/ Route \/ Break
           \/ \E s \in Plain : CallPlain(s)
           \/ \E w \in Workers : CallWorker(w) \/ HandlerReturns(w)
           \/ \E s \in Workers \cup Plain : DropMalformed(s)

BusSpec == BusInit /\ [][BusNext]_busVars

-----------------------------------------------------------------------------
With(s) == {e \in BatchEvents : <<s, e>> \in fnCalls} \cup
           {inbox[s][i] : i \in DOMAIN inbox[s]}
OnWire  == {wire[i] : i \in DOMAIN wire}
Sent    == {Batch[i] : i \in 1..published} \ Malformed

(* No event is handled by two members of the group; and as long as the     *)
(* connection holds, every event published is on its way or has reached    *)
(* one member and all other subscribers, and none is on its way once Flush *)
(* has returned nil, or, when main ignored its error, once the request     *)
(* that followed them has been served (bus.go, lines 30-66; the demo's     *)
(* lines 31 and 61-64).                                                    *)
QueueGroupOnce ==
  /\ \A v, w \in Workers : v # w => With(v) \cap With(w) = {}
  /\ breaks = 0 =>
       /\ Sent \ OnWire \subseteq UNION {With(w) : w \in Workers}
       /\ \A s \in Plain : Sent \ OnWire \subseteq With(s)
       /\ flushed \/ request \in {"served", "answered"} => Sent \cap OnWire = {}

(* As many pairs as the counts in S, a set of pairs <<worker, count>>, add *)
(* up to.                                                                  *)
Tally(S) == UNION {{x[1]} \X (1..x[2]) : x \in S}

(* Whenever the sleep ends and whatever the handlers do meanwhile, the     *)
(* total the demo prints is at most the sum of the counts it prints, though*)
(* a worker without an entry is left out, and the sum at most the batch    *)
(* (main.go, lines 34-44 and 69-71).                                       *)
PrintedConsistent ==
  printed # <<>> /\ due = {} =>
    LET sum == Cardinality(Tally(printed[2]))
    IN  printed[1] <= sum /\ sum <= Cardinality(BatchEvents \ Malformed)
=============================================================================
