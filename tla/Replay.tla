------------------------------- MODULE Replay -------------------------------
(***************************************************************************)
(* The demo of m09-jetstream: main starts a consumer on a fresh stream,    *)
(* publishes events (one of them twice), sleeps and stops the consumer,    *)
(* then starts a second durable consumer, which reads the stream from the  *)
(* beginning and shares the dedup store of the first.                      *)
(*                                                                         *)
(* Each consumer calls handle in one goroutine of its own.  Stop delivers  *)
(* nothing more but does not wait for a handle that runs.  JetStream is    *)
(* external: it stores a MsgID once, gives an unacked event to a consumer  *)
(* again, and may lose an ack.  The demo's sends do not fail.              *)
(***************************************************************************)
EXTENDS Naturals, Sequences, FiniteSets

CONSTANTS Published   \* the IDs main publishes, in order, one repeated

ASSUME PublishedAssumption == Published \in Seq(STRING)

Durables == {"notify-workers", "replay-audit"}
Ids      == {Published[i] : i \in DOMAIN Published}

VARIABLES
  stage,      \* main: "publish", "stopped", "replay" or "printed"
  nPublished, \* events published
  streamMsgs, \* messages stored in the stream
  consuming,  \* consumers that take messages
  handling,   \* by consumer: NoEvent or [id, step]
  ackedBy,    \* by consumer: IDs whose ack arrived
  dedup,      \* the shared DedupStore
  sendsBy     \* by consumer: calls of its send function, in order

replayVars == <<stage, nPublished, streamMsgs, consuming, handling, ackedBy,
                dedup, sendsBy>>

Idle(d) == handling[d].step = "idle"
StoredIds == {streamMsgs[i] : i \in DOMAIN streamMsgs}
Resting == [id |-> "", step |-> "idle"]

(* A fresh stream, and the first consumer started. *)
ReplayInit ==
  /\ stage = "publish" /\ nPublished = 0 /\ streamMsgs = <<>>
  /\ consuming = {"notify-workers"}
  /\ handling = [d \in Durables |-> Resting]
  /\ ackedBy = [d \in Durables |-> {}] /\ dedup = {}
  /\ sendsBy = [d \in Durables |-> <<>>]

(* Publish, whose error main ignores; a MsgID that is stored already is    *)
(* not stored again.                                                       *)
PublishNext ==
  /\ stage = "publish" /\ nPublished < Len(Published)
  /\ nPublished' = nPublished + 1
  /\ LET id == Published[nPublished'] IN
     \/ id \notin StoredIds /\ streamMsgs' = Append(streamMsgs, id)
     \/ UNCHANGED streamMsgs
  /\ UNCHANGED <<stage, consuming, handling, ackedBy, dedup, sendsBy>>

(* The sleep ends, whatever has been handled, and stop() is called. *)
StopFirst ==
  /\ stage = "publish" /\ nPublished = Len(Published)
  /\ stage' = "stopped" /\ consuming' = {}
  /\ UNCHANGED <<nPublished, streamMsgs, handling, ackedBy, dedup, sendsBy>>

StartReplay ==
  /\ stage = "stopped" /\ stage' = "replay" /\ consuming' = {"replay-audit"}
  /\ UNCHANGED <<nPublished, streamMsgs, handling, ackedBy, dedup, sendsBy>>

(* After another sleep the totals are printed and the process exits. *)
PrintReplay ==
  /\ stage = "replay" /\ stage' = "printed"
  /\ UNCHANGED <<nPublished, streamMsgs, consuming, handling, ackedBy, dedup,
                 sendsBy>>

-----------------------------------------------------------------------------
(* Seeded bug: the replay consumer gets a dedup store of its own. *)
SeenBefore_Own(d, id) == d = "notify-workers" /\ id \in dedup

SeenBefore(d, id) == id \in dedup

(* handle up to the call of send: an event seen before is only acked. *)
HandleBegins(d) ==
  /\ stage # "printed" /\ d \in consuming /\ Idle(d)
  /\ \E id \in StoredIds \ ackedBy[d] :
       handling' = [handling EXCEPT ![d] =
         [id |-> id, step |-> IF SeenBefore(d, id) THEN "ack" ELSE "send"]]
  /\ UNCHANGED <<stage, nPublished, streamMsgs, consuming, ackedBy, dedup, sendsBy>>

HandleSends(d) ==
  /\ stage # "printed" /\ handling[d].step = "send"
  /\ sendsBy' = [sendsBy EXCEPT ![d] = Append(@, handling[d].id)]
  /\ handling' = [handling EXCEPT ![d].step = "mark"]
  /\ UNCHANGED <<stage, nPublished, streamMsgs, consuming, ackedBy, dedup>>

HandleMarks(d) ==
  /\ stage # "printed" /\ handling[d].step = "mark"
  /\ dedup' = dedup \cup {handling[d].id}
  /\ handling' = [handling EXCEPT ![d].step = "ack"]
  /\ UNCHANGED <<stage, nPublished, streamMsgs, consuming, ackedBy, sendsBy>>

HandleAcks(d) ==
  /\ stage # "printed" /\ handling[d].step = "ack"
  /\ ackedBy' \in {ackedBy, [ackedBy EXCEPT ![d] = @ \cup {handling[d].id}]}
  /\ handling' = [handling EXCEPT ![d] = Resting]
  /\ UNCHANGED <<stage, nPublished, streamMsgs, consuming, dedup, sendsBy>>

ReplayNext ==
  \/ PublishNext \/ StopFirst \/ StartReplay \/ PrintReplay
  \/ \E d \in Durables : \/ HandleBegins(d) \/ HandleSends(d)
                         \/ HandleMarks(d) \/ HandleAcks(d)

ReplaySpec == ReplayInit /\ [][ReplayNext]_replayVars

-----------------------------------------------------------------------------
SentBy(d) == {sendsBy[d][i] : i \in DOMAIN sendsBy[d]}

(* What holds of the replay: no consumer sends an event twice, the         *)
(* repeated MsgID is stored once, and the replay repeats at most the one   *)
(* event whose handle still ran when the first consumer was stopped, since *)
(* every earlier one was marked (main.go of m09, lines 57-80).             *)
ReplayRepeatsAtMostOne ==
  /\ \A d \in Durables : Len(sendsBy[d]) = Cardinality(SentBy(d))
  /\ Len(streamMsgs) = Cardinality(StoredIds)
  /\ Cardinality(SentBy("notify-workers") \cap SentBy("replay-audit")) <= 1

(* What the demo claims: sharing the dedup store means "zero duplicate     *)
(* sends", because every ID is marked by then (main.go of m09, lines 64    *)
(* and 69).  stop() does not wait for a handle between its send and its    *)
(* Mark, so this does not hold.                                            *)
NoDuplicateSends == SentBy("notify-workers") \cap SentBy("replay-audit") = {}
=============================================================================
