-------------------------------- MODULE Merge -------------------------------
(***************************************************************************)
(* pipeline.Merge of m03-concurrency/solution-pipeline: one forwarding     *)
(* goroutine per input channel, all sending on one unbuffered output, and  *)
(* a closer that waits for them.  The owners of the input channels and the *)
(* reader of the output are the caller's; the reader may stop reading.     *)
(***************************************************************************)
EXTENDS Naturals, Sequences, FiniteSets

CONSTANTS Inputs,   \* the channels passed to Merge
          K         \* values each owner sends before it closes its channel

ASSUME MergeAssumption == IsFiniteSet(Inputs) /\ K \in Nat

VARIABLES
  upcoming,   \* upcoming[c]: the next value the owner of c sends (1..K)
  closed,     \* input channels their owner has closed
  held,       \* held[c]: the value forwarder c is blocked sending, 0 if none
  exited,     \* forwarders that have called wg.Done
  mergedClosed, \* the closer has closed out
  got,        \* values the reader has received, <<input, value>>, in order
  reader      \* "reading", "stopped", or "finished" when range out ended

mergeVars == <<upcoming, closed, held, exited, mergedClosed, got, reader>>

MergeInit == /\ upcoming = [c \in Inputs |-> 1] /\ closed = {}
             /\ held = [c \in Inputs |-> 0] /\ exited = {}
             /\ mergedClosed = FALSE /\ got = <<>> /\ reader = "reading"

(* The owner's send on c meets the forwarder's range c. *)
ReceiveInput(c) ==
  /\ upcoming[c] <= K /\ c \notin closed /\ held[c] = 0 /\ c \notin exited
  /\ held' = [held EXCEPT ![c] = upcoming[c]]
  /\ upcoming' = [upcoming EXCEPT ![c] = @ + 1]
  /\ UNCHANGED <<closed, exited, mergedClosed, got, reader>>

CloseInput(c) ==
  /\ upcoming[c] > K /\ c \notin closed
  /\ closed' = closed \cup {c}
  /\ UNCHANGED <<upcoming, held, exited, mergedClosed, got, reader>>

(* The forwarder's `out <- v` meets the reader. *)
Forward(c) ==
  /\ held[c] # 0 /\ reader = "reading"
  /\ held' = [held EXCEPT ![c] = 0]
  /\ got' = Append(got, <<c, held[c]>>)
  /\ UNCHANGED <<upcoming, closed, exited, mergedClosed, reader>>

(* Seeded bug: the forwarder returns without wg.Done. *)
ForwarderExits_NoDone(c) == /\ c \in closed /\ held[c] = 0 /\ c \notin exited
                            /\ UNCHANGED mergeVars

(* range c ends: the channel is closed and nothing is held. *)
ForwarderExits(c) ==
  /\ c \in closed /\ held[c] = 0 /\ c \notin exited
  /\ exited' = exited \cup {c}
  /\ UNCHANGED <<upcoming, closed, held, mergedClosed, got, reader>>

(* Seeded bug: wg.Add(1) instead of wg.Add(len(chans)). *)
CloseMerged_First ==
  /\ ~mergedClosed /\ (Inputs # {} => exited # {})
  /\ mergedClosed' = TRUE
  /\ UNCHANGED <<upcoming, closed, held, exited, got, reader>>

CloseMerged ==
  /\ ~mergedClosed /\ exited = Inputs
  /\ mergedClosed' = TRUE
  /\ UNCHANGED <<upcoming, closed, held, exited, got, reader>>

(* The reader's range out ends, or the reader gives up earlier. *)
ReaderFinishes ==
  /\ reader = "reading" /\ mergedClosed
  /\ reader' = "finished"
  /\ UNCHANGED <<upcoming, closed, held, exited, mergedClosed, got>>

ReaderStops ==
  /\ reader = "reading"
  /\ reader' = "stopped"
  /\ UNCHANGED <<upcoming, closed, held, exited, mergedClosed, got>>

(* Everything has ended, or the forwarders are blocked for ever behind a   *)
(* reader that stopped: Merge has no context to release them.              *)
MergeEnded ==
  /\ reader # "reading"
  /\ mergedClosed \/ \A c \in Inputs : held[c] # 0 \/ c \in exited
  /\ UNCHANGED mergeVars

InputStep(c) == ReceiveInput(c) \/ CloseInput(c) \/ ForwarderExits(c)

MergeNext == \/ \E c \in Inputs : InputStep(c) \/ Forward(c)
             \/ CloseMerged \/ ReaderFinishes \/ ReaderStops \/ MergeEnded

MergeSpec == MergeInit /\ [][MergeNext]_mergeVars

(* The owners send all they have and close, the goroutines run, and the    *)
(* reader reads as long as it has not stopped.                             *)
MergeFairness ==
  /\ \A c \in Inputs : WF_mergeVars(InputStep(c)) /\ WF_mergeVars(Forward(c))
  /\ WF_mergeVars(CloseMerged) /\ WF_mergeVars(ReaderFinishes)

-----------------------------------------------------------------------------
From(c) == {i \in DOMAIN got : got[i][1] = c}
Sent(c) == upcoming[c] - 1 - (IF held[c] = 0 THEN 0 ELSE 1)

(* Fan-in neither loses, duplicates nor reorders: what the reader has got  *)
(* from one input is 1, 2, ... without a gap and in order, and only the    *)
(* value in the forwarder's hand is missing from what the owner has sent.  *)
(* No forwarder can still send on `out` when it is closed, and the reader  *)
(* sees the end only after everything (pipeline.go, lines 83-93).          *)
MergeFaithful ==
  /\ \A c \in Inputs : {got[i][2] : i \in From(c)} = 1..Sent(c)
  /\ \A i, j \in DOMAIN got : i < j /\ got[i][1] = got[j][1] => got[i][2] < got[j][2]
  /\ mergedClosed => \A c \in Inputs : held[c] = 0 /\ c \in closed
  /\ reader = "finished" => Len(got) = K * Cardinality(Inputs)

(* A reader that keeps reading gets to the end of the merged channel. *)
MergeEnds == <>(reader # "reading")
=============================================================================
