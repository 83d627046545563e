--------------------------- MODULE ServicesProofs ---------------------------
(***************************************************************************)
(* Safety of the smaller services for every value of their constants: the  *)
(* notifier of m11, the JetStream demo of m09, the NATS demo of m08, the   *)
(* profile service of m05 and m07, and listing page by page (m02 and m06). *)
(***************************************************************************)
EXTENDS Profiles, Paging, Bus, Notify, Replay, FiniteSetTheorems, TLAPS

-----------------------------------------------------------------------------
(* SendWithRetry and Welcome: the loop variable tells how many sends there *)
(* have been, and all but one that ended the loop have failed.             *)
Outcomes == {"running", "nil", "failed", "invalid", "ctxErr", "exhausted", "panic"}

NotifyTypeOK ==
  /\ via \in {"retry", "welcome"} /\ budget \in Nat /\ validTo \in BOOLEAN
  /\ attempt \in Nat /\ sends \in Seq({"ok", "failed"})
  /\ ctxDone \in BOOLEAN /\ waiting \in BOOLEAN /\ outcome \in Outcomes

RetryInv ==
  via = "retry" =>
    /\ attempt <= budget /\ outcome \in Outcomes \ {"failed", "invalid"}
    /\ IF waiting \/ outcome = "nil"
       THEN attempt < budget /\ Len(sends) = attempt + 1
       ELSE Len(sends) = attempt
    /\ outcome = "nil" => ~waiting
    /\ outcome = "ctxErr" => waiting /\ ctxDone
    /\ outcome \in {"exhausted", "panic"} => ~waiting /\ attempt = budget
    /\ outcome = "panic" <=> (outcome # "running" /\ budget = 0)

WelcomeInv ==
  via = "welcome" =>
    /\ ~waiting /\ outcome \in {"running", "nil", "failed", "invalid"}
    /\ outcome = "running" => sends = <<>>
    /\ outcome # "running" => Len(sends) = IF validTo THEN 1 ELSE 0
    /\ outcome = "nil" => validTo

LastSendInv ==
  \A i \in DOMAIN sends : sends[i] = "ok" <=> (outcome = "nil" /\ i = Len(sends))

NotifyInv == NotifyTypeOK /\ RetryInv /\ WelcomeInv /\ LastSendInv

LEMMA NotifyInitInv == NotifyInit => NotifyInv
<1> SUFFICES ASSUME NotifyInit
             PROVE  NotifyInv
  OBVIOUS
<1>1. NotifyTypeOK
  <2>1. validTo \in BOOLEAN /\ ctxDone \in BOOLEAN /\ waiting \in BOOLEAN
    BY Zenon DEF NotifyInit
  <2> QED
    BY <2>1, BudgetsAssumption DEF NotifyInit, NotifyTypeOK, Outcomes
<1>2. RetryInv
  BY <1>1 DEF NotifyInit, NotifyTypeOK, RetryInv, Outcomes
<1>3. WelcomeInv /\ LastSendInv
  BY DEF NotifyInit, WelcomeInv, LastSendInv
<1> QED
  BY <1>1, <1>2, <1>3 DEF NotifyInv

(* A send: it ends the loop, or the wait begins. *)
LEMMA SendInv ==
  ASSUME NotifyInv, Send
  PROVE  NotifyInv'
<1> USE DEF NotifyInv
<1>1. PICK r \in {"ok", "failed"} :
        /\ sends' = Append(sends, r)
        /\ r = "ok" => outcome' = "nil" /\ waiting' = waiting
        /\ r = "failed" => outcome' = "running" /\ waiting' = TRUE
  BY DEF Send
<1>2. /\ via = "retry" /\ outcome = "running" /\ ~waiting /\ attempt < budget
      /\ UNCHANGED <<via, budget, validTo, attempt, ctxDone>>
  BY DEF Send, MayTry
<1>3. /\ Len(sends') = Len(sends) + 1 /\ sends' \in Seq({"ok", "failed"})
      /\ DOMAIN sends' = 1..(Len(sends) + 1) /\ DOMAIN sends = 1..Len(sends)
      /\ sends'[Len(sends) + 1] = r /\ \A i \in 1..Len(sends) : sends'[i] = sends[i]
      /\ Len(sends) \in Nat
  BY <1>1 DEF NotifyTypeOK
<1>4. NotifyTypeOK'
  BY <1>1, <1>2, <1>3 DEF NotifyTypeOK, Outcomes
<1>5. RetryInv'
  BY <1>1, <1>2, <1>3 DEF NotifyTypeOK, RetryInv, Outcomes
<1>6. WelcomeInv'
  BY <1>2 DEF WelcomeInv
<1>7. LastSendInv'
  BY <1>1, <1>2, <1>3 DEF LastSendInv
<1> QED
  BY <1>4, <1>5, <1>6, <1>7

(* The wait ends, with the next attempt or the context's error. *)
LEMMA BackoffInv ==
  ASSUME NotifyInv, Backoff
  PROVE  NotifyInv'
<1> USE DEF NotifyInv
<1>1. /\ via = "retry" /\ outcome = "running" /\ waiting = TRUE
      /\ UNCHANGED <<via, budget, validTo, sends, ctxDone>>
  BY DEF Backoff, NotifyTypeOK, WelcomeInv
<1>2. CASE waiting' = FALSE /\ attempt' = attempt + 1 /\ UNCHANGED outcome
  <2>1. NotifyTypeOK'
    <3>1. waiting' \in BOOLEAN
      BY <1>2, Zenon
    <3> QED
      BY <1>1, <1>2, <3>1 DEF NotifyTypeOK
  <2>2. RetryInv'
    BY <1>1, <1>2 DEF NotifyTypeOK, RetryInv, Outcomes
  <2> QED
    BY <1>1, <1>2, <2>1, <2>2 DEF WelcomeInv, LastSendInv
<1>3. CASE ctxDone /\ outcome' = "ctxErr" /\ UNCHANGED <<waiting, attempt>>
  <2>1. NotifyTypeOK'
    BY <1>1, <1>3 DEF NotifyTypeOK, Outcomes
  <2>2. RetryInv'
    BY <1>1, <1>3 DEF NotifyTypeOK, RetryInv, Outcomes
  <2> QED
    BY <1>1, <1>3, <2>1, <2>2 DEF WelcomeInv, LastSendInv
<1> QED
  BY <1>2, <1>3 DEF Backoff

(* The loop is over. *)
LEMMA ExhaustedInv ==
  ASSUME NotifyInv, Exhausted
  PROVE  NotifyInv'
<1> USE DEF NotifyInv, Exhausted, MayTry
<1>1. NotifyTypeOK'
  BY DEF NotifyTypeOK, Outcomes
<1>2. RetryInv'
  <2>1. attempt = budget /\ Len(sends) = attempt
    BY DEF RetryInv, NotifyTypeOK
  <2>2. sends = <<>> <=> Len(sends) = 0
    BY DEF NotifyTypeOK
  <2> QED
    BY <2>1, <2>2 DEF RetryInv, NotifyTypeOK, Outcomes
<1>3. WelcomeInv'
  BY DEF WelcomeInv
<1>4. LastSendInv'
  BY DEF LastSendInv
<1> QED
  BY <1>1, <1>2, <1>3, <1>4

LEMMA CancelNotifyInv ==
  ASSUME NotifyInv, CancelNotify
  PROVE  NotifyInv'
BY DEF NotifyInv, CancelNotify, NotifyTypeOK, RetryInv, WelcomeInv, LastSendInv, Outcomes

(* Welcome refuses the customer, or sends once. *)
LEMMA WelcomeStepInv ==
  ASSUME NotifyInv, Welcome
  PROVE  NotifyInv'
<1> USE DEF NotifyInv
<1>1. /\ via = "welcome" /\ outcome = "running" /\ sends = <<>>
      /\ UNCHANGED <<via, budget, validTo, attempt, ctxDone, waiting>>
  BY DEF Welcome, WelcomeInv
<1>2. CASE ~validTo /\ outcome' = "invalid" /\ UNCHANGED sends
  BY <1>1, <1>2 DEF NotifyTypeOK, RetryInv, WelcomeInv, LastSendInv, Outcomes
<1>3. CASE validTo /\ sends' = <<"ok">> /\ outcome' = "nil"
  BY <1>1, <1>3 DEF NotifyTypeOK, RetryInv, WelcomeInv, LastSendInv, Outcomes
<1>4. CASE validTo /\ sends' = <<"failed">> /\ outcome' = "failed"
  BY <1>1, <1>4 DEF NotifyTypeOK, RetryInv, WelcomeInv, LastSendInv, Outcomes
<1> QED
  BY <1>2, <1>3, <1>4 DEF Welcome

LEMMA NotifyStepInv == NotifyInv /\ [NotifyNext]_notifyVars => NotifyInv'
<1>1. NotifyInv /\ UNCHANGED notifyVars => NotifyInv'
  BY DEF NotifyInv, NotifyTypeOK, RetryInv, WelcomeInv, LastSendInv, notifyVars
<1> QED
  BY <1>1, SendInv, BackoffInv, ExhaustedInv, CancelNotifyInv, WelcomeStepInv
     DEF NotifyNext

LEMMA NotifyInvariant == NotifySpec => []NotifyInv
BY NotifyInitInv, NotifyStepInv, PTL DEF NotifySpec

(* What SendWithRetry and Welcome return tells which sends were made and   *)
(* how they ended, for every maxAttempts (notify.go, lines 33-57).         *)
THEOREM RetryOutcomeHolds == NotifySpec => []RetryOutcome
<1>1. ASSUME NotifyInv
      PROVE  RetryOutcome
  <2>1. sends = <<>> <=> Len(sends) = 0
    BY <1>1 DEF NotifyInv, NotifyTypeOK
  <2>2. CASE via = "retry"
    BY <1>1, <2>1, <2>2 DEF NotifyInv, NotifyTypeOK, RetryInv, LastSendInv, RetryOutcome, Outcomes
  <2>3. CASE via = "welcome"
    BY <1>1, <2>1, <2>3 DEF NotifyInv, NotifyTypeOK, WelcomeInv, LastSendInv, RetryOutcome
  <2> QED
    BY <1>1, <2>2, <2>3 DEF NotifyInv, NotifyTypeOK
<1> QED
  BY <1>1, NotifyInvariant, PTL

-----------------------------------------------------------------------------
(* The demo of m09: a consumer's handle has sent the event, is about to,   *)
(* or found it in the dedup store, which every event sent before is in.    *)
Notifier == "notify-workers"
Auditor  == "replay-audit"

Known == Ids \cup {""}

ReplayTypeOK ==
  /\ stage \in {"publish", "stopped", "replay", "printed"}
  /\ nPublished \in 0..Len(Published) /\ streamMsgs \in Seq(Known)
  /\ handling \in [Durables -> [id : Known, step : {"idle", "send", "mark", "ack"}]]
  /\ ackedBy \in [Durables -> SUBSET Known] /\ dedup \subseteq Known
  /\ sendsBy \in [Durables -> Seq(Known)]

Distinct(s) == \A i, j \in DOMAIN s : s[i] = s[j] => i = j

(* Sent by d, or about to be. *)
WillSend(d) == SentBy(d) \cup (IF handling[d].step = "send" THEN {handling[d].id} ELSE {})

(* What d has sent is marked, but for the one event in its hand, and that  *)
(* is not yet among the sent ones when it is about to be sent.             *)
MarkedInv == \A d \in Durables : \A x \in WillSend(d) :
               \/ x \in dedup
               \/ handling[d].step \in {"send", "mark"} /\ x = handling[d].id
UnsentInv == \A d \in Durables : handling[d].step = "send" => handling[d].id \notin SentBy(d)
DistinctInv == \A d \in Durables : Distinct(sendsBy[d])

(* The second consumer begins when the first gets nothing more. *)
StageInv ==
  /\ Notifier \in consuming => stage = "publish"
  /\ stage \in {"publish", "stopped"} => Auditor \notin consuming /\ WillSend(Auditor) = {}

Both == WillSend(Notifier) \cap WillSend(Auditor)

(* Both send at most the event the first has, or had, in its hand. *)
BothInv ==
  /\ \A x, y \in Both : x = y
  /\ handling[Notifier].step \in {"send", "mark"} => Both \subseteq {handling[Notifier].id}

ReplayInv == /\ ReplayTypeOK /\ Distinct(streamMsgs) /\ MarkedInv /\ UnsentInv
             /\ DistinctInv /\ StageInv /\ BothInv

(* A sequence without repetitions is as long as it has members. *)
LEMMA DistinctLength ==
  ASSUME NEW S, NEW s \in Seq(S), Distinct(s)
  PROVE  Len(s) = Cardinality({s[i] : i \in DOMAIN s})
<1> DEFINE T == {s[i] : i \in DOMAIN s}
<1>1. DOMAIN s = 1..Len(s) /\ Len(s) \in Nat /\ s \in [1..Len(s) -> T]
  OBVIOUS
<1>2. s \in Bijection(1..Len(s), T)
  BY <1>1 DEF Bijection, Injection, Surjection, IsInjective, Distinct
<1>3. ExistsBijection(1..Len(s), T)
  BY <1>2 DEF ExistsBijection
<1>4. IsFiniteSet(1..Len(s)) /\ Cardinality(1..Len(s)) = Len(s)
  BY <1>1, FS_Interval
<1> QED
  BY <1>3, <1>4, FS_Bijection

LEMMA AppendDistinct ==
  ASSUME NEW S, NEW s \in Seq(S), Distinct(s), NEW x \in S, x \notin {s[i] : i \in DOMAIN s}
  PROVE  /\ Append(s, x) \in Seq(S) /\ Distinct(Append(s, x))
         /\ {Append(s, x)[i] : i \in DOMAIN Append(s, x)} = {s[i] : i \in DOMAIN s} \cup {x}
<1>1. /\ Append(s, x) \in Seq(S) /\ DOMAIN s = 1..Len(s) /\ Len(s) \in Nat
      /\ DOMAIN Append(s, x) = 1..(Len(s) + 1) /\ Append(s, x)[Len(s) + 1] = x
      /\ \A i \in 1..Len(s) : Append(s, x)[i] = s[i]
  OBVIOUS
<1>2. 1..(Len(s) + 1) = (1..Len(s)) \cup {Len(s) + 1}
  BY <1>1
<1>3. Distinct(Append(s, x))
  BY <1>1, <1>2 DEF Distinct
<1>4. {Append(s, x)[i] : i \in DOMAIN Append(s, x)} = {s[i] : i \in DOMAIN s} \cup {x}
  BY <1>1, <1>2
<1> QED
  BY <1>1, <1>3, <1>4

LEMMA ReplayInitInv == ReplayInit => ReplayInv
<1> SUFFICES ASSUME ReplayInit
             PROVE  ReplayInv
  OBVIOUS
<1>1. ReplayTypeOK
  <2>1. /\ streamMsgs \in Seq(Known) /\ sendsBy \in [Durables -> Seq(Known)]
        /\ nPublished \in 0..Len(Published)
    BY PublishedAssumption DEF ReplayInit
  <2>2. handling \in [Durables -> [id : Known, step : {"idle", "send", "mark", "ack"}]]
    <3>1. Resting \in [id : Known, step : {"idle", "send", "mark", "ack"}]
      BY DEF Resting, Known
    <3> QED
      BY <3>1 DEF ReplayInit
  <2> QED
    BY <2>1, <2>2 DEF ReplayInit, ReplayTypeOK
<1>2. ASSUME NEW d \in Durables
      PROVE  WillSend(d) = {} /\ handling[d].step = "idle" /\ Distinct(sendsBy[d])
  <2>1. handling[d].step = "idle" /\ sendsBy[d] = <<>>
    BY DEF ReplayInit, Resting
  <2>2. SentBy(d) = {} /\ Distinct(sendsBy[d])
    BY <2>1 DEF SentBy, Distinct
  <2> QED
    BY <2>1, <2>2 DEF WillSend
<1>3. Distinct(streamMsgs)
  BY DEF ReplayInit, Distinct
<1>4. MarkedInv /\ UnsentInv /\ DistinctInv
  BY <1>2 DEF MarkedInv, UnsentInv, DistinctInv
<1>5. StageInv /\ BothInv
  BY <1>2 DEF ReplayInit, StageInv, BothInv, Both, Notifier, Auditor, Durables
<1> QED
  BY <1>1, <1>3, <1>4, <1>5 DEF ReplayInv

(* main's own steps leave the handlers alone. *)
LEMMA MainReplayInv ==
  ASSUME ReplayInv, PublishNext \/ StopFirst \/ StartReplay \/ PrintReplay
  PROVE  ReplayInv'
<1> USE DEF ReplayInv
<1>1. UNCHANGED <<handling, ackedBy, dedup, sendsBy>>
  BY DEF PublishNext, StopFirst, StartReplay, PrintReplay
<1>2. \A d \in Durables : WillSend(d)' = WillSend(d)
  BY <1>1 DEF WillSend, SentBy
<1>3. MarkedInv' /\ UnsentInv' /\ DistinctInv'
  BY <1>1, <1>2 DEF MarkedInv, UnsentInv, DistinctInv, SentBy
<1>4. BothInv'
  BY <1>1, <1>2 DEF BothInv, Both, Notifier, Auditor, Durables
<1>5. StageInv'
  BY <1>2 DEF StageInv, PublishNext, StopFirst, StartReplay, PrintReplay, Notifier, Auditor, Durables
<1>6. streamMsgs' \in Seq(Known) /\ Distinct(streamMsgs')
  <2>1. CASE UNCHANGED streamMsgs
    BY <2>1 DEF ReplayTypeOK
  <2>2. CASE PublishNext /\ streamMsgs' # streamMsgs
    <3>1. PICK id : id = Published[nPublished'] /\ id \notin StoredIds
                    /\ streamMsgs' = Append(streamMsgs, id)
      BY <2>2 DEF PublishNext
    <3>2. id \in Known
      <4>1. nPublished' \in DOMAIN Published
        BY <2>2, PublishedAssumption DEF PublishNext, ReplayTypeOK
      <4> QED
        BY <3>1, <4>1 DEF Known, Ids
    <3> QED
      BY <3>1, <3>2, AppendDistinct DEF ReplayTypeOK, StoredIds
  <2> QED
    BY <2>1, <2>2 DEF PublishNext, StopFirst, StartReplay, PrintReplay
<1>7. ReplayTypeOK'
  BY <1>1, <1>6 DEF ReplayTypeOK, PublishNext, StopFirst, StartReplay, PrintReplay
<1> QED
  BY <1>3, <1>4, <1>5, <1>6, <1>7

(* A handle begins: the second consumer takes up an event that the first   *)
(* will have sent only while that is in the first one's hand.              *)
LEMMA HandleBeginsInv ==
  ASSUME ReplayInv, NEW d \in Durables, HandleBegins(d)
  PROVE  ReplayInv'
<1> USE DEF ReplayInv
<1>1. PICK id \in StoredIds :
        handling' = [handling EXCEPT ![d] =
          [id |-> id, step |-> IF id \in dedup THEN "ack" ELSE "send"]]
  BY DEF HandleBegins, SeenBefore
<1>2. /\ UNCHANGED <<stage, nPublished, streamMsgs, consuming, ackedBy, dedup, sendsBy>>
      /\ d \in consuming /\ handling[d].step = "idle"
  BY DEF HandleBegins, Idle
<1>3. id \in Known
  BY DEF StoredIds, ReplayTypeOK
<1>4. ReplayTypeOK'
  BY <1>1, <1>2, <1>3 DEF ReplayTypeOK
<1>5. /\ handling'[d].id = id /\ handling'[d].step = (IF id \in dedup THEN "ack" ELSE "send")
      /\ \A e \in Durables \ {d} : handling'[e] = handling[e]
  BY <1>1 DEF ReplayTypeOK
<1>6. \A e \in Durables : SentBy(e)' = SentBy(e)
  BY <1>2 DEF SentBy
<1>7. WillSend(d) \subseteq dedup /\ WillSend(d) = SentBy(d)
  BY <1>2 DEF MarkedInv, WillSend
<1>8. WillSend(d)' = IF id \in dedup THEN WillSend(d) ELSE WillSend(d) \cup {id}
  BY <1>5, <1>6, <1>7 DEF WillSend
<1>9. \A e \in Durables \ {d} : WillSend(e)' = WillSend(e)
  BY <1>5, <1>6 DEF WillSend
<1>10. MarkedInv' /\ UnsentInv' /\ DistinctInv'
  <2>1. ASSUME NEW e \in Durables, NEW x \in WillSend(e)'
        PROVE  x \in dedup \/ (handling'[e].step \in {"send", "mark"} /\ x = handling'[e].id)
    <3>1. CASE e = d
      BY <2>1, <3>1, <1>5, <1>7, <1>8
    <3>2. CASE e # d
      <4>1. x \in WillSend(e) /\ handling'[e] = handling[e]
        BY <2>1, <3>2, <1>5, <1>9
      <4> QED
        BY <4>1 DEF MarkedInv
    <3> QED
      BY <3>1, <3>2
  <2>2. ASSUME NEW e \in Durables, handling'[e].step = "send"
        PROVE  handling'[e].id \notin SentBy(e)
    <3>1. CASE e = d
      BY <2>2, <3>1, <1>5, <1>7
    <3>2. CASE e # d
      BY <2>2, <3>2, <1>5 DEF UnsentInv
    <3> QED
      BY <3>1, <3>2
  <2>3. MarkedInv'
    BY <1>2, <2>1 DEF MarkedInv
  <2>4. UnsentInv'
    BY <1>6, <2>2 DEF UnsentInv
  <2>5. DistinctInv'
    BY <1>2 DEF DistinctInv
  <2> QED
    BY <2>3, <2>4, <2>5
<1>11. CASE d = Notifier
  <2>1. WillSend(Auditor) = {} /\ WillSend(Auditor)' = {} /\ Auditor \notin consuming
    BY <1>2, <1>9, <1>11 DEF StageInv, Notifier, Auditor, Durables
  <2>2. BothInv'
    BY <2>1 DEF BothInv, Both
  <2>3. StageInv'
    BY <1>2, <2>1 DEF StageInv
  <2> QED
    BY <1>2, <1>4, <1>10, <2>2, <2>3
<1>12. CASE d = Auditor
  <2>1. stage \notin {"publish", "stopped"}
    BY <1>2, <1>12 DEF StageInv
  <2>2. StageInv'
    BY <1>2, <2>1 DEF StageInv
  <2>3. WillSend(Notifier)' = WillSend(Notifier) /\ handling'[Notifier] = handling[Notifier]
    BY <1>5, <1>9, <1>12 DEF Notifier, Auditor, Durables
  <2>4. CASE id \in dedup \/ id \notin WillSend(Notifier)
    <3>1. Both' = Both
      BY <1>8, <1>12, <2>3, <2>4 DEF Both
    <3> QED
      BY <1>2, <1>4, <1>10, <2>2, <2>3, <3>1 DEF BothInv
  <2>5. CASE id \notin dedup /\ id \in WillSend(Notifier)
    <3>1. handling[Notifier].step \in {"send", "mark"} /\ id = handling[Notifier].id
      BY <2>5 DEF MarkedInv, Notifier, Durables
    <3>2. Both' = Both \cup {id}
      BY <1>8, <1>12, <2>3, <2>5 DEF Both
    <3>3. Both \subseteq {id}
      BY <3>1 DEF BothInv
    <3>4. BothInv'
      BY <2>3, <3>1, <3>2, <3>3 DEF BothInv
    <3> QED
      BY <1>2, <1>4, <1>10, <2>2, <3>4
  <2> QED
    BY <2>4, <2>5
<1> QED
  BY <1>11, <1>12 DEF Durables, Notifier, Auditor

(* The send of the event in hand. *)
LEMMA HandleSendsInv ==
  ASSUME ReplayInv, NEW d \in Durables, HandleSends(d)
  PROVE  ReplayInv'
<1> USE DEF ReplayInv
<1> DEFINE id == handling[d].id
<1>1. /\ UNCHANGED <<stage, nPublished, streamMsgs, consuming, ackedBy, dedup>>
      /\ handling[d].step = "send" /\ id \in Known /\ sendsBy[d] \in Seq(Known)
      /\ sendsBy'[d] = Append(sendsBy[d], id)
      /\ handling'[d] = [id |-> id, step |-> "mark"]
      /\ \A e \in Durables \ {d} : handling'[e] = handling[e] /\ sendsBy'[e] = sendsBy[e]
  BY DEF HandleSends, ReplayTypeOK
<1>2. /\ Append(sendsBy[d], id) \in Seq(Known) /\ Distinct(Append(sendsBy[d], id))
      /\ {Append(sendsBy[d], id)[i] : i \in DOMAIN Append(sendsBy[d], id)} = SentBy(d) \cup {id}
  <2>1. Distinct(sendsBy[d]) /\ id \notin {sendsBy[d][i] : i \in DOMAIN sendsBy[d]}
    BY <1>1 DEF UnsentInv, DistinctInv, SentBy
  <2> QED
    BY <1>1, <2>1, AppendDistinct DEF SentBy
<1>3. ReplayTypeOK'
  BY <1>1, <1>2 DEF ReplayTypeOK, HandleSends
<1>4. SentBy(d)' = SentBy(d) \cup {id}
  BY <1>1, <1>2 DEF SentBy
<1>5. \A e \in Durables \ {d} : SentBy(e)' = SentBy(e)
  BY <1>1 DEF SentBy
<1>6. WillSend(d)' = WillSend(d)
  BY <1>1, <1>4 DEF WillSend
<1>7. \A e \in Durables : WillSend(e)' = WillSend(e)
  BY <1>1, <1>5, <1>6 DEF WillSend
<1>8. MarkedInv' /\ UnsentInv' /\ DistinctInv'
  <2>1. ASSUME NEW e \in Durables, NEW x \in WillSend(e)
        PROVE  x \in dedup \/ (handling'[e].step \in {"send", "mark"} /\ x = handling'[e].id)
    <3>1. x \in dedup \/ (handling[e].step \in {"send", "mark"} /\ x = handling[e].id)
      BY DEF MarkedInv
    <3>2. CASE e = d
      BY <3>1, <3>2, <1>1
    <3>3. CASE e # d
      BY <3>1, <3>3, <1>1
    <3> QED
      BY <3>2, <3>3
  <2>2. ASSUME NEW e \in Durables, handling'[e].step = "send"
        PROVE  handling'[e].id \notin SentBy(e)'
    BY <2>2, <1>1, <1>5 DEF UnsentInv
  <2>3. ASSUME NEW e \in Durables
        PROVE  Distinct(sendsBy'[e])
    <3>1. CASE e = d
      BY <3>1, <1>1, <1>2
    <3>2. CASE e # d
      BY <3>2, <1>1 DEF DistinctInv
    <3> QED
      BY <3>1, <3>2
  <2>4. MarkedInv'
    BY <1>1, <1>7, <2>1 DEF MarkedInv
  <2>5. UnsentInv'
    BY <2>2 DEF UnsentInv
  <2>6. DistinctInv'
    BY <2>3 DEF DistinctInv
  <2> QED
    BY <2>4, <2>5, <2>6
<1>9. StageInv'
  BY <1>1, <1>7 DEF StageInv, Auditor, Durables
<1>10. BothInv'
  <2>1. Both' = Both
    BY <1>7 DEF Both, Notifier, Auditor, Durables
  <2>2. handling'[Notifier].id = handling[Notifier].id
        /\ (handling'[Notifier].step \in {"send", "mark"} => handling[Notifier].step \in {"send", "mark"})
    BY <1>1 DEF Notifier, Durables
  <2> QED
    BY <2>1, <2>2 DEF BothInv
<1> QED
  BY <1>1, <1>3, <1>8, <1>9, <1>10

(* The end of a handle: marked, and acked. *)
LEMMA HandleEndsInv ==
  ASSUME ReplayInv, NEW d \in Durables, HandleMarks(d) \/ HandleAcks(d)
  PROVE  ReplayInv'
<1> USE DEF ReplayInv
<1>0. /\ handling[d] \in [id : Known, step : {"idle", "send", "mark", "ack"}]
      /\ DOMAIN handling = Durables
  BY DEF ReplayTypeOK
<1>1. /\ UNCHANGED <<stage, nPublished, streamMsgs, consuming, sendsBy>>
      /\ handling[d].step \in {"mark", "ack"} /\ handling'[d].step \in {"ack", "idle"}
      /\ handling[d].step = "mark" => handling[d].id \in dedup'
      /\ dedup \subseteq dedup' /\ dedup' \subseteq Known
      /\ handling' \in [Durables -> [id : Known, step : {"idle", "send", "mark", "ack"}]]
      /\ ackedBy' \in [Durables -> SUBSET Known]
      /\ \A e \in Durables \ {d} : handling'[e] = handling[e]
  <2>1. CASE HandleMarks(d)
    <3>1. /\ handling[d].step = "mark" /\ handling'[d].step = "ack"
          /\ handling'[d] \in [id : Known, step : {"idle", "send", "mark", "ack"}]
          /\ \A e \in Durables \ {d} : handling'[e] = handling[e]
      BY <1>0, <2>1 DEF HandleMarks
    <3>2. handling' \in [Durables -> [id : Known, step : {"idle", "send", "mark", "ack"}]]
      BY <2>1, <3>1 DEF HandleMarks, ReplayTypeOK
    <3> QED
      BY <1>0, <2>1, <3>1, <3>2 DEF HandleMarks, ReplayTypeOK
  <2>2. CASE HandleAcks(d)
    <3>0. Resting \in [id : Known, step : {"idle", "send", "mark", "ack"}] /\ Resting.step = "idle"
      BY DEF Resting, Known
    <3>1. /\ handling[d].step = "ack" /\ handling'[d].step = "idle"
          /\ \A e \in Durables \ {d} : handling'[e] = handling[e]
      BY <1>0, <2>2, <3>0 DEF HandleAcks
    <3>2. handling' \in [Durables -> [id : Known, step : {"idle", "send", "mark", "ack"}]]
      BY <2>2, <3>0 DEF HandleAcks, ReplayTypeOK
    <3>3. ackedBy' \in [Durables -> SUBSET Known]
      <4>1. ackedBy[d] \cup {handling[d].id} \in SUBSET Known
        BY <1>0 DEF ReplayTypeOK
      <4>2. [ackedBy EXCEPT ![d] = @ \cup {handling[d].id}] \in [Durables -> SUBSET Known]
        BY <4>1 DEF ReplayTypeOK
      <4> QED
        BY <2>2, <4>2 DEF HandleAcks, ReplayTypeOK
    <3> QED
      BY <2>2, <3>1, <3>2, <3>3 DEF HandleAcks, ReplayTypeOK
  <2> QED
    BY <2>1, <2>2
<1>2. ReplayTypeOK'
  BY <1>1 DEF ReplayTypeOK
<1>3. \A e \in Durables : SentBy(e)' = SentBy(e) /\ WillSend(e)' = WillSend(e)
  BY <1>1 DEF WillSend, SentBy
<1>4. MarkedInv' /\ UnsentInv' /\ DistinctInv'
  <2>1. ASSUME NEW e \in Durables, NEW x \in WillSend(e)
        PROVE  x \in dedup' \/ (handling'[e].step \in {"send", "mark"} /\ x = handling'[e].id)
    <3>1. x \in dedup \/ (handling[e].step \in {"send", "mark"} /\ x = handling[e].id)
      BY DEF MarkedInv
    <3>2. CASE e = d
      BY <3>1, <3>2, <1>1
    <3>3. CASE e # d
      BY <3>1, <3>3, <1>1
    <3> QED
      BY <3>2, <3>3
  <2>2. MarkedInv'
    BY <1>3, <2>1 DEF MarkedInv
  <2>3. UnsentInv' /\ DistinctInv'
    BY <1>1, <1>3 DEF UnsentInv, DistinctInv
  <2> QED
    BY <2>2, <2>3
<1>5. StageInv'
  BY <1>1, <1>3 DEF StageInv, Auditor, Durables
<1>6. BothInv'
  <2>1. Both' = Both
    BY <1>3 DEF Both, Notifier, Auditor, Durables
  <2>2. handling'[Notifier].step \in {"send", "mark"} => handling'[Notifier] = handling[Notifier]
    BY <1>1 DEF Notifier, Durables
  <2> QED
    BY <2>1, <2>2 DEF BothInv
<1> QED
  BY <1>1, <1>2, <1>4, <1>5, <1>6

LEMMA ReplayStepInv == ReplayInv /\ [ReplayNext]_replayVars => ReplayInv'
<1>1. ASSUME ReplayInv, UNCHANGED replayVars
      PROVE  ReplayInv'
  <2>1. /\ UNCHANGED <<stage, nPublished, streamMsgs, consuming>>
        /\ UNCHANGED <<handling, ackedBy, dedup, sendsBy>>
    BY <1>1 DEF replayVars
  <2>2. ReplayTypeOK' /\ Distinct(streamMsgs)'
    BY <1>1, <2>1 DEF ReplayInv, ReplayTypeOK, Distinct
  <2>3. \A d \in Durables : SentBy(d)' = SentBy(d) /\ WillSend(d)' = WillSend(d)
    BY <2>1 DEF WillSend, SentBy
  <2>4. MarkedInv' /\ UnsentInv' /\ DistinctInv'
    BY <1>1, <2>1, <2>3 DEF ReplayInv, MarkedInv, UnsentInv, DistinctInv
  <2>5. StageInv' /\ BothInv'
    BY <1>1, <2>1, <2>3 DEF ReplayInv, StageInv, BothInv, Both, Notifier, Auditor, Durables
  <2> QED
    BY <2>2, <2>4, <2>5 DEF ReplayInv
<1> QED
  BY <1>1, MainReplayInv, HandleBeginsInv, HandleSendsInv, HandleEndsInv DEF ReplayNext

LEMMA ReplayInvariant == ReplaySpec => []ReplayInv
BY ReplayInitInv, ReplayStepInv, PTL DEF ReplaySpec

(* However main stops the first consumer in the middle of a handle, the    *)
(* replay repeats at most that one event, no consumer repeats any, and the *)
(* repeated MsgID is stored once, for every list of events published       *)
(* (main.go of m09, lines 57-80).                                          *)
THEOREM ReplayRepeatsAtMostOneHolds == ReplaySpec => []ReplayRepeatsAtMostOne
<1>1. ASSUME ReplayInv
      PROVE  ReplayRepeatsAtMostOne
  <2>1. ASSUME NEW d \in Durables
        PROVE  Len(sendsBy[d]) = Cardinality(SentBy(d))
    <3>1. sendsBy[d] \in Seq(Known) /\ Distinct(sendsBy[d])
      BY <1>1 DEF ReplayInv, ReplayTypeOK, DistinctInv
    <3> QED
      BY <3>1, DistinctLength DEF SentBy
  <2>2. Len(streamMsgs) = Cardinality(StoredIds)
    BY <1>1, DistinctLength DEF ReplayInv, ReplayTypeOK, StoredIds
  <2>3. Cardinality(SentBy(Notifier) \cap SentBy(Auditor)) <= 1
    <3> DEFINE S == SentBy(Notifier) \cap SentBy(Auditor)
    <3>1. \A x, y \in S : x = y
      BY <1>1 DEF ReplayInv, BothInv, Both, WillSend
    <3>2. CASE S = {}
      BY <3>2, FS_EmptySet
    <3>3. CASE S # {}
      <4>1. PICK x : S = {x}
        BY <3>1, <3>3
      <4>2. Cardinality({x}) = 1
        BY FS_Singleton
      <4> QED
        BY <4>1, <4>2
    <3> QED
      BY <3>2, <3>3
  <2> QED
    BY <2>1, <2>2, <2>3 DEF ReplayRepeatsAtMostOne, Notifier, Auditor
<1> QED
  BY <1>1, ReplayInvariant, PTL

-----------------------------------------------------------------------------
(* The demo of m08: where a published event is, and what the counters say  *)
(* of the calls of the handlers.  The request is the last message on the   *)
(* wire, so that when it has been served nothing is left on it.            *)
Subscribers == Workers \cup Plain

BusTypeOK ==
  /\ demo \in {"subscribe", "publish", "request", "sleep", "exited"}
  /\ subs \subseteq Subscribers /\ published \in 0..Len(Batch) /\ breaks \in Nat
  /\ wire \in Seq(BatchEvents \cup {"request"}) /\ inbox \in [Subscribers -> Seq(BatchEvents)]
  /\ fnCalls \subseteq Subscribers \X (BatchEvents \ Malformed)
  /\ hand \in [Workers -> Seq(BatchEvents)]
  /\ DOMAIN byWorker \subseteq Workers /\ byWorker \in [DOMAIN byWorker -> Nat]
  /\ handled \in Nat /\ due \subseteq Workers
  /\ printed \in {<<>>} \cup (Nat \X SUBSET (Workers \X Nat))

DemoInv ==
  /\ demo = "subscribe" => published = 0
  /\ demo # "subscribe" => subs = Subscribers
  /\ demo \in {"subscribe", "publish"} =>
       "request" \notin OnWire /\ ~flushed /\ request = "none"
  /\ \A i \in DOMAIN wire : wire[i] = "request" => i = Len(wire)
  /\ flushed => OnWire \subseteq {"request"}
  /\ request \in {"served", "answered"} => wire = <<>>

SoFar == {Batch[i] : i \in 1..published}

(* An event is published once, and it is on the wire or with subscribers. *)
WireInv ==
  /\ Distinct(wire) /\ OnWire \subseteq SoFar \cup {"request"}
  /\ \A s \in Subscribers : With(s) \subseteq SoFar /\ OnWire \cap With(s) = {}

GroupInv == \A v, w \in Workers : v # w => With(v) \cap With(w) = {}

ReachInv ==
  breaks = 0 => \A e \in Sent \ OnWire : /\ \E w \in Workers : e \in With(w)
                                         /\ \A s \in Plain : e \in With(s)

FlowInv == DemoInv /\ WireInv /\ GroupInv /\ ReachInv

LEMMA AppendRange ==
  ASSUME NEW S, NEW q \in Seq(S), NEW x \in S
  PROVE  Append(q, x) \in Seq(S) /\ Range(Append(q, x)) = Range(q) \cup {x}
<1>1. /\ Append(q, x) \in Seq(S) /\ DOMAIN q = 1..Len(q) /\ Len(q) \in Nat
      /\ DOMAIN Append(q, x) = 1..(Len(q) + 1) /\ Append(q, x)[Len(q) + 1] = x
      /\ \A i \in 1..Len(q) : Append(q, x)[i] = q[i]
  OBVIOUS
<1>2. 1..(Len(q) + 1) = (1..Len(q)) \cup {Len(q) + 1}
  BY <1>1
<1> QED
  BY <1>1, <1>2 DEF Range

LEMMA HeadTail ==
  ASSUME NEW S, NEW q \in Seq(S), q # <<>>
  PROVE  /\ Tail(q) \in Seq(S) /\ Head(q) \in S /\ Range(q) = Range(Tail(q)) \cup {Head(q)}
         /\ Distinct(q) => Distinct(Tail(q)) /\ Head(q) \notin Range(Tail(q))
<1>1. /\ Tail(q) \in Seq(S) /\ Len(q) \in Nat /\ Len(q) > 0 /\ Len(Tail(q)) = Len(q) - 1
      /\ DOMAIN q = 1..Len(q) /\ DOMAIN Tail(q) = 1..(Len(q) - 1)
      /\ Head(q) = q[1] /\ \A i \in 1..(Len(q) - 1) : Tail(q)[i] = q[i + 1]
  OBVIOUS
<1>2. Head(q) \in S /\ Head(q) \in Range(q)
  BY <1>1 DEF Range
<1>3. ASSUME NEW x \in Range(Tail(q))
      PROVE  x \in Range(q)
  <2>1. PICK i \in 1..(Len(q) - 1) : x = q[i + 1]
    BY <1>1, <1>3 DEF Range
  <2>2. i + 1 \in 1..Len(q)
    BY <1>1
  <2> QED
    BY <1>1, <2>1, <2>2 DEF Range
<1>4. ASSUME NEW x \in Range(q), x # Head(q)
      PROVE  x \in Range(Tail(q))
  <2>1. PICK i \in 1..Len(q) : x = q[i]
    BY <1>1 DEF Range
  <2>2. i - 1 \in 1..(Len(q) - 1) /\ Tail(q)[i - 1] = q[i]
    BY <1>1, <1>4, <2>1
  <2> QED
    BY <1>1, <2>1, <2>2 DEF Range
<1>5. ASSUME Distinct(q)
      PROVE  Distinct(Tail(q)) /\ Head(q) \notin Range(Tail(q))
  <2>1. ASSUME NEW i \in 1..(Len(q) - 1)
        PROVE  /\ Tail(q)[i] # Head(q)
               /\ \A j \in 1..(Len(q) - 1) : Tail(q)[i] = Tail(q)[j] => i = j
    BY <1>1, <1>5 DEF Distinct
  <2> QED
    BY <1>1, <2>1 DEF Distinct, Range
<1> QED
  BY <1>1, <1>2, <1>3, <1>4, <1>5

LEMMA InWith ==
  ASSUME BusTypeOK, NEW s \in Subscribers, NEW e
  PROVE  e \in With(s) <=> (e \in BatchEvents /\ <<s, e>> \in fnCalls) \/ e \in Range(inbox[s])
BY DEF With, Range

LEMMA BusInitInv == BusInit => BusTypeOK /\ FlowInv
<1> SUFFICES ASSUME BusInit
             PROVE  BusTypeOK /\ FlowInv
  OBVIOUS
<1>1. BusTypeOK
  BY BusAssumption DEF BusInit, BusTypeOK, Subscribers
<1>2. \A s \in Subscribers : With(s) = {}
  BY DEF BusInit, With, Subscribers
<1>3. OnWire = {} /\ Distinct(wire) /\ Sent = {}
  BY DEF BusInit, OnWire, Distinct, Sent
<1> QED
  BY <1>1, <1>2, <1>3 DEF BusInit, FlowInv, DemoInv, WireInv, GroupInv, ReachInv, Subscribers

(* Steps after which the subscribers have what they had, but for malformed *)
(* events.                                                                 *)
LEMMA KeepFlow ==
  ASSUME FlowInv, DemoInv', UNCHANGED <<published, wire, breaks>>,
         \A s \in Subscribers : With(s)' \subseteq With(s) /\ With(s) \ Malformed \subseteq With(s)'
  PROVE  FlowInv'
<1> USE DEF FlowInv
<1>1. OnWire' = OnWire /\ SoFar' = SoFar /\ Sent' = Sent
  BY DEF OnWire, SoFar, Sent
<1>2. WireInv'
  BY <1>1 DEF WireInv
<1>3. GroupInv'
  BY DEF GroupInv, Subscribers
<1>4. ReachInv'
  <2> SUFFICES ASSUME breaks = 0, NEW e \in Sent \ OnWire
               PROVE  /\ \E w \in Workers : e \in With(w)'
                      /\ \A s \in Plain : e \in With(s)'
    BY <1>1 DEF ReachInv
  <2>1. e \notin Malformed
    BY DEF Sent
  <2>2. /\ \E w \in Workers : e \in With(w)
        /\ \A s \in Plain : e \in With(s)
    BY DEF ReachInv
  <2> QED
    BY <2>1, <2>2 DEF Subscribers
<1> QED
  BY <1>2, <1>3, <1>4

(* Steps of main and of the handlers that move no event. *)
MainSteps ==
  \/ \E w \in Workers : QueueSubscribe(w) \/ PrintByWorker(w) \/ ConcurrentMapWrite(w)
                        \/ HandlerReturns(w)
  \/ \E s \in Plain : Subscribe(s)
  \/ ServeReply \/ Respond \/ RequestTimesOut \/ LoadHandled \/ MainReturns

LEMMA MainFlow ==
  ASSUME BusTypeOK, FlowInv, MainSteps
  PROVE  FlowInv' /\ UNCHANGED <<published, wire, breaks, inbox, fnCalls>>
<1> USE DEF MainSteps
<1>1. UNCHANGED <<published, wire, breaks, inbox, fnCalls>>
  BY DEF QueueSubscribe, PrintByWorker, ConcurrentMapWrite, HandlerReturns, Subscribe,
     ServeReply, Respond, RequestTimesOut, LoadHandled, MainReturns
<1>2. OnWire' = OnWire /\ \A s \in Subscribers : With(s)' = With(s)
  BY <1>1 DEF OnWire, With
<1>3. DemoInv'
  BY <1>1, <1>2 DEF FlowInv, DemoInv, QueueSubscribe, PrintByWorker, ConcurrentMapWrite,
     HandlerReturns, Subscribe, ServeReply, Respond, RequestTimesOut, LoadHandled, MainReturns,
     Subscribers, lookup
<1> QED
  BY <1>1, <1>2, <1>3, KeepFlow

(* A callback takes a message: it is dropped or handled. *)
LEMMA TakeFlow ==
  ASSUME BusTypeOK, FlowInv, NEW s \in Subscribers, inbox[s] # <<>>, Take(s),
         UNCHANGED <<demo, subs, published, wire, breaks, flushed, request>>,
         \/ Head(inbox[s]) \in Malformed /\ fnCalls' = fnCalls
         \/ Head(inbox[s]) \notin Malformed /\ fnCalls' = fnCalls \cup {<<s, Head(inbox[s])>>}
  PROVE  /\ inbox' \in [Subscribers -> Seq(BatchEvents)] /\ Head(inbox[s]) \in BatchEvents
         /\ fnCalls' \subseteq Subscribers \X (BatchEvents \ Malformed) /\ FlowInv'
<1> DEFINE e == Head(inbox[s])
<1>1. inbox[s] \in Seq(BatchEvents)
  BY DEF BusTypeOK
<1>2. /\ Tail(inbox[s]) \in Seq(BatchEvents) /\ e \in BatchEvents
      /\ Range(inbox[s]) = Range(Tail(inbox[s])) \cup {e}
  BY <1>1, HeadTail
<1>3. /\ inbox' \in [Subscribers -> Seq(BatchEvents)] /\ inbox'[s] = Tail(inbox[s])
      /\ \A t \in Subscribers \ {s} : inbox'[t] = inbox[t]
  BY <1>2 DEF BusTypeOK, Take
<1>4. fnCalls' \subseteq Subscribers \X (BatchEvents \ Malformed)
  BY <1>2 DEF BusTypeOK
<1>5. ASSUME NEW t \in Subscribers
      PROVE  With(t)' \subseteq With(t) /\ With(t) \ Malformed \subseteq With(t)'
  <2>1. CASE t = s
    <3>1. /\ With(s) = {x \in BatchEvents : <<s, x>> \in fnCalls} \cup Range(inbox[s])
          /\ With(s)' = {x \in BatchEvents : <<s, x>> \in fnCalls'} \cup Range(inbox'[s])
      BY DEF With, Range
    <3>2. CASE e \in Malformed
      BY <1>2, <1>3, <2>1, <3>1, <3>2
    <3>3. CASE e \notin Malformed
      BY <1>2, <1>3, <2>1, <3>1, <3>3
    <3> QED
      BY <3>2, <3>3
  <2>2. CASE t # s
    <3>1. inbox'[t] = inbox[t] /\ \A x : <<t, x>> \in fnCalls' <=> <<t, x>> \in fnCalls
      BY <1>3, <2>2
    <3> QED
      BY <3>1 DEF With
  <2> QED
    BY <2>1, <2>2
<1>6. DemoInv'
  BY DEF FlowInv, DemoInv, OnWire
<1>7. FlowInv'
  BY <1>5, <1>6, KeepFlow
<1> QED
  BY <1>2, <1>3, <1>4, <1>7

(* Publish puts an event on the wire that nobody has. *)
LEMMA PublishFlow ==
  ASSUME BusTypeOK, FlowInv, Publish
  PROVE  FlowInv' /\ wire' \in Seq(BatchEvents \cup {"request"}) /\ published' \in 0..Len(Batch)
<1> DEFINE e == Batch[published + 1]
<1> USE DEF FlowInv
<1>1. /\ published + 1 \in DOMAIN Batch /\ published' = published + 1 /\ published \in Nat
      /\ wire' = Append(wire, e) /\ demo = "publish" /\ published' \in 0..Len(Batch)
      /\ UNCHANGED <<demo, subs, inbox, fnCalls, breaks, flushed, request>>
  BY BusAssumption DEF Publish, BusTypeOK, lookup
<1>2. e \in BatchEvents /\ e # "request" /\ e \notin SoFar
  <2>1. e \in BatchEvents /\ e # "request"
    BY <1>1, BusAssumption DEF BatchEvents
  <2>2. ASSUME NEW i \in 1..published
        PROVE  Batch[i] # e
    BY <1>1, BusAssumption DEF BusTypeOK
  <2> QED
    BY <2>1, <2>2 DEF SoFar
<1>3. SoFar' = SoFar \cup {e}
  <2>1. 1..(published + 1) = (1..published) \cup {published + 1}
    BY <1>1
  <2> QED
    BY <1>1, <2>1 DEF SoFar
<1>4. OnWire = Range(wire) /\ OnWire' = Range(wire')
  BY DEF OnWire, Range
<1> DEFINE S == BatchEvents \cup {"request"}
<1>w. wire \in Seq(S) /\ e \in S
  BY <1>2 DEF BusTypeOK
<1>5. wire' \in Seq(BatchEvents \cup {"request"}) /\ Range(wire') = Range(wire) \cup {e}
  <2> HIDE DEF S, e
  <2>1. Append(wire, e) \in Seq(S) /\ Range(Append(wire, e)) = Range(wire) \cup {e}
    BY <1>w, AppendRange
  <2> QED
    BY <1>1, <2>1 DEF S
<1>6. OnWire' = OnWire \cup {e} /\ e \notin OnWire
  BY <1>2, <1>4, <1>5 DEF WireInv
<1>7. \A s \in Subscribers : With(s)' = With(s)
  BY <1>1 DEF With
<1>8. Distinct(wire')
  <2>1. Distinct(wire) /\ e \notin {wire[i] : i \in DOMAIN wire}
    BY <1>6 DEF WireInv, OnWire
  <2> HIDE DEF S, e
  <2> QED
    BY <1>1, <1>w, <2>1, AppendDistinct
<1>9. DemoInv'
  <2>1. "request" \notin OnWire' /\ ~flushed' /\ request' = "none"
    BY <1>1, <1>2, <1>6 DEF DemoInv
  <2>2. \A i \in DOMAIN wire' : wire'[i] # "request"
    BY <2>1 DEF OnWire
  <2> QED
    BY <1>1, <2>1, <2>2 DEF DemoInv
<1>10. WireInv'
  BY <1>2, <1>3, <1>6, <1>7, <1>8 DEF WireInv
<1>11. GroupInv'
  BY <1>7 DEF GroupInv, Subscribers
<1>12. ReachInv'
  <2>1. Sent' \ OnWire' \subseteq Sent \ OnWire
    BY <1>3, <1>6 DEF Sent, SoFar
  <2> QED
    BY <1>1, <1>7, <2>1 DEF ReachInv, Subscribers
<1> QED
  BY <1>1, <1>5, <1>9, <1>10, <1>11, <1>12

(* The request follows what is on the wire: nothing, if Flush succeeded.   *)
LEMMA FlushFlow ==
  ASSUME BusTypeOK, FlowInv, NEW ok \in BOOLEAN, Flush(ok)
  PROVE  FlowInv' /\ wire' \in Seq(BatchEvents \cup {"request"})
<1> DEFINE S == BatchEvents \cup {"request"}
<1> USE DEF FlowInv
<1>1. /\ ok => wire = <<>>
      /\ wire' = Append(wire, "request") /\ demo = "publish" /\ demo' = "request"
      /\ flushed' = ok /\ request' = "sent"
      /\ UNCHANGED <<subs, published, inbox, fnCalls, breaks>>
  BY DEF Flush
<1>w. wire \in Seq(S) /\ "request" \in S /\ "request" \notin OnWire
  BY <1>1 DEF BusTypeOK, DemoInv
<1>2. wire' \in Seq(S) /\ Range(wire') = Range(wire) \cup {"request"}
  <2> HIDE DEF S
  <2> QED
    BY <1>1, <1>w, AppendRange
<1>3. OnWire' = OnWire \cup {"request"}
  BY <1>2 DEF OnWire, Range
<1>4. Distinct(wire')
  <2>1. Distinct(wire) /\ "request" \notin {wire[i] : i \in DOMAIN wire}
    BY <1>w DEF WireInv, OnWire
  <2> HIDE DEF S
  <2> QED
    BY <1>1, <1>w, <2>1, AppendDistinct
<1>5. \A s \in Subscribers : With(s)' = With(s)
  BY <1>1 DEF With
<1>6. /\ SoFar' = SoFar /\ Sent' = Sent /\ SoFar \subseteq BatchEvents
      /\ "request" \notin Sent /\ \A s \in Subscribers : "request" \notin With(s)
  <2>1. SoFar' = SoFar /\ Sent' = Sent /\ SoFar \subseteq BatchEvents /\ Sent \subseteq SoFar
    BY <1>1, BusAssumption DEF SoFar, Sent, BusTypeOK, BatchEvents
  <2> QED
    BY <2>1, BusAssumption DEF WireInv
<1>7. DemoInv'
  <2>1. /\ Len(wire') = Len(wire) + 1 /\ Len(wire) \in Nat /\ DOMAIN wire' = 1..(Len(wire) + 1)
        /\ \A i \in 1..Len(wire) : wire'[i] = wire[i] /\ i \in DOMAIN wire
    BY <1>1, <1>w
  <2>2. ASSUME NEW i \in DOMAIN wire', wire'[i] = "request"
        PROVE  i = Len(wire')
    BY <1>w, <2>1, <2>2 DEF OnWire
  <2>3. ok => OnWire' \subseteq {"request"}
    BY <1>1, <1>3 DEF OnWire
  <2> QED
    BY <1>1, <2>2, <2>3 DEF DemoInv
<1>8. WireInv'
  BY <1>3, <1>4, <1>5, <1>6 DEF WireInv
<1>9. GroupInv' /\ ReachInv'
  <2>1. Sent' \ OnWire' = Sent \ OnWire
    BY <1>3, <1>6
  <2> QED
    BY <1>1, <1>5, <2>1 DEF GroupInv, ReachInv, Subscribers
<1> QED
  BY <1>2, <1>7, <1>8, <1>9

(* A broken connection loses what is on the wire. *)
LEMMA BreakFlow ==
  ASSUME BusTypeOK, FlowInv, Break
  PROVE  FlowInv'
<1> USE DEF FlowInv
<1>1. /\ wire' = <<>> /\ breaks' # 0 /\ DOMAIN <<>> = {}
      /\ UNCHANGED <<demo, subs, published, inbox, fnCalls, flushed, request>>
  BY DEF Break, BusTypeOK, lookup
<1>2. OnWire' = {} /\ Distinct(wire') /\ SoFar' = SoFar
  BY <1>1 DEF OnWire, Distinct, SoFar
<1>3. \A s \in Subscribers : With(s)' = With(s)
  BY <1>1 DEF With
<1> QED
  BY <1>1, <1>2, <1>3 DEF DemoInv, WireInv, GroupInv, ReachInv, Subscribers

(* The server passes on the event at the front of the wire. *)
LEMMA RouteFlow ==
  ASSUME BusTypeOK, FlowInv, Route
  PROVE  /\ FlowInv' /\ wire' \in Seq(BatchEvents \cup {"request"})
         /\ inbox' \in [Subscribers -> Seq(BatchEvents)]
         /\ \A s \in Subscribers :
              \/ inbox'[s] = inbox[s]
              \/ \E e \in BatchEvents : e \notin With(s) /\ inbox'[s] = Append(inbox[s], e)
<1> DEFINE S == BatchEvents \cup {"request"}
           e == Head(wire)
<1> USE DEF FlowInv
<1>1. /\ wire # <<>> /\ wire' = Tail(wire) /\ wire \in Seq(S)
      /\ UNCHANGED <<demo, subs, published, fnCalls, breaks, flushed>>
  BY DEF Route, BusTypeOK
<1>2. /\ wire' \in Seq(S) /\ e \in S /\ Range(wire) = Range(wire') \cup {e}
      /\ Distinct(wire) => Distinct(wire') /\ e \notin Range(wire')
  <2> HIDE DEF S
  <2> QED
    BY <1>1, HeadTail
<1>3. OnWire = OnWire' \cup {e} /\ Distinct(wire') /\ e \notin OnWire'
  BY <1>2 DEF OnWire, Range, WireInv
<1>4. SoFar' = SoFar /\ Sent' = Sent /\ "request" \notin SoFar
  BY <1>1, BusAssumption DEF SoFar, Sent, BatchEvents, BusTypeOK
<1>5. DemoInv'
  <2>1. /\ Len(wire) \in Nat /\ Len(wire) > 0 /\ Len(wire') = Len(wire) - 1 /\ e = wire[1]
        /\ DOMAIN wire = 1..Len(wire) /\ DOMAIN wire' = 1..(Len(wire) - 1)
        /\ \A i \in 1..(Len(wire) - 1) : wire'[i] = wire[i + 1]
    BY <1>1
  <2>2. \A i \in DOMAIN wire' : wire'[i] = "request" => i = Len(wire')
    BY <2>1 DEF DemoInv
  <2>3. request' = request \/ (e = "request" /\ request' = "served")
    BY DEF Route
  <2>4. ASSUME request' \in {"served", "answered"}
        PROVE  wire' = <<>>
    <3>1. e = "request"
      BY <1>1, <2>3, <2>4 DEF DemoInv
    <3>2. Len(wire) = 1
      BY <2>1, <3>1 DEF DemoInv
    <3> QED
      BY <1>2, <2>1, <3>2
  <2>5. demo \in {"subscribe", "publish"} => request' = "none"
    BY <1>3, <2>3 DEF DemoInv
  <2> QED
    BY <1>1, <1>3, <2>2, <2>4, <2>5 DEF DemoInv
<1>6. CASE e = "request"
  <2>1. UNCHANGED inbox
    BY <1>6 DEF Route
  <2>2. \A s \in Subscribers : With(s)' = With(s)
    BY <1>1, <2>1 DEF With
  <2>3. WireInv'
    BY <1>3, <1>4, <2>2 DEF WireInv
  <2>4. Sent \ OnWire' = Sent \ OnWire
    BY <1>3, <1>4, <1>6 DEF Sent, SoFar
  <2>5. GroupInv' /\ ReachInv'
    BY <1>1, <1>4, <2>2, <2>4 DEF GroupInv, ReachInv, Subscribers
  <2> QED
    BY <1>2, <1>5, <2>1, <2>3, <2>5 DEF BusTypeOK
<1>7. CASE e # "request"
  <2>1. e \in BatchEvents /\ e \in SoFar /\ \A s \in Subscribers : e \notin With(s)
    BY <1>2, <1>3, <1>7 DEF WireInv
  <2>2. subs = Subscribers
    <3>1. published # 0
      BY <2>1 DEF SoFar
    <3> QED
      BY <3>1 DEF DemoInv
  <2>3. PICK to \in Recipients(e) :
          inbox' = [s \in DOMAIN inbox |-> IF s \in to THEN Append(inbox[s], e) ELSE inbox[s]]
    BY <1>7 DEF Route
  <2>4. PICK w \in Workers : to = Plain \cup {w}
    BY <2>2, <2>3 DEF Recipients, Members, Subscribers
  <2>5. DOMAIN inbox = Subscribers /\ \A s \in Subscribers : inbox[s] \in Seq(BatchEvents)
    BY DEF BusTypeOK
  <2>6. ASSUME NEW s \in Subscribers
        PROVE  /\ inbox'[s] \in Seq(BatchEvents)
               /\ s \in to => inbox'[s] = Append(inbox[s], e) /\ With(s)' = With(s) \cup {e}
               /\ s \notin to => inbox'[s] = inbox[s] /\ With(s)' = With(s)
    <3>1. /\ With(s) = {x \in BatchEvents : <<s, x>> \in fnCalls} \cup Range(inbox[s])
          /\ With(s)' = {x \in BatchEvents : <<s, x>> \in fnCalls} \cup Range(inbox'[s])
      BY <1>1 DEF With, Range
    <3>2. CASE s \in to
      <4>1. inbox'[s] = Append(inbox[s], e)
        BY <2>3, <2>5, <3>2
      <4>2. inbox'[s] \in Seq(BatchEvents) /\ Range(inbox'[s]) = Range(inbox[s]) \cup {e}
        <5> HIDE DEF e
        <5> QED
          BY <2>1, <2>5, <4>1, AppendRange
      <4> QED
        BY <3>1, <3>2, <4>1, <4>2
    <3>3. CASE s \notin to
      <4>1. inbox'[s] = inbox[s]
        BY <2>3, <2>5, <3>3
      <4> QED
        BY <2>5, <3>1, <3>3, <4>1
    <3> QED
      BY <3>2, <3>3
  <2>7. inbox' \in [Subscribers -> Seq(BatchEvents)]
    BY <2>3, <2>5, <2>6
  <2>8. WireInv'
    <3>1. ASSUME NEW s \in Subscribers
          PROVE  With(s)' \subseteq SoFar /\ OnWire' \cap With(s)' = {}
      BY <1>3, <2>1, <2>6 DEF WireInv
    <3> QED
      BY <1>3, <1>4, <3>1 DEF WireInv
  <2>9. GroupInv'
    <3> SUFFICES ASSUME NEW u \in Workers, NEW v \in Workers, u # v
                 PROVE  With(u)' \cap With(v)' = {}
      BY DEF GroupInv
    <3>1. u \notin to \/ v \notin to
      BY <2>4, BusAssumption
    <3>2. With(u) \cap With(v) = {} /\ e \notin With(u) /\ e \notin With(v)
      BY <2>1 DEF GroupInv, Subscribers
    <3> QED
      BY <2>6, <3>1, <3>2 DEF Subscribers
  <2>10. ReachInv'
    <3> SUFFICES ASSUME breaks = 0, NEW x \in Sent \ OnWire'
                 PROVE  /\ \E v \in Workers : x \in With(v)'
                        /\ \A s \in Plain : x \in With(s)'
      BY <1>1, <1>4 DEF ReachInv
    <3>1. CASE x = e
      BY <2>4, <2>6, <3>1 DEF Subscribers
    <3>2. CASE x # e
      <4>1. x \in Sent \ OnWire
        BY <1>3, <3>2
      <4>2. \A s \in Subscribers : With(s) \subseteq With(s)'
        BY <2>6
      <4> QED
        BY <4>1, <4>2 DEF ReachInv, Subscribers
    <3> QED
      BY <3>1, <3>2
  <2>11. ASSUME NEW s \in Subscribers
         PROVE  \/ inbox'[s] = inbox[s]
                \/ \E x \in BatchEvents : x \notin With(s) /\ inbox'[s] = Append(inbox[s], x)
    BY <2>1, <2>6
  <2> QED
    BY <1>2, <1>5, <2>7, <2>8, <2>9, <2>10, <2>11
<1> QED
  BY <1>6, <1>7

(* No worker gets an event again that it has handled. *)
InboxInv == \A w \in Workers :
              Distinct(inbox[w]) /\ \A e \in Range(inbox[w]) : <<w, e>> \notin fnCalls

Counts      == {x \in Workers \X Nat : x[2] \in 1..CountOf(x[1])}
WorkerCalls == {c \in fnCalls : c[1] \in Workers}
Busy        == {w \in Workers : hand[w] # <<>>}

(* A worker's own counter counts its calls, the total those that returned. *)
CountInv ==
  /\ IsFiniteSet(Counts) /\ IsFiniteSet(WorkerCalls)
  /\ Cardinality(Counts) = Cardinality(WorkerCalls)
  /\ handled + Cardinality(Busy) = Cardinality(Counts)

(* The counts main has read, and for the entries still due those it would  *)
(* read now.                                                               *)
Reading == Tally(printed[2]) \cup {x \in Counts : x[1] \in due}

PrintInv ==
  printed # <<>> =>
    /\ \A x \in printed[2] : x[2] <= CountOf(x[1])
    /\ printed[1] <= Cardinality(Reading)

BusInv == BusTypeOK /\ FlowInv /\ InboxInv /\ CountInv /\ PrintInv

LEMMA InTally ==
  ASSUME NEW S, NEW x
  PROVE  x \in Tally(S) <=> \E y \in S : \E k \in 1..y[2] : x = <<y[1], k>>
BY DEF Tally

LEMMA CountType ==
  ASSUME BusTypeOK, NEW w
  PROVE  CountOf(w) \in Nat
BY DEF BusTypeOK, CountOf

LEMMA BusyFinite == IsFiniteSet(Busy) /\ Cardinality(Busy) \in Nat
BY BusAssumption, FS_Subset, FS_CardinalityType DEF Busy

(* What main reads is part of what the workers have counted. *)
LEMMA ReadingInCounts ==
  ASSUME BusTypeOK, printed # <<>>, \A x \in printed[2] : x[2] <= CountOf(x[1])
  PROVE  Reading \subseteq Counts
<1> SUFFICES ASSUME NEW x \in Tally(printed[2])
             PROVE  x \in Counts
  BY DEF Reading
<1>1. PICK y \in printed[2] : \E k \in 1..y[2] : x = <<y[1], k>>
  BY InTally
<1>2. y[1] \in Workers /\ y[2] \in Nat /\ y[2] <= CountOf(y[1]) /\ CountOf(y[1]) \in Nat
  BY CountType DEF BusTypeOK
<1> QED
  BY <1>1, <1>2 DEF Counts

LEMMA BusInitCounts == BusInit => InboxInv /\ CountInv /\ PrintInv
<1> SUFFICES ASSUME BusInit
             PROVE  InboxInv /\ CountInv /\ PrintInv
  OBVIOUS
<1>1. InboxInv
  BY DEF BusInit, InboxInv, Distinct, Range
<1>2. Counts = {} /\ WorkerCalls = {} /\ Busy = {}
  BY DEF BusInit, Counts, CountOf, WorkerCalls, Busy
<1>3. CountInv
  BY <1>2, FS_EmptySet DEF BusInit, CountInv
<1>4. PrintInv
  BY DEF BusInit, PrintInv
<1> QED
  BY <1>1, <1>3, <1>4

(* Steps that leave the counters, and what has been printed, alone. *)
LEMMA KeepCounts ==
  ASSUME BusInv, UNCHANGED <<byWorker, handled, hand, printed, due>>, WorkerCalls' = WorkerCalls
  PROVE  CountInv' /\ PrintInv'
<1> USE DEF BusInv
<1>1. Counts' = Counts /\ Busy' = Busy /\ \A w : CountOf(w)' = CountOf(w)
  BY DEF Counts, Busy, CountOf
<1>2. Reading' = Reading
  BY <1>1 DEF Reading
<1> QED
  BY <1>1, <1>2 DEF CountInv, PrintInv

LEMMA QuietCounts ==
  ASSUME BusInv, UNCHANGED <<byWorker, handled, hand, printed, due, inbox, fnCalls>>
  PROVE  InboxInv' /\ CountInv' /\ PrintInv'
<1>1. WorkerCalls' = WorkerCalls
  BY DEF WorkerCalls
<1>2. InboxInv'
  BY DEF BusInv, InboxInv
<1> QED
  BY <1>1, <1>2, KeepCounts

LEMMA RouteCounts ==
  ASSUME BusInv, Route
  PROVE  InboxInv' /\ CountInv' /\ PrintInv'
<1> USE DEF BusInv
<1>1. UNCHANGED <<byWorker, handled, hand, printed, due, fnCalls>>
  BY DEF Route, output
<1>2. CountInv' /\ PrintInv'
  BY <1>1, KeepCounts DEF WorkerCalls
<1>3. ASSUME NEW w \in Workers
      PROVE  Distinct(inbox'[w]) /\ \A e \in Range(inbox'[w]) : <<w, e>> \notin fnCalls
  <2>1. /\ w \in Subscribers /\ inbox[w] \in Seq(BatchEvents) /\ Distinct(inbox[w])
        /\ \A e \in Range(inbox[w]) : <<w, e>> \notin fnCalls
    BY DEF BusTypeOK, Subscribers, InboxInv
  <2>2. CASE inbox'[w] = inbox[w]
    BY <2>1, <2>2
  <2>3. ASSUME NEW e \in BatchEvents, e \notin With(w), inbox'[w] = Append(inbox[w], e)
        PROVE  Distinct(inbox'[w]) /\ \A x \in Range(inbox'[w]) : <<w, x>> \notin fnCalls
    <3>1. e \notin {inbox[w][i] : i \in DOMAIN inbox[w]} /\ <<w, e>> \notin fnCalls
      BY <2>3 DEF With
    <3>2. Range(inbox'[w]) = Range(inbox[w]) \cup {e}
      BY <2>1, <2>3, AppendRange
    <3>3. Distinct(inbox'[w])
      BY <2>1, <2>3, <3>1, AppendDistinct
    <3> QED
      BY <2>1, <3>1, <3>2, <3>3
  <2> QED
    BY <2>1, <2>2, <2>3, RouteFlow
<1>4. InboxInv'
  BY <1>1, <1>3 DEF InboxInv
<1> QED
  BY <1>2, <1>4

(* A callback that takes a message from the inbox of s. *)
LEMMA TakeInbox ==
  ASSUME BusInv, NEW s \in Subscribers, inbox[s] # <<>>, Take(s),
         fnCalls' = fnCalls \/ fnCalls' = fnCalls \cup {<<s, Head(inbox[s])>>}
  PROVE  InboxInv' /\ (s \in Workers => <<s, Head(inbox[s])>> \notin fnCalls)
<1> USE DEF BusInv
<1>1. /\ inbox[s] \in Seq(BatchEvents) /\ inbox'[s] = Tail(inbox[s])
      /\ \A w \in Subscribers \ {s} : inbox'[w] = inbox[w]
  BY DEF BusTypeOK, Take
<1>2. /\ Range(inbox[s]) = Range(Tail(inbox[s])) \cup {Head(inbox[s])}
      /\ Distinct(inbox[s]) => /\ Distinct(Tail(inbox[s]))
                               /\ Head(inbox[s]) \notin Range(Tail(inbox[s]))
  BY <1>1, HeadTail
<1>3. ASSUME NEW w \in Workers
      PROVE  Distinct(inbox'[w]) /\ \A e \in Range(inbox'[w]) : <<w, e>> \notin fnCalls'
  <2>1. w \in Subscribers /\ Distinct(inbox[w]) /\ \A e \in Range(inbox[w]) : <<w, e>> \notin fnCalls
    BY DEF Subscribers, InboxInv
  <2>2. CASE w = s
    BY <1>1, <1>2, <2>1, <2>2
  <2>3. CASE w # s
    BY <1>1, <2>1, <2>3
  <2> QED
    BY <2>2, <2>3
<1>4. InboxInv'
  BY <1>3 DEF InboxInv
<1>5. s \in Workers => <<s, Head(inbox[s])>> \notin fnCalls
  BY <1>2 DEF InboxInv
<1> QED
  BY <1>4, <1>5

LEMMA PlainCounts ==
  ASSUME BusInv, NEW s \in Subscribers, DropMalformed(s) \/ (s \in Plain /\ CallPlain(s))
  PROVE  InboxInv' /\ CountInv' /\ PrintInv'
<1>1. /\ inbox[s] # <<>> /\ Take(s) /\ UNCHANGED <<byWorker, handled, hand, printed, due>>
      /\ fnCalls' = fnCalls \/ (s \in Plain /\ fnCalls' = fnCalls \cup {<<s, Head(inbox[s])>>})
  BY DEF DropMalformed, CallPlain, output
<1>2. WorkerCalls' = WorkerCalls
  BY <1>1, BusAssumption DEF WorkerCalls
<1> QED
  BY <1>1, <1>2, TakeInbox, KeepCounts

(* A worker's handler is called, and counts the call as its own. *)
LEMMA CallWorkerCounts ==
  ASSUME BusInv, NEW w \in Workers, CallWorker(w)
  PROVE  InboxInv' /\ CountInv' /\ PrintInv'
<1> USE DEF BusInv
<1> DEFINE e == Head(inbox[w])
           n == CountOf(w) + 1
<1>1. /\ w \in Subscribers /\ inbox[w] # <<>> /\ Take(w) /\ hand[w] = <<>>
      /\ fnCalls' = fnCalls \cup {<<w, e>>} /\ UNCHANGED <<printed, due>>
      /\ hand' = [hand EXCEPT ![w] = <<e>>] /\ handled' = handled
      /\ byWorker' = [v \in DOMAIN byWorker \cup {w} |-> IF v = w THEN n ELSE byWorker[v]]
  BY DEF CallWorker, MayCall, Subscribers, Increment, HandlerCounts, output
<1>2. InboxInv' /\ <<w, e>> \notin fnCalls
  BY <1>1, TakeInbox
<1>3. /\ CountOf(w) \in Nat /\ CountOf(w)' = n
      /\ \A v \in Workers \ {w} : CountOf(v)' = CountOf(v)
  BY <1>1, CountType DEF CountOf
<1>4. Counts' = Counts \cup {<<w, n>>} /\ <<w, n>> \notin Counts
  <2>1. ASSUME NEW x \in Workers \X Nat
        PROVE  x[2] \in 1..CountOf(x[1])' <=> x[2] \in 1..CountOf(x[1]) \/ x = <<w, n>>
    <3>1. PICK v \in Workers, k \in Nat : x = <<v, k>>
      OBVIOUS
    <3>2. CASE v = w
      BY <1>3, <3>1, <3>2
    <3>3. CASE v # w
      BY <1>3, <3>1, <3>3
    <3> QED
      BY <3>2, <3>3
  <2>2. <<w, n>> \in Workers \X Nat
    BY <1>3
  <2>3. <<w, n>> \notin Counts
    BY <1>3 DEF Counts
  <2> QED
    BY <2>1, <2>2, <2>3 DEF Counts
<1>5. WorkerCalls' = WorkerCalls \cup {<<w, e>>} /\ <<w, e>> \notin WorkerCalls
  BY <1>1, <1>2 DEF WorkerCalls
<1>6. Busy' = Busy \cup {w} /\ w \notin Busy
  BY <1>1 DEF Busy, BusTypeOK
<1>7. IsFiniteSet(Counts') /\ Cardinality(Counts') = Cardinality(Counts) + 1
  <2> HIDE DEF n
  <2> QED
    BY <1>4, FS_AddElement DEF CountInv
<1>8. IsFiniteSet(WorkerCalls') /\ Cardinality(WorkerCalls') = Cardinality(WorkerCalls) + 1
  <2> HIDE DEF e
  <2> QED
    BY <1>5, FS_AddElement DEF CountInv
<1>9. Cardinality(Busy') = Cardinality(Busy) + 1 /\ Cardinality(Busy) \in Nat
  BY <1>6, BusyFinite, FS_AddElement
<1>10. Cardinality(Counts) \in Nat
  BY FS_CardinalityType DEF CountInv
<1>11. CountInv'
  BY <1>1, <1>7, <1>8, <1>9, <1>10 DEF CountInv, BusTypeOK
<1>12. PrintInv'
  <2> SUFFICES ASSUME printed # <<>>
               PROVE  /\ \A x \in printed[2] : x[2] <= CountOf(x[1])'
                      /\ printed[1] <= Cardinality(Reading')
    BY <1>1 DEF PrintInv
  <2>1. printed[1] \in Nat /\ \A x \in printed[2] : x[1] \in Workers /\ x[2] \in Nat
    BY DEF BusTypeOK
  <2>2. \A x \in printed[2] : x[2] <= CountOf(x[1])'
    <3>1. \A v \in Workers :
            CountOf(v) \in Nat /\ CountOf(v)' \in Nat /\ CountOf(v) <= CountOf(v)'
      <4> TAKE v \in Workers
      <4>1. CountOf(v) \in Nat
        BY CountType
      <4>2. CASE v = w
        BY <1>3, <4>2
      <4>3. CASE v # w
        BY <1>3, <4>1, <4>3
      <4> QED
        BY <4>2, <4>3
    <3>2. \A x \in printed[2] : x[2] <= CountOf(x[1])
      BY DEF PrintInv
    <3> QED
      BY <2>1, <3>1, <3>2
  <2>3. Reading' \subseteq Counts'
    <3>1. ASSUME NEW x \in Tally(printed[2])
          PROVE  x \in Counts'
      BY <1>4, ReadingInCounts DEF PrintInv, Reading
    <3> QED
      BY <1>1, <3>1 DEF Reading
  <2>4. Reading \subseteq Reading'
    BY <1>1, <1>4 DEF Reading
  <2>5. IsFiniteSet(Reading') /\ Cardinality(Reading) <= Cardinality(Reading')
    BY <1>7, <2>3, <2>4, FS_Subset
  <2>6. Cardinality(Reading) \in Nat /\ Cardinality(Reading') \in Nat
    BY <2>4, <2>5, FS_Subset, FS_CardinalityType
  <2> QED
    BY <2>1, <2>2, <2>5, <2>6 DEF PrintInv
<1> QED
  BY <1>2, <1>11, <1>12

(* The handler returns, and the total catches up. *)
LEMMA HandlerReturnsCounts ==
  ASSUME BusInv, NEW w \in Workers, HandlerReturns(w)
  PROVE  InboxInv' /\ CountInv' /\ PrintInv'
<1> USE DEF BusInv
<1>1. /\ hand[w] # <<>> /\ hand' = [hand EXCEPT ![w] = <<>>] /\ handled' = handled + 1
      /\ UNCHANGED <<byWorker, inbox, fnCalls, printed, due>>
  BY DEF HandlerReturns, Increment, HandlerCounts, output
<1>2. /\ Counts' = Counts /\ WorkerCalls' = WorkerCalls /\ InboxInv'
      /\ \A v : CountOf(v)' = CountOf(v)
  BY <1>1 DEF Counts, CountOf, WorkerCalls, InboxInv
<1>3. Busy' = Busy \ {w} /\ w \in Busy
  BY <1>1 DEF Busy, BusTypeOK
<1>4. Cardinality(Busy') = Cardinality(Busy) - 1 /\ Cardinality(Busy) \in Nat
  BY <1>3, BusyFinite, FS_RemoveElement
<1>5. CountInv'
  BY <1>1, <1>2, <1>4 DEF CountInv, BusTypeOK
<1>6. PrintInv'
  BY <1>1, <1>2 DEF PrintInv, Reading
<1> QED
  BY <1>2, <1>5, <1>6

(* main reads the total, then the counters one by one. *)
LEMMA LoadHandledCounts ==
  ASSUME BusInv, LoadHandled
  PROVE  PrintInv'
<1> USE DEF BusInv
<1>1. /\ printed' = <<handled, {}>> /\ due' = DOMAIN byWorker
      /\ UNCHANGED <<byWorker, handled, hand, fnCalls>>
  BY DEF LoadHandled
<1>2. Counts' = Counts /\ Tally(printed'[2]) = {}
  BY <1>1 DEF Counts, CountOf, Tally
<1>3. \A x \in Counts : x[1] \in DOMAIN byWorker
  BY DEF Counts, CountOf
<1>4. Reading' = Counts
  BY <1>1, <1>2, <1>3 DEF Reading
<1>5. Cardinality(Counts) \in Nat /\ Cardinality(Busy) \in Nat
  BY BusyFinite, FS_CardinalityType DEF CountInv
<1>6. handled <= Cardinality(Counts)
  BY <1>5 DEF CountInv, BusTypeOK
<1> QED
  BY <1>1, <1>4, <1>6 DEF PrintInv

LEMMA PrintByWorkerCounts ==
  ASSUME BusInv, NEW w \in Workers, PrintByWorker(w)
  PROVE  PrintInv' /\ printed' \in Nat \X SUBSET (Workers \X Nat) /\ due' \subseteq Workers
<1> USE DEF BusInv
<1>1. printed # <<>> /\ due' = due \ {w} /\ UNCHANGED <<byWorker, handled, hand, fnCalls>>
  BY DEF PrintByWorker
<1>2. PICK n \in EntryOf(w) : printed' = <<printed[1], printed[2] \cup {<<w, n>>}>>
  BY DEF PrintByWorker
<1>3. n = CountOf(w) /\ n \in Nat
  BY CountType DEF EntryOf, CountOf
<1> DEFINE y == <<w, n>>
<1>4. /\ printed[1] \in Nat /\ printed[2] \subseteq Workers \X Nat /\ y \in Workers \X Nat
      /\ printed'[1] = printed[1] /\ printed'[2] = printed[2] \cup {y} /\ printed' # <<>>
  BY <1>1, <1>2, <1>3 DEF BusTypeOK
<1>5. Counts' = Counts /\ \A v : CountOf(v)' = CountOf(v)
  BY <1>1 DEF Counts, CountOf
<1>6. Reading \subseteq Reading'
  <2> SUFFICES ASSUME NEW x \in Reading
               PROVE  x \in Reading'
    OBVIOUS
  <2>1. y[1] = w /\ y[2] = n
    OBVIOUS
  <2>2. x \in Tally(printed'[2]) <=>
          \E z \in printed[2] \cup {y} : \E k \in 1..z[2] : x = <<z[1], k>>
    BY <1>4, InTally
  <2>3. CASE x \in Tally(printed[2])
    <3>1. \E z \in printed[2] : \E k \in 1..z[2] : x = <<z[1], k>>
      BY <2>3, InTally
    <3> HIDE DEF y
    <3> QED
      BY <2>2, <3>1 DEF Reading
  <2>4. CASE x \in Counts /\ x[1] \in due /\ x[1] # w
    BY <1>1, <1>5, <2>4 DEF Reading
  <2>5. CASE x \in Counts /\ x[1] = w
    <3>1. x[2] \in 1..n /\ x = <<w, x[2]>>
      BY <1>3, <2>5 DEF Counts
    <3> HIDE DEF y
    <3> QED
      BY <2>1, <2>2, <3>1 DEF Reading
  <2> QED
    BY <2>3, <2>4, <2>5 DEF Reading
<1>7. \A x \in printed'[2] : x[2] <= CountOf(x[1])'
  BY <1>1, <1>3, <1>4, <1>5 DEF PrintInv
<1>8. /\ Cardinality(Reading) <= Cardinality(Reading')
      /\ Cardinality(Reading) \in Nat /\ Cardinality(Reading') \in Nat
  <2>1. Reading' \subseteq Counts
    <3>1. ASSUME NEW x \in Tally(printed'[2])
          PROVE  x \in Counts
      <4>1. PICK z \in printed'[2] : \E k \in 1..z[2] : x = <<z[1], k>>
        BY InTally
      <4>2. z[1] \in Workers /\ z[2] \in Nat /\ z[2] <= CountOf(z[1]) /\ CountOf(z[1]) \in Nat
        BY <1>4, <1>5, <1>7, CountType
      <4> QED
        BY <4>1, <4>2 DEF Counts
    <3> QED
      BY <1>5, <3>1 DEF Reading
  <2>2. IsFiniteSet(Reading')
    BY <2>1, FS_Subset DEF CountInv
  <2> QED
    BY <1>6, <2>2, FS_Subset, FS_CardinalityType
<1>9. PrintInv'
  BY <1>1, <1>4, <1>7, <1>8 DEF PrintInv
<1>10. due' \subseteq Workers
  BY <1>1 DEF BusTypeOK
<1> QED
  BY <1>2, <1>3, <1>4, <1>9, <1>10

LEMMA BusStepInv == BusInv /\ [BusNext]_busVars => BusInv'
<1> SUFFICES ASSUME BusInv, [BusNext]_busVars
             PROVE  BusInv'
  OBVIOUS
<1> USE DEF BusInv
<1>1. CASE MainSteps
  <2>1. FlowInv' /\ UNCHANGED <<published, wire, breaks, inbox, fnCalls>>
    BY <1>1, MainFlow
  <2>2. CASE \E w \in Workers : HandlerReturns(w)
    <3>1. BusTypeOK'
      BY <2>1, <2>2 DEF BusTypeOK, HandlerReturns, Increment, HandlerCounts, output
    <3> QED
      BY <2>1, <2>2, <3>1, HandlerReturnsCounts
  <2>3. CASE LoadHandled
    <3>1. InboxInv' /\ CountInv'
      BY <2>1, <2>3 DEF LoadHandled, InboxInv, CountInv, Counts, CountOf, WorkerCalls, Busy
    <3>2. BusTypeOK'
      BY <2>1, <2>3 DEF LoadHandled, BusTypeOK
    <3> QED
      BY <2>1, <2>3, <3>1, <3>2, LoadHandledCounts
  <2>4. CASE \E w \in Workers : PrintByWorker(w)
    <3>1. InboxInv' /\ CountInv'
      BY <2>1, <2>4 DEF PrintByWorker, InboxInv, CountInv, Counts, CountOf, WorkerCalls, Busy
    <3>2. PrintInv' /\ printed' \in Nat \X SUBSET (Workers \X Nat) /\ due' \subseteq Workers
      BY <2>4, PrintByWorkerCounts
    <3>3. UNCHANGED <<demo, subs, hand, byWorker, handled>>
      BY <2>4 DEF PrintByWorker
    <3>4. BusTypeOK'
      BY <2>1, <3>2, <3>3 DEF BusTypeOK
    <3> QED
      BY <2>1, <3>1, <3>2, <3>4
  <2>5. CASE \/ \E w \in Workers : QueueSubscribe(w) \/ ConcurrentMapWrite(w)
             \/ \E s \in Plain : Subscribe(s)
             \/ ServeReply \/ Respond \/ RequestTimesOut \/ MainReturns
    <3>1. /\ UNCHANGED <<byWorker, handled, hand, printed, due>>
          /\ demo' \in {"subscribe", "publish", "request", "sleep", "exited"}
          /\ subs' \subseteq Subscribers
      BY <2>5 DEF QueueSubscribe, ConcurrentMapWrite, Subscribe, ServeReply, Respond,
         RequestTimesOut, MainReturns, BusTypeOK, Subscribers, output
    <3>2. BusTypeOK'
      BY <2>1, <3>1 DEF BusTypeOK
    <3> QED
      BY <2>1, <3>1, <3>2, QuietCounts
  <2> QED
    BY <1>1, <2>2, <2>3, <2>4, <2>5 DEF MainSteps
<1>2. CASE Publish
  <2>1. UNCHANGED <<demo, subs, inbox, hand, byWorker, handled, fnCalls, printed, due, breaks>>
    BY <1>2 DEF Publish, output
  <2>2. BusTypeOK'
    BY <1>2, <2>1, PublishFlow DEF BusTypeOK
  <2> QED
    BY <1>2, <2>1, <2>2, PublishFlow, QuietCounts
<1>3. ASSUME NEW ok \in BOOLEAN, Flush(ok)
      PROVE  BusInv'
  <2>1. /\ UNCHANGED <<subs, published, inbox, hand, byWorker, handled, fnCalls, printed, due>>
        /\ demo' = "request" /\ breaks' = breaks
    BY <1>3 DEF Flush, output
  <2>2. BusTypeOK'
    BY <1>3, <2>1, FlushFlow DEF BusTypeOK
  <2> QED
    BY <1>3, <2>1, <2>2, FlushFlow, QuietCounts
<1>4. CASE Break
  <2>1. /\ UNCHANGED <<demo, subs, published, inbox, hand, byWorker, handled, fnCalls, printed>>
        /\ wire' = <<>> /\ breaks' = breaks + 1 /\ due' = due
    BY <1>4 DEF Break, output
  <2>2. BusTypeOK'
    BY <2>1 DEF BusTypeOK
  <2> QED
    BY <1>4, <2>1, <2>2, BreakFlow, QuietCounts
<1>5. CASE Route
  <2>1. UNCHANGED <<demo, subs, published, hand, byWorker, handled, fnCalls, printed, due, breaks>>
    BY <1>5 DEF Route, output
  <2>2. BusTypeOK'
    BY <1>5, <2>1, RouteFlow DEF BusTypeOK
  <2> QED
    BY <1>5, <2>2, RouteFlow, RouteCounts
<1>6. ASSUME NEW s \in Subscribers, DropMalformed(s) \/ (s \in Plain /\ CallPlain(s))
      PROVE  BusInv'
  <2>1. /\ inbox[s] # <<>> /\ Take(s)
        /\ UNCHANGED <<demo, subs, published, wire, hand, byWorker, handled, printed, breaks>>
        /\ UNCHANGED <<flushed, request, due>>
        /\ \/ Head(inbox[s]) \in Malformed /\ fnCalls' = fnCalls
           \/ Head(inbox[s]) \notin Malformed /\ fnCalls' = fnCalls \cup {<<s, Head(inbox[s])>>}
    BY <1>6 DEF DropMalformed, CallPlain, lookup, output
  <2>2. /\ inbox' \in [Subscribers -> Seq(BatchEvents)] /\ FlowInv'
        /\ fnCalls' \subseteq Subscribers \X (BatchEvents \ Malformed)
    BY <2>1, TakeFlow
  <2>3. BusTypeOK'
    BY <2>1, <2>2 DEF BusTypeOK
  <2> QED
    BY <1>6, <2>2, <2>3, PlainCounts
<1>7. ASSUME NEW w \in Workers, CallWorker(w)
      PROVE  BusInv'
  <2>1. /\ inbox[w] # <<>> /\ Take(w) /\ w \in Subscribers
        /\ UNCHANGED <<demo, subs, published, wire, printed, breaks>> /\ handled' = handled
        /\ UNCHANGED <<flushed, request, due>>
        /\ Head(inbox[w]) \notin Malformed /\ fnCalls' = fnCalls \cup {<<w, Head(inbox[w])>>}
        /\ hand' = [hand EXCEPT ![w] = <<Head(inbox[w])>>]
        /\ byWorker' = [v \in DOMAIN byWorker \cup {w} |->
                          IF v = w THEN CountOf(w) + 1 ELSE byWorker[v]]
    BY <1>7 DEF CallWorker, MayCall, Subscribers, Increment, HandlerCounts, lookup, output
  <2>2. /\ inbox' \in [Subscribers -> Seq(BatchEvents)] /\ FlowInv'
        /\ fnCalls' \subseteq Subscribers \X (BatchEvents \ Malformed)
        /\ Head(inbox[w]) \in BatchEvents
    BY <2>1, TakeFlow
  <2>3. hand' \in [Workers -> Seq(BatchEvents)]
    BY <2>1, <2>2 DEF BusTypeOK
  <2>5. DOMAIN byWorker' \subseteq Workers /\ byWorker' \in [DOMAIN byWorker' -> Nat]
    BY <2>1, CountType DEF BusTypeOK
  <2>4. BusTypeOK'
    BY <2>1, <2>2, <2>3, <2>5 DEF BusTypeOK
  <2> QED
    BY <1>7, <2>2, <2>4, CallWorkerCounts
<1>8. CASE UNCHANGED busVars
  <2>1. /\ UNCHANGED <<demo, subs, published, wire, inbox, hand>>
        /\ UNCHANGED <<byWorker, handled, fnCalls, printed, due, breaks, flushed, request>>
    BY <1>8 DEF busVars, lookup, output
  <2>2. BusTypeOK'
    BY <2>1 DEF BusTypeOK
  <2>3. DemoInv' /\ \A s \in Subscribers : With(s)' = With(s)
    BY <2>1 DEF FlowInv, DemoInv, OnWire, With
  <2> QED
    BY <2>1, <2>2, <2>3, KeepFlow, QuietCounts
<1> QED
  BY <1>1, <1>2, <1>3, <1>4, <1>5, <1>6, <1>7, <1>8
     DEF BusNext, DemoMain, MainSteps, Subscribers

LEMMA BusInvariant == BusSpec => []BusInv
<1>1. BusInit => BusInv
  BY BusInitInv, BusInitCounts DEF BusInv
<1> QED
  BY <1>1, BusStepInv, PTL DEF BusSpec

(* A message of the queue group reaches one member, and without a broken   *)
(* connection none is lost, even if Flush fails, for every batch and any   *)
(* number of subscribers (bus.go, lines 30-66).                            *)
THEOREM QueueGroupOnceHolds == BusSpec => []QueueGroupOnce
<1>1. ASSUME BusInv
      PROVE  QueueGroupOnce
  <2>1. "request" \notin Sent
    BY <1>1, BusAssumption DEF BusInv, BusTypeOK, Sent, BatchEvents
  <2>2. flushed \/ request \in {"served", "answered"} => Sent \cap OnWire = {}
    BY <1>1, <2>1 DEF BusInv, FlowInv, DemoInv, OnWire
  <2> QED
    BY <1>1, <2>2 DEF BusInv, FlowInv, GroupInv, ReachInv, QueueGroupOnce
<1> QED
  BY <1>1, BusInvariant, PTL

(* The total the demo prints never exceeds the counts it prints beside it, *)
(* nor these the batch, whenever main reads them and whatever the handlers *)
(* write meanwhile, for every batch and any number of workers (main.go of  *)
(* m08, lines 34-44 and 69-71).                                            *)
THEOREM PrintedConsistentHolds == BusSpec => []PrintedConsistent
<1>1. ASSUME BusInv, printed # <<>>, due = {}
      PROVE  /\ printed[1] <= Cardinality(Tally(printed[2]))
             /\ Cardinality(Tally(printed[2])) <= Cardinality(BatchEvents \ Malformed)
  <2> USE DEF BusInv
  <2>1. Reading = Tally(printed[2]) /\ printed[1] <= Cardinality(Reading)
    BY <1>1 DEF Reading, PrintInv
  <2>3. Cardinality(Reading) <= Cardinality(WorkerCalls) /\ Cardinality(Reading) \in Nat
        /\ Cardinality(WorkerCalls) \in Nat
    <3>1. Reading \subseteq Counts
      BY <1>1, ReadingInCounts DEF PrintInv
    <3> QED
      BY <1>1, <3>1, FS_Subset, FS_CardinalityType DEF CountInv
  <2>4. IsFiniteSet(BatchEvents \ Malformed)
    <3>1. DOMAIN Batch = 1..Len(Batch) /\ Len(Batch) \in Nat
      BY BusAssumption
    <3>2. Batch \in Surjection(1..Len(Batch), BatchEvents)
      BY <3>1, BusAssumption DEF Surjection, BatchEvents
    <3>3. IsFiniteSet(1..Len(Batch))
      BY <3>1, FS_Interval
    <3>4. IsFiniteSet(BatchEvents)
      BY <3>2, <3>3, FS_Surjection
    <3> QED
      BY <3>4, FS_Subset
  <2>5. Cardinality(WorkerCalls) <= Cardinality(BatchEvents \ Malformed)
    <3> DEFINE g == [c \in WorkerCalls |-> c[2]]
    <3>1. ASSUME NEW c \in WorkerCalls
          PROVE  c = <<c[1], c[2]>> /\ c[1] \in Workers /\ c[2] \in BatchEvents \ Malformed
                 /\ c[2] \in With(c[1])
      <4>1. c \in fnCalls /\ c[1] \in Workers /\ fnCalls \subseteq Subscribers \X (BatchEvents \ Malformed)
        BY <1>1 DEF WorkerCalls, BusTypeOK
      <4>2. c = <<c[1], c[2]>> /\ c[2] \in BatchEvents \ Malformed
        BY <4>1
      <4>3. c[2] \in With(c[1])
        BY <4>1, <4>2 DEF With
      <4> QED
        BY <4>1, <4>2, <4>3
    <3>2. g \in [WorkerCalls -> BatchEvents \ Malformed]
      BY <3>1
    <3>3. ASSUME NEW c \in WorkerCalls, NEW d \in WorkerCalls, c[2] = d[2]
          PROVE  c = d
      <4>1. c[1] = d[1]
        BY <1>1, <3>1, <3>3 DEF FlowInv, GroupInv
      <4> QED
        BY <3>1, <3>3, <4>1
    <3>4. g \in Injection(WorkerCalls, BatchEvents \ Malformed)
      BY <3>2, <3>3 DEF Injection, IsInjective
    <3> HIDE DEF g
    <3> QED
      BY <2>4, <3>4, FS_Injection
  <2>6. Cardinality(BatchEvents \ Malformed) \in Nat
    BY <2>4, FS_CardinalityType
  <2> QED
    BY <2>1, <2>3, <2>5, <2>6
<1>2. BusInv => PrintedConsistent
  BY <1>1 DEF PrintedConsistent
<1> QED
  BY <1>2, BusInvariant, PTL

-----------------------------------------------------------------------------
(* The profile service: a stored profile is that of the last upsert, and a *)
(* get holds one that was stored after it came in.                         *)
RawEvents == {in.event : in \in {s[c] : s \in ProfileScenarios, c \in Calls}}
Records   == RawEvents \cup {BsonEvent(e) : e \in RawEvents}

ProfilesTypeOK ==
  /\ store \in {"memory", "mongo"} /\ asks \in ProfileScenarios
  /\ at \in [Calls -> {"start", "clock", "repo", "send", "reply", "done"}]
  /\ clock \in Nat /\ stamp \in [Calls -> Nat] /\ seen \in [Calls -> Nat]
  /\ DOMAIN profiles = Customers /\ writes \in [Customers -> Seq(Calls)]
  /\ DOMAIN answer = Calls /\ DOMAIN got = Calls
  /\ events \in [Customers -> Seq(Records)]

(* What the repository makes of a time. *)
Truncated(t) == IF store = "memory" THEN t ELSE t - (t % Milli)

LastWriteInv ==
  \A k \in Customers :
    LET n == Len(writes[k]) IN
    profiles[k] = IF n = 0 THEN NoProfile
                  ELSE [by |-> writes[k][n], time |-> Truncated(stamp[writes[k][n]])]

(* An upsert that is stored has read the clock for good. *)
WriterInv ==
  \A k \in Customers : \A i \in DOMAIN writes[k] : at[writes[k][i]] \in {"reply", "done"}

Codes   == {"OK", "NotFound", "Unauthenticated", "InvalidArgument", "Internal"}
Answers == [code : Codes, by : Calls \cup {0}, unix : Nat, counts : {<<>>}]

(* The answer of call c was current when or after c came in. *)
Current(c) ==
  /\ answer[c] \in Answers
  /\ answer[c].code = "NotFound" => seen[c] = 0
  /\ answer[c].code = "OK" =>
       /\ \E i \in DOMAIN writes[asks[c].cust] :
            i >= seen[c] /\ writes[asks[c].cust][i] = answer[c].by
       /\ answer[c].by \in Calls /\ answer[c].unix = Truncated(stamp[answer[c].by]) \div Second

GetInv(c) ==
  asks[c].op = "get" =>
    /\ at[c] # "send"
    /\ at[c] # "start" => seen[c] <= Len(writes[asks[c].cust])
    /\ at[c] \in {"reply", "done"} => Current(c)
    /\ at[c] = "done" =>
         \/ got[c] = Status("error")
         \/ answer[c].code = "NotFound" /\ got[c] = Status("ErrNotFound")
         \/ answer[c].code = "OK" /\ got[c] = [answer[c] EXCEPT !.unix = @ * Second]

ProfilesInv == ProfilesTypeOK /\ LastWriteInv /\ WriterInv /\ \A c \in Calls : GetInv(c)

(* A step of call c leaves the other calls alone, and c's own clock        *)
(* reading too once the answer is there.                                   *)
Local(c) ==
  /\ asks' = asks /\ store' = store
  /\ \A d \in Calls \ {c} : /\ at'[d] = at[d] /\ answer'[d] = answer[d] /\ got'[d] = got[d]
                            /\ seen'[d] = seen[d] /\ stamp'[d] = stamp[d]
  /\ at[c] \in {"reply", "done"} => at'[c] \in {"reply", "done"} /\ stamp'[c] = stamp[c]

Writes(c) == \/ UNCHANGED <<profiles, writes>>
             \/ Store(c) /\ at'[c] = "reply" /\ stamp' = stamp

(* Truncation to milliseconds and then to seconds loses less than a        *)
(* second, because a second is a whole number of milliseconds.             *)
LEMMA TruncateTime ==
  ASSUME NEW t \in Nat, NEW m \in Nat \ {0}, NEW s \in Nat \ {0}, s % m = 0
  PROVE  LET u == t - (t % m) IN
         /\ u \in Nat /\ (u \div s) \in Nat
         /\ (u \div s) * s <= t /\ t < (u \div s) * s + s
<1> DEFINE u == t - (t % m)
           q == u \div s
<1>1. PICK a \in Nat : u = m * a
  OBVIOUS
<1>2. PICK b \in Nat : s = m * b
  OBVIOUS
<1>3. u \in Nat /\ u <= t /\ t < u + m
  <2>1. t % m \in Int
    OBVIOUS
  <2>2. t % m >= 0
    OBVIOUS
  <2>3. t % m < m
    OBVIOUS
  <2>4. u \in Nat
    <3> HIDE DEF u
    <3>1. m * a \in Nat
      OBVIOUS
    <3> QED
      BY <1>1, <3>1
  <2>5. \A r \in Int : r >= 0 /\ r < m => t - r <= t /\ t < (t - r) + m
    OBVIOUS
  <2> QED
    BY <2>1, <2>2, <2>3, <2>4, <2>5
<1>4. q \in Nat /\ q * s <= u /\ u < q * s + s
  <2>1. \A x \in Nat : x \div s \in Nat
    OBVIOUS
  <2>2. \A x \in Nat : (x \div s) * s <= x
    OBVIOUS
  <2>3. \A x \in Nat : x < (x \div s) * s + s
    OBVIOUS
  <2> HIDE DEF u
  <2> QED
    BY <1>3, <2>1, <2>2, <2>3
<1> HIDE DEF u, q
<1>5. PICK c \in Nat : q * s + s = m * c
  <2>1. b * q + b \in Nat
    BY <1>4
  <2>2. q * s + s = m * (b * q + b)
    BY <1>2, <1>4
  <2> QED
    BY <2>1, <2>2
<1>6. u + m <= q * s + s
  <2>1. \A x, y \in Nat : m * x < m * y => m * x + m <= m * y
    <3> SUFFICES ASSUME NEW x \in Nat, NEW y \in Nat, m * x < m * y
                 PROVE  m * x + m <= m * y
      OBVIOUS
    <3>1. x < y
      OBVIOUS
    <3>2. PICK z \in Nat : y = x + 1 + z
      <4>1. y - x - 1 \in Nat /\ y = x + 1 + (y - x - 1)
        BY <3>1
      <4> QED
        BY <4>1
    <3>3. m * y = m * x + m + m * z /\ m * z \in Nat
      BY <3>2
    <3> QED
      BY <3>3
  <2> QED
    BY <1>1, <1>4, <1>5, <2>1
<1>7. q * s \in Nat
  BY <1>4
<1> QED
  BY <1>3, <1>4, <1>6, <1>7 DEF u, q

LEMMA AskedCustomer ==
  ASSUME ProfilesTypeOK, NEW c \in Calls
  PROVE  asks[c].cust \in Customers
BY DEF ProfilesTypeOK, Customers

(* Upserts are appended to the history of their customer. *)
LEMMA WritesGrow ==
  ASSUME ProfilesTypeOK, NEW c \in Calls, Writes(c), NEW k \in Customers
  PROVE  /\ writes'[k] \in Seq(Calls)
         /\ \/ writes'[k] = writes[k] /\ profiles'[k] = profiles[k]
            \/ /\ writes'[k] = Append(writes[k], c) /\ at'[c] = "reply" /\ stamp' = stamp
               /\ profiles'[k] = [by |-> c, time |-> Truncated(stamp[c])]
         /\ DOMAIN profiles' = Customers /\ writes' \in [Customers -> Seq(Calls)]
         /\ Len(writes[k]) <= Len(writes'[k])
         /\ \A i \in DOMAIN writes[k] : i \in DOMAIN writes'[k] /\ writes'[k][i] = writes[k][i]
<1>1. writes[k] \in Seq(Calls) /\ writes \in [Customers -> Seq(Calls)] /\ DOMAIN profiles = Customers
  BY DEF ProfilesTypeOK
<1>2. CASE UNCHANGED <<profiles, writes>>
  BY <1>1, <1>2
<1>3. CASE Store(c) /\ at'[c] = "reply" /\ stamp' = stamp
  <2> DEFINE j == asks[c].cust
  <2>1. j \in Customers
    BY AskedCustomer
  <2>2. writes' = [writes EXCEPT ![j] = Append(writes[j], c)]
    BY <1>3, <2>1, <1>1 DEF Store
  <2>3. profiles' = [profiles EXCEPT ![j] = [by |-> c, time |-> Truncated(stamp[c])]]
    BY <1>3 DEF Store, MemoryUpsert, MongoUpsert, Truncated
  <2> HIDE DEF j
  <2>4. writes[j] \in Seq(Calls) /\ Append(writes[j], c) \in Seq(Calls)
    BY <1>1, <2>1
  <2>5. writes' \in [Customers -> Seq(Calls)] /\ DOMAIN profiles' = Customers
    BY <1>1, <2>2, <2>3, <2>4
  <2>6. CASE k = j
    <3>1. writes'[k] = Append(writes[k], c) /\ profiles'[k] = [by |-> c, time |-> Truncated(stamp[c])]
      BY <1>1, <2>1, <2>2, <2>3, <2>6
    <3>2. Len(writes'[k]) = Len(writes[k]) + 1
          /\ \A i \in 1..Len(writes[k]) : i \in 1..Len(writes'[k]) /\ writes'[k][i] = writes[k][i]
      BY <1>1, <3>1
    <3> QED
      BY <1>1, <1>3, <2>5, <3>1, <3>2
  <2>7. CASE k # j
    <3>1. writes'[k] = writes[k] /\ profiles'[k] = profiles[k]
      BY <1>1, <2>1, <2>2, <2>3, <2>7
    <3> QED
      BY <1>1, <2>5, <3>1
  <2> QED
    BY <2>6, <2>7
<1> QED
  BY <1>2, <1>3 DEF Writes

(* What is stored, and the time it carries, stays. *)
LEMMA StoredKept ==
  ASSUME ProfilesTypeOK, WriterInv, NEW c \in Calls, Local(c), Writes(c),
         NEW k \in Customers, NEW i \in DOMAIN writes[k]
  PROVE  /\ writes[k][i] \in Calls
         /\ writes'[k][i] = writes[k][i] /\ i \in DOMAIN writes'[k]
         /\ at'[writes[k][i]] \in {"reply", "done"}
         /\ stamp'[writes[k][i]] = stamp[writes[k][i]]
<1> DEFINE w == writes[k][i]
<1>1. w \in Calls /\ at[w] \in {"reply", "done"}
  BY DEF ProfilesTypeOK, WriterInv
<1>2. writes'[k][i] = w /\ i \in DOMAIN writes'[k]
  BY WritesGrow
<1>3. at'[w] \in {"reply", "done"} /\ stamp'[w] = stamp[w] /\ store' = store
  <2> HIDE DEF w
  <2>1. CASE w = c
    BY <1>1, <2>1 DEF Local
  <2>2. CASE w # c
    BY <1>1, <2>2 DEF Local
  <2> QED
    BY <2>1, <2>2
<1> QED
  BY <1>1, <1>2, <1>3

(* The other calls keep what they hold. *)
LEMMA GetInvKept ==
  ASSUME ProfilesTypeOK, WriterInv, NEW c \in Calls, Local(c), Writes(c),
         NEW d \in Calls, d # c, GetInv(d)
  PROVE  GetInv(d)'
<1> DEFINE k == asks[d].cust
<1> SUFFICES ASSUME asks[d].op = "get"
             PROVE  GetInv(d)'
  BY DEF GetInv, Local
<1>1. k \in Customers /\ asks' = asks
  BY AskedCustomer DEF Local
<1>2. at'[d] = at[d] /\ answer'[d] = answer[d] /\ got'[d] = got[d] /\ seen'[d] = seen[d]
  BY DEF Local
<1>3. ASSUME at[d] # "start"
      PROVE  seen'[d] <= Len(writes'[k])
  <2>1. seen[d] <= Len(writes[k]) /\ seen[d] \in Nat
    BY <1>3 DEF GetInv, ProfilesTypeOK
  <2>2. Len(writes[k]) <= Len(writes'[k]) /\ Len(writes[k]) \in Nat /\ Len(writes'[k]) \in Nat
    <3>1. writes[k] \in Seq(Calls) /\ writes'[k] \in Seq(Calls)
      BY <1>1, WritesGrow DEF ProfilesTypeOK
    <3>2. Len(writes[k]) \in Nat /\ Len(writes'[k]) \in Nat
      BY <3>1
    <3>3. Len(writes[k]) <= Len(writes'[k])
      BY <1>1, WritesGrow
    <3> QED
      BY <3>2, <3>3
  <2> QED
    BY <1>2, <2>1, <2>2
<1>4. ASSUME at[d] \in {"reply", "done"}
      PROVE  Current(d)'
  <2>1. Current(d)
    BY <1>4 DEF GetInv
  <2>2. answer'[d] \in Answers /\ (answer'[d].code = "NotFound" => seen'[d] = 0)
    BY <1>2, <2>1 DEF Current
  <2>3. ASSUME answer[d].code = "OK"
        PROVE  /\ \E i \in DOMAIN writes'[k] : i >= seen[d] /\ writes'[k][i] = answer[d].by
               /\ answer[d].by \in Calls
               /\ answer[d].unix = Truncated(stamp'[answer[d].by]) \div Second
    <3>1. PICK i \in DOMAIN writes[k] : i >= seen[d] /\ writes[k][i] = answer[d].by
      BY <2>1, <2>3 DEF Current
    <3>2. answer[d].by \in Calls /\ answer[d].unix = Truncated(stamp[answer[d].by]) \div Second
      BY <2>1, <2>3 DEF Current
    <3>3. writes'[k][i] = writes[k][i] /\ i \in DOMAIN writes'[k]
          /\ stamp'[writes[k][i]] = stamp[writes[k][i]]
      BY <1>1, StoredKept
    <3>4. stamp'[answer[d].by] = stamp[answer[d].by] /\ store' = store
      BY <3>1, <3>3 DEF Local
    <3> QED
      BY <3>1, <3>2, <3>3, <3>4
  <2> QED
    BY <1>1, <1>2, <2>2, <2>3 DEF Current, Answers, Codes, Truncated, Local
<1> QED
  BY <1>1, <1>2, <1>3, <1>4 DEF GetInv, Status, NoAnswer

(* It remains to look at the call that takes the step. *)
LEMMA LocalKeeps ==
  ASSUME ProfilesInv, NEW c \in Calls, Local(c), Writes(c), ProfilesTypeOK', GetInv(c)'
  PROVE  ProfilesInv'
<1>1. ProfilesTypeOK /\ WriterInv /\ LastWriteInv
  BY DEF ProfilesInv
<1>2. ASSUME NEW k \in Customers
      PROVE  LET n == Len(writes'[k]) IN
             profiles'[k] = IF n = 0 THEN NoProfile
                            ELSE [by |-> writes'[k][n], time |-> Truncated(stamp'[writes'[k][n]])]
  <2>0. writes[k] \in Seq(Calls)
    BY <1>1 DEF ProfilesTypeOK
  <2>1. CASE writes'[k] = writes[k] /\ profiles'[k] = profiles[k]
    <3> DEFINE n == Len(writes[k])
    <3>1. CASE n = 0
      BY <1>1, <2>1, <3>1 DEF LastWriteInv, NoProfile
    <3>2. CASE n # 0
      <4>1. n \in DOMAIN writes[k]
        BY <2>0, <3>2
      <4>2. stamp'[writes[k][n]] = stamp[writes[k][n]] /\ store' = store
        BY <1>1, <4>1, StoredKept DEF Local
      <4>3. profiles[k] = [by |-> writes[k][n], time |-> Truncated(stamp[writes[k][n]])]
        BY <1>1, <3>2 DEF LastWriteInv
      <4> QED
        BY <2>1, <3>2, <4>2, <4>3
    <3> QED
      BY <3>1, <3>2
  <2>2. CASE /\ writes'[k] = Append(writes[k], c) /\ stamp' = stamp
             /\ profiles'[k] = [by |-> c, time |-> Truncated(stamp[c])]
    <3> DEFINE n == Len(writes'[k])
    <3>1. n = Len(writes[k]) + 1 /\ n # 0 /\ writes'[k][n] = c
      BY <2>0, <2>2
    <3> QED
      BY <2>2, <3>1
  <2> QED
    BY <1>1, <2>1, <2>2, WritesGrow
<1>3. LastWriteInv'
  <2>1. store' = store
    BY DEF Local
  <2> QED
    BY <1>2, <2>1 DEF LastWriteInv, Truncated
<1>4. WriterInv'
  <2> SUFFICES ASSUME NEW k \in Customers, NEW i \in DOMAIN writes'[k]
               PROVE  at'[writes'[k][i]] \in {"reply", "done"}
    BY DEF WriterInv, Customers
  <2>0. writes[k] \in Seq(Calls)
    BY <1>1 DEF ProfilesTypeOK
  <2>1. CASE i \in DOMAIN writes[k]
    BY <1>1, <2>1, StoredKept
  <2>2. CASE i \notin DOMAIN writes[k]
    <3>1. writes'[k] = Append(writes[k], c) /\ at'[c] = "reply"
      BY <1>1, <2>2, WritesGrow
    <3>2. i = Len(writes[k]) + 1
      BY <2>0, <2>2, <3>1
    <3>3. writes'[k][i] = c
      BY <2>0, <3>1, <3>2
    <3> QED
      BY <3>1, <3>3
  <2> QED
    BY <2>1, <2>2
<1>5. \A d \in Calls : GetInv(d)'
  BY <1>1, GetInvKept DEF ProfilesInv
<1> QED
  BY <1>3, <1>4, <1>5 DEF ProfilesInv

LEMMA ProfilesInitOK ==
  ASSUME ProfilesInit
  PROVE  ProfilesInv
<1>1. ProfilesTypeOK
  <2>1. writes \in [Customers -> Seq(Calls)]
    BY DEF ProfilesInit
  <2>2. events \in [Customers -> Seq(Records)]
    BY DEF ProfilesInit
  <2> QED
    BY <2>1, <2>2, ProfilesAssumption DEF ProfilesInit, ProfilesTypeOK
<1>2. LastWriteInv
  BY DEF ProfilesInit, LastWriteInv
<1>3. WriterInv
  BY DEF ProfilesInit, WriterInv
<1>4. \A c \in Calls : GetInv(c)
  BY DEF ProfilesInit, GetInv
<1> QED
  BY <1>1, <1>2, <1>3, <1>4 DEF ProfilesInv

LEMMA ArriveOK ==
  ASSUME ProfilesInv, NEW c \in Calls, Arrive(c)
  PROVE  ProfilesInv'
<1> DEFINE k == asks[c].cust
<1>1. ProfilesTypeOK
  BY DEF ProfilesInv
<1>2. k \in Customers /\ writes[k] \in Seq(Calls)
  BY <1>1, AskedCustomer DEF ProfilesTypeOK
<1>3. /\ at' \in [Calls -> {"clock", "repo", "reply"} \cup {"start", "send", "done"}]
      /\ at'[c] \in {"clock", "repo", "reply"} /\ DOMAIN answer' = Calls
      /\ \A d \in Calls \ {c} : at'[d] = at[d] /\ answer'[d] = answer[d]
      /\ at'[c] = "reply" =>
           \/ answer'[c] = Status("Unauthenticated") \/ answer'[c] = Status("InvalidArgument")
  BY <1>1 DEF Arrive, Answer, Goto, ProfilesTypeOK
<1>4. /\ seen' \in [Calls -> Nat] /\ \A d \in Calls \ {c} : seen'[d] = seen[d]
      /\ Unary(c) => seen'[c] = Len(writes[k])
  <2> DEFINE v == IF Unary(c) THEN Len(writes[k]) ELSE Len(events[k])
  <2>1. seen' = [seen EXCEPT ![c] = v]
    BY DEF Arrive
  <2>2. v \in Nat
    <3>1. Len(writes[k]) \in Nat
      BY <1>2
    <3>2. Len(events[k]) \in Nat
      BY <1>1, <1>2 DEF ProfilesTypeOK
    <3> QED
      BY <3>1, <3>2
  <2> HIDE DEF v
  <2>3. seen' \in [Calls -> Nat] /\ (\A d \in Calls \ {c} : seen'[d] = seen[d]) /\ seen'[c] = v
    BY <1>1, <2>1, <2>2 DEF ProfilesTypeOK
  <2> QED
    BY <2>3 DEF v
<1>5. ProfilesTypeOK'
  BY <1>1, <1>3, <1>4 DEF Arrive, ProfilesTypeOK
<1>6. Local(c) /\ Writes(c)
  BY <1>1, <1>3, <1>4 DEF Arrive, Local, Writes, ProfilesTypeOK
<1>7. GetInv(c)'
  <2> SUFFICES ASSUME asks[c].op = "get"
               PROVE  GetInv(c)'
    BY <1>6 DEF GetInv, Local
  <2>1. seen'[c] = Len(writes'[k]) /\ asks' = asks
    BY <1>4 DEF Arrive, Unary
  <2>2. at'[c] = "reply" => Current(c)'
    BY <1>3 DEF Current, Status, NoAnswer, Answers, Codes
  <2> QED
    BY <1>2, <1>3, <2>1, <2>2 DEF GetInv
<1> QED
  BY <1>5, <1>6, <1>7, LocalKeeps

LEMMA ReadClockOK ==
  ASSUME ProfilesInv, NEW c \in Calls, ReadClock(c)
  PROVE  ProfilesInv'
<1>1. ProfilesTypeOK /\ GetInv(c)
  BY DEF ProfilesInv
<1>2. ProfilesTypeOK'
  BY <1>1 DEF ReadClock, Goto, ProfilesTypeOK
<1>3. Local(c) /\ Writes(c)
  BY <1>1 DEF ReadClock, Goto, Local, Writes, ProfilesTypeOK
<1>4. GetInv(c)'
  <2>1. at[c] = "clock" /\ at'[c] = "repo"
    BY <1>1 DEF ReadClock, Goto, ProfilesTypeOK
  <2> QED
    BY <1>1, <2>1 DEF ReadClock, GetInv
<1> QED
  BY <1>2, <1>3, <1>4, LocalKeeps

(* An event that is recorded has the form the repository gives it. *)
Recording(c) == /\ asks[c].op = "append"
                /\ \/ store = "memory" /\ Record(c, asks[c].event)
                   \/ store = "mongo" /\ InsertOne(c)

LEMMA RecordTyped ==
  ASSUME ProfilesTypeOK, NEW c \in Calls, Recording(c)
  PROVE  \E e \in Records : events' = [events EXCEPT ![asks[c].cust] = Append(@, e)]
<1>1. asks[c].event \in RawEvents
  BY DEF ProfilesTypeOK, RawEvents
<1> QED
  BY <1>1 DEF Recording, Record, InsertOne, Records

LEMMA EventsTyped ==
  ASSUME ProfilesTypeOK, NEW c \in Calls, UNCHANGED events \/ Recording(c)
  PROVE  events' \in [Customers -> Seq(Records)]
<1>1. CASE UNCHANGED events
  BY <1>1 DEF ProfilesTypeOK
<1>2. CASE Recording(c)
  <2>1. PICK e \in Records : events' = [events EXCEPT ![asks[c].cust] = Append(@, e)]
    BY <1>2, RecordTyped
  <2>2. asks[c].cust \in Customers /\ events \in [Customers -> Seq(Records)]
    BY AskedCustomer DEF ProfilesTypeOK
  <2>3. Append(events[asks[c].cust], e) \in Seq(Records)
    BY <2>2
  <2> QED
    BY <2>1, <2>2, <2>3
<1> QED
  BY <1>1, <1>2

(* The steps that end with an answer: what they have in common. *)
LEMMA AnswerOK ==
  ASSUME ProfilesInv, NEW c \in Calls, NEW a, at[c] = "repo" \/ at[c] = "send", Answer(c, a),
         UNCHANGED <<store, asks, clock, stamp, got, seen>>,
         UNCHANGED <<profiles, writes>> \/ Store(c),
         UNCHANGED events \/ Recording(c),
         asks[c].op = "get" => Current(c)'
  PROVE  ProfilesInv'
<1>1. ProfilesTypeOK /\ GetInv(c)
  BY DEF ProfilesInv
<1>2. /\ DOMAIN answer' = Calls /\ at'[c] = "reply"
      /\ at' \in [Calls -> {"start", "clock", "repo", "send", "reply", "done"}]
      /\ \A d \in Calls \ {c} : at'[d] = at[d] /\ answer'[d] = answer[d]
  BY <1>1 DEF Answer, Goto, ProfilesTypeOK
<1>3. Local(c) /\ Writes(c)
  BY <1>1, <1>2 DEF Local, Writes
<1>4. asks[c].cust \in Customers
  BY <1>1, AskedCustomer
<1>5. ProfilesTypeOK'
  <2>1. DOMAIN profiles' = Customers /\ writes' \in [Customers -> Seq(Calls)]
    BY <1>1, <1>3, <1>4, WritesGrow
  <2>2. events' \in [Customers -> Seq(Records)]
    BY <1>1, EventsTyped
  <2> QED
    BY <1>1, <1>2, <2>1, <2>2 DEF ProfilesTypeOK
<1>6. GetInv(c)'
  <2> DEFINE k == asks[c].cust
  <2> SUFFICES ASSUME asks[c].op = "get"
               PROVE  GetInv(c)'
    BY DEF GetInv
  <2>1. seen'[c] <= Len(writes'[k])
    <3>1. seen[c] <= Len(writes[k]) /\ seen[c] \in Nat
      BY <1>1 DEF GetInv, ProfilesTypeOK
    <3>2. writes[k] \in Seq(Calls) /\ writes'[k] \in Seq(Calls)
      BY <1>1, <1>3, <1>4, WritesGrow DEF ProfilesTypeOK
    <3>3. Len(writes[k]) \in Nat /\ Len(writes'[k]) \in Nat
      BY <3>2
    <3>4. Len(writes[k]) <= Len(writes'[k])
      BY <1>1, <1>3, <1>4, WritesGrow
    <3> QED
      BY <3>1, <3>3, <3>4
  <2> QED
    BY <1>2, <2>1 DEF GetInv
<1> QED
  BY <1>3, <1>5, <1>6, LocalKeeps

LEMMA GetOK ==
  ASSUME ProfilesInv, NEW c \in Calls, Get(c)
  PROVE  ProfilesInv'
<1> DEFINE k == asks[c].cust
           n == Len(writes[k])
           a == IF profiles[k] = NoProfile THEN Status("NotFound")
                ELSE ToProto(profiles[k].by, profiles[k].time)
<1>1. ProfilesTypeOK /\ GetInv(c) /\ LastWriteInv
  BY DEF ProfilesInv
<1>2. k \in Customers /\ writes[k] \in Seq(Calls) /\ n \in Nat
  BY <1>1, AskedCustomer DEF ProfilesTypeOK
<1>3. at[c] = "repo" /\ asks[c].op = "get" /\ Answer(c, a)
  BY DEF Get, Find
<1>4. seen[c] \in Nat /\ seen[c] <= n
  BY <1>1, <1>3 DEF GetInv, ProfilesTypeOK
<1>5. answer'[c] = a /\ seen'[c] = seen[c]
  BY <1>1, <1>3 DEF Answer, Get, ProfilesTypeOK
<1>6. Current(c)'
  <2>1. CASE n = 0
    <3>0. seen[c] = 0
      BY <1>4, <2>1
    <3>1. profiles[k] = NoProfile
      BY <1>1, <1>2, <2>1 DEF LastWriteInv
    <3>2. answer'[c] = Status("NotFound")
      BY <1>5, <3>1
    <3> QED
      BY <1>5, <3>0, <3>2 DEF Current, Status, NoAnswer, Answers, Codes
  <2>2. CASE n # 0
    <3> DEFINE w == writes[k][n]
               u == Truncated(stamp[w])
    <3>1. n \in DOMAIN writes[k] /\ w \in Calls
      BY <1>2, <2>2
    <3>2. profiles[k] = [by |-> w, time |-> u]
      BY <1>1, <1>2, <2>2 DEF LastWriteInv
    <3>3. profiles[k] # NoProfile
      BY <3>1, <3>2, ProfilesAssumption DEF NoProfile
    <3>4. answer'[c] = [code |-> "OK", by |-> w, unix |-> u \div Second,
                         counts |-> <<>>]
      BY <1>5, <3>2, <3>3 DEF ToProto
    <3>5. u \div Second \in Nat
      <4>1. stamp[w] \in Nat
        BY <1>1, <3>1 DEF ProfilesTypeOK
      <4>2. u \in Nat
        BY <4>1, ProfilesAssumption, TruncateTime DEF Truncated
      <4>3. \A x \in Nat : x \div Second \in Nat
        BY ProfilesAssumption
      <4> HIDE DEF u
      <4> QED
        BY <4>2, <4>3
    <3>6. writes' = writes /\ stamp' = stamp /\ store' = store /\ asks' = asks
      BY DEF Get
    <3> HIDE DEF w
    <3>7. answer'[c] \in Answers
      BY <3>1, <3>4, <3>5 DEF Answers, Codes
    <3>8. \E i \in DOMAIN writes'[k] : i >= seen'[c] /\ writes'[k][i] = answer'[c].by
      BY <1>2, <1>4, <1>5, <3>1, <3>4, <3>6 DEF w
    <3>9. answer'[c].code = "OK" /\ answer'[c].by = w
          /\ answer'[c].unix = Truncated(stamp'[w]) \div Second
      BY <3>4, <3>6
    <3> QED
      BY <3>1, <3>6, <3>7, <3>8, <3>9 DEF Current, Truncated
  <2> QED
    BY <2>1, <2>2
<1> HIDE DEF a
<1> QED
  BY <1>3, <1>6, AnswerOK DEF Get

LEMMA UpsertOK ==
  ASSUME ProfilesInv, NEW c \in Calls, Upsert(c)
  PROVE  ProfilesInv'
BY AnswerOK DEF Upsert

LEMMA RepoFailsOK ==
  ASSUME ProfilesInv, NEW c \in Calls, RepoFails(c)
  PROVE  ProfilesInv'
<1>1. answer'[c] = Status("Internal")
  BY DEF RepoFails, Answer, ProfilesInv, ProfilesTypeOK
<1>2. Current(c)'
  BY <1>1 DEF Current, Status, NoAnswer, Answers, Codes
<1> QED
  BY <1>2, AnswerOK DEF RepoFails, Recording

LEMMA EventStepsOK ==
  ASSUME ProfilesInv, NEW c \in Calls,
         RecordEvent(c) \/ ListEvents(c) \/ SendEvent(c) \/ CountEvents(c)
  PROVE  ProfilesInv'
<1>1. ProfilesTypeOK /\ GetInv(c)
  BY DEF ProfilesInv
<1>2. CASE RecordEvent(c)
  BY <1>2, AnswerOK DEF RecordEvent, AddEvent, AppendEvent, Recording
<1>3. CASE CountEvents(c)
  BY <1>3, AnswerOK DEF CountEvents
<1>4. CASE ListEvents(c)
  <2>1. asks[c].op = "list" /\ asks' = asks /\ at[c] = "repo"
    BY <1>4 DEF ListEvents
  <2>2. GetInv(c)'
    BY <2>1 DEF GetInv
  <2>3. ProfilesTypeOK' /\ Local(c) /\ Writes(c)
    BY <1>1, <1>4 DEF ListEvents, Goto, Local, Writes, ProfilesTypeOK
  <2> QED
    BY <2>2, <2>3, LocalKeeps
<1>5. CASE SendEvent(c)
  <2>1. asks[c].op # "get" /\ at[c] = "send" /\ asks' = asks
        /\ UNCHANGED <<store, asks, clock, stamp, got, seen>> /\ UNCHANGED <<profiles, writes>>
        /\ UNCHANGED events
    BY <1>1, <1>5 DEF SendEvent, GetInv
  <2>2. CASE UNCHANGED <<at, answer>>
    <3>1. ProfilesTypeOK' /\ Local(c) /\ Writes(c)
      BY <1>1, <2>1, <2>2 DEF Local, Writes, ProfilesTypeOK
    <3>2. GetInv(c)'
      BY <2>1 DEF GetInv
    <3> QED
      BY <3>1, <3>2, LocalKeeps
  <2>3. CASE Answer(c, Status("OK"))
    BY <2>1, <2>3, AnswerOK
  <2>4. CASE Answer(c, Status("Canceled"))
    BY <2>1, <2>4, AnswerOK
  <2> QED
    BY <1>5, <2>2, <2>3, <2>4 DEF SendEvent
<1> QED
  BY <1>2, <1>3, <1>4, <1>5

LEMMA ReplyToOK ==
  ASSUME ProfilesInv, NEW c \in Calls, ReplyTo(c)
  PROVE  ProfilesInv'
<1>1. ProfilesTypeOK /\ GetInv(c)
  BY DEF ProfilesInv
<1>2. at[c] = "reply" /\ at'[c] = "done" /\ asks' = asks /\ answer' = answer /\ writes' = writes
      /\ seen' = seen /\ stamp' = stamp /\ store' = store
  BY <1>1 DEF ReplyTo, Goto, ProfilesTypeOK
<1>3. ProfilesTypeOK' /\ Local(c) /\ Writes(c)
  BY <1>1 DEF ReplyTo, Goto, Local, Writes, ProfilesTypeOK
<1>4. GetInv(c)'
  <2> SUFFICES ASSUME asks[c].op = "get"
               PROVE  GetInv(c)'
    BY <1>2 DEF GetInv
  <2>1. Current(c) /\ seen[c] <= Len(writes[asks[c].cust])
    BY <1>1, <1>2 DEF GetInv
  <2>2. Current(c)'
    BY <1>2, <2>1 DEF Current, Truncated, Answers, Codes
  <2>3. got'[c] = ClientGetProfile(c)
    BY <1>1 DEF ReplyTo, ProfilesTypeOK
  <2>4. \/ got'[c] = Status("error")
        \/ answer[c].code = "NotFound" /\ got'[c] = Status("ErrNotFound")
        \/ answer[c].code = "OK" /\ got'[c] = [answer[c] EXCEPT !.unix = @ * Second]
    BY <2>3 DEF ClientGetProfile
  <2> QED
    BY <1>2, <2>1, <2>2, <2>4 DEF GetInv, Status, NoAnswer
<1> QED
  BY <1>3, <1>4, LocalKeeps

LEMMA ProfilesNextOK ==
  ASSUME ProfilesInv, [ProfilesNext]_profileVars
  PROVE  ProfilesInv'
<1> DEFINE shared == <<store, asks, at, stamp, profiles, answer, got, writes, seen, events>>
<1>1. ASSUME UNCHANGED shared, clock' \in Nat
      PROVE  ProfilesInv'
  <2>1. ProfilesTypeOK'
    BY <1>1 DEF ProfilesInv, ProfilesTypeOK
  <2>2. LastWriteInv' /\ WriterInv'
    BY <1>1 DEF ProfilesInv, LastWriteInv, WriterInv, NoProfile, Truncated
  <2>3. ASSUME NEW c \in Calls
        PROVE  GetInv(c)'
    BY <1>1 DEF ProfilesInv, GetInv, Current, Truncated, Answers, Codes, Status, NoAnswer
  <2> QED
    BY <2>1, <2>2, <2>3 DEF ProfilesInv
<1>2. clock \in Nat
  BY DEF ProfilesInv, ProfilesTypeOK
<1>3. CASE UNCHANGED profileVars
  BY <1>1, <1>2, <1>3 DEF profileVars
<1>4. CASE Tick
  BY <1>1, <1>2, <1>4 DEF Tick
<1>5. ASSUME NEW c \in Calls, GiveUp(c)
      PROVE  ProfilesInv'
  BY <1>1, <1>2, <1>5 DEF GiveUp
<1>6. ASSUME NEW c \in Calls, CallStep(c)
      PROVE  ProfilesInv'
  BY <1>6, ArriveOK, ReadClockOK, UpsertOK, GetOK, RepoFailsOK, EventStepsOK, ReplyToOK DEF CallStep
<1> QED
  BY <1>3, <1>4, <1>5, <1>6 DEF ProfilesNext

(* What holds whenever the profile service of m05 and m07 runs: a stored   *)
(* profile is that of the last upsert, and a get has read one that was     *)
(* stored after it came in.                                                *)
THEOREM ProfilesInvariant == ProfilesSpec => []ProfilesInv
<1>1. ProfilesInit => ProfilesInv
  BY ProfilesInitOK
<1>2. ProfilesInv /\ [ProfilesNext]_profileVars => ProfilesInv'
  BY ProfilesNextOK
<1> QED
  BY <1>1, <1>2, PTL DEF ProfilesSpec

(* Client.GetProfile returns what was current at some moment of the call,  *)
(* with whole seconds of the time its upsert read, whichever repository is *)
(* wired in and however upserts, failures and time-outs interleave.        *)
THEOREM ReadsFreshHolds == ProfilesSpec => []ReadsFresh
<1>1. ASSUME ProfilesInv
      PROVE  ReadsFresh
  <2> SUFFICES ASSUME NEW c \in Calls, at[c] = "done", asks[c].op = "get"
               PROVE  /\ got[c].code = "ErrNotFound" => seen[c] = 0
                      /\ got[c].code = "OK" =>
                           /\ \E i \in DOMAIN writes[asks[c].cust] :
                                i >= seen[c] /\ writes[asks[c].cust][i] = got[c].by
                           /\ got[c].unix <= stamp[got[c].by]
                           /\ stamp[got[c].by] < got[c].unix + Second
    BY DEF ReadsFresh
  <2>1. ProfilesTypeOK /\ GetInv(c) /\ Current(c)
    BY <1>1 DEF ProfilesInv, GetInv
  <2>2. CASE got[c] = Status("error")
    BY <2>2 DEF Status, NoAnswer
  <2>3. CASE answer[c].code = "NotFound" /\ got[c] = Status("ErrNotFound")
    BY <2>1, <2>3 DEF Status, NoAnswer, Current
  <2>4. CASE answer[c].code = "OK" /\ got[c] = [answer[c] EXCEPT !.unix = @ * Second]
    <3> DEFINE w == answer[c].by
               u == Truncated(stamp[w])
    <3>1. /\ w \in Calls /\ answer[c].unix = u \div Second /\ answer[c] \in Answers
          /\ \E i \in DOMAIN writes[asks[c].cust] : i >= seen[c] /\ writes[asks[c].cust][i] = w
      BY <2>1, <2>4 DEF Current
    <3>2. got[c].code = "OK" /\ got[c].by = w /\ got[c].unix = (u \div Second) * Second
      BY <2>4, <3>1 DEF Answers
    <3>3. stamp[w] \in Nat
      BY <2>1, <3>1 DEF ProfilesTypeOK
    <3>4. (u \div Second) * Second <= stamp[w] /\ stamp[w] < (u \div Second) * Second + Second
      <4>1. CASE store = "memory"
        <5>1. \A x \in Nat : (x \div Second) * Second <= x
          BY ProfilesAssumption
        <5>2. \A x \in Nat : x < (x \div Second) * Second + Second
          BY ProfilesAssumption
        <5> QED
          BY <3>3, <4>1, <5>1, <5>2 DEF Truncated
      <4>2. CASE store # "memory"
        BY <3>3, <4>2, ProfilesAssumption, TruncateTime DEF Truncated
      <4> QED
        BY <4>1, <4>2
    <3> QED
      BY <3>1, <3>2, <3>4
  <2> QED
    BY <2>1, <2>2, <2>3, <2>4 DEF GetInv
<1>2. ProfilesInv => ReadsFresh
  BY <1>1
<1> QED
  BY <1>2, ProfilesInvariant, PTL

-----------------------------------------------------------------------------
(* Events: a stream holds the events of a moment after it came in, and has *)
(* sent the first of them.                                                 *)
StreamTypeOK == /\ rows \in [Calls -> Seq(Records)]
                /\ sent \in [Calls -> Seq({ToProtoEvent(e) : e \in Records})]

RecordsInv ==
  \A k \in Customers :
    /\ \A i \in 1..Len(events[k]) : events[k][i].cust = k /\ events[k][i].time \in Nat
    /\ store = "mongo" => \A i, j \in 1..Len(events[k]) :
                            events[k][i].id = events[k][j].id => i = j

RowsInv(c) ==
  LET k == asks[c].cust IN
  /\ \A i \in 1..Len(rows[c]) :
       /\ rows[c][i].cust = k /\ rows[c][i].time \in Nat
       /\ store = "memory" => i \in 1..Len(events[k]) /\ rows[c][i] = events[k][i]
  /\ store = "mongo" => \A i, j \in 1..Len(rows[c]) : i < j =>
       rows[c][i].id # rows[c][j].id /\ rows[c][i].time <= rows[c][j].time

SentInv(c) ==
  /\ Len(sent[c]) <= Len(rows[c])
  /\ \A i \in 1..Len(sent[c]) : sent[c][i] = ToProtoEvent(rows[c][i])
  /\ at[c] \in {"start", "clock", "repo"} => sent[c] = <<>>

Counted(c) ==
  LET k == asks[c].cust IN
  /\ \A i \in 1..seen[c] : events[k][i].type \in DOMAIN answer[c].counts
  /\ \A t \in DOMAIN answer[c].counts :
       answer[c].counts[t] \in OfType(k, seen[c], t)..OfType(k, Len(events[k]), t)

(* What a list or a count has to do with the events it found. *)
SeenInv(c) ==
  /\ at[c] # "start" /\ ~Unary(c) => seen[c] <= Len(events[asks[c].cust])
  /\ at[c] = "send" => asks[c].op = "list" /\ seen[c] <= Len(rows[c])
  /\ at[c] \in {"reply", "done"} /\ answer[c].code = "OK" =>
       /\ asks[c].op = "list" => Len(sent[c]) >= seen[c]
       /\ asks[c].op = "count" => Counted(c)

CallInv(c) == RowsInv(c) /\ SentInv(c) /\ SeenInv(c)
StreamInv  == StreamTypeOK /\ RecordsInv /\ \A c \in Calls : CallInv(c)

StreamLocal(c) ==
  /\ asks' = asks /\ store' = store /\ (UNCHANGED events \/ Recording(c))
  /\ \A d \in Calls \ {c} : /\ at'[d] = at[d] /\ answer'[d] = answer[d] /\ seen'[d] = seen[d]
                            /\ rows'[d] = rows[d] /\ sent'[d] = sent[d]

(* Events are only ever added at the end. *)
LEMMA EventsGrow ==
  ASSUME ProfilesTypeOK, NEW c \in Calls, UNCHANGED events \/ Recording(c), NEW k \in Customers
  PROVE  /\ events[k] \in Seq(Records) /\ events'[k] \in Seq(Records)
         /\ Len(events[k]) \in Nat /\ Len(events'[k]) \in Nat
         /\ Len(events[k]) <= Len(events'[k])
         /\ \A i \in 1..Len(events[k]) : events'[k][i] = events[k][i]
<1>1. events \in [Customers -> Seq(Records)] /\ events[k] \in Seq(Records)
  BY DEF ProfilesTypeOK
<1>2. CASE events'[k] = events[k]
  BY <1>1, <1>2
<1>3. CASE events'[k] # events[k]
  <2>1. Recording(c)
    BY <1>3
  <2>2. PICK e \in Records : events' = [events EXCEPT ![asks[c].cust] = Append(@, e)]
    BY <2>1, RecordTyped
  <2>3. events'[k] = Append(events[k], e)
    BY <1>1, <1>3, <2>2
  <2> QED
    BY <1>1, <2>3
<1> QED
  BY <1>2, <1>3

(* What is recorded is the customer's, and in MongoDB has an _id of its    *)
(* own.                                                                    *)
LEMMA RecordsKept ==
  ASSUME ProfilesTypeOK, RecordsInv, NEW c \in Calls, asks' = asks, store' = store,
         UNCHANGED events \/ Recording(c)
  PROVE  RecordsInv'
<1> SUFFICES ASSUME NEW k \in Customers
             PROVE  /\ \A i \in 1..Len(events'[k]) :
                         events'[k][i].cust = k /\ events'[k][i].time \in Nat
                    /\ store = "mongo" => \A i, j \in 1..Len(events'[k]) :
                                            events'[k][i].id = events'[k][j].id => i = j
  BY DEF RecordsInv
<1>1. CASE events'[k] = events[k]
  BY <1>1 DEF RecordsInv
<1>2. CASE events'[k] # events[k]
  <2> DEFINE r == asks[c].event
             e == IF store = "memory" THEN r ELSE BsonEvent(r)
  <2>1. Recording(c)
    BY <1>2
  <2>2. events' = [events EXCEPT ![asks[c].cust] = Append(@, e)]
    BY <2>1 DEF Recording, Record, InsertOne
  <2>3. k = asks[c].cust /\ events'[k] = Append(events[k], e)
    BY <1>2, <2>2 DEF ProfilesTypeOK
  <2>4. r.cust = k /\ r.time \in Nat
    BY <2>1, <2>3, ProfilesAssumption DEF Recording, ProfilesTypeOK
  <2>5. e.cust = k /\ e.time \in Nat /\ e.id = r.id
    <3>1. r.time - (r.time % Milli) \in Nat
      BY <2>4, ProfilesAssumption, TruncateTime
    <3>2. /\ BsonEvent(r).cust = r.cust /\ BsonEvent(r).id = r.id
          /\ BsonEvent(r).time = r.time - (r.time % Milli)
      BY DEF BsonEvent
    <3> QED
      BY <2>4, <3>1, <3>2
  <2>6. store = "mongo" => \A i \in 1..Len(events[k]) : events[k][i].id # e.id
    <3> SUFFICES ASSUME store = "mongo", NEW i \in 1..Len(events[k])
                 PROVE  events[k][i].id # e.id
      OBVIOUS
    <3>1. ~Recorded(r.id)
      BY <2>1 DEF Recording, InsertOne
    <3>2. i \in DOMAIN events[k]
      BY DEF ProfilesTypeOK
    <3> QED
      BY <2>5, <3>1, <3>2 DEF Recorded
  <2> HIDE DEF e
  <2>7. /\ Len(events'[k]) = Len(events[k]) + 1 /\ Len(events[k]) \in Nat
        /\ events'[k][Len(events[k]) + 1] = e
        /\ \A i \in 1..Len(events[k]) : events'[k][i] = events[k][i]
    <3>1. events[k] \in Seq(Records)
      BY DEF ProfilesTypeOK
    <3> QED
      BY <2>3, <3>1
  <2>8. \A i : i \in 1..Len(events'[k]) <=> i \in 1..Len(events[k]) \/ i = Len(events[k]) + 1
    BY <2>7
  <2>9. \A i \in 1..Len(events'[k]) : events'[k][i].cust = k /\ events'[k][i].time \in Nat
    BY <2>5, <2>7, <2>8 DEF RecordsInv
  <2>10. ASSUME store = "mongo", NEW i \in 1..Len(events'[k]), NEW j \in 1..Len(events'[k]),
                events'[k][i].id = events'[k][j].id
         PROVE  i = j
    <3> DEFINE n == Len(events[k])
    <3>1. \A x, y \in 1..n : events[k][x].id = events[k][y].id => x = y
      BY <2>10 DEF RecordsInv
    <3>2. (i \in 1..n \/ i = n + 1) /\ (j \in 1..n \/ j = n + 1)
      BY <2>8
    <3>3. \A x \in 1..n : events'[k][x].id # events'[k][n + 1].id
      BY <2>6, <2>7, <2>10
    <3>4. CASE i \in 1..n /\ j \in 1..n
      BY <2>7, <2>10, <3>1, <3>4
    <3> HIDE DEF n
    <3> QED
      BY <2>10, <3>2, <3>3, <3>4
  <2> QED
    BY <2>9, <2>10
<1> QED
  BY <1>1, <1>2

(* More events of a type make its number larger. *)
NextOfType(k, n, t) == Cardinality({i \in 1..n : events'[k][i].type = t})

LEMMA OfTypeGrows ==
  ASSUME ProfilesTypeOK, NEW c \in Calls, UNCHANGED events \/ Recording(c),
         NEW k \in Customers, NEW n \in Nat, NEW m \in Nat, NEW t,
         n <= Len(events[k]), n <= m
  PROVE  /\ OfType(k, n, t) \in Nat /\ NextOfType(k, m, t) \in Nat
         /\ OfType(k, n, t) = NextOfType(k, n, t)
         /\ OfType(k, n, t) <= NextOfType(k, m, t)
<1> DEFINE A == {i \in 1..n : events[k][i].type = t}
           B == {i \in 1..n : events'[k][i].type = t}
           C == {i \in 1..m : events'[k][i].type = t}
<1>1. \A i \in 1..n : events'[k][i] = events[k][i]
  <2>1. Len(events[k]) \in Nat /\ \A i \in 1..Len(events[k]) : events'[k][i] = events[k][i]
    BY EventsGrow
  <2> QED
    BY <2>1
<1>2. A = B
  <2>1. \A i : i \in A <=> i \in B
    BY <1>1
  <2> HIDE DEF A, B
  <2> QED
    BY <2>1
<1>3. B \subseteq C /\ C \subseteq 1..m
  OBVIOUS
<1>4. IsFiniteSet(1..m)
  BY FS_Interval
<1> HIDE DEF A, B, C
<1>5. IsFiniteSet(C)
  BY <1>3, <1>4, FS_Subset
<1>6. IsFiniteSet(B) /\ Cardinality(B) <= Cardinality(C)
  BY <1>3, <1>5, FS_Subset
<1>7. Cardinality(B) \in Nat /\ Cardinality(C) \in Nat
  BY <1>5, <1>6, FS_CardinalityType
<1> QED
  BY <1>2, <1>6, <1>7 DEF OfType, NextOfType, A, B, C

(* What a call has found stays true whatever is recorded later. *)
LEMMA RowsKept ==
  ASSUME ProfilesTypeOK, NEW c \in Calls, NEW d \in Calls, RowsInv(d), rows'[d] = rows[d],
         asks' = asks, store' = store, UNCHANGED events \/ Recording(c)
  PROVE  RowsInv(d)'
<1> DEFINE k == asks[d].cust
<1>1. k \in Customers
  BY AskedCustomer
<1> HIDE DEF k
<1>2. \A i \in 1..Len(events[k]) : i \in 1..Len(events'[k]) /\ events'[k][i] = events[k][i]
  <2>1. /\ Len(events[k]) \in Nat /\ Len(events'[k]) \in Nat
        /\ Len(events[k]) <= Len(events'[k])
        /\ \A i \in 1..Len(events[k]) : events'[k][i] = events[k][i]
    BY <1>1, EventsGrow
  <2> QED
    BY <2>1
<1> QED
  BY <1>2 DEF RowsInv, k

LEMMA CountedKept ==
  ASSUME ProfilesTypeOK, NEW c \in Calls, NEW d \in Calls, Counted(d),
         seen[d] <= Len(events[asks[d].cust]),
         answer'[d] = answer[d], seen'[d] = seen[d], asks' = asks,
         UNCHANGED events \/ Recording(c)
  PROVE  Counted(d)'
<1> DEFINE k == asks[d].cust
           s == seen[d]
           n == Len(events[k])
           m == Len(events'[k])
<1>1. k \in Customers /\ s \in Nat /\ s <= n
  BY AskedCustomer DEF ProfilesTypeOK
<1>2. /\ \A i \in 1..s : events[k][i].type \in DOMAIN answer[d].counts
      /\ \A t \in DOMAIN answer[d].counts :
           answer[d].counts[t] \in OfType(k, s, t)..OfType(k, n, t)
  BY DEF Counted
<1> HIDE DEF k, s
<1>3. n \in Nat /\ m \in Nat /\ n <= m
  BY <1>1, EventsGrow
<1>4. \A i \in 1..n : events'[k][i] = events[k][i]
  BY <1>1, EventsGrow
<1>5. \A i \in 1..s : events'[k][i].type \in DOMAIN answer[d].counts
  BY <1>1, <1>2, <1>3, <1>4
<1>6. ASSUME NEW t \in DOMAIN answer[d].counts
      PROVE  answer[d].counts[t] \in NextOfType(k, s, t)..NextOfType(k, m, t)
  <2> DEFINE x == NextOfType(k, s, t)
             y == NextOfType(k, m, t)
  <2>1. OfType(k, s, t) \in Nat /\ OfType(k, s, t) = x
    BY <1>1, <1>3, OfTypeGrows
  <2>2. OfType(k, n, t) \in Nat /\ y \in Nat /\ OfType(k, n, t) <= y
    <3>1. n <= Len(events[k])
      BY <1>3
    <3> HIDE DEF n, m
    <3> QED
      BY <1>1, <1>3, <3>1, OfTypeGrows
  <2> HIDE DEF x, y, n
  <2>3. answer[d].counts[t] \in OfType(k, s, t)..OfType(k, n, t)
    BY <1>2
  <2>4. answer[d].counts[t] \in x..y
    BY <2>1, <2>2, <2>3
  <2> QED
    BY <2>4 DEF x, y
<1> QED
  BY <1>5, <1>6, ZenonT(60) DEF Counted, OfType, NextOfType, k, s

LEMMA CallKept ==
  ASSUME ProfilesTypeOK, NEW c \in Calls, NEW d \in Calls, CallInv(d),
         asks' = asks, store' = store, UNCHANGED events \/ Recording(c),
         at'[d] = at[d] \/ (at[d] = "reply" /\ at'[d] = "done"),
         answer'[d] = answer[d], seen'[d] = seen[d], rows'[d] = rows[d], sent'[d] = sent[d]
  PROVE  CallInv(d)'
<1>1. RowsInv(d)'
  BY RowsKept DEF CallInv
<1>2. SentInv(d)'
  BY DEF CallInv, SentInv
<1>3. SeenInv(d)'
  <2> DEFINE k == asks[d].cust
  <2>1. SeenInv(d) /\ k \in Customers /\ seen[d] \in Nat
    BY AskedCustomer DEF CallInv, ProfilesTypeOK
  <2>2. Len(events[k]) \in Nat /\ Len(events'[k]) \in Nat /\ Len(events[k]) <= Len(events'[k])
    BY <2>1, EventsGrow
  <2>3. at'[d] # "start" /\ ~Unary(d) => seen'[d] <= Len(events'[k])
    BY <2>1, <2>2 DEF SeenInv
  <2>4. at'[d] = "send" => asks[d].op = "list" /\ seen'[d] <= Len(rows'[d])
    BY <2>1 DEF SeenInv
  <2>5. ASSUME at'[d] \in {"reply", "done"}, answer'[d].code = "OK"
        PROVE  /\ asks[d].op = "list" => Len(sent'[d]) >= seen'[d]
               /\ asks[d].op = "count" => Counted(d)'
    <3>1. at[d] \in {"reply", "done"} /\ answer[d].code = "OK"
      BY <2>5
    <3>2. asks[d].op = "list" => Len(sent'[d]) >= seen'[d]
      BY <2>1, <3>1 DEF SeenInv
    <3>3. asks[d].op = "count" => Counted(d) /\ seen[d] <= Len(events[k])
      BY <2>1, <3>1 DEF SeenInv, Unary
    <3>4. asks[d].op = "count" => Counted(d)'
      BY <3>3, CountedKept
    <3> QED
      BY <3>2, <3>4
  <2> QED
    BY <2>3, <2>4, <2>5 DEF SeenInv, Unary
<1> QED
  BY <1>1, <1>2, <1>3 DEF CallInv

(* It remains to look at the call that takes the step. *)
LEMMA StreamStep ==
  ASSUME ProfilesTypeOK, StreamInv, NEW c \in Calls, StreamLocal(c), StreamTypeOK', CallInv(c)'
  PROVE  StreamInv'
<1>1. RecordsInv'
  BY RecordsKept DEF StreamInv, StreamLocal
<1>2. ASSUME NEW d \in Calls \ {c}
      PROVE  CallInv(d)'
  BY CallKept DEF StreamInv, StreamLocal
<1> QED
  BY <1>1, <1>2 DEF StreamInv

LEMMA StreamInitOK ==
  ASSUME ProfilesInit
  PROVE  StreamInv
<1>1. StreamTypeOK
  BY DEF ProfilesInit, StreamTypeOK
<1>2. RecordsInv
  BY DEF ProfilesInit, RecordsInv
<1>3. ASSUME NEW c \in Calls
      PROVE  CallInv(c)
  <2>1. /\ rows[c] = <<>> /\ sent[c] = <<>> /\ at[c] = "start" /\ seen[c] = 0
        /\ Len(rows[c]) = 0 /\ Len(sent[c]) = 0
    BY DEF ProfilesInit
  <2> QED
    BY <2>1 DEF CallInv, RowsInv, SentInv, SeenInv
<1> QED
  BY <1>1, <1>2, <1>3 DEF StreamInv

LEMMA ArriveStream ==
  ASSUME ProfilesTypeOK, StreamInv, NEW c \in Calls, Arrive(c)
  PROVE  StreamInv'
<1> DEFINE k == asks[c].cust
<1>1. CallInv(c) /\ k \in Customers
  BY AskedCustomer DEF StreamInv
<1>2. /\ asks' = asks /\ store' = store /\ events' = events /\ rows' = rows /\ sent' = sent
      /\ at[c] = "start"
  BY DEF Arrive
<1>3. /\ at'[c] \in {"clock", "repo", "reply"}
      /\ at'[c] = "reply" =>
           \/ answer'[c] = Status("Unauthenticated") \/ answer'[c] = Status("InvalidArgument")
      /\ \A d \in Calls \ {c} : at'[d] = at[d] /\ answer'[d] = answer[d]
  BY DEF Arrive, Answer, Goto, ProfilesTypeOK
<1>4. ~Unary(c) => seen'[c] = Len(events[k])
  BY DEF Arrive, ProfilesTypeOK
<1>5. \A d \in Calls \ {c} : seen'[d] = seen[d]
  BY DEF Arrive, ProfilesTypeOK
<1>6. StreamTypeOK' /\ StreamLocal(c)
  BY <1>2, <1>3, <1>5 DEF StreamInv, StreamTypeOK, StreamLocal
<1>7. RowsInv(c)'
  BY <1>1, <1>2, RowsKept DEF CallInv
<1>8. SentInv(c)'
  BY <1>1, <1>2, <1>3 DEF CallInv, SentInv
<1>9. SeenInv(c)'
  <2>1. at'[c] = "reply" => answer'[c].code # "OK"
    BY <1>3 DEF Status, NoAnswer
  <2>2. Len(events[k]) \in Nat
    BY <1>1 DEF ProfilesTypeOK
  <2>3. ~Unary(c) => seen'[c] <= Len(events[k])
    BY <1>4, <2>2
  <2> QED
    BY <1>2, <1>3, <2>1, <2>3 DEF SeenInv, Unary
<1> QED
  BY <1>6, <1>7, <1>8, <1>9, StreamStep DEF CallInv

LEMMA ReadClockStream ==
  ASSUME ProfilesTypeOK, StreamInv, NEW c \in Calls, ReadClock(c)
  PROVE  StreamInv'
<1>1. /\ asks' = asks /\ store' = store /\ events' = events /\ rows' = rows /\ sent' = sent
      /\ at[c] = "clock" /\ at'[c] = "repo" /\ seen' = seen
      /\ \A d \in Calls \ {c} : at'[d] = at[d] /\ answer'[d] = answer[d]
  BY DEF ReadClock, Goto, ProfilesTypeOK
<1>2. StreamTypeOK' /\ StreamLocal(c) /\ CallInv(c)
  BY <1>1 DEF StreamInv, StreamTypeOK, StreamLocal
<1>3. RowsInv(c)'
  BY <1>1, <1>2, RowsKept DEF CallInv
<1>4. SentInv(c)' /\ SeenInv(c)'
  BY <1>1, <1>2 DEF CallInv, SentInv, SeenInv, Unary
<1> QED
  BY <1>2, <1>3, <1>4, StreamStep DEF CallInv

(* A repository operation that ends with an answer. *)
LEMMA AnswerStream ==
  ASSUME ProfilesTypeOK, StreamInv, NEW c \in Calls, NEW a, at[c] = "repo", Answer(c, a),
         UNCHANGED <<store, asks, rows, sent, seen>>, UNCHANGED events \/ Recording(c),
         a.code = "OK" => asks[c].op # "list" /\ (asks[c].op = "count" => Counted(c)')
  PROVE  StreamInv'
<1> DEFINE k == asks[c].cust
<1>1. CallInv(c) /\ k \in Customers /\ seen[c] \in Nat
  BY AskedCustomer DEF StreamInv, ProfilesTypeOK
<1>2. /\ at'[c] = "reply" /\ answer'[c] = a
      /\ \A d \in Calls \ {c} : at'[d] = at[d] /\ answer'[d] = answer[d]
  BY DEF Answer, Goto, ProfilesTypeOK
<1>3. StreamTypeOK' /\ StreamLocal(c)
  BY <1>2 DEF StreamInv, StreamTypeOK, StreamLocal
<1>4. RowsInv(c)'
  BY <1>1, RowsKept DEF CallInv
<1>5. SentInv(c)'
  BY <1>1, <1>2 DEF CallInv, SentInv
<1>6. SeenInv(c)'
  <2>1. Len(events[k]) \in Nat /\ Len(events'[k]) \in Nat /\ Len(events[k]) <= Len(events'[k])
    BY <1>1, EventsGrow
  <2>2. ~Unary(c) => seen[c] <= Len(events[k])
    BY <1>1 DEF CallInv, SeenInv
  <2>3. ~Unary(c) => seen'[c] <= Len(events'[k])
    BY <1>1, <2>1, <2>2
  <2> QED
    BY <1>2, <2>3 DEF SeenInv, Unary
<1> QED
  BY <1>3, <1>4, <1>5, <1>6, StreamStep DEF CallInv

LEMMA CountEventsStream ==
  ASSUME ProfilesTypeOK, StreamInv, NEW c \in Calls, CountEvents(c)
  PROVE  StreamInv'
<1> DEFINE k == asks[c].cust
           s == seen[c]
           n == Len(events[k])
           w == EventCountsByType(k)
           a == [Status("OK") EXCEPT !.counts = w]
<1>1. /\ at[c] = "repo" /\ Answer(c, a) /\ asks[c].op = "count"
      /\ UNCHANGED <<store, asks, rows, sent, seen>> /\ UNCHANGED events
  BY DEF CountEvents
<1>2. k \in Customers /\ s \in Nat /\ s <= n /\ n \in Nat
  <2>1. k \in Customers /\ s \in Nat
    BY AskedCustomer DEF ProfilesTypeOK
  <2>2. n \in Nat
    BY <2>1 DEF ProfilesTypeOK
  <2>3. s <= n
    BY <1>1 DEF StreamInv, CallInv, SeenInv, Unary
  <2> QED
    BY <2>1, <2>2, <2>3
<1>3. answer'[c] = a /\ a.counts = w
  BY <1>1 DEF Answer, ProfilesTypeOK, Status, NoAnswer
<1>4. /\ DOMAIN w = {events[k][i].type : i \in 1..n}
      /\ \A t \in DOMAIN w : w[t] = OfType(k, n, t)
  BY DEF EventCountsByType
<1> HIDE DEF w, a, n, k, s
<1>5. \A i \in 1..s : events[k][i].type \in DOMAIN w
  BY <1>2, <1>4
<1>6. ASSUME NEW t
      PROVE  OfType(k, n, t) \in OfType(k, s, t)..OfType(k, n, t)
  <2>1. s <= Len(events[k]) /\ n <= Len(events[k])
    BY <1>2 DEF n
  <2>2. OfType(k, s, t) \in Nat /\ OfType(k, s, t) <= NextOfType(k, n, t)
    BY <1>1, <1>2, <2>1, OfTypeGrows
  <2>3. OfType(k, n, t) \in Nat /\ OfType(k, n, t) = NextOfType(k, n, t)
    BY <1>1, <1>2, <2>1, OfTypeGrows
  <2> QED
    BY <2>2, <2>3
<1>7. \A t \in DOMAIN w : w[t] \in OfType(k, s, t)..OfType(k, n, t)
  BY <1>4, <1>6
<1>8. Counted(c)'
  BY <1>1, <1>3, <1>5, <1>7 DEF Counted, OfType, k, s, n
<1> QED
  BY <1>1, <1>8, AnswerStream

LEMMA RepoStream ==
  ASSUME ProfilesTypeOK, StreamInv, NEW c \in Calls,
         Upsert(c) \/ Get(c) \/ RepoFails(c) \/ RecordEvent(c)
  PROVE  StreamInv'
<1>1. CASE Upsert(c)
  BY <1>1, AnswerStream DEF Upsert
<1>2. CASE Get(c)
  BY <1>2, AnswerStream DEF Get
<1>3. CASE RepoFails(c)
  <2>1. Status("Internal").code # "OK"
    BY DEF Status, NoAnswer
  <2> QED
    BY <1>3, <2>1, AnswerStream DEF RepoFails, Recording
<1>4. CASE RecordEvent(c)
  BY <1>4, AnswerStream DEF RecordEvent, AddEvent, AppendEvent, Recording
<1> QED
  BY <1>1, <1>2, <1>3, <1>4

(* The events a stream starts with: not less than were there, each once,   *)
(* in MongoDB by time.                                                     *)
LEMMA EventsFound ==
  ASSUME ProfilesTypeOK, RecordsInv, NEW c \in Calls, NEW es \in Events(c),
         asks[c].cust \in Customers, seen[c] <= Len(events[asks[c].cust])
  PROVE  /\ es \in Seq(Records) /\ seen[c] <= Len(es)
         /\ \A i \in 1..Len(es) : es[i].cust = asks[c].cust /\ es[i].time \in Nat
         /\ store = "memory" => es = events[asks[c].cust]
         /\ store = "mongo" => \A i, j \in 1..Len(es) : i < j =>
              es[i].id # es[j].id /\ es[i].time <= es[j].time
<1> DEFINE k  == asks[c].cust
           ev == events[k]
           n  == Len(ev)
<1>1. ev \in Seq(Records) /\ n \in Nat /\ \A i \in 1..n : ev[i] \in Records
  BY DEF ProfilesTypeOK
<1>2. \A i \in 1..n : ev[i].cust = k /\ ev[i].time \in Nat
  BY DEF RecordsInv
<1>3. CASE store = "memory"
  <2>1. es = ev
    BY <1>3 DEF Events, MemoryEvents
  <2> QED
    BY <1>1, <1>2, <1>3, <2>1
<1>4. CASE store = "mongo"
  <2>0. PICK l \in seen[c]..n : \E p \in [1..l -> DOMAIN ev] :
          /\ es = [i \in 1..l |-> ev[p[i]]]
          /\ \A i, j \in 1..l : i < j => p[i] # p[j] /\ ev[p[i]].time <= ev[p[j]].time
    <3> DEFINE Reads(m) == {p \in [1..m -> DOMAIN ev] :
                             /\ 1..seen[c] \subseteq {p[i] : i \in 1..m}
                             /\ \A i, j \in 1..m : i < j =>
                                  p[i] # p[j] /\ ev[p[i]].time <= ev[p[j]].time}
               Lists(m) == {[i \in 1..m |-> ev[p[i]]] : p \in Reads(m)}
    <3>1. es \in UNION {Lists(m) : m \in seen[c]..n}
      <4>1. es \in MongoEvents(c)
        BY <1>4 DEF Events
      <4> QED
        BY <4>1, Zenon DEF MongoEvents
    <3> HIDE DEF Lists
    <3>2. PICK m \in seen[c]..n : es \in Lists(m)
      BY <3>1
    <3>3. \E p \in Reads(m) : es = [i \in 1..m |-> ev[p[i]]]
      BY <3>2 DEF Lists
    <3> QED
      BY <3>3
  <2>1. PICK p \in [1..l -> DOMAIN ev] :
          /\ es = [i \in 1..l |-> ev[p[i]]]
          /\ \A i, j \in 1..l : i < j => p[i] # p[j] /\ ev[p[i]].time <= ev[p[j]].time
    BY <2>0
  <2>2. (\A i, j \in 1..n : ev[i].id = ev[j].id => i = j) /\ DOMAIN ev = 1..n
    BY <1>1, <1>4 DEF RecordsInv
  <2>3. l \in Nat /\ seen[c] <= l
    <3>1. seen[c] \in Nat
      BY DEF ProfilesTypeOK
    <3> QED
      BY <1>1, <2>1, <3>1
  <2> HIDE DEF ev, n
  <2>4. \A i \in 1..l : p[i] \in 1..n /\ es[i] = ev[p[i]]
    BY <2>1, <2>2
  <2>5. es \in Seq(Records) /\ Len(es) = l
    <3>1. es \in [1..l -> Records]
      BY <1>1, <2>1, <2>4
    <3> QED
      BY <2>3, <3>1
  <2>6. \A i \in 1..l : es[i].cust = k /\ es[i].time \in Nat
    BY <1>2, <2>4
  <2>7. ASSUME NEW i \in 1..l, NEW j \in 1..l, i < j
        PROVE  es[i].id # es[j].id /\ es[i].time <= es[j].time
    BY <2>1, <2>2, <2>4, <2>7
  <2> QED
    BY <1>4, <2>3, <2>5, <2>6, <2>7
<1> QED
  BY <1>3, <1>4 DEF ProfilesTypeOK

LEMMA ListEventsStream ==
  ASSUME ProfilesTypeOK, StreamInv, NEW c \in Calls, ListEvents(c)
  PROVE  StreamInv'
<1> DEFINE k == asks[c].cust
<1>1. /\ at[c] = "repo" /\ asks[c].op = "list" /\ at'[c] = "send"
      /\ UNCHANGED <<store, asks, sent, seen>> /\ UNCHANGED events
      /\ \A d \in Calls \ {c} : at'[d] = at[d] /\ answer'[d] = answer[d]
  BY DEF ListEvents, Goto, ProfilesTypeOK
<1>2. PICK es \in Events(c) : rows' = [rows EXCEPT ![c] = es]
  BY DEF ListEvents
<1>3. k \in Customers /\ RecordsInv /\ CallInv(c) /\ StreamTypeOK
  BY AskedCustomer DEF StreamInv
<1>4. /\ es \in Seq(Records) /\ seen[c] <= Len(es)
      /\ \A i \in 1..Len(es) : es[i].cust = k /\ es[i].time \in Nat
      /\ store = "memory" => es = events[k]
      /\ store = "mongo" => \A i, j \in 1..Len(es) : i < j =>
           es[i].id # es[j].id /\ es[i].time <= es[j].time
  <2>1. seen[c] <= Len(events[k])
    BY <1>1, <1>3 DEF CallInv, SeenInv, Unary
  <2> QED
    BY <1>2, <1>3, <2>1, EventsFound
<1>5. rows'[c] = es /\ rows' \in [Calls -> Seq(Records)]
      /\ \A d \in Calls \ {c} : rows'[d] = rows[d]
  BY <1>2, <1>3, <1>4 DEF StreamTypeOK
<1>6. StreamTypeOK' /\ StreamLocal(c)
  BY <1>1, <1>3, <1>5 DEF StreamTypeOK, StreamLocal
<1>7. RowsInv(c)'
  BY <1>1, <1>4, <1>5 DEF RowsInv
<1>8. SentInv(c)'
  <2>1. sent'[c] = <<>> /\ Len(es) \in Nat
    BY <1>1, <1>3, <1>4 DEF CallInv, SentInv
  <2>2. Len(sent'[c]) = 0
    BY <2>1
  <2> QED
    BY <1>1, <1>5, <2>1, <2>2 DEF SentInv
<1>9. SeenInv(c)'
  <2>1. seen[c] <= Len(events[k])
    BY <1>1, <1>3 DEF CallInv, SeenInv, Unary
  <2> QED
    BY <1>1, <1>4, <1>5, <2>1 DEF SeenInv, Unary
<1> QED
  BY <1>6, <1>7, <1>8, <1>9, StreamStep DEF CallInv

LEMMA SendEventStream ==
  ASSUME ProfilesTypeOK, StreamInv, NEW c \in Calls, SendEvent(c)
  PROVE  StreamInv'
<1> DEFINE n == Len(sent[c])
<1>1. /\ at[c] = "send" /\ UNCHANGED <<store, asks, rows, seen>> /\ UNCHANGED events
  BY DEF SendEvent
<1>2. CallInv(c) /\ StreamTypeOK /\ seen[c] \in Nat
  BY DEF StreamInv, ProfilesTypeOK
<1>3. n \in Nat /\ Len(rows[c]) \in Nat /\ sent[c] \in Seq({ToProtoEvent(e) : e \in Records})
  <2> DEFINE P == {ToProtoEvent(e) : e \in Records}
  <2> HIDE DEF P
  <2>1. sent \in [Calls -> Seq(P)] /\ rows \in [Calls -> Seq(Records)]
    BY <1>2 DEF StreamTypeOK, P
  <2>2. sent[c] \in Seq(P) /\ n \in Nat /\ Len(rows[c]) \in Nat
    BY <2>1
  <2> QED
    BY <2>2 DEF P
<1>4. RowsInv(c)'
  BY <1>1, <1>2, RowsKept DEF CallInv
<1>5. asks[c].op = "list" /\ seen[c] <= Len(rows[c]) /\ seen[c] <= Len(events[asks[c].cust])
  BY <1>1, <1>2 DEF CallInv, SeenInv, Unary
<1>6. ASSUME NEW a, Answer(c, a), sent' = sent, a.code = "OK" => n = Len(rows[c])
      PROVE  StreamInv'
  <2>1. /\ at'[c] = "reply" /\ answer'[c] = a
        /\ \A d \in Calls \ {c} : at'[d] = at[d] /\ answer'[d] = answer[d]
    BY <1>6 DEF Answer, Goto, ProfilesTypeOK
  <2>2. StreamTypeOK' /\ StreamLocal(c)
    BY <1>1, <1>2, <1>6, <2>1 DEF StreamTypeOK, StreamLocal
  <2>3. SentInv(c)'
    BY <1>1, <1>2, <1>6, <2>1 DEF CallInv, SentInv
  <2>4. a.code = "OK" => Len(sent'[c]) >= seen'[c]
    BY <1>1, <1>2, <1>3, <1>5, <1>6
  <2>5. SeenInv(c)'
    BY <1>1, <1>5, <2>1, <2>4 DEF SeenInv
  <2> QED
    BY <1>4, <2>2, <2>3, <2>5, StreamStep DEF CallInv
<1>7. ASSUME n < Len(rows[c]), UNCHANGED <<at, answer>>,
             sent' = [sent EXCEPT ![c] = Append(@, ToProtoEvent(rows[c][n + 1]))]
      PROVE  StreamInv'
  <2> DEFINE e == ToProtoEvent(rows[c][n + 1])
  <2>1. e \in {ToProtoEvent(x) : x \in Records}
    <3>1. rows[c][n + 1] \in Records
      <4>1. rows[c] \in Seq(Records) /\ n + 1 \in 1..Len(rows[c])
        BY <1>2, <1>3, <1>7 DEF StreamTypeOK
      <4> QED
        BY <4>1
    <3> QED
      BY <3>1
  <2>2. sent'[c] = Append(sent[c], e) /\ \A d \in Calls \ {c} : sent'[d] = sent[d]
    BY <1>2, <1>7 DEF StreamTypeOK
  <2>3. e = ToProtoEvent(rows[c][n + 1])
    OBVIOUS
  <2> HIDE DEF e
  <2>4. Append(sent[c], e) \in Seq({ToProtoEvent(x) : x \in Records})
    BY <1>3, <2>1
  <2>5. sent' \in [Calls -> Seq({ToProtoEvent(x) : x \in Records})]
    BY <1>2, <1>7, <2>3, <2>4 DEF StreamTypeOK
  <2>6. StreamTypeOK' /\ StreamLocal(c)
    BY <1>1, <1>2, <1>7, <2>2, <2>5 DEF StreamTypeOK, StreamLocal
  <2>7. /\ Len(sent'[c]) = n + 1 /\ sent'[c][n + 1] = e
        /\ \A i \in 1..n : sent'[c][i] = sent[c][i]
    BY <1>3, <2>2
  <2>8. \A i \in 1..(n + 1) : sent'[c][i] = ToProtoEvent(rows[c][i])
    <3>1. \A i \in 1..n : sent[c][i] = ToProtoEvent(rows[c][i])
      BY <1>2 DEF CallInv, SentInv
    <3>2. \A i \in 1..(n + 1) : i \in 1..n \/ i = n + 1
      BY <1>3
    <3> HIDE DEF n
    <3> QED
      BY <2>3, <2>7, <3>1, <3>2
  <2>9. SentInv(c)'
    <3>1. Len(sent'[c]) <= Len(rows'[c])
      BY <1>1, <1>3, <1>7, <2>7
    <3>2. \A i \in 1..Len(sent'[c]) : sent'[c][i] = ToProtoEvent(rows'[c][i])
      BY <1>1, <2>7, <2>8
    <3> QED
      BY <1>1, <1>7, <3>1, <3>2 DEF SentInv, ToProtoEvent
  <2>10. SeenInv(c)'
    BY <1>1, <1>5, <1>7 DEF SeenInv
  <2> QED
    BY <1>4, <2>6, <2>9, <2>10, StreamStep DEF CallInv
<1>8. Status("Canceled").code # "OK"
  BY DEF Status, NoAnswer
<1> QED
  BY <1>6, <1>7, <1>8 DEF SendEvent

LEMMA StreamNextOK ==
  ASSUME ProfilesTypeOK, StreamInv, [ProfilesNext]_profileVars
  PROVE  StreamInv'
<1>1. ASSUME NEW c \in Calls, ReplyTo(c)
      PROVE  StreamInv'
  <2>1. /\ at[c] = "reply" /\ at'[c] = "done" /\ \A d \in Calls \ {c} : at'[d] = at[d]
        /\ UNCHANGED <<store, asks, events, rows, sent, answer, seen>>
    BY <1>1 DEF ReplyTo, Goto, ProfilesTypeOK
  <2>2. StreamTypeOK' /\ StreamLocal(c)
    BY <2>1 DEF StreamInv, StreamTypeOK, StreamLocal
  <2>3. CallInv(c)'
    BY <2>1, CallKept DEF StreamInv
  <2> QED
    BY <2>2, <2>3, StreamStep
<1>2. ASSUME UNCHANGED <<store, asks, at, events, rows, sent, answer, seen>>
      PROVE  StreamInv'
  <2>1. StreamTypeOK'
    BY <1>2 DEF StreamInv, StreamTypeOK
  <2>2. RecordsInv'
    BY <1>2 DEF StreamInv, RecordsInv
  <2>3. ASSUME NEW d \in Calls
        PROVE  CallInv(d)'
    BY <1>2, CallKept DEF StreamInv
  <2> QED
    BY <2>1, <2>2, <2>3 DEF StreamInv
<1>3. CASE UNCHANGED profileVars
  BY <1>2, <1>3 DEF profileVars
<1>4. CASE Tick
  BY <1>2, <1>4 DEF Tick
<1>5. ASSUME NEW c \in Calls, GiveUp(c)
      PROVE  StreamInv'
  BY <1>2, <1>5 DEF GiveUp
<1>6. ASSUME NEW c \in Calls, CallStep(c)
      PROVE  StreamInv'
  BY <1>1, <1>6, ArriveStream, ReadClockStream, RepoStream, CountEventsStream,
     ListEventsStream, SendEventStream DEF CallStep
<1> QED
  BY <1>3, <1>4, <1>5, <1>6 DEF ProfilesNext

(* What holds of the events of m05 and m07 whenever the service runs.      *)
THEOREM StreamInvariant == ProfilesSpec => []StreamInv
<1>1. ProfilesInit => StreamInv
  BY StreamInitOK
<1>2. ProfilesInv /\ StreamInv /\ [ProfilesNext]_profileVars => StreamInv'
  BY StreamNextOK DEF ProfilesInv
<1> QED
  BY <1>1, <1>2, ProfilesInvariant, PTL DEF ProfilesSpec

(* A stream of ListEvents sends its customer's events of one moment of the *)
(* call, each once and in order, and EventCountsByType counts of each type *)
(* no fewer than there were when it came in and none that is not there,    *)
(* whatever is appended meanwhile and whichever operation of MongoDB fails *)
(* after taking effect.                                                    *)
THEOREM StreamFaithfulHolds == ProfilesSpec => []StreamFaithful
<1>1. ASSUME ProfilesTypeOK, StreamInv
      PROVE  StreamFaithful
  <2> SUFFICES ASSUME NEW c \in Calls
               PROVE  LET k == asks[c].cust IN
                      /\ \A i \in DOMAIN sent[c] :
                           /\ sent[c][i].cust = k
                           /\ store = "memory" =>
                                i \in DOMAIN events[k] /\ sent[c][i] = ToProtoEvent(events[k][i])
                      /\ store = "mongo" => \A i, j \in DOMAIN sent[c] : i < j =>
                           sent[c][i].id # sent[c][j].id /\ sent[c][i].time <= sent[c][j].time
                      /\ at[c] = "done" /\ answer[c].code = "OK" =>
                           /\ asks[c].op = "list" => Len(sent[c]) >= seen[c]
                           /\ asks[c].op = "count" => Counted(c)
    BY DEF StreamFaithful, Counted
  <2> DEFINE k == asks[c].cust
             n == Len(sent[c])
  <2>1. RowsInv(c) /\ SentInv(c) /\ SeenInv(c) /\ StreamTypeOK /\ k \in Customers
    BY <1>1, AskedCustomer DEF StreamInv, CallInv
  <2>2. /\ DOMAIN sent[c] = 1..n /\ n \in Nat /\ Len(rows[c]) \in Nat
        /\ DOMAIN events[k] = 1..Len(events[k])
    BY <1>1, <2>1 DEF StreamTypeOK, ProfilesTypeOK
  <2>3. n <= Len(rows[c]) /\ \A i \in 1..n : sent[c][i] = ToProtoEvent(rows[c][i])
    BY <2>1 DEF SentInv
  <2>4. \A i \in 1..n : /\ i \in 1..Len(rows[c]) /\ sent[c][i].id = rows[c][i].id
                        /\ sent[c][i].cust = rows[c][i].cust
                        /\ sent[c][i].time = rows[c][i].time \div Second
    <3> SUFFICES ASSUME NEW i \in 1..n
                 PROVE  /\ i \in 1..Len(rows[c]) /\ sent[c][i].id = rows[c][i].id
                        /\ sent[c][i].cust = rows[c][i].cust
                        /\ sent[c][i].time = rows[c][i].time \div Second
      OBVIOUS
    <3>1. i \in 1..Len(rows[c])
      BY <2>2, <2>3
    <3>2. sent[c][i] = ToProtoEvent(rows[c][i])
      BY <2>3
    <3>3. \A e : /\ ToProtoEvent(e).id = e.id /\ ToProtoEvent(e).cust = e.cust
                 /\ ToProtoEvent(e).time = e.time \div Second
      BY DEF ToProtoEvent
    <3> QED
      BY <3>1, <3>2, <3>3
  <2>5. ASSUME NEW i \in DOMAIN sent[c]
        PROVE  /\ sent[c][i].cust = k
               /\ store = "memory" =>
                    i \in DOMAIN events[k] /\ sent[c][i] = ToProtoEvent(events[k][i])
    <3>1. i \in 1..n /\ i \in 1..Len(rows[c])
      BY <2>2, <2>4
    <3>2. /\ rows[c][i].cust = k
          /\ store = "memory" => i \in 1..Len(events[k]) /\ rows[c][i] = events[k][i]
      BY <2>1, <3>1 DEF RowsInv
    <3> HIDE DEF k, n
    <3> QED
      BY <2>2, <2>3, <2>4, <3>1, <3>2
  <2>6. ASSUME store = "mongo", NEW i \in DOMAIN sent[c], NEW j \in DOMAIN sent[c], i < j
        PROVE  sent[c][i].id # sent[c][j].id /\ sent[c][i].time <= sent[c][j].time
    <3>1. i \in 1..n /\ j \in 1..n /\ i \in 1..Len(rows[c]) /\ j \in 1..Len(rows[c])
      BY <2>2, <2>4
    <3>2. /\ rows[c][i].id # rows[c][j].id /\ rows[c][i].time <= rows[c][j].time
          /\ rows[c][i].time \in Nat /\ rows[c][j].time \in Nat
      BY <2>1, <2>6, <3>1 DEF RowsInv
    <3>3. \A x, y \in Nat : x <= y => x \div Second <= y \div Second
      BY ProfilesAssumption
    <3> HIDE DEF n
    <3> QED
      BY <2>4, <3>1, <3>2, <3>3
  <2> QED
    BY <2>1, <2>5, <2>6 DEF SeenInv
<1>2. ProfilesInv /\ StreamInv => StreamFaithful
  BY <1>1 DEF ProfilesInv
<1> QED
  BY <1>2, ProfilesInvariant, StreamInvariant, PTL

-----------------------------------------------------------------------------
(* Listing page by page: the pages of a snapshot are its consecutive       *)
(* windows; pages by OFFSET have shown every customer of the first moment  *)
(* who is not far enough down the list.                                    *)
PagingTypeOK ==
  /\ lister \in {"store", "postgres"} /\ size \in PageSizes /\ listed \in BOOLEAN
  /\ present \subseteq Items /\ first \subseteq Items
  /\ created \in [Items -> Nat] /\ now \in Nat
  /\ snapshot \in Seq(Items) /\ pages \in Seq(Seq(Items))

(* Page p of the snapshot. *)
WindowInv(p) ==
  LET from == (p - 1) * Limit(size) IN
  /\ from < Len(snapshot)
  /\ Len(pages[p]) = AtMostOf(Limit(size), Len(snapshot) - from)
  /\ \A j \in 1..Len(pages[p]) : pages[p][j] = snapshot[from + j]

StoreInv ==
  lister = "store" =>
    /\ first = {} => pages = <<>> /\ ~listed
    /\ first # {} => snapshot \in InSome(first)
    /\ \A p \in 1..Len(pages) : WindowInv(p)
    /\ first # {} => (listed <=> Len(snapshot) <= Len(pages) * Limit(size))

(* The rows that come before i, unless some share a created_at. *)
Ahead(i) == {j \in present : created[j] > created[i]}
TimesDiffer == \A i, j \in present : created[i] = created[j] => i = j
IsShown(i) == \E p \in 1..Len(pages) : \E j \in 1..Len(pages[p]) : pages[p][j] = i

PostgresInv ==
  lister = "postgres" =>
    /\ present \subseteq begun /\ first \subseteq present
    /\ \A i : IsShown(i) => i \in present
    /\ TimesDiffer => \A i \in first :
         IsShown(i) \/ (~listed /\ Len(pages) * Limit(size) <= Cardinality(Ahead(i)))

PagingInv == PagingTypeOK /\ StoreInv /\ PostgresInv

LEMMA LimitPositive ==
  ASSUME size \in PageSizes
  PROVE  Limit(size) \in Nat \ {0} /\ size \in Nat
BY PagingAssumption DEF Limit

(* A listing in some order has every customer once. *)
LEMMA InSomeOrder ==
  ASSUME NEW S, IsFiniteSet(S), NEW s \in InSome(S)
  PROVE  /\ s \in Seq(S) /\ Len(s) = Cardinality(S) /\ Cardinality(S) \in Nat
         /\ \A i, j \in 1..Len(s) : s[i] = s[j] => i = j
         /\ \A x \in S : \E i \in 1..Len(s) : s[i] = x
<1> DEFINE n == Cardinality(S)
<1>1. n \in Nat
  BY FS_CardinalityType
<1>2. s \in [1..n -> S] /\ \A i, j \in 1..n : s[i] = s[j] => i = j
  BY DEF InSome
<1>3. s \in Seq(S) /\ Len(s) = n
  BY <1>1, <1>2
<1>4. s \in Injection(1..n, S)
  BY <1>2 DEF Injection, IsInjective
<1>5. Cardinality(1..n) = n
  <2>1. Cardinality(1..n) = IF 1 > n THEN 0 ELSE n - 1 + 1
    BY <1>1, FS_Interval
  <2> HIDE DEF n
  <2> QED
    BY <1>1, <2>1
<1>6. s \in Surjection(1..n, S)
  BY <1>4, <1>5, FS_Injection
<1>7. \A x \in S : \E i \in 1..n : s[i] = x
  BY <1>6 DEF Surjection
<1> QED
  BY <1>1, <1>2, <1>3, <1>7

(* A window of a listing. *)
LEMMA WindowOf ==
  ASSUME NEW S, NEW s \in Seq(S), NEW k \in Nat, NEW l \in Nat, k <= Len(s)
  PROVE  LET w == SubSeq(s, k + 1, AtMostOf(k + l, Len(s))) IN
         /\ w \in Seq(S) /\ Len(w) = AtMostOf(l, Len(s) - k)
         /\ \A j \in 1..Len(w) : w[j] = s[k + j] /\ k + j \in 1..Len(s)
<1> DEFINE e == AtMostOf(k + l, Len(s))
           w == SubSeq(s, k + 1, e)
<1>1. Len(s) \in Nat /\ e \in Nat /\ e <= Len(s) /\ k <= e
      /\ e - k = AtMostOf(l, Len(s) - k)
  BY DEF AtMostOf
<1> HIDE DEF e
<1>2. Len(w) = e - k
  BY <1>1
<1>3. \A j \in 1..(e - k) : k + j \in 1..Len(s) /\ w[j] = s[k + j]
  BY <1>1
<1>4. w \in Seq(S)
  <2>1. \A i \in (k + 1)..e : s[i] \in S
    BY <1>1
  <2> QED
    BY <1>1, <2>1
<1> QED
  BY <1>1, <1>2, <1>3, <1>4 DEF e

LEMMA RoundUp ==
  ASSUME NEW t \in Nat, NEW p \in Nat, NEW s \in Nat \ {0}
  PROVE  p < (t + s - 1) \div s <=> t > p * s
<1> DEFINE q == (t + s - 1) \div s
<1>1. \A y \in Nat : y \div s \in Nat
  OBVIOUS
<1>2. \A y \in Nat : (y \div s) * s <= y
  OBVIOUS
<1>3. \A y \in Nat : y < (y \div s) * s + s
  OBVIOUS
<1>4. t + s - 1 \in Nat
  OBVIOUS
<1>5. q \in Nat /\ q * s <= t + s - 1 /\ t + s - 1 < q * s + s
  BY <1>1, <1>2, <1>3, <1>4
<1> HIDE DEF q
<1>6. q * s \in Nat /\ p * s \in Nat
  BY <1>5
<1>7. \A x, y \in Nat : x <= y => x * s <= y * s
  OBVIOUS
<1>8. CASE p < q
  <2>1. (p + 1) * s <= q * s
    BY <1>5, <1>7, <1>8
  <2>2. (p + 1) * s = p * s + s
    OBVIOUS
  <2> QED
    BY <1>5, <1>6, <1>8, <2>1, <2>2 DEF q
<1>9. CASE ~(p < q)
  <2>1. q * s <= p * s
    BY <1>5, <1>7, <1>9
  <2> QED
    BY <1>5, <1>6, <1>9, <2>1 DEF q
<1> QED
  BY <1>8, <1>9

(* genx.Paginate cuts out the page after k others. *)
LEMMA GenxPage ==
  ASSUME NEW S, NEW s \in Seq(S), NEW k \in Nat, NEW sz \in Nat, k * Limit(sz) < Len(s)
  PROVE  LET p == GenxPaginate(s, k + 1, sz)
             l == Limit(sz)
         IN  /\ p.items \in Seq(S) /\ Len(p.items) = AtMostOf(l, Len(s) - k * l)
             /\ \A j \in 1..Len(p.items) : p.items[j] = s[k * l + j]
             /\ p.hasNext <=> Len(s) > (k + 1) * l
<1> DEFINE l == Limit(sz)
           x == k * l
           p == GenxPaginate(s, k + 1, sz)
           w == SubSeq(s, x + 1, AtMostOf(x + l, Len(s)))
<1>1. l \in Nat \ {0} /\ l = IF sz < 1 THEN 20 ELSE sz
  BY DEF Limit
<1> HIDE DEF l
<1>2. x \in Nat
  BY <1>1
<1>3. (IF k + 1 < 1 THEN 1 ELSE k + 1) = k + 1 /\ (k + 1) - 1 = k
  OBVIOUS
<1>4. AtMostOf(x, Len(s)) = x
  BY <1>2 DEF AtMostOf, l
<1>5. p.items = w /\ p.hasNext = (k + 1 < (Len(s) + l - 1) \div l)
  BY <1>1, <1>3, <1>4 DEF GenxPaginate
<1>6. /\ w \in Seq(S) /\ Len(w) = AtMostOf(l, Len(s) - x)
      /\ \A j \in 1..Len(w) : w[j] = s[x + j]
  <2>1. x <= Len(s) /\ l \in Nat
    BY <1>1, <1>2 DEF l
  <2> HIDE DEF x
  <2>2. /\ w \in Seq(S) /\ Len(w) = AtMostOf(l, Len(s) - x)
        /\ \A j \in 1..Len(w) : w[j] = s[x + j] /\ x + j \in 1..Len(s)
    BY <1>2, <2>1, WindowOf
  <2> QED
    BY <2>2
<1>7. p.hasNext <=> Len(s) > (k + 1) * l
  <2>1. k + 1 \in Nat /\ Len(s) \in Nat
    OBVIOUS
  <2>2. k + 1 < (Len(s) + l - 1) \div l <=> Len(s) > (k + 1) * l
    BY <1>1, <2>1, RoundUp
  <2> QED
    BY <1>5, <2>2
<1> HIDE DEF p, w
<1> QED
  BY <1>5, <1>6, <1>7 DEF p, l

(* What the pages show. *)
LEMMA EntriesAre ==
  ASSUME PagingTypeOK, NEW e
  PROVE  e \in Entries <=> \E p \in 1..Len(pages) : \E j \in 1..Len(pages[p]) : e = <<p, j>>
<1>1. DOMAIN pages = 1..Len(pages)
  BY DEF PagingTypeOK
<1> QED
  BY <1>1 DEF Entries

LEMMA ShownAre ==
  ASSUME PagingTypeOK, NEW i
  PROVE  i \in Shown <=> IsShown(i)
<1>1. ASSUME i \in Shown
      PROVE  IsShown(i)
  <2>1. PICK e \in Entries : i = pages[e[1]][e[2]]
    BY <1>1 DEF Shown
  <2>2. PICK p \in 1..Len(pages) : \E j \in 1..Len(pages[p]) : e = <<p, j>>
    BY EntriesAre
  <2>3. PICK j \in 1..Len(pages[p]) : e = <<p, j>>
    BY <2>2
  <2>4. e[1] = p /\ e[2] = j
    BY <2>3
  <2> QED
    BY <2>1, <2>4 DEF IsShown
<1>2. ASSUME IsShown(i)
      PROVE  i \in Shown
  <2>1. PICK p \in 1..Len(pages) : \E j \in 1..Len(pages[p]) : pages[p][j] = i
    BY <1>2 DEF IsShown
  <2>2. PICK j \in 1..Len(pages[p]) : pages[p][j] = i
    BY <2>1
  <2>3. <<p, j>> \in Entries
    BY EntriesAre
  <2>4. <<p, j>>[1] = p /\ <<p, j>>[2] = j
    OBVIOUS
  <2> QED
    BY <2>2, <2>3, <2>4 DEF Shown
<1> QED
  BY <1>1, <1>2

(* One more page shows its customers, and what was shown before. *)
LEMMA NextPage ==
  ASSUME PagingTypeOK, NEW p \in Seq(Items), pages' = Append(pages, p)
  PROVE  /\ pages' \in Seq(Seq(Items)) /\ Len(pages) \in Nat /\ Len(pages') = Len(pages) + 1
         /\ pages'[Len(pages) + 1] = p /\ \A q \in 1..Len(pages) : pages'[q] = pages[q]
         /\ \A i : IsShown(i)' <=> IsShown(i) \/ \E j \in 1..Len(p) : p[j] = i
<1>1. pages \in Seq(Seq(Items)) /\ Len(pages) \in Nat
  BY DEF PagingTypeOK
<1>2. pages' \in Seq(Seq(Items)) /\ Len(pages') = Len(pages) + 1
  BY <1>1
<1>3. pages'[Len(pages) + 1] = p /\ \A q \in 1..Len(pages) : pages'[q] = pages[q]
  BY <1>1
<1>4. \A q : q \in 1..Len(pages') <=> q \in 1..Len(pages) \/ q = Len(pages) + 1
  BY <1>1, <1>2
<1>5. ASSUME NEW i
      PROVE  IsShown(i)' <=> IsShown(i) \/ \E j \in 1..Len(p) : p[j] = i
  BY <1>3, <1>4, ZenonT(60) DEF IsShown
<1> QED
  BY <1>1, <1>2, <1>3, <1>5

LEMMA PagingInitOK ==
  ASSUME PagingInit
  PROVE  PagingInv
<1>1. pages = <<>> /\ Len(pages) = 0 /\ first = {} /\ listed = FALSE /\ snapshot = <<>>
  BY DEF PagingInit
<1>2. PagingTypeOK
  <2>1. snapshot \in Seq(Items) /\ pages \in Seq(Seq(Items))
    BY <1>1
  <2>2. created \in [Items -> Nat] /\ now \in Nat
    BY DEF PagingInit
  <2>3. lister \in {"store", "postgres"} /\ size \in PageSizes /\ present = {}
    BY DEF PagingInit
  <2> QED
    BY <1>1, <2>1, <2>2, <2>3 DEF PagingTypeOK
<1>3. StoreInv
  BY <1>1 DEF StoreInv
<1>4. PostgresInv
  BY <1>1 DEF PagingInit, PostgresInv, IsShown
<1> QED
  BY <1>2, <1>3, <1>4 DEF PagingInv

(* Writes to the map of the store do not touch the snapshot. *)
LEMMA StoreWritesOK ==
  ASSUME PagingInv, NEW i \in Items, Put(i) \/ Delete(i)
  PROVE  PagingInv'
<1>1. /\ lister = "store" /\ present' \in {present \cup {i}, present \ {i}}
      /\ UNCHANGED <<lister, begun, created, now, size, snapshot, pages, first, listed>>
  BY DEF Put, Delete
<1>2. PagingTypeOK'
  BY <1>1 DEF PagingInv, PagingTypeOK
<1>3. StoreInv'
  BY <1>1 DEF PagingInv, StoreInv, WindowInv
<1>4. PostgresInv'
  BY <1>1 DEF PostgresInv
<1> QED
  BY <1>2, <1>3, <1>4 DEF PagingInv

LEMMA AllOK ==
  ASSUME PagingInv, All
  PROVE  PagingInv'
<1>1. /\ lister = "store" /\ first = {} /\ present # {} /\ first' = present
      /\ snapshot' \in InSome(present)
      /\ UNCHANGED <<lister, present, begun, created, now, size, pages, listed>>
  BY DEF All
<1>2. PagingTypeOK /\ StoreInv
  BY DEF PagingInv
<1>3. IsFiniteSet(present) /\ present \subseteq Items
  BY <1>2, FS_Subset, PagingAssumption DEF PagingTypeOK
<1>4. snapshot' \in Seq(present) /\ Len(snapshot') = Cardinality(present)
      /\ Cardinality(present) \in Nat
  BY <1>1, <1>3, InSomeOrder
<1>5. Cardinality(present) # 0
  BY <1>1, <1>3, FS_EmptySet
<1>6. snapshot' \in Seq(Items)
  BY <1>3, <1>4
<1>7. PagingTypeOK'
  BY <1>1, <1>2, <1>6 DEF PagingTypeOK
<1>8. StoreInv'
  <2>1. pages = <<>> /\ ~listed
    BY <1>1, <1>2 DEF StoreInv
  <2>2. Len(pages) = 0 /\ Limit(size) \in Nat
    BY <1>2, <2>1, LimitPositive DEF PagingTypeOK
  <2>3. ~(Len(snapshot') <= Len(pages) * Limit(size))
    BY <1>4, <1>5, <2>2
  <2>4. ~(Len(snapshot') <= Len(pages') * Limit(size)')
    BY <1>1, <2>3 DEF Limit
  <2>5. 1..Len(pages') = {}
    BY <1>1, <2>2
  <2> QED
    BY <1>1, <2>1, <2>4, <2>5 DEF StoreInv
<1>9. PostgresInv'
  BY <1>1 DEF PostgresInv
<1> QED
  BY <1>7, <1>8, <1>9 DEF PagingInv

LEMMA StorePageOK ==
  ASSUME PagingInv, StorePage
  PROVE  PagingInv'
<1> DEFINE k == Len(pages)
           l == Limit(size)
           n == Len(snapshot)
           p == GenxPaginate(snapshot, k + 1, size)
<1>1. PagingTypeOK /\ StoreInv
  BY DEF PagingInv
<1>2. /\ lister = "store" /\ first # {} /\ ~listed
      /\ pages' = Append(pages, p.items) /\ listed' = ~p.hasNext
      /\ UNCHANGED <<lister, present, begun, created, now, size, snapshot, first>>
  BY DEF StorePage
<1>3. k \in Nat /\ n \in Nat /\ l \in Nat \ {0} /\ size \in Nat /\ k * l \in Nat
      /\ snapshot \in Seq(Items)
  <2>1. k \in Nat /\ n \in Nat /\ snapshot \in Seq(Items)
    BY <1>1 DEF PagingTypeOK
  <2>2. l \in Nat \ {0} /\ size \in Nat
    BY <1>1, LimitPositive DEF PagingTypeOK
  <2> QED
    BY <2>1, <2>2
<1>4. k * l < n
  BY <1>1, <1>2, <1>3 DEF StoreInv
<1>5. /\ p.items \in Seq(Items) /\ Len(p.items) = AtMostOf(l, n - k * l)
      /\ \A j \in 1..Len(p.items) : p.items[j] = snapshot[k * l + j]
      /\ p.hasNext <=> n > (k + 1) * l
  BY <1>3, <1>4, GenxPage
<1> HIDE DEF p
<1>6. /\ pages' \in Seq(Seq(Items)) /\ Len(pages') = k + 1
      /\ pages'[k + 1] = p.items /\ \A q \in 1..k : pages'[q] = pages[q]
  BY <1>1, <1>2, <1>5, NextPage
<1>7. PagingTypeOK'
  BY <1>1, <1>2, <1>6 DEF PagingTypeOK
<1>8. \A q \in 1..(k + 1) : WindowInv(q)'
  <2> SUFFICES ASSUME NEW q \in 1..(k + 1)
               PROVE  WindowInv(q)'
    OBVIOUS
  <2>1. CASE q \in 1..k
    <3>1. WindowInv(q) /\ pages'[q] = pages[q]
      BY <1>1, <1>2, <1>6, <2>1 DEF StoreInv
    <3> QED
      BY <1>2, <3>1 DEF WindowInv, Limit
  <2>2. CASE q = k + 1
    <3>1. (q - 1) * l = k * l /\ pages'[q] = p.items
      BY <1>3, <1>6, <2>2
    <3> QED
      BY <1>2, <1>4, <1>5, <3>1 DEF WindowInv, Limit
  <2> QED
    BY <1>3, <2>1, <2>2
<1>9. listed' <=> Len(snapshot') <= Len(pages') * Limit(size)'
  <2>1. (k + 1) * l \in Nat
    BY <1>3
  <2>2. listed' <=> ~p.hasNext
    BY <1>2, Zenon
  <2>3. n > (k + 1) * l <=> ~(n <= (k + 1) * l)
    BY <1>3, <2>1
  <2>4. listed' <=> n <= (k + 1) * l
    BY <1>5, <2>2, <2>3, Zenon
  <2> QED
    BY <1>2, <1>6, <2>4 DEF Limit
<1>10. StoreInv'
  BY <1>1, <1>2, <1>6, <1>8, <1>9 DEF StoreInv
<1>11. PostgresInv'
  BY <1>2 DEF PostgresInv
<1> QED
  BY <1>7, <1>10, <1>11 DEF PagingInv

-----------------------------------------------------------------------------
(* More rows only move a row down. *)
LEMMA RowsMoveDown ==
  ASSUME PagingInv, lister = "postgres", present \subseteq present', present' \subseteq Items,
         present' \subseteq begun',
         \A i \in present : created'[i] = created[i],
         UNCHANGED <<lister, size, pages, first, listed>>
  PROVE  PostgresInv'
<1>1. PagingTypeOK /\ PostgresInv
  BY DEF PagingInv
<1>2. ASSUME TimesDiffer', NEW i \in first
      PROVE  IsShown(i) \/ (~listed /\ Len(pages) * Limit(size) <= Cardinality(Ahead(i)'))
  <2>1. TimesDiffer
    BY <1>2 DEF TimesDiffer
  <2>2. IsShown(i) \/ (~listed /\ Len(pages) * Limit(size) <= Cardinality(Ahead(i)))
    BY <1>1, <1>2, <2>1 DEF PostgresInv
  <2>3. i \in present
    BY <1>1, <1>2 DEF PostgresInv
  <2>4. Ahead(i) \subseteq Ahead(i)'
    BY <2>3 DEF Ahead
  <2>5. IsFiniteSet(Ahead(i)')
    <3>1. Ahead(i)' \subseteq Items
      BY DEF Ahead
    <3> QED
      BY <3>1, FS_Subset, PagingAssumption
  <2>6. Cardinality(Ahead(i)) <= Cardinality(Ahead(i)') /\ Cardinality(Ahead(i)) \in Nat
        /\ Cardinality(Ahead(i)') \in Nat
    BY <2>4, <2>5, FS_Subset, FS_CardinalityType
  <2>7. Len(pages) * Limit(size) \in Nat
    <3>1. Len(pages) \in Nat /\ Limit(size) \in Nat
      BY <1>1, LimitPositive DEF PagingTypeOK
    <3> QED
      BY <3>1
  <2> QED
    BY <2>2, <2>6, <2>7
<1>3. \A i : IsShown(i)' <=> IsShown(i)
  BY DEF IsShown
<1> QED
  BY <1>1, <1>2, <1>3 DEF PostgresInv, Limit, Ahead

LEMMA PostgresWritesOK ==
  ASSUME PagingInv,
         Advance \/ \E i \in Items : BeginInsert(i) \/ CommitInsert(i)
  PROVE  PagingInv'
<1>1. PagingTypeOK /\ StoreInv /\ PostgresInv
  BY DEF PagingInv
<1>2. /\ lister = "postgres" /\ UNCHANGED <<lister, size, snapshot, pages, first, listed>>
      /\ present \subseteq present' /\ present' \subseteq Items
  BY <1>1 DEF BeginInsert, CommitInsert, Advance, PagingTypeOK
<1>3. now' \in Nat /\ created' \in [Items -> Nat]
  <2>1. now \in Nat /\ created \in [Items -> Nat]
    BY <1>1 DEF PagingTypeOK
  <2>2. CASE Advance
    BY <2>1, <2>2 DEF Advance
  <2>3. ASSUME NEW i \in Items, BeginInsert(i)
        PROVE  now' \in Nat /\ created' \in [Items -> Nat]
    BY <2>1, <2>3 DEF BeginInsert
  <2>4. ASSUME NEW i \in Items, CommitInsert(i)
        PROVE  now' \in Nat /\ created' \in [Items -> Nat]
    BY <2>1, <2>4 DEF CommitInsert
  <2> QED
    BY <2>2, <2>3, <2>4
<1>4. present' \subseteq begun'
  BY <1>1, <1>2 DEF BeginInsert, CommitInsert, Advance, PostgresInv
<1>5. \A j \in present : created'[j] = created[j]
  BY <1>1, <1>2 DEF BeginInsert, CommitInsert, Advance, PostgresInv, PagingTypeOK
<1>6. PagingTypeOK'
  BY <1>1, <1>2, <1>3 DEF PagingTypeOK
<1>7. PostgresInv'
  BY <1>2, <1>4, <1>5, RowsMoveDown
<1>8. StoreInv'
  BY <1>2 DEF StoreInv
<1> QED
  BY <1>6, <1>7, <1>8 DEF PagingInv

(* In the order of the query, place x has x - 1 rows ahead of it. *)
LEMMA RowsAhead ==
  ASSUME PagingTypeOK, TimesDiffer, NEW o \in InSome(present), ByCreated(o),
         NEW x \in 1..Len(o)
  PROVE  Cardinality(Ahead(o[x])) = x - 1
<1>1. IsFiniteSet(present) /\ present \subseteq Items
  BY FS_Subset, PagingAssumption DEF PagingTypeOK
<1>2. /\ o \in Seq(present) /\ Len(o) \in Nat
      /\ \A i, j \in 1..Len(o) : o[i] = o[j] => i = j
      /\ \A y \in present : \E i \in 1..Len(o) : o[i] = y
  BY <1>1, InSomeOrder
<1>3. \A i \in 1..Len(o) : o[i] \in present /\ created[o[i]] \in Nat
  <2>1. \A i \in 1..Len(o) : o[i] \in present
    BY <1>2
  <2>2. \A y \in present : created[y] \in Nat
    BY <1>1 DEF PagingTypeOK
  <2> QED
    BY <2>1, <2>2
<1>4. \A i, j \in 1..Len(o) : i < j => created[o[i]] >= created[o[j]] /\ created[o[i]] # created[o[j]]
  <2> SUFFICES ASSUME NEW i \in 1..Len(o), NEW j \in 1..Len(o), i < j
               PROVE  created[o[i]] >= created[o[j]] /\ created[o[i]] # created[o[j]]
    OBVIOUS
  <2>1. created[o[i]] >= created[o[j]]
    <3>1. DOMAIN o = 1..Len(o)
      BY <1>2
    <3> QED
      BY <3>1 DEF ByCreated
  <2>2. o[i] # o[j]
    BY <1>2
  <2> QED
    BY <1>3, <2>1, <2>2 DEF TimesDiffer
<1> DEFINE f == [i \in 1..(x - 1) |-> o[i]]
           A == Ahead(o[x])
<1>5. 1..(x - 1) \subseteq 1..Len(o) /\ x \in Nat
  BY <1>2
<1>6. ASSUME NEW i \in 1..(x - 1)
      PROVE  o[i] \in A
  <2>1. i \in 1..Len(o) /\ i < x
    BY <1>5
  <2>2. created[o[i]] > created[o[x]]
    BY <1>3, <1>4, <2>1
  <2> QED
    BY <1>3, <2>1, <2>2 DEF Ahead
<1>7. ASSUME NEW y \in A
      PROVE  \E i \in 1..(x - 1) : o[i] = y
  <2>1. y \in present /\ created[y] > created[o[x]]
    BY DEF Ahead
  <2>2. PICK i \in 1..Len(o) : o[i] = y
    BY <1>2, <2>1
  <2>3. ~(i = x) /\ ~(x < i)
    BY <1>3, <1>4, <2>1, <2>2
  <2>4. i \in 1..(x - 1)
    BY <1>2, <2>3
  <2> QED
    BY <2>2, <2>4
<1>8. f \in Injection(1..(x - 1), A)
  BY <1>2, <1>5, <1>6 DEF Injection, IsInjective
<1>9. f \in Surjection(1..(x - 1), A)
  BY <1>6, <1>7 DEF Surjection
<1>10. IsFiniteSet(A)
  <2>1. A \subseteq present
    BY DEF Ahead
  <2> QED
    BY <1>1, <2>1, FS_Subset
<1> HIDE DEF f, A
<1>11. Cardinality(1..(x - 1)) = Cardinality(A)
  BY <1>8, <1>9, <1>10, FS_Injection
<1>12. Cardinality(1..(x - 1)) = x - 1
  <2>1. x - 1 \in Int /\ x - 1 >= 0
    BY <1>5
  <2>2. Cardinality(1..(x - 1)) = IF 1 > x - 1 THEN 0 ELSE (x - 1) - 1 + 1
    BY <2>1, FS_Interval
  <2> QED
    BY <2>1, <2>2
<1> QED
  BY <1>11, <1>12 DEF A

(* A page by OFFSET shows rows that are there, and each row that has not   *)
(* so many ahead of it that a later page shows it; a later page follows.   *)
Page(o, k, l) == SubSeq(o, k + 1, AtMostOf(k + l, Len(o)))
PageShows(p, k, l) ==
  /\ p \in Seq(Items)
  /\ \A j \in 1..Len(p) : p[j] \in present
  /\ TimesDiffer => \A i \in present : k <= Cardinality(Ahead(i)) =>
       \/ \E j \in 1..Len(p) : p[j] = i
       \/ k + l <= Cardinality(Ahead(i)) /\ Len(p) = l

LEMMA ListedPage ==
  ASSUME PagingTypeOK, NEW k \in Nat, NEW l \in Nat \ {0},
         NEW o \in InSome(present), ByCreated(o)
  PROVE  PageShows(Page(o, k, l), k, l)
<1> DEFINE p == Page(o, k, l)
<1>0. p = SubSeq(o, k + 1, AtMostOf(k + l, Len(o)))
  BY DEF Page
<1> HIDE DEF p
<1> SUFFICES PageShows(p, k, l)
  BY DEF p
<1>1. IsFiniteSet(present) /\ present \subseteq Items
  BY FS_Subset, PagingAssumption DEF PagingTypeOK
<1>2. o \in Seq(present) /\ Len(o) \in Nat /\ \A y \in present : \E x \in 1..Len(o) : o[x] = y
  BY <1>1, InSomeOrder
<1>3. CASE k <= Len(o)
  <2>1. /\ p \in Seq(present) /\ Len(p) = AtMostOf(l, Len(o) - k)
        /\ \A j \in 1..Len(p) : p[j] = o[k + j] /\ k + j \in 1..Len(o)
    <3>1. l \in Nat
      OBVIOUS
    <3>2. LET w == SubSeq(o, k + 1, AtMostOf(k + l, Len(o))) IN
          /\ w \in Seq(present) /\ Len(w) = AtMostOf(l, Len(o) - k)
          /\ \A j \in 1..Len(w) : w[j] = o[k + j] /\ k + j \in 1..Len(o)
      BY <1>2, <1>3, <3>1, WindowOf
    <3> QED
      BY <1>0, <3>2, Zenon
  <2>2. p \in Seq(Items)
    BY <1>1, <2>1
  <2>3. \A j \in 1..Len(p) : p[j] \in present
    BY <2>1
  <2>4. ASSUME TimesDiffer, NEW i \in present, k <= Cardinality(Ahead(i))
        PROVE  \/ \E j \in 1..Len(p) : p[j] = i
               \/ k + l <= Cardinality(Ahead(i)) /\ Len(p) = l
    <3>1. PICK x \in 1..Len(o) : o[x] = i
      BY <1>2
    <3>2. Cardinality(Ahead(i)) = x - 1
      BY <2>4, <3>1, RowsAhead
    <3>3. CASE x - 1 < k + l
      <4>1. x - k \in 1..Len(p) /\ k + (x - k) = x
        <5>1. x \in Nat /\ x <= Len(o) /\ k <= x - 1
          BY <1>2, <2>4, <3>2
        <5>2. x - k \in 1..AtMostOf(l, Len(o) - k)
          BY <1>2, <3>3, <5>1 DEF AtMostOf
        <5> QED
          BY <2>1, <5>1, <5>2
      <4>2. p[x - k] = o[x]
        BY <2>1, <4>1
      <4> QED
        BY <3>1, <4>1, <4>2
    <3>4. CASE ~(x - 1 < k + l)
      BY <1>2, <1>3, <2>1, <3>2, <3>4 DEF AtMostOf
    <3> QED
      BY <3>3, <3>4
  <2> QED
    BY <2>2, <2>3, <2>4 DEF PageShows
<1>4. CASE ~(k <= Len(o))
  <2>1. AtMostOf(k + l, Len(o)) = Len(o) /\ Len(o) < k + 1
    BY <1>2, <1>4 DEF AtMostOf
  <2>2. p = <<>>
    BY <1>0, <1>2, <2>1
  <2>3. p \in Seq(Items) /\ Len(p) = 0
    <3>1. <<>> \in Seq(Items) /\ Len(<<>>) = 0
      OBVIOUS
    <3> QED
      BY <2>2, <3>1, Zenon
  <2>4. ASSUME TimesDiffer, NEW i \in present
        PROVE  ~(k <= Cardinality(Ahead(i)))
    <3>1. PICK x \in 1..Len(o) : o[x] = i
      BY <1>2
    <3>2. Cardinality(Ahead(i)) = x - 1
      BY <2>4, <3>1, RowsAhead
    <3> QED
      BY <1>2, <1>4, <3>2
  <2> QED
    BY <2>3, <2>4 DEF PageShows
<1> QED
  BY <1>3, <1>4

LEMMA ListPageOK ==
  ASSUME PagingInv, ListPage
  PROVE  PagingInv'
<1> DEFINE n == Len(pages)
           l == Limit(size)
<1>1. PagingTypeOK /\ PostgresInv
  BY DEF PagingInv
<1>2. lister = "postgres" /\ ~listed
      /\ UNCHANGED <<lister, present, begun, created, now, size, snapshot>>
  BY DEF ListPage
<1>3. n \in Nat /\ l \in Nat \ {0} /\ n * l \in Nat /\ (n + 1) * l = n * l + l
  <2>1. n \in Nat /\ l \in Nat \ {0}
    BY <1>1, LimitPositive DEF PagingTypeOK
  <2> QED
    BY <2>1
<1>4. PICK p \in List(size, n * l) :
        /\ pages' = Append(pages, p) /\ listed' = (Len(p) < l)
        /\ first' = IF pages = <<>> THEN present ELSE first
  BY DEF ListPage
<1>5. PICK o \in InSome(present) :
        ByCreated(o) /\ p = SubSeq(o, n * l + 1, AtMostOf(n * l + l, Len(o)))
  BY DEF List
<1> DEFINE k == n * l
<1>6. k \in Nat /\ k = n * l
  BY <1>3
<1> HIDE DEF k
<1>7. /\ p \in Seq(Items)
      /\ \A j \in 1..Len(p) : p[j] \in present
      /\ TimesDiffer => \A i \in present : k <= Cardinality(Ahead(i)) =>
           \/ \E j \in 1..Len(p) : p[j] = i
           \/ k + l <= Cardinality(Ahead(i)) /\ Len(p) = l
  <2>1. p = Page(o, k, l)
    BY <1>5, <1>6 DEF Page
  <2>2. /\ k \in Nat /\ l \in Nat \ {0} /\ PagingTypeOK
        /\ o \in InSome(present) /\ ByCreated(o)
    BY <1>1, <1>3, <1>5, <1>6
  <2> HIDE DEF l
  <2>3. PageShows(Page(o, k, l), k, l)
    BY <2>2, ListedPage
  <2>4. PageShows(p, k, l)
    BY <2>1, <2>3
  <2> QED
    BY <2>4 DEF PageShows
<1>8. /\ pages' \in Seq(Seq(Items)) /\ Len(pages') = n + 1
      /\ \A i : IsShown(i)' <=> IsShown(i) \/ \E j \in 1..Len(p) : p[j] = i
  BY <1>1, <1>4, <1>7, NextPage
<1>9. first' \subseteq present /\ present \subseteq Items
  BY <1>1, <1>2, <1>4 DEF PostgresInv, PagingTypeOK
<1>10. PagingTypeOK'
  BY <1>1, <1>2, <1>4, <1>8, <1>9 DEF PagingTypeOK
<1>11. \A i : IsShown(i)' => i \in present
  BY <1>1, <1>2, <1>7, <1>8 DEF PostgresInv
<1>12. ASSUME TimesDiffer, NEW i \in first'
       PROVE  IsShown(i)' \/ (~listed' /\ (n + 1) * l <= Cardinality(Ahead(i)))
  <2>1. i \in present /\ Cardinality(Ahead(i)) \in Nat
    <3>1. Ahead(i) \subseteq Items
      BY <1>9 DEF Ahead
    <3>2. IsFiniteSet(Ahead(i))
      BY <3>1, FS_Subset, PagingAssumption
    <3> QED
      BY <1>9, <1>12, <3>2, FS_CardinalityType
  <2>2. IsShown(i) \/ k <= Cardinality(Ahead(i))
    <3>1. CASE pages = <<>>
      <4>1. n = 0
        BY <3>1
      <4>2. k = 0
        BY <1>3, <1>6, <4>1
      <4> QED
        BY <2>1, <4>2
    <3>2. CASE pages # <<>>
      <4>1. i \in first
        BY <1>4, <1>12, <3>2
      <4> QED
        BY <1>1, <1>2, <1>6, <1>12, <4>1 DEF PostgresInv
    <3> QED
      BY <3>1, <3>2
  <2>3. CASE IsShown(i) \/ \E j \in 1..Len(p) : p[j] = i
    BY <1>8, <2>3
  <2>4. CASE k + l <= Cardinality(Ahead(i)) /\ Len(p) = l
    <3>1. ~(Len(p) < l)
      BY <1>3, <2>4
    <3>2. ~listed'
      BY <1>4, <3>1, Zenon
    <3>3. (n + 1) * l = k + l
      BY <1>3, <1>6
    <3>4. (n + 1) * l <= Cardinality(Ahead(i))
      BY <2>4, <3>3
    <3> QED
      BY <3>2, <3>4
  <2> QED
    BY <1>7, <1>12, <2>1, <2>2, <2>3, <2>4
<1>13. PostgresInv'
  <2>1. present' \subseteq begun' /\ first' \subseteq present'
    BY <1>1, <1>2, <1>9 DEF PostgresInv
  <2>2. \A i : IsShown(i)' => i \in present'
    BY <1>2, <1>11
  <2>3. TimesDiffer' => TimesDiffer
    BY <1>2 DEF TimesDiffer
  <2>4. \A i : Ahead(i)' = Ahead(i)
    BY <1>2 DEF Ahead
  <2>5. Len(pages') * Limit(size)' = (n + 1) * l
    BY <1>2, <1>8 DEF Limit
  <2> HIDE DEF l
  <2>6. ASSUME TimesDiffer', NEW i \in first'
        PROVE  \/ IsShown(i)'
               \/ ~listed' /\ Len(pages') * Limit(size)' <= Cardinality(Ahead(i)')
    BY <1>12, <2>3, <2>4, <2>5, <2>6
  <2> QED
    BY <2>1, <2>2, <2>6 DEF PostgresInv
<1>14. StoreInv'
  BY <1>2 DEF StoreInv
<1> QED
  BY <1>10, <1>13, <1>14 DEF PagingInv

LEMMA PagingStutterOK ==
  ASSUME PagingInv, UNCHANGED pagingVars
  PROVE  PagingInv'
<1>1. PagingTypeOK'
  BY DEF PagingInv, PagingTypeOK, pagingVars
<1>2. StoreInv'
  BY DEF PagingInv, StoreInv, WindowInv, Limit, pagingVars
<1>3. PostgresInv'
  BY DEF PagingInv, PostgresInv, TimesDiffer, Ahead, IsShown, Limit, pagingVars
<1> QED
  BY <1>1, <1>2, <1>3 DEF PagingInv

(* Every reachable state of a listing, of the store of m02 and of List of  *)
(* m06, satisfies the inductive invariant.                                 *)
THEOREM PagingInvariant == PagingSpec => []PagingInv
<1>1. PagingInit => PagingInv
  BY PagingInitOK
<1>2. PagingInv /\ [PagingNext]_pagingVars => PagingInv'
  BY AllOK, StorePageOK, StoreWritesOK, PostgresWritesOK, ListPageOK, PagingStutterOK
     DEF PagingNext
<1> QED
  BY <1>1, <1>2, PTL DEF PagingSpec

(* Pages of l places cover the places 1 to n, each place on one page. *)
OnPage(x, n, m, l) ==
  \E p \in 1..m : \E j \in 1..AtMostOf(l, n - (p - 1) * l) : x = (p - 1) * l + j

LEMMA PlaceOnPage ==
  ASSUME NEW n \in Nat, NEW m \in Nat, NEW l \in Nat \ {0}, n <= m * l, NEW x \in 1..n
  PROVE  OnPage(x, n, m, l)
<1> DEFINE y == x - 1
           q == y \div l
           z == q * l
<1>1. y \in Nat /\ x = y + 1 /\ y < n
  OBVIOUS
<1>2. \A w \in Nat : w \div l \in Nat
  OBVIOUS
<1>3. \A w \in Nat : (w \div l) * l <= w
  OBVIOUS
<1>4. \A w \in Nat : w < (w \div l) * l + l
  OBVIOUS
<1> HIDE DEF y
<1>5. q \in Nat /\ z <= y /\ y < z + l
  BY <1>1, <1>2, <1>3, <1>4
<1> HIDE DEF q
<1>6. z \in Nat /\ m * l \in Nat
  BY <1>5
<1>7. q < m
  <2>1. \A a, b \in Nat : a <= b => a * l <= b * l
    OBVIOUS
  <2>2. ~(m <= q)
    <3>1. m <= q => m * l <= z
      BY <1>5, <2>1
    <3> HIDE DEF z
    <3> QED
      BY <1>1, <1>5, <1>6, <3>1
  <2> QED
    BY <1>5, <2>2
<1>8. q + 1 \in 1..m /\ ((q + 1) - 1) * l = z
  BY <1>5, <1>7
<1> HIDE DEF z
<1>9. x - z \in 1..AtMostOf(l, n - z) /\ x = z + (x - z)
  BY <1>1, <1>5, <1>6 DEF AtMostOf
<1> QED
  BY <1>8, <1>9 DEF OnPage

LEMMA PlaceOnce ==
  ASSUME NEW l \in Nat \ {0}, NEW p \in Nat, NEW q \in Nat, NEW i \in 1..l, NEW j \in 1..l,
         p * l + i = q * l + j
  PROVE  p = q /\ i = j
<1>1. \A a, b \in Nat : a < b => a * l + l <= b * l
  <2> SUFFICES ASSUME NEW a \in Nat, NEW b \in Nat, a < b
               PROVE  a * l + l <= b * l
    OBVIOUS
  <2>1. \A c, d \in Nat : c <= d => c * l <= d * l
    OBVIOUS
  <2>2. (a + 1) * l <= b * l
    BY <2>1
  <2>3. (a + 1) * l = a * l + l
    OBVIOUS
  <2> QED
    BY <2>2, <2>3
<1>2. p * l \in Nat /\ q * l \in Nat
  OBVIOUS
<1>3. ~(p < q)
  BY <1>1, <1>2
<1>4. ~(q < p)
  BY <1>1, <1>2
<1>5. p = q
  BY <1>3, <1>4
<1> QED
  BY <1>2, <1>5

(* The pages of the snapshot, once the last one is read. *)
LEMMA StorePages ==
  ASSUME PagingInv, lister = "store", listed
  PROVE  Shown = first /\ Cardinality(Entries) = Cardinality(first)
<1> DEFINE n == Len(snapshot)
           m == Len(pages)
           l == Limit(size)
           Place(e) == (e[1] - 1) * l + e[2]
           f == [e \in Entries |-> Place(e)]
<1>1. PagingTypeOK /\ StoreInv
  BY DEF PagingInv
<1>2. first # {} /\ snapshot \in InSome(first) /\ n <= m * l
  BY <1>1 DEF StoreInv
<1>3. m \in Nat /\ l \in Nat \ {0}
  BY <1>1, LimitPositive DEF PagingTypeOK
<1>4. IsFiniteSet(first)
  BY <1>1, FS_Subset, PagingAssumption DEF PagingTypeOK
<1>5. /\ snapshot \in Seq(first) /\ n = Cardinality(first) /\ n \in Nat
      /\ \A x \in first : \E i \in 1..n : snapshot[i] = x
  BY <1>2, <1>4, InSomeOrder
<1>6. ASSUME NEW p \in 1..m
      PROVE  /\ Len(pages[p]) = AtMostOf(l, n - (p - 1) * l) /\ (p - 1) * l < n
             /\ \A j \in 1..Len(pages[p]) : pages[p][j] = snapshot[(p - 1) * l + j]
  BY <1>1 DEF StoreInv, WindowInv
<1> HIDE DEF n, m, l
<1>7. ASSUME NEW p \in 1..m, NEW j \in 1..Len(pages[p])
      PROVE  (p - 1) * l + j \in 1..n /\ j \in 1..l /\ p - 1 \in Nat
  <2>1. p - 1 \in Nat /\ (p - 1) * l \in Nat
    BY <1>3
  <2> DEFINE z == (p - 1) * l
  <2>2. z \in Nat /\ z < n /\ j \in 1..AtMostOf(l, n - z)
    BY <1>6, <2>1
  <2> HIDE DEF z
  <2>3. z + j \in 1..n /\ j \in 1..l
    BY <1>3, <1>5, <2>2 DEF AtMostOf
  <2> QED
    BY <2>1, <2>3 DEF z
<1>8. ASSUME NEW x \in 1..n
      PROVE  \E p \in 1..m : \E j \in 1..Len(pages[p]) : x = (p - 1) * l + j
  <2>1. n \in Nat /\ m \in Nat /\ l \in Nat \ {0} /\ n <= m * l
    BY <1>2, <1>3, <1>5
  <2>2. PICK p \in 1..m : \E j \in 1..AtMostOf(l, n - (p - 1) * l) : x = (p - 1) * l + j
    <3>1. OnPage(x, n, m, l)
      BY <2>1, PlaceOnPage
    <3> QED
      BY <3>1, Zenon DEF OnPage
  <2> QED
    BY <1>6, <2>2
<1>9. \A e : e \in Entries <=> \E p \in 1..m : \E j \in 1..Len(pages[p]) : e = <<p, j>>
  BY <1>1, EntriesAre DEF m
<1>10. Shown = first
  <2>1. ASSUME NEW i, IsShown(i)
        PROVE  i \in first
    <3>1. PICK p \in 1..m : \E j \in 1..Len(pages[p]) : pages[p][j] = i
      BY <2>1 DEF IsShown, m
    <3>2. PICK j \in 1..Len(pages[p]) : pages[p][j] = i
      BY <3>1
    <3>3. i = snapshot[(p - 1) * l + j] /\ (p - 1) * l + j \in 1..n
      BY <1>6, <1>7, <3>2
    <3> QED
      BY <1>5, <3>3 DEF n
  <2>2. ASSUME NEW i \in first
        PROVE  IsShown(i)
    <3>1. PICK x \in 1..n : snapshot[x] = i
      BY <1>5
    <3>2. PICK p \in 1..m : \E j \in 1..Len(pages[p]) : x = (p - 1) * l + j
      BY <1>8
    <3>3. PICK j \in 1..Len(pages[p]) : x = (p - 1) * l + j
      BY <3>2
    <3>4. pages[p][j] = i
      BY <1>6, <3>1, <3>3
    <3> QED
      BY <3>4 DEF IsShown, m
  <2>3. \A i : i \in Shown <=> i \in first
    BY <1>1, <2>1, <2>2, ShownAre
  <2> QED
    BY <2>3
<1>11. \A p, j : Place(<<p, j>>) = (p - 1) * l + j
  OBVIOUS
<1> HIDE DEF Place
<1>12. \A e \in Entries : f[e] = Place(e)
  OBVIOUS
<1>13. f \in Injection(Entries, 1..n)
  <2>1. ASSUME NEW e \in Entries
        PROVE  Place(e) \in 1..n
    BY <1>7, <1>9, <1>11
  <2>2. ASSUME NEW e \in Entries, NEW d \in Entries, Place(e) = Place(d)
        PROVE  e = d
    <3>1. PICK p \in 1..m : \E j \in 1..Len(pages[p]) : e = <<p, j>>
      BY <1>9
    <3>2. PICK j \in 1..Len(pages[p]) : e = <<p, j>>
      BY <3>1
    <3>3. PICK q \in 1..m : \E i \in 1..Len(pages[q]) : d = <<q, i>>
      BY <1>9
    <3>4. PICK i \in 1..Len(pages[q]) : d = <<q, i>>
      BY <3>3
    <3>5. (p - 1) * l + j = (q - 1) * l + i
      BY <1>11, <2>2, <3>2, <3>4
    <3>6. p - 1 \in Nat /\ q - 1 \in Nat /\ j \in 1..l /\ i \in 1..l
      BY <1>7
    <3>7. p - 1 = q - 1 /\ i = j
      BY <1>3, <3>5, <3>6, PlaceOnce
    <3>8. p = q
      BY <1>3, <3>7
    <3> QED
      BY <3>2, <3>4, <3>7, <3>8
  <2> QED
    BY <2>1, <2>2 DEF Injection, IsInjective
<1>14. f \in Surjection(Entries, 1..n)
  <2>1. ASSUME NEW x \in 1..n
        PROVE  \E e \in Entries : f[e] = x
    <3>1. PICK p \in 1..m : \E j \in 1..Len(pages[p]) : x = (p - 1) * l + j
      BY <1>8
    <3>2. PICK j \in 1..Len(pages[p]) : x = (p - 1) * l + j
      BY <3>1
    <3>3. <<p, j>> \in Entries
      BY <1>9
    <3> QED
      BY <1>11, <1>12, <3>2, <3>3
  <2>2. f \in [Entries -> 1..n]
    BY <1>13 DEF Injection
  <2> QED
    BY <2>1, <2>2 DEF Surjection
<1> HIDE DEF f
<1>15. IsFiniteSet(1..n) /\ Cardinality(1..n) = n
  <2>0. n \in Nat
    BY <1>5
  <2>1. IsFiniteSet(1..n)
    BY <2>0, FS_Interval
  <2>2. Cardinality(1..n) = IF 1 > n THEN 0 ELSE n - 1 + 1
    BY <2>0, FS_Interval
  <2> QED
    BY <1>5, <2>1, <2>2
<1>16. Cardinality(Entries) = Cardinality(1..n)
  BY <1>13, <1>14, <1>15, FS_Injection
<1> QED
  BY <1>5, <1>10, <1>15, <1>16

(* Whatever is written between two pages, the pages of a snapshot show     *)
(* each of its customers once, and pages by OFFSET miss no customer who    *)
(* was there at the first, unless two share a created_at, and show only    *)
(* customers whom ByID finds (Paginate of m02, List and ByID of m06).      *)
THEOREM PagesFaithfulHolds == PagingSpec => []PagesFaithful
<1>1. ASSUME PagingInv
      PROVE  PagesFaithful
  <2>1. PagingTypeOK /\ PostgresInv
    BY <1>1 DEF PagingInv
  <2>2. CASE lister = "store"
    BY <1>1, <2>2, StorePages DEF PagesFaithful
  <2>3. CASE lister = "postgres"
    <3>1. ASSUME NEW i \in Shown
          PROVE  ByID(i) = i
      BY <2>1, <2>3, ShownAre DEF PostgresInv, ByID
    <3>2. ASSUME TimesDiffer, listed
          PROVE  first \subseteq Shown
      BY <2>1, <2>3, <3>2, ShownAre DEF PostgresInv
    <3> QED
      BY <2>3, <3>1, <3>2 DEF PagesFaithful, TimesDiffer
  <2> QED
    BY <2>1, <2>2, <2>3 DEF PagingTypeOK
<1> QED
  BY <1>1, PagingInvariant, PTL

=============================================================================
