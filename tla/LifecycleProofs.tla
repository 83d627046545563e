-------------------------- MODULE LifecycleProofs ---------------------------
(***************************************************************************)
(* Stopping a server, for any set of requests.  The properties speak of    *)
(* the state after the exit; what makes them true is when main can be      *)
(* where it is (MainInv), that in m13 every request that has ended has its *)
(* span in one place (SpanInv), and that a span finds the queue full only  *)
(* behind as many others as the queue holds (QueueInv).                    *)
(***************************************************************************)
EXTENDS Lifecycle, FiniteSetTheorems, TLAPS

Mains == {"boot", "serving", "waiting", "draining", "flushing", "exited"}

TypeOK ==
  /\ kind \in Kinds /\ main \in Mains /\ code \in {NoCode, 0, 1, Killed}
  /\ listener \in {"none", "binding", "open", "failed", "closed"}
  /\ runErrCh \in BOOLEAN /\ sig \in BOOLEAN /\ deadline \in BOOLEAN
  /\ req \in [Requests -> {"new", "active", "answered", "aborted", "cut"}]
  /\ counted \subseteq Requests /\ greeted \subseteq Requests
  /\ pending \subseteq Requests /\ exported \subseteq Requests
  /\ dropped \subseteq Requests /\ overflowed \subseteq Requests

(* Before it listens the process has no requests, once it drains it gets   *)
(* no more, and it begins to flush with none left or too late.             *)
MainInv ==
  /\ main = "exited" <=> code # NoCode
  /\ main = "boot" => listener = "none"
  /\ listener = "none" => \A r \in Requests : req[r] = "new"
  /\ main \in {"draining", "flushing"} => listener \in {"closed", "failed"}
  /\ main = "flushing" => kind = "obs" /\ (deadline \/ Active = {})
  /\ runErrCh => listener = "failed"
  /\ \A r \in Requests : req[r] = "cut" => main = "exited"

SpanInv ==
  kind = "obs" =>
    /\ pending \cup exported \cup dropped \cup overflowed = Served
    /\ (pending \cup exported) \cap overflowed = {}
    /\ counted = {r \in Requests : req[r] = "answered"} /\ counted \subseteq greeted
    /\ dropped # {} => deadline
    /\ code = 0 => pending = {} \/ deadline

QueueInv ==
  kind = "obs" /\ overflowed # {} => Cardinality(Served) > QueueSize

IInv == TypeOK /\ MainInv /\ SpanInv /\ QueueInv /\ DrainsBeforeExit

-----------------------------------------------------------------------------
LEMMA InitInv == LifecycleInit => IInv
<1> SUFFICES ASSUME LifecycleInit
             PROVE  IInv
  OBVIOUS
<1>1. TypeOK
  BY DEF LifecycleInit, TypeOK, Mains
<1>2. MainInv /\ SpanInv /\ QueueInv /\ DrainsBeforeExit
  BY DEF LifecycleInit, MainInv, SpanInv, QueueInv, DrainsBeforeExit, Served, NoCode
<1> QED
  BY <1>1, <1>2 DEF IInv

(* What the exit of the process does to the requests. *)
LEMMA ExitFacts ==
  ASSUME TypeOK, NEW c \in {0, 1, Killed}, Exit(c)
  PROVE  /\ main' = "exited" /\ code' = c /\ code' # NoCode
         /\ req' \in [Requests -> {"new", "active", "answered", "aborted", "cut"}]
         /\ Served' = Served
         /\ {r \in Requests : req'[r] = "answered"} = {r \in Requests : req[r] = "answered"}
         /\ \A r \in Requests : /\ req[r] = "new" => req'[r] = "new"
                                /\ req'[r] = "cut" => req[r] = "cut" \/ r \in Active
BY DEF TypeOK, Exit, Active, Served, NoCode, Killed

(* main starts to listen. *)
LEMMA StartInv ==
  ASSUME IInv, Start
  PROVE  IInv'
<1> USE DEF IInv, Start, StartApi, StartHttpx, StartObs, StartGrpc, StartPlain, telemetry, spans
<1>1. TypeOK'
  BY DEF TypeOK, Mains
<1>2. MainInv'
  BY DEF TypeOK, MainInv, Active, Alive, NoCode
<1>3. SpanInv'
  BY DEF TypeOK, MainInv, SpanInv, Served, Active, Alive, NoCode
<1>4. QueueInv'
  BY DEF QueueInv, Served
<1>5. DrainsBeforeExit'
  BY DEF TypeOK, MainInv, DrainsBeforeExit, Alive, NoCode
<1> QED
  BY <1>1, <1>2, <1>3, <1>4, <1>5

(* The listener is open. *)
LEMMA BindInv ==
  ASSUME IInv, Bind
  PROVE  IInv'
<1> USE DEF IInv, Bind, telemetry, spans
<1>1. TypeOK'
  BY DEF TypeOK, Mains
<1>2. MainInv'
  BY DEF TypeOK, MainInv, Active, Alive, NoCode
<1>3. SpanInv'
  BY DEF TypeOK, MainInv, SpanInv, Served, Active, Alive, NoCode
<1>4. QueueInv'
  BY DEF QueueInv, Served
<1>5. DrainsBeforeExit'
  BY DEF TypeOK, MainInv, DrainsBeforeExit, Alive, NoCode
<1> QED
  BY <1>1, <1>2, <1>3, <1>4, <1>5

(* A request comes in. *)
LEMMA AcceptInv ==
  ASSUME IInv, NEW r \in Requests, Accept(r)
  PROVE  IInv'
<1> USE DEF IInv, Accept, telemetry, spans
<1>1. TypeOK'
  BY DEF TypeOK, Mains
<1>2. MainInv'
  BY DEF TypeOK, MainInv, Active, Alive, NoCode
<1>3. SpanInv'
  BY DEF TypeOK, MainInv, SpanInv, Served, Active, Alive, NoCode
<1>4. QueueInv'
  <2>1. Served' = Served
    BY DEF TypeOK, Served
  <2> QED
    BY <2>1 DEF QueueInv
<1>5. DrainsBeforeExit'
  BY DEF TypeOK, MainInv, DrainsBeforeExit, Alive, NoCode
<1> QED
  BY <1>1, <1>2, <1>3, <1>4, <1>5

(* A span that finds the queue full is one more than the queue holds. *)
LEMMA HandleQueue ==
  ASSUME IInv, NEW r \in Requests, Handle(r)
  PROVE  QueueInv'
<1> USE DEF IInv, Handle, Instrument, EndSpan, telemetry, spans
<1>1. Served' = Served \cup {r} /\ r \notin Served
  BY DEF TypeOK, Served
<1>2. Served \subseteq Requests /\ IsFiniteSet(Served)
  BY QueueAssumption, FS_Subset DEF Served
<1>3. Cardinality(Served') = Cardinality(Served) + 1 /\ Cardinality(Served) \in Nat
  BY <1>1, <1>2, FS_AddElement, FS_CardinalityType
<1>4. CASE overflowed' = overflowed
  BY <1>3, <1>4, QueueAssumption DEF QueueInv
<1>5. CASE kind = "obs" /\ Cardinality(pending) >= QueueSize
  <2>1. pending \subseteq Served
    BY <1>5 DEF SpanInv
  <2>2. Cardinality(pending) <= Cardinality(Served) /\ Cardinality(pending) \in Nat
    BY <1>2, <2>1, FS_Subset, FS_CardinalityType
  <2> QED
    BY <1>3, <1>5, <2>2, QueueAssumption DEF QueueInv
<1>6. kind # "obs" \/ overflowed' = overflowed \/ Cardinality(pending) >= QueueSize
  OBVIOUS
<1> QED
  BY <1>4, <1>5, <1>6 DEF QueueInv

(* A handler ends. *)
LEMMA HandleInv ==
  ASSUME IInv, NEW r \in Requests, Handle(r)
  PROVE  IInv'
<1> USE DEF IInv, Handle, Instrument, Hello, EndSpan, HTTPRequests, telemetry, spans
<1>1. TypeOK'
  BY DEF TypeOK, Mains
<1>2. MainInv'
  BY DEF TypeOK, MainInv, Active, Alive, NoCode
<1>3. SpanInv'
  BY DEF TypeOK, MainInv, SpanInv, Served, Active, Alive, NoCode
<1>4. QueueInv'
  BY HandleQueue
<1>5. DrainsBeforeExit'
  BY DEF TypeOK, MainInv, DrainsBeforeExit, Alive, NoCode
<1> QED
  BY <1>1, <1>2, <1>3, <1>4, <1>5

(* Spans are exported. *)
LEMMA ExportInv ==
  ASSUME IInv, Export
  PROVE  IInv'
<1> USE DEF IInv, Export
<1>1. TypeOK'
  BY DEF TypeOK, Mains
<1>2. MainInv'
  BY DEF TypeOK, MainInv, Active, Alive, NoCode
<1>3. SpanInv'
  BY DEF TypeOK, MainInv, SpanInv, Served, Active, Alive, NoCode
<1>4. QueueInv'
  BY DEF QueueInv, Served
<1>5. DrainsBeforeExit'
  BY DEF TypeOK, MainInv, DrainsBeforeExit, Alive, NoCode
<1> QED
  BY <1>1, <1>2, <1>3, <1>4, <1>5

(* The signal handler is installed. *)
LEMMA NotifyContextInv ==
  ASSUME IInv, NotifyContext
  PROVE  IInv'
<1> USE DEF IInv, NotifyContext, Drains, telemetry, spans
<1>1. TypeOK'
  BY DEF TypeOK, Mains
<1>2. MainInv'
  BY DEF TypeOK, MainInv, Active, Alive, NoCode
<1>3. SpanInv'
  BY DEF TypeOK, MainInv, SpanInv, Served, Active, Alive, NoCode
<1>4. QueueInv'
  BY DEF QueueInv, Served
<1>5. DrainsBeforeExit'
  BY DEF TypeOK, MainInv, DrainsBeforeExit, Alive, NoCode
<1> QED
  BY <1>1, <1>2, <1>3, <1>4, <1>5

(* Shutdown closes the listener. *)
LEMMA BeginShutdownInv ==
  ASSUME IInv, BeginShutdown
  PROVE  IInv'
<1> USE DEF IInv, BeginShutdown, telemetry, spans
<1>1. TypeOK'
  BY DEF TypeOK, Mains
<1>2. MainInv'
  BY DEF TypeOK, MainInv, Active, Alive, NoCode
<1>3. SpanInv'
  BY DEF TypeOK, MainInv, SpanInv, Served, Active, Alive, NoCode
<1>4. QueueInv'
  BY DEF QueueInv, Served
<1>5. DrainsBeforeExit'
  BY DEF TypeOK, MainInv, DrainsBeforeExit, Alive, NoCode
<1> QED
  BY <1>1, <1>2, <1>3, <1>4, <1>5

(* The shutdown context expires. *)
LEMMA DeadlineExpiresInv ==
  ASSUME IInv, DeadlineExpires
  PROVE  IInv'
<1> USE DEF IInv, DeadlineExpires, telemetry, spans
<1>1. TypeOK'
  BY DEF TypeOK, Mains
<1>2. MainInv'
  BY DEF TypeOK, MainInv, Active, Alive, NoCode
<1>3. SpanInv'
  BY DEF TypeOK, MainInv, SpanInv, Served, Active, Alive, NoCode
<1>4. QueueInv'
  BY DEF QueueInv, Served
<1>5. DrainsBeforeExit'
  BY DEF TypeOK, MainInv, DrainsBeforeExit, Alive, NoCode
<1> QED
  BY <1>1, <1>2, <1>3, <1>4, <1>5

(* An exit that is excused leaves the invariant intact. *)
LEMMA ExitInv ==
  ASSUME IInv, NEW c \in {0, 1, Killed}, Exit(c), main # "exited",
         UNCHANGED <<kind, runErrCh, sig, deadline, telemetry>>,
         listener' = listener \/ listener' = "failed",
         Active # {} => /\ deadline \/ c = Killed \/ (listener' = "failed" /\ c = 1)
                        /\ kind = "httpx" => c # 0,
         kind = "obs" /\ c = 0 => pending = {} \/ deadline
  PROVE  IInv'
<1> USE DEF IInv, telemetry, spans
<1>0. /\ main' = "exited" /\ code' = c /\ code' # NoCode
      /\ req' \in [Requests -> {"new", "active", "answered", "aborted", "cut"}]
      /\ Served' = Served
      /\ {r \in Requests : req'[r] = "answered"} = {r \in Requests : req[r] = "answered"}
  BY ExitFacts
<1>r. ASSUME NEW r \in Requests
      PROVE  /\ req[r] = "new" => req'[r] = "new"
             /\ req'[r] = "cut" => req[r] = "cut" \/ r \in Active
  BY ExitFacts
<1>1. TypeOK'
  BY <1>0 DEF TypeOK, Mains
<1>2. MainInv'
  <2>1. runErrCh' => listener' = "failed"
    BY DEF MainInv
  <2>2. ASSUME listener' = "none", NEW r \in Requests
        PROVE  req'[r] = "new"
    <3>1. listener = "none"
      BY <2>2
    <3>2. req[r] = "new"
      BY <3>1 DEF MainInv
    <3> QED
      BY <3>2, <1>r
  <2>3. main' = "exited"
    BY <1>0
  <2> QED
    BY <1>0, <2>1, <2>2, <2>3 DEF MainInv
<1>3. SpanInv'
  BY <1>0 DEF SpanInv
<1>4. QueueInv'
  BY <1>0 DEF QueueInv
<1>5. DrainsBeforeExit'
  <2> SUFFICES ASSUME NEW r \in Requests, req'[r] = "cut"
               PROVE  /\ deadline' \/ code' = Killed \/ (listener' = "failed" /\ code' = 1)
                      /\ kind' = "httpx" => code' # 0
    BY DEF DrainsBeforeExit
  <2>1. req[r] # "cut"
    BY DEF MainInv
  <2>2. r \in Active
    BY <1>r, <2>1
  <2> QED
    BY <1>0, <2>2
<1> QED
  BY <1>1, <1>2, <1>3, <1>4, <1>5

(* InitTracer fails: nothing has come in yet. *)
LEMMA InitTracerFailsInv ==
  ASSUME IInv, InitTracerFails
  PROVE  IInv'
<1>1. Active = {} /\ main # "exited"
  BY DEF IInv, MainInv, Active, InitTracerFails
<1> QED
  BY <1>1, ExitInv DEF InitTracerFails

(* Run returns the listener's error. *)
LEMMA RunReturnsErrorInv ==
  ASSUME IInv, RunReturnsError
  PROVE  IInv'
<1>1. listener = "failed" /\ main # "exited"
  BY DEF IInv, MainInv, RunReturnsError
<1> QED
  BY <1>1, ExitInv DEF RunReturnsError

(* The flush ends, and main returns. *)
LEMMA FlushEndsInv ==
  ASSUME IInv, FlushEnds
  PROVE  IInv'
<1>1. kind = "obs" /\ (Active # {} => deadline) /\ main # "exited"
  BY DEF IInv, MainInv, FlushEnds
<1> QED
  BY <1>1, ExitInv DEF FlushEnds

(* A signal kills the process, or is caught. *)
LEMMA SignalInv ==
  ASSUME IInv, Signal
  PROVE  IInv'
<1>1. CASE main \in {"boot", "serving"}
  <2>1. Exit(Killed) /\ UNCHANGED <<kind, runErrCh, sig, deadline, telemetry, listener>>
    BY <1>1 DEF Signal
  <2>2. kind = "httpx" => Killed # 0
    BY DEF Killed
  <2>3. ~(kind = "obs" /\ Killed = 0)
    BY DEF Killed
  <2> QED
    BY <1>1, <2>1, <2>2, <2>3, ExitInv
<1>2. CASE main \notin {"boot", "serving"}
  <2>1. sig' = TRUE /\ UNCHANGED <<main, code, req, kind, listener, runErrCh, deadline, telemetry>>
    BY <1>2 DEF Signal
  <2> QED
    BY <2>1 DEF IInv, TypeOK, MainInv, SpanInv, QueueInv, DrainsBeforeExit, Active,
       Served, telemetry, spans
<1> QED
  BY <1>1, <1>2

(* The listener fails: the process exits, or goes on without it. *)
LEMMA ServeErrorInv ==
  ASSUME IInv, ServeError
  PROVE  IInv'
<1>1. listener' = "failed" /\ main # "exited" /\ UNCHANGED <<kind, sig, deadline, telemetry>>
  BY DEF ServeError, Alive
<1>2. CASE ServeErrorApi \/ ServeErrorGrpc \/ ServeErrorPlain
  BY <1>1, <1>2, ExitInv DEF ServeErrorApi, ServeErrorGrpc, ServeErrorPlain
<1>3. CASE ServeErrorHttpx \/ ServeErrorObs
  <2>1. UNCHANGED <<main, code, req>> /\ runErrCh' \in BOOLEAN
    BY <1>3 DEF ServeErrorHttpx, ServeErrorObs, IInv, TypeOK
  <2>2. main # "boot"
    BY DEF ServeError, IInv, MainInv
  <2> QED
    BY <1>1, <2>1, <2>2 DEF IInv, TypeOK, MainInv, SpanInv, QueueInv,
       DrainsBeforeExit, Active,
       Served, telemetry, spans
<1> QED
  BY <1>2, <1>3 DEF ServeError

(* Shutdown returns: two of the programs exit, m13 goes on to flush. *)
LEMMA AfterShutdownInv ==
  ASSUME IInv, NEW err \in BOOLEAN, main = "draining", AfterShutdown(err),
         Active = {} \/ (deadline /\ err)
  PROVE  IInv'
<1>1. UNCHANGED <<kind, listener, runErrCh, sig, deadline, telemetry>>
  BY DEF AfterShutdown
<1>2. CASE AfterShutdownApi
  BY <1>1, <1>2, ExitInv DEF AfterShutdownApi
<1>3. CASE AfterShutdownHttpx(err)
  <2>1. CASE err
    BY <1>1, <1>3, <2>1, ExitInv DEF AfterShutdownHttpx
  <2>2. CASE ~err
    BY <1>1, <1>3, <2>2, ExitInv DEF AfterShutdownHttpx
  <2> QED
    BY <2>1, <2>2
<1>4. CASE AfterShutdownObs
  <2>1. kind = "obs" /\ main' = "flushing" /\ UNCHANGED <<code, req>>
    BY <1>4 DEF AfterShutdownObs
  <2> QED
    BY <1>1, <2>1 DEF IInv, TypeOK, Mains, MainInv, SpanInv, QueueInv,
       DrainsBeforeExit, Active,
       Served, telemetry, spans
<1> QED
  BY <1>2, <1>3, <1>4 DEF AfterShutdown

LEMMA StutterInv == IInv /\ UNCHANGED lifecycleVars => IInv'
BY DEF IInv, TypeOK, MainInv, SpanInv, QueueInv, DrainsBeforeExit, Active, Served,
   lifecycleVars, telemetry, spans

LEMMA StepInv == IInv /\ [LifecycleNext]_lifecycleVars => IInv'
BY StartInv, BindInv, AcceptInv, HandleInv, ExportInv, NotifyContextInv,
   BeginShutdownInv, DeadlineExpiresInv, InitTracerFailsInv, RunReturnsErrorInv,
   FlushEndsInv, SignalInv, ServeErrorInv, AfterShutdownInv, StutterInv
   DEF LifecycleNext, Main, Drained, DrainTimesOut, Exited

(* The invariant holds in every reachable state. *)
THEOREM Invariant == LifecycleSpec => []IInv
BY InitInv, StepInv, PTL DEF LifecycleSpec

(* The variables of the five programs keep their types. *)
THEOREM TypeCorrect == LifecycleSpec => []TypeOK
<1>1. IInv => TypeOK
  BY DEF IInv
<1> QED
  BY <1>1, Invariant, PTL

(* However many requests are in progress, one is cut off only by the       *)
(* deadline, an early signal or a failing listener (main.go of m04, lines  *)
(* 40-60; server.go, lines 34-55).                                         *)
THEOREM DrainsBeforeExitHolds == LifecycleSpec => []DrainsBeforeExit
<1>1. IInv => DrainsBeforeExit
  BY DEF IInv
<1> QED
  BY <1>1, Invariant, PTL

(* A drain and a flush that end in time leave no span behind, whatever the *)
(* number of requests and the size of the queue, but those that found the  *)
(* queue full (main.go of m13, lines 59-69; obs.go, line 87).              *)
THEOREM SpansFlushedHolds == LifecycleSpec => []SpansFlushed
<1>1. IInv => SpansFlushed
  BY DEF IInv, SpanInv, QueueInv, SpansFlushed
<1> QED
  BY <1>1, Invariant, PTL
=============================================================================
