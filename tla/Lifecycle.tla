----------------------------- MODULE Lifecycle ------------------------------
(***************************************************************************)
(* How the repository's servers start, serve and stop.  Three drain on     *)
(* SIGINT or SIGTERM: the REST API of m04 ("api"), the service runner of   *)
(* m10 ("httpx") and the instrumented server of m13 ("obs"); the gRPC      *)
(* server of m05 ("grpc") and the container demo of m12 ("plain") serve in *)
(* main and leave signals to their default action.                         *)
(*                                                                         *)
(* Actors: main, the goroutine of ListenAndServe, one goroutine for each   *)
(* request, the timer of the shutdown context and the span exporter.       *)
(* net/http, os/signal and the batching span processor are external.       *)
(***************************************************************************)
EXTENDS Integers, FiniteSets

CONSTANTS Requests, Kinds,
          QueueSize   \* spans the batch processor queues

AllKinds == {"api", "httpx", "obs", "grpc", "plain"}

ASSUME KindsAssumption == Kinds \subseteq AllKinds
ASSUME QueueAssumption == QueueSize \in Nat \ {0} /\ IsFiniteSet(Requests)

VARIABLES
  kind,      \* which program runs
  main,      \* "boot", "serving", "waiting", "draining", "flushing", "exited"
  code,      \* exit status: 0, 1 or Killed; NoCode before
  listener,  \* "none", "binding", "open", "failed" or "closed"
  runErrCh,  \* an error waits in the channel of httpx.Run
  sig,       \* the context of signal.NotifyContext is done
  deadline,  \* the 30 s of shutdownCtx are over
  req,       \* "new", "active", "answered", "aborted" or "cut"
  counted,   \* requests counted in http_requests_total
  greeted,   \* requests counted in notifications_sent_total
  pending, exported, dropped, overflowed   \* ended spans, by their fate

NoCode == -1
Killed == 128

spans     == <<pending, exported, dropped, overflowed>>
telemetry == <<counted, greeted, spans>>
lifecycleVars == <<kind, main, code, listener, runErrCh, sig, deadline, req,
                   telemetry>>

Active   == {r \in Requests : req[r] = "active"}
Served   == {r \in Requests : req[r] \in {"answered", "aborted"}}
Alive    == main # "exited"
Drains   == kind \in {"api", "httpx", "obs"}

LifecycleInit == /\ kind \in Kinds /\ main = "boot" /\ code = NoCode
                 /\ listener = "none" /\ runErrCh = FALSE
                 /\ sig = FALSE /\ deadline = FALSE
                 /\ req = [r \in Requests |-> "new"]
                 /\ counted = {} /\ greeted = {}
                 /\ pending = {} /\ exported = {} /\ dropped = {} /\ overflowed = {}

(* The process ends with status c, and with it the requests in progress. *)
Exit(c) == /\ main' = "exited" /\ code' = c
           /\ req' = [r \in Requests |-> IF r \in Active THEN "cut" ELSE req[r]]

-----------------------------------------------------------------------------
(* main up to the goroutine that listens, in m04, m10 and m13. *)
StartApi   == kind = "api" /\ main = "boot" /\ main' = "serving"
StartHttpx == kind = "httpx" /\ main = "boot" /\ main' = "serving"
StartObs   == kind = "obs" /\ main = "boot" /\ main' = "serving"
(* m05 and m12 listen in main itself. *)
StartGrpc  == kind = "grpc" /\ main = "boot" /\ main' = "serving"
StartPlain == kind = "plain" /\ main = "boot" /\ main' = "serving"

Start == /\ StartApi \/ StartHttpx \/ StartObs \/ StartGrpc \/ StartPlain
         /\ listener' = "binding"
         /\ UNCHANGED <<kind, code, runErrCh, sig, deadline, req, telemetry>>

(* An error of InitTracer ends the server of m13 before it listens. *)
InitTracerFails == /\ kind = "obs" /\ main = "boot" /\ Exit(1)
                   /\ UNCHANGED <<kind, listener, runErrCh, sig, deadline, telemetry>>

Bind == /\ Alive /\ listener = "binding" /\ listener' = "open"
        /\ UNCHANGED <<kind, main, code, runErrCh, sig, deadline, req, telemetry>>

(* ListenAndServe (or Serve) returns an error other than ErrServerClosed:  *)
(* m04, m05 and m12 exit, m10 hands it to Run, m13 only logs it.           *)
ServeErrorApi   == kind = "api" /\ Exit(1) /\ UNCHANGED runErrCh
ServeErrorGrpc  == kind = "grpc" /\ Exit(1) /\ UNCHANGED runErrCh
ServeErrorPlain == kind = "plain" /\ Exit(1) /\ UNCHANGED runErrCh
ServeErrorHttpx == kind = "httpx" /\ runErrCh' = TRUE /\ UNCHANGED <<main, code, req>>
ServeErrorObs   == kind = "obs" /\ UNCHANGED <<main, code, req, runErrCh>>

ServeError == /\ Alive /\ listener \in {"binding", "open"} /\ listener' = "failed"
              /\ \/ ServeErrorApi \/ ServeErrorGrpc \/ ServeErrorPlain
                 \/ ServeErrorHttpx \/ ServeErrorObs
              /\ UNCHANGED <<kind, sig, deadline, telemetry>>

-----------------------------------------------------------------------------
Accept(r) == /\ Alive /\ listener = "open" /\ req[r] = "new"
             /\ req' = [req EXCEPT ![r] = "active"]
             /\ UNCHANGED <<kind, main, code, listener, runErrCh, sig, deadline,
                            telemetry>>

(* The processor that WithBatcher installs does not make a handler wait:   *)
(* it queues an ended span, drops it when the queue is full (spans of the  *)
(* batch being exported are pending too, but no longer in the queue), and  *)
(* drops every span that ends after the provider was shut down.            *)
EndSpan(r) ==
  \/ /\ main # "flushing" /\ pending' = pending \cup {r}
     /\ UNCHANGED <<exported, dropped, overflowed>>
  \/ /\ main # "flushing" /\ Cardinality(pending) >= QueueSize
     /\ overflowed' = overflowed \cup {r} /\ UNCHANGED <<pending, exported, dropped>>
  \/ /\ main = "flushing" /\ dropped' = dropped \cup {r}
     /\ UNCHANGED <<pending, exported, overflowed>>

(* The counter of Instrument, and its histogram, move only when the        *)
(* handler returns: a panic leaves the middleware before it gets there.    *)
HTTPRequests(r, end) ==
  counted' = IF end = "answered" THEN counted \cup {r} ELSE counted

(* The handler of /hello counts its greeting before it writes. *)
Hello(r, end) ==
  \/ greeted' = greeted \cup {r}
  \/ end = "aborted" /\ UNCHANGED greeted

(* The span ends however the handler ends. *)
Instrument(r, end) == Hello(r, end) /\ EndSpan(r) /\ HTTPRequests(r, end)

Handle(r) ==
  /\ Alive /\ req[r] = "active"
  /\ \E end \in {"answered", "aborted"} :
       /\ req' = [req EXCEPT ![r] = end]
       /\ IF kind = "obs" THEN Instrument(r, end) ELSE UNCHANGED telemetry
  /\ UNCHANGED <<kind, main, code, listener, runErrCh, sig, deadline>>

(* The batcher that InitTracer installs exports from time to time. *)
Export == /\ Alive /\ pending # {}
          /\ exported' = exported \cup pending /\ pending' = {}
          /\ UNCHANGED <<kind, main, code, listener, runErrCh, sig, deadline, req,
                         counted, greeted, dropped, overflowed>>

-----------------------------------------------------------------------------
NotifyContext ==
  /\ Drains /\ main = "serving" /\ main' = "waiting"
  /\ UNCHANGED <<kind, code, listener, runErrCh, sig, deadline, req, telemetry>>

(* Until NotifyContext has run, and always in m05 and m12, a signal kills  *)
(* the process.  Later signals find sig set and change nothing.            *)
Signal ==
  /\ Alive
  /\ IF main \in {"boot", "serving"}
     THEN Exit(Killed) /\ UNCHANGED sig
     ELSE sig' = TRUE /\ UNCHANGED <<main, code, req>>
  /\ UNCHANGED <<kind, listener, runErrCh, deadline, telemetry>>

(* httpx.Run receives the error; when the context is done as well, the     *)
(* select may take either case.                                            *)
RunReturnsError ==
  /\ kind = "httpx" /\ main = "waiting" /\ runErrCh /\ Exit(1)
  /\ UNCHANGED <<kind, listener, runErrCh, sig, deadline, telemetry>>

(* Seeded bug: m13 shuts the tracer down before the server. *)
BeginShutdown_TracerFirst ==
  /\ main = "waiting" /\ sig
  /\ main' = IF kind = "obs" THEN "flushing" ELSE "draining"
  /\ listener' = IF listener = "failed" THEN "failed" ELSE "closed"
  /\ UNCHANGED <<kind, code, runErrCh, sig, deadline, req, telemetry>>

(* srv.Shutdown closes the listener, and ListenAndServe returns. *)
BeginShutdown ==
  /\ main = "waiting" /\ sig /\ main' = "draining"
  /\ listener' = IF listener = "failed" THEN "failed" ELSE "closed"
  /\ UNCHANGED <<kind, code, runErrCh, sig, deadline, req, telemetry>>

(* Seeded bug: the context of Shutdown has no timeout. *)
DeadlineExpires_Never == FALSE /\ UNCHANGED lifecycleVars

DeadlineExpires ==
  /\ main \in {"draining", "flushing"} /\ ~deadline /\ deadline' = TRUE
  /\ UNCHANGED <<kind, main, code, listener, runErrCh, sig, req, telemetry>>

(* What the programs do with the result of Shutdown. *)
AfterShutdownApi        == kind = "api" /\ Exit(0)
AfterShutdownHttpx(err) == kind = "httpx" /\ Exit(IF err THEN 1 ELSE 0)
AfterShutdownObs        == kind = "obs" /\ main' = "flushing" /\ UNCHANGED <<code, req>>

AfterShutdown(err) ==
  /\ AfterShutdownApi \/ AfterShutdownHttpx(err) \/ AfterShutdownObs
  /\ UNCHANGED <<kind, listener, runErrCh, sig, deadline, telemetry>>

(* Seeded bug: Close, which does not wait, in place of Shutdown. *)
Drained_Close == main = "draining" /\ AfterShutdown(FALSE)

(* Shutdown returns nil when no request is left, or its context's error. *)
Drained       == main = "draining" /\ Active = {} /\ AfterShutdown(FALSE)
DrainTimesOut == main = "draining" /\ deadline /\ AfterShutdown(TRUE)

(* shutdownTracer, on the same context: what is pending is exported, or    *)
(* the context ends the wait; main then returns in either case.            *)
FlushEnds == /\ main = "flushing" /\ (pending = {} \/ deadline) /\ Exit(0)
             /\ UNCHANGED <<kind, listener, runErrCh, sig, deadline, telemetry>>

Main == \/ Start \/ NotifyContext \/ RunReturnsError \/ BeginShutdown
        \/ Drained \/ DrainTimesOut \/ FlushEnds

Exited == main = "exited" /\ UNCHANGED lifecycleVars

LifecycleNext == \/ Main \/ InitTracerFails \/ Bind \/ ServeError \/ Signal
                 \/ \E r \in Requests : Accept(r) \/ Handle(r)
                 \/ Export \/ DeadlineExpires \/ Exited

LifecycleSpec == LifecycleInit /\ [][LifecycleNext]_lifecycleVars

(* main is scheduled, and timers fire.  Handlers may hang: they and the    *)
(* clients get no fairness.                                                *)
LifecycleFairness == /\ WF_lifecycleVars(Main) /\ WF_lifecycleVars(Export)
                     /\ WF_lifecycleVars(DeadlineExpires)

-----------------------------------------------------------------------------
(* Once the signal handler is installed, a stopping server lets every      *)
(* accepted request finish: one is cut off only by the deadline, by a      *)
(* signal that came before NotifyContext, or by the exit after a listener  *)
(* error; and a service of m10 that exits with 0 has cut off none (main.go *)
(* of m04, lines 40-60; server.go, lines 34-55).                           *)
DrainsBeforeExit ==
  \A r \in Requests : req[r] = "cut" =>
    /\ deadline \/ code = Killed \/ (listener = "failed" /\ code = 1)
    /\ kind = "httpx" => code # 0

(* When the drain and the flush end in time, the server of m13 exits with  *)
(* the spans of all finished requests exported, though some ended during   *)
(* the drain, but for spans that found the batcher's queue full, of which  *)
(* there are none unless more than QueueSize requests have finished; and   *)
(* it has counted exactly the requests that were answered (main.go, lines  *)
(* 59-69; obs.go, lines 87 and 119-142).                                   *)
SpansFlushed ==
  kind = "obs" /\ code = 0 /\ ~deadline =>
    /\ exported = Served \ overflowed /\ pending = {} /\ dropped = {}
    /\ overflowed # {} => Cardinality(Served) > QueueSize
    /\ counted = {r \in Requests : req[r] = "answered"} /\ counted \subseteq greeted

(* A caught signal ends the process even if a handler never returns, and   *)
(* so does a listener error; the server of m13 alone goes on waiting for a *)
(* signal when it no longer listens (main.go, lines 54-56).                *)
MainEnds ==
  (sig \/ (listener = "failed" /\ kind # "obs")) ~> (main = "exited")
=============================================================================
