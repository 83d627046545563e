# Verification of Pulse (go-learning)

The repository is a course in fourteen modules that builds "Pulse", a small
customer-messaging system: a REST API for customers, profile and notification
services, Postgres, Mongo and NATS behind them. The exercises are TODO stubs; the
code is in the `solution-*` packages and in `m10` and `m14`. This directory holds
TLA+ models of its stateful parts, the TLC runs that check them, and TLAPS proofs of
every safety property the runs check, for every value of the constants.

## 1. Inventory

| Part | State | Operations | What is hard | What makes it correct |
|---|---|---|---|---|
| m03 dispatcher | worker goroutines, `in`, `dead` (64), metrics | `Run`, `worker`, `process` | select races with cancel, full dead-letter channel, close after the last sender | one fate per notification, retry budget, exact metrics, `Run` ends |
| m03 `pipeline.Run` | feeder, workers, closer, collector; `jobs`, `out`, `errCh` | `Run` | racing errors, cancellation while everybody blocks | results in place, no lost error, no goroutine left |
| m03 `pipeline.Merge` | one forwarder per input, closer | `Merge` | close after the last value, readers that stop | nothing lost or reordered |
| m09 consumer | in-memory `DedupStore`, durable consumer | `Publish`, `handle`, `Start` | crashes between effects, AckWait against slow sends, lost acks, ignored errors | no ack without send, no term without DLQ offer, bounded duplicates |
| m14 capstone | `Handler.byID`, stream, consumers | `create`, `PublishCustomerCreated`, `handle` | store, publish and answer are three steps; the consumer runs at the same time | store before publish, 201 explained, welcome in the end |
| m06 Postgres repository | customers, campaigns, enrollments, `enrolled_count`, pool | `Create`, `CreateCampaign`, `EnrollCustomer`, `inTx` | overlapping transactions, failures between statements, lost commit answers | counter = rows, honest results, nothing leaked |
| m04 REST API and m10 pulse customer service | in-memory repository, request IDs, coded errors | create, get, list, middleware | concurrent creates, map order, pagination arithmetic, an error that loses its code | unique emails, later requests see earlier answers, right status |
| server lifecycle (m04, m05, m10, m12, m13) | server, listener, signal, shutdown context, spans, counters | `Run`, `main`, m13's middleware | signal against requests and a failing listener, one deadline for drain and flush | requests finish, spans flushed, the process ends |
| m05 / m07 profiles | profiles and events by customer | get, upsert, list events, append, counts | time read before the lock, streams read while others append, operations that take effect and fail | reads are current, streams miss nothing that was there |
| m08 bus and its demo | subscriptions, counters, one NATS connection | publish, subscribe, queue, request, reply | connection that breaks, a flush whose error is ignored, counters read while handlers run, timeout against late reply | one group member per event, printed counts agree |
| m09 demo | stream, two durable consumers, one dedup store | publish, stop, replay | stop while a handler runs | the replay repeats at most that event |
| m02 store and `Paginate`, m06 `List` | locked map, rows | `Put`, `Delete`, `All`, pages | pages read while others write | nobody is missed |
| m11 notifier | none | `Welcome`, `SendWithRetry` | budget of zero, context against timer | the result tells what was sent |
| m00, m01, m12 | none or one locked map | sequential exercises, build files | - | - |

Interactions. In m14 the REST handler calls the publisher synchronously and ignores
its error; the broker calls `handle` in each process that runs the durable consumer;
`handle` calls the sender and settles the message. In m03 goroutines of one process
share channels and atomic counters. In m06 calls share a pool of connections and meet
at row locks in Postgres. The hazards these interactions create are listed, each at its
line, under `hazards` in PROJECT.json with the properties that would catch them.

## 2. Modules

| Module | Models | Composed from |
|---|---|---|
| `DispatchFate` | abstract: what a dispatcher promises for each notification | |
| `Dispatcher` | `solution-dispatcher/dispatcher.go` and its caller | refines `DispatchFate` |
| `DispatcherProofs` | theorems about `Dispatcher` | |
| `Pipeline`, `Merge` | the two functions of `solution-pipeline/pipeline.go` | |
| `PipelineProofs` | theorems about `Pipeline` and `Merge` | |
| `JetStream` | the broker, external: what `stream.go` configures and relies on | |
| `Consumer` | `solution-stream/stream.go` run by several processes | extends `JetStream` |
| `ConsumerProofs` | theorems about `Consumer` | |
| `Capstone` | m14: REST handler, publisher, its own `handle`, crashes | instantiates `JetStream`, refines `Consumer` |
| `CapstoneProofs` | theorems about `Capstone`, the refinement among them | instantiates `ConsumerProofs` |
| `Enrollment` | `solution-customer/customer.go` of m06 on Postgres | |
| `EnrollmentProofs` | theorems about `Enrollment` | |
| `CustomerAPI` | m04's `httpapi` and in-memory repository, and m10's customer service | extends `Errorx` |
| `Errorx` | m10's wrapped errors with codes | |
| `CustomerAPIProofs` | theorems about `CustomerAPI` | |
| `Lifecycle` | start, serve and stop of the five server programs, m13's middleware | |
| `LifecycleProofs` | theorems about `Lifecycle` | |
| `Profiles` | m05's gRPC server, interceptors and client over the repositories of m05 and m07 | |
| `Bus` | m08's wrapper of core NATS and its demo | |
| `Paging` | m02's store with `genx.Paginate`, m06's `List` and `ByID` | |
| `Notify` | m11's `SendWithRetry` and `Welcome` | |
| `Replay` | m09's demo: two consumers in turn on one stream | |
| `ServicesProofs` | theorems about `Profiles`, `Bus`, `Paging`, `Notify` and `Replay` | |

`MC*` modules name the small instance a run uses; `MCTermination` and `MCServices` put components
that share nothing into one run. Definitions with a suffix such as
`LoopHead_OneMore` are seeded bugs: each run's properties are shown to fail when the
definition after it is replaced by it, so no property holds vacuously.

How code becomes actions. A goroutine's program counter is cut where somebody else can
tell the difference: at a channel operation, a call out of the package, an atomic add, a
database statement, a message to the broker. A send on an unbuffered channel and its
receive are one step; a `select` is one action per case, so a ready `ctx.Done()` never
takes precedence over another ready case. Random IDs are assumed not to collide. Payloads, logging and JSON are left out, except that an
event may fail to unmarshal (`Malformed`) and a request may fail to validate (`Invalid`).

* **Dispatcher.** `pc[w]` is the point worker w has reached in `worker`/`process`, `job`
  and `attempt` its local variables, `dead` the buffered channel. `sends` and
  `deliveries` record what the sender saw. `CloseIn`, `Cancel` and `DrainDead` are
  the caller: the demo's producer and dead-letter reader, and a context that may be
  cancelled at any time. There is no clock; a backoff may elapse at any moment.
* **Pipeline.** `next`/`jobsClosed` are the feeder, `pc`/`item` the workers, `outClosed`
  the closer, `results`/`ret` the caller. `ReportError` and `CallCancel` are two steps,
  since another worker can fail between `errCh <- err` and `cancel()`.
* **Merge.** The reader may stop at any time; the forwarders then block for ever, which is
  what the code does, and `MergeEnded` says so.
* **JetStream and Consumer.** `handle` is cut after its checks, after the send, after
  `Mark`, after the DLQ publish and at the settling call. Any settling message may be lost, any DLQ
  publish may fail, AckWait may expire while a copy is being handled, and `Crash` loses
  a process's memory, its dedup set included. A crash includes an immediate restart.
  DLQ messages are stored under the same stream, but the consumer filters on the
  `.created` subject, so `dlq` is a set of its own. The stream's 24-hour MaxAge and the
  end of its duplicate window are not modelled.
* **Capstone.** A request is named by the ID it will be given, which is the event ID and the
  MsgID. The publish may persist and still return an error. The `Handle*` actions are written
  from m14's `events.go`, which has no guard `NumDelivered > maxDeliver` as m09's has;
  `Consumer` appears only on the right of the refinement `ImplementsConsumer`, which says that
  the missing guard makes no difference. A crash keeps the stream: `cmd/pulse` deletes it when it
  starts (`main.go:34`), as a demo that wants a clean run, and what is modelled is the service
  started again without that line.
* **Enrollment.** Postgres at READ COMMITTED: an uncommitted INSERT holds its key, an
  UPDATE its row, until commit or rollback. A statement may fail for any other reason,
  and the answer of a commit may be lost.
* **CustomerAPI.** Each request is a goroutine with three steps: middleware and the
  checks that touch nothing shared, the repository call under its lock, the answer with its
  log line. `svc` says whether m04 or m10 serves. `List` reads a Go map, so every order of
  the customers is possible. Page arithmetic is done in ints of a small width: an index that
  overflows makes the slice expression panic, and `RecoverPanic` answers. Errors are the
  chains of `Errorx`: m10's `Service.Create` attaches a code to some and not to a conflict,
  which is why m10 answers a duplicate email with 500 and m04 with 409. `before` records, for
  each request, which creates had been answered when it came in; emails are shown redacted
  in responses, which is formatting and left out.
* **Lifecycle.** `kind` says which `main` runs. The listener's goroutine binds, serves or
  fails on its own; before `signal.NotifyContext` a signal kills the process. `deadline`
  is the 30 s context that `Shutdown` and, in m13, the flush of the spans share. A request
  is answered, aborted by a panic, or cut off by the exit; m13's middleware counts and
  ends its span as the code orders it. Spans go through the batching processor, which may
  export at any time, drops a span that finds its queue full (`QueueSize`; 2048 by default) and
  drops what ends after the flush.
* **Profiles.** `store` is the repository wired in. An upsert reads the clock in a step of
  its own, before the lock or the database operation, as the code does. MongoDB truncates times to
  milliseconds, the protocol to seconds, by division; `Milli` and `Second` are in ticks.
  Events are kept by customer, as m05's map does; for m07 that is the collection seen through
  its filter, whose `_id` is unique across customers and whose `occurred_at` is truncated on insertion.
  `MongoEvents` is what a cursor drained in batches without a snapshot may give: everything that
  was there when the call came in, and any of what was inserted since. `GetProfile`, `UpsertProfile` and
  `ListEvents` refuse an empty customer; the repositories' own methods do not look at it.
  An operation of MongoDB may take effect and return an error. A client may give up at
  any time; m05's repository does not look at the context, a stream does.
* **Bus.** The demo's `main` and the handlers are cut at every counter access. A handler
  writes its entry of `byWorker`, a map that starts empty, under the mutex and then adds to the
  atomic total; `main` loads the total and then goes over the entries there are without the
  mutex: those it began with are printed, one made meanwhile may be, and a worker that has
  handled nothing is left out. A handler that writes meanwhile is a data race, on which the Go runtime may abort
  the process (`ConcurrentMapWrite`). `wire` is what the server has not processed; `Break` loses it,
  and `Flush` may fail, which `main` ignores.
* **Paging.** A writer goes on between any two pages. In Postgres `created_at` is the start of
  the INSERT and the row appears at commit, so a late commit may appear on a page already read.
  The caller pages by the limit `List` really applies (20 if it asks for none), until a page is short.
* **Notify, Replay.** Straight from the code: `Backoff` races the context; `StopFirst`
  stops deliveries but not a `handle` that runs.

## 3. Runs

| Run | Instance | Shows |
|---|---|---|
| `dispatcher` | 2 workers, 3 notifications, 2 attempts, capacity 1 | `OneFate`, `RetryBudget`, `DeadChannelSafe`, `MetricsExact`; refinement `ImplementsFate`; `RunTerminates`, `EveryNotificationServed` |
| `dispatcher_cancel` | 1 worker, 2 notifications | violation: new work after cancel |
| `termination` | four components one at a time: `Run` (3 workers, 4 items), `Merge` (3 inputs, 2 values each), enrollment (4 calls, 2 customers, 2 campaigns, 2 connections), lifecycle (5 programs, 3 requests, a queue of 2 spans) | `EachItemOnce`, `FailureReported`, `CompleteUnlessCancelled`, `NoGoroutineLeak`; `MergeFaithful`, `MergeEnds`; `CountMatchesRows`, `ResultsHonest`, `NothingHeldAfterReturn`, `CallsReturn`; `DrainsBeforeExit`, `SpansFlushed`, `MainEnds` |
| `consumer` | 2 processes, 2 events (1 malformed), 2 deliveries, 2 crashes | `AckedMeansSent`, `TermedMeansOffered`, `DuplicatesBounded`, `EventsEnd` |
| `consumer_double_send` | 1 process, 1 crash | violation: a redelivered event is sent twice |
| `consumer_lost` | 1 process, 1 crash | violation: an exhausted event is neither sent nor captured |
| `capstone` | 2 processes, 1 create and 1 refused request, 2 deliveries, 1 crash | `WelcomeIsForCustomer`, `CreatedMeansPublished`, `ImplementsConsumer`, `CreatedIsWelcomed` |
| `customer_api` | m04 and m10, 3 scenarios of 5 requests, ints of 6 bits | `OneCustomerPerEmail`, `SeesEarlierAnswers`, `PageFaithful`, `LogsAccount`, `EveryRequestAnswered` |
| `customer_api_panic` | the same | violation: a panic is logged without its request ID |
| `customer_api_overflow` | the same | violation: a page far out of range panics |
| `replay_duplicates` | 3 publishes, 1 repeated | violation: the replay sends an event again |
| `services` | five components one at a time: profiles (3 calls in 5 scenarios, both stores, 5 ticks), bus (3 events, 1 malformed, 2 workers, 1 plain subscriber, 1 break), paging (3 customers, sizes 0 to 3, 2 ticks), notify (budgets 0 to 3), replay (4 publishes, 1 repeated) | `ReadsFresh`, `StreamFaithful`; `QueueGroupOnce`, `PrintedConsistent`; `PagesFaithful`; `RetryOutcome`; `ReplayRepeatsAtMostOne` |

Why the bounds are enough. Two workers (or processes) race each other; three
notifications let one wait while two are in hand, and a dead-letter channel of one lets
a worker block on it. Three pipeline workers and four items allow two errors to race
while a third worker is blocked on `out`, with an item left over. Two deliveries give a
first, a repeated and a last one; two crashes hit both. Four enrollments include a
conflict, a shared counter and a call that waits for a connection. The API scenarios put
a race for an email, a second page and a read of the winner into one, a panic,
a bad body and a missing token into another; six bits are enough for an offset to
overflow. Three requests let one finish, one hang and one arrive during the drain, and find
a queue of two spans full. Three
calls let two upserts overtake each other around a read. Three events let one be lost
while one is handled and one waits. Three customers and a size of two make a full page, a
part of one, and an insert between them. What is proved (section 5) does not depend on
bounds at all.

Runs that hold several components (`termination`, `services`) interleave nothing between
them: they share no state, so each takes its steps while the others rest.

Deadlock is checked in every run but `services` and `replay_duplicates`, whose parts may simply
be over (a demo has printed, a listing has ended) and state no liveness. In `termination` the
variable `part` says which component runs and never changes, and the others stand at an end from
the start, so they lend no step to a component that is stuck. The states in which everything has
legitimately ended stutter through an action of their own (`Terminated`, `MergeEnded`, `Quiet`,
`AllReturned`, `Idle`, `Exited`).

The six violations are disagreements between the code and its own text, recorded
under `findings`:

* `dispatcher_cancel`: a cancelled worker's select may still choose `in`;
* `consumer_double_send`: a crash between send and ack sends twice, since the dedup store is in memory;
* `consumer_lost`: an event whose last delivery dies, or whose DLQ publish fails, is lost;
* `customer_api_panic`: `Recover` logs a panic without the request ID;
* `customer_api_overflow`: page indices are clamped after they may have overflowed, so that a page far
  out of range panics where the course promises an empty window;
* `replay_duplicates`: `stop()` does not wait for a `handle` that has sent and not yet marked its event, and
  the replay, which "should" send nothing, sends that one again.

Related, and stated as what does hold rather than as violations:

* a cancellation during a backoff or a blocked dead-letter send drops a notification;
  `OneFate` and `ImplementsFate` show that only a cancellation can, and `MetricsExact` that
  `DeadLettered` may then exceed the letters on the channel;
* `pipeline.Run` cancelled from outside returns nil with zero values for skipped items
  (`CompleteUnlessCancelled`);
* m10 answers a duplicate email with 500, since the conflict passes `Service.Create`
  without a code (`OneCustomerPerEmail` states the status of both services);
* the replay of m09's demo repeats at most one event, the one whose handler still runs when the
  first consumer is stopped (`ReplayRepeatsAtMostOne`);
* a listing of m04 fails only when an index really overflows (`PageFaithful`);
* `create` of m14 ignores a failed publish and answers 201: `CreatedMeansPublished` names that as the
  only way to a 201 without an event, and excuses it;
* `LogsAccount` speaks of different IDs only where the service made them: a client may send the ID of
  another request;
* m13's server waits for a signal after its listener has failed (`MainEnds` excludes it);
* of m05's racing upserts the one stored last may carry the earlier `UpdatedAt`;
  `ReadsFresh` therefore speaks of the order in which they were stored.

## 4. Fairness

* Go's scheduler is taken to run every goroutine that can run (weak fairness per
  goroutine), `Send` and `work` return, timers fire. The dispatcher's caller closes `in` and
  keeps reading dead letters, as the comment on `DeadLetters` asks. Nothing forces a cancellation.
* The broker delivers what is ready and its AckWait timers fire; processes run. Nothing
  forces a publish, a crash or a loss.
* The REST service answers every request whose goroutine runs; the lock is passed on.
* `main` of a server is scheduled, the exporter runs and the shutdown timer fires. Handlers
  and clients get no fairness: a handler may hang, which is what the deadline is for.
* Enrollment assumes strong fairness for a call's next non-failing step: pgx serves
  waiters for the pool and Postgres its lock queues, so a call that can go on again and
  again does. No failure is forced, so calls do not end only because they fail.

## 5. Proofs

Every invariant a run checks is also a theorem here, and so are both refinements. Each proof
has the same shape: the property is not inductive, an invariant that is says where every
process is and what that implies for shared state, TLC checks it on the run's instance,
and one lemma per action shows that it is kept.

`DispatcherProofs`, from `ConstantsAssumption` (finite sets, natural numbers, a capacity
of at least one; MaxAttempts may be zero): `Spec => []IInv`, and from it `TypeOK`,
`OneFate`, `RetryBudget`, `DeadChannelSafe` and the refinement `Spec => Fate!Spec`. The
safety properties are not inductive: that a dead letter has used its budget depends on
what a worker's program counter says of the notification in its hand. `IInv` adds
`ControlInv` (the pc fixes whether a job is held and what `attempt` may be), `JobInv`
(a held notification is nowhere else, and has been sent `attempt` times, one more
between `Send` and the metric), `PlaceInv` (what being in `todo` or dead-lettered rules
out) and `DeadInv`. There is one lemma per kind of step; the refinement shows each
step to move at most one fate, along an edge of `DispatchFate`. `MetricsExact` is inductive
given `IInv`: it counts calls as the pairs of a notification and a number up to its count,
so that one more send is one more pair, and workers by their position.

`PipelineProofs`, from `ConstantsAssumption` (any number of items, a finite nonempty pool):
`TypeOK`, `EachItemOnce`, `FailureReported` and `CompleteUnlessCancelled`. The properties
speak of what `Run` returns; what makes them true is where each goroutine is. `HandInv`
says what a worker's position implies for the item in its hand, `ErrorInv` that an error
is with the worker about to report it, in `errCh`, or returned, `EndInv` that `out` is closed
after the last worker and before the return, and `FlowInv` that without a failure or a
cancellation every item handed over is in a worker's hand or collected.
For `Merge`, from `MergeAssumption`: `MergeFaithful`, by `ForwarderInv` (what is held, sent and
closed agree with `wg.Done`), `ReceivedInv` (the reader has from an input exactly what its owner
has sent but for the value in hand) and `OrderInv`; that the reader ends with as many values as
were sent is a bijection between places in `got` and pairs of input and value.

`EnrollmentProofs`, from `EnrollmentAssumption`: `EnrollmentTypeOK` (with the foreign keys),
`CountMatchesRows`, `ResultsHonest` and `NothingHeldAfterReturn`. A call commits a count
computed one statement earlier, so `RowInv` says that as long as a call holds the row lock
its count is still the committed one plus one, and `KeyInv` that an uncommitted enrollment is
its call's alone and not in the table; `ConnInv` ties the pool to the positions in `inTx`,
`AppliedInv` the results to the commits. `UnlockInv` is shared by commit and rollback.

`ConsumerProofs`, from `BrokerAssumption` and `ConsumerAssumption`: `TypeOK`,
`AckedMeansSent`, `TermedMeansOffered`, `DuplicatesBounded` and its corollary `SendBudget`. `HandleInv` says what
each position in `handle` implies for the message at hand (sent before `mark` and
`ack`, last delivery before `dlq`, offered before `term`), `SeenInv` that what is in a
dedup store was sent. `DuplicatesBounded` is inductive with them: `sent[e]` is at most
the number of processes that know, in their present life, that they sent e, plus the
crashes so far; a send adds a process that knows, a crash takes away at most one. That no
event is sent more often than there are processes and crashes (`SendBudget`) follows.

`CapstoneProofs`, from `CapstoneAssumption`: `Spec => ImplementsConsumer`. Initial states map to
initial states; a step of a request is a publish or leaves broker and consumers alone, and a crash
is a crash of `Consumer`. The first step of m14's `handle` is one of `Consumer` only in states where no
prefetched message was delivered more than MaxDeliver times: from any other, m09's guard would
send it elsewhere. So the refinement needs `Consumer`'s inductive invariant, which the capstone has only
if its steps are steps of `Consumer`; the two are carried through one induction (`StepImplements`,
`ConsumerInvStep`). So the consumer's theorems hold of the
capstone by instantiation (`ConsumerGuarantees`). `WelcomeIsForCustomer` and `CreatedMeansPublished` need in
addition `DeliveredInv` (what is delivered or sent is in the stream) and `RequestInv` (what the stage of a
request implies for map, stream and publish error).

`LifecycleProofs`, from `KindsAssumption` and `QueueAssumption`: `TypeOK`, `DrainsBeforeExit` and `SpansFlushed`. `MainInv`
says which requests can be in progress, and whether the listener is open, at each stage of `main`;
`SpanInv` that a finished request's span is pending, exported or dropped, or found the queue full,
and dropped only after the flush; `QueueInv` that a span finds the queue full only when more than QueueSize requests have finished.

`CustomerAPIProofs`, from `ConstantsAssumption` (any finite set of requests, any scenario, any width of
int): `TypeOK`, `OneCustomerPerEmail`, `SeesEarlierAnswers`, `PageFaithful` and `LogsAccount`. `StageInv` says
what a request's stage implies for its error or result and the status that will be sent (`StatusFacts`
evaluates the chains of `Errorx`), `ResultInv` that what was found at the repository call is still
true, `UniqueInv` that IDs and emails are keys and each entry is one create's, `RidInv` and `LogInv` who
has which request ID and line. `PaginateOK` is the arithmetic: without overflow the window
is the one asked for, and a panic means an overflow; `OverflowsKept` says that more customers
do not undo one.

`ServicesProofs`, from the assumptions of the five modules:
* *Notify*: `RetryInv` ties the loop variable to the sends made, `LastSendInv` says that only the last can
  have succeeded.
* *Replay*: `MarkedInv` and `UnsentInv` say that everything a consumer has sent is in the dedup store, except
  the event in its hand; `StageInv` and `BothInv` that the second consumer can only meet the first at that one event.
* *Bus*: `FlowInv` follows a published event from the wire to one inbox of the group and to all
  plain ones, and shows that nothing is left on the wire behind a nil from `Flush` or a served request; `CountInv`
  and `PrintInv` bound the total by the counts of the entries there are, each being a number of
  pairs, so that adding one adds one pair; an entry still due counts with what it holds now.
* *Profiles*: `LastWriteInv` says that what is stored is the last upsert's with its truncated
  time, `GetInv` that a get holds something stored after it came in; `TruncateTime` that truncation to
  milliseconds and then to seconds loses less than a second. `RecordsInv`, `RowsInv`, `SentInv` and `SeenInv` do the
  same for events: rows from memory are the events of a moment, which later ones only extend, rows
  from MongoDB are sorted, distinct and include what was there on arrival, and
  what was sent is the first of them. The counts of the aggregation are compared type by type.
* *Paging*: `WindowInv` says that page p is the p-th window of the snapshot; together the windows are a
  bijection between entries and places (`PlaceOnPage`, `PlaceOnce`). `PostgresInv` says that a customer of the first
  moment has been shown, or has at least as many rows ahead of it as were read: INSERTs only add
  rows ahead (`RowsMoveDown`), and in a query's order the x-th row has x - 1 ahead (`RowsAhead`).

What the assumptions add to the declared types: Bus, that the demo's events differ from each other and the
group has a member; Profiles, that an appended event names the customer it is appended for, as
the callers of `AddEvent` do, and 0 is not a call; Paging and Capstone, that their sets are finite.

Only model-checked: every liveness property (temporal reasoning under fairness is
outside this prover's reach): `RunTerminates`, `EveryNotificationServed`, `NoGoroutineLeak`, `MergeEnds`,
`EventsEnd`, `CreatedIsWelcomed`, `EveryRequestAnswered`, `CallsReturn`, `MainEnds`. The violated properties of
section 3 are refuted by TLC's counterexamples.

## 6. Plan

1. *(done)* Dispatcher, pipeline, merge, consumer, capstone, enrollment, the REST services of
   m04 and m10, the server lifecycle, profiles, bus, paging, notifier and replay.
2. *(done)* Every invariant of the passing runs, the dispatcher's and the capstone's refinement.
3. To come: action properties worth stating of what is proved (what no step may undo), the safety
   half of the liveness properties (that no state is stuck before the end), and a shorter `ServicesProofs`.

## 7. Not modelled, and why

* m00 and m01 are sequential exercises; m01's `errorx` is the package m10 keeps (`Errorx`).
  The packages beside the `solution-*` ones are stubs to be filled in by the learner.
* The message code that protoc generates, and of the generated service code all but the
  paths the profile service runs through.
* m02's `Map`, `Filter`, `Reduce` and `Set` (one loop each) and its options (a list of
  setters); the environment read by m10's `config.Load`.
* m05's `LogUnary` only logs, and `RecoverUnary` guards against panics no modelled handler
  has. Loggers, the text of metrics, redaction and JSON are formatting.
* The length of the dispatcher's backoff: without a clock, an overflowing product cannot be told from
  a timer that fires early.
* An order across the pages of m04's listing: every page reads the map afresh, so there is
  no promise to check; `PageFaithful` covers each page.
* The stream's 24-hour MaxAge, the end of its duplicate window, m06's migrations beyond the
  constraints they declare, m12's build configuration and containers.
* A slow subscriber's messages that the NATS client drops (`M08-nats-core.md:107-109`): the batch of the
  demo is far below the client's limit. A negative maxAttempts in m11: `SendWithRetry` panics
  as it does for zero, which is in `Budgets`.
