----------------------------- MODULE Profiles -------------------------------
(***************************************************************************)
(* The profile service: the gRPC server, client and unary interceptors of  *)
(* m05-grpc over either of its repositories, the in-memory one of m05 or   *)
(* the MongoDB one of m07-mongodb.                                         *)
(*                                                                         *)
(* A call runs in a goroutine of its own and takes effect in the steps     *)
(* other calls can tell apart: it passes the interceptors and the check of *)
(* its arguments, an upsert reads the clock, the repository works (under   *)
(* its lock, or in one MongoDB operation), a stream sends event by event,  *)
(* and the answer goes back.  A client may give up at any time.  gRPC and  *)
(* MongoDB are external.  The repository of m07 has record types and an    *)
(* ErrNotFound of its own; what would adapt it to the server is assumed to *)
(* convert them.  Traits are known by the call that wrote them.            *)
(***************************************************************************)
EXTENDS Naturals, Sequences, FiniteSets

CONSTANTS Calls,             \* calls that arrive
          ProfileScenarios,  \* what they may ask for: functions from Calls
          Stores,            \* repositories to consider
          MaxClock,          \* bound of the clock, in ticks
          Milli, Second      \* ticks in a millisecond and in a second

ASSUME ProfilesAssumption ==
         /\ Stores \subseteq {"memory", "mongo"} /\ 0 \notin Calls
         /\ Milli \in Nat \ {0} /\ Second \in Nat \ {0} /\ Second % Milli = 0
         /\ \A s \in ProfileScenarios, c \in Calls : s[c].op = "append" =>
              s[c].event.cust = s[c].cust /\ s[c].event.time \in Nat

VARIABLES
  store,      \* the repository that is wired in
  asks,       \* what each call asks for
  at,         \* "start", "clock", "repo", "send", "reply" or "done"
  clock,      \* time.Now(), in ticks
  stamp,      \* UpdatedAt of the profile an upsert is about to store
  profiles,   \* by customer: [by, time], or NoProfile
  events,     \* by customer: event records in the order of their insertion
  rows,       \* the slice a ListEvents call iterates over
  answer,     \* [code, by, unix, counts]: what the server returns
  sent,       \* events a stream has sent
  gone,       \* calls whose context is done
  got,        \* what the caller of Client.GetProfile gets
  writes,     \* history, by customer: the upserts in the order stored
  seen        \* history: writes (or events) there were when a call came in

profileVars == <<store, asks, at, clock, stamp, profiles, events, rows, answer,
                 sent, gone, got, writes, seen>>

NoProfile == [by |-> 0, time |-> 0]
NoAnswer  == [code |-> "none", by |-> 0, unix |-> 0, counts |-> <<>>]
Status(c) == [NoAnswer EXCEPT !.code = c]

Customers == {in.cust : in \in {s[c] : s \in ProfileScenarios, c \in Calls}}
(* ServiceDesc: the unary methods, which run through the interceptors. *)
Unary(c)  == asks[c].op \in {"get", "upsert"}

ProfilesInit ==
  /\ store \in Stores /\ asks \in ProfileScenarios
  /\ at = [c \in Calls |-> "start"] /\ clock = 0 /\ stamp = [c \in Calls |-> 0]
  /\ profiles = [k \in Customers |-> NoProfile] /\ events = [k \in Customers |-> <<>>]
  /\ rows = [c \in Calls |-> <<>>] /\ answer = [c \in Calls |-> NoAnswer]
  /\ sent = [c \in Calls |-> <<>>] /\ gone = {}
  /\ got = [c \in Calls |-> NoAnswer]
  /\ writes = [k \in Customers |-> <<>>] /\ seen = [c \in Calls |-> 0]

Goto(c, place) == at' = [at EXCEPT ![c] = place]
Answer(c, a)   == answer' = [answer EXCEPT ![c] = a] /\ Goto(c, "reply")

-----------------------------------------------------------------------------
(* AuthUnary guards the unary methods only. *)
AuthUnary(c) == Unary(c) => asks[c].auth

(* GetProfile, UpsertProfile and ListEvents refuse an empty customer_id;   *)
(* the methods of the repositories do not look at it.                      *)
Refused(c) == asks[c].op \in {"get", "upsert", "list"} /\ asks[c].cust = ""

(* The generated handlers: interceptors, then the method. *)
Arrive(c) ==
  /\ at[c] = "start"
  /\ \/ ~AuthUnary(c) /\ Answer(c, Status("Unauthenticated"))
     \/ AuthUnary(c) /\ Refused(c) /\ Answer(c, Status("InvalidArgument"))
     \/ /\ AuthUnary(c) /\ ~Refused(c) /\ UNCHANGED answer
        /\ Goto(c, IF asks[c].op = "upsert" THEN "clock" ELSE "repo")
  /\ seen' = [seen EXCEPT ![c] = IF Unary(c) THEN Len(writes[asks[c].cust])
                                 ELSE Len(events[asks[c].cust])]
  /\ UNCHANGED <<store, asks, clock, stamp, profiles, events, rows, sent, gone,
                 got, writes>>

Tick == /\ clock < MaxClock /\ clock' = clock + 1
        /\ UNCHANGED <<store, asks, at, stamp, profiles, events, rows, answer,
                       sent, gone, got, writes, seen>>

(* UpsertProfile (for MongoDB, MongoRepo.Upsert once more) reads the clock *)
(* before the repository orders the writes.                                *)
ReadClock(c) ==
  /\ at[c] = "clock" /\ stamp' = [stamp EXCEPT ![c] = clock] /\ Goto(c, "repo")
  /\ UNCHANGED <<store, asks, clock, profiles, events, rows, answer, sent, gone,
                 got, writes, seen>>

(* toProto: whole seconds. *)
ToProto(by, time) == [code |-> "OK", by |-> by, unix |-> time \div Second,
                       counts |-> <<>>]

MemoryUpsert(c) == [by |-> c, time |-> stamp[c]]
(* MongoDB stores dates in milliseconds; the caller gets p as it was. *)
MongoUpsert(c)  == [by |-> c, time |-> stamp[c] - (stamp[c] % Milli)]

Store(c) ==
  LET k == asks[c].cust IN
  /\ profiles' = [profiles EXCEPT ![k] = IF store = "memory" THEN MemoryUpsert(c)
                                         ELSE MongoUpsert(c)]
  /\ writes' = [writes EXCEPT ![k] = Append(@, c)]

Upsert(c) ==
  /\ at[c] = "repo" /\ asks[c].op = "upsert" /\ Store(c)
  /\ Answer(c, ToProto(c, stamp[c]))
  /\ UNCHANGED <<store, asks, clock, stamp, events, rows, sent, gone, got,
                 seen>>

(* Seeded bug: what Get finds is decided when the call comes in. *)
Get_Stale(c) ==
  /\ at[c] = "repo" /\ asks[c].op = "get"
  /\ LET w == writes[asks[c].cust] IN
     Answer(c, IF seen[c] <= 1 THEN Status("NotFound") ELSE ToProto(w[seen[c] - 1], 0))
  /\ UNCHANGED <<store, asks, clock, stamp, profiles, events, rows, sent, gone,
                 got, writes, seen>>

(* InMemoryRepo.Get and MongoRepo.Get alike. *)
Find(cust) == profiles[cust]

Get(c) ==
  /\ at[c] = "repo" /\ asks[c].op = "get"
  /\ LET p == Find(asks[c].cust) IN
     Answer(c, IF p = NoProfile THEN Status("NotFound") ELSE ToProto(p.by, p.time))
  /\ UNCHANGED <<store, asks, clock, stamp, profiles, events, rows, sent, gone,
                 got, writes, seen>>

(* An event goes to its customer's slice, or into the collection, where a  *)
(* date is in milliseconds and no two events have the same _id.            *)
Record(c, e) == events' = [events EXCEPT ![asks[c].cust] = Append(@, e)]
Recorded(id) == \E k \in Customers : \E i \in DOMAIN events[k] : events[k][i].id = id
BsonEvent(e) == [id |-> e.id, cust |-> e.cust, type |-> e.type,
                 time |-> e.time - (e.time % Milli)]
InsertOne(c) == ~Recorded(asks[c].event.id) /\ Record(c, BsonEvent(asks[c].event))

(* A MongoDB operation fails; a write may have been applied all the same   *)
(* when its acknowledgement is what was lost.                              *)
RepoFails(c) ==
  /\ at[c] = "repo" /\ store = "mongo" /\ Answer(c, Status("Internal"))
  /\ \/ UNCHANGED <<profiles, writes, events>>
     \/ asks[c].op = "upsert" /\ Store(c) /\ UNCHANGED events
     \/ asks[c].op = "append" /\ InsertOne(c) /\ UNCHANGED <<profiles, writes>>
  /\ UNCHANGED <<store, asks, clock, stamp, rows, sent, gone, got, seen>>

-----------------------------------------------------------------------------
AddEvent(c) == store = "memory" /\ Answer(c, Status("OK")) /\ Record(c, asks[c].event)
AppendEvent(c) ==
  /\ store = "mongo"
  /\ \/ InsertOne(c) /\ Answer(c, Status("OK"))
     \/ Recorded(asks[c].event.id) /\ Answer(c, Status("Internal")) /\ UNCHANGED events

RecordEvent(c) ==
  /\ at[c] = "repo" /\ asks[c].op = "append" /\ (AddEvent(c) \/ AppendEvent(c))
  /\ UNCHANGED <<store, asks, clock, stamp, profiles, rows, sent, gone, got,
                 writes, seen>>

(* The copy Events returns, and what MongoDB's cursor, sorted by           *)
(* occurred_at with ties in any order, has given when it is drained.  The  *)
(* batches are fetched without a snapshot: the events that were there when *)
(* the call came in are among them, one inserted since may be.             *)
MemoryEvents(c) == {events[asks[c].cust]}
MongoEvents(c) ==
  LET es == events[asks[c].cust]
      Reads(n) == {p \in [1..n -> DOMAIN es] :
                     /\ 1..seen[c] \subseteq {p[i] : i \in 1..n}
                     /\ \A i, j \in 1..n : i < j =>
                          p[i] # p[j] /\ es[p[i]].time <= es[p[j]].time}
  IN  UNION {{[i \in 1..n |-> es[p[i]]] : p \in Reads(n)} : n \in seen[c]..Len(es)}

(* Seeded bug: the events are not filtered by customer. *)
Events_All(c) == {events[k] : k \in Customers}
Events(c) == IF store = "memory" THEN MemoryEvents(c) ELSE MongoEvents(c)

ListEvents(c) ==
  /\ at[c] = "repo" /\ asks[c].op = "list"
  /\ \E es \in Events(c) : rows' = [rows EXCEPT ![c] = es]
  /\ Goto(c, "send")
  /\ UNCHANGED <<store, asks, clock, stamp, profiles, events, answer, sent, gone,
                 got, writes, seen>>

ToProtoEvent(e) == [id |-> e.id, cust |-> e.cust, type |-> e.type,
                    time |-> e.time \div Second]

(* One turn of the loop: the context is looked at, then Send. *)
SendEvent(c) ==
  /\ at[c] = "send"
  /\ LET n == Len(sent[c]) IN
     \/ n = Len(rows[c]) /\ Answer(c, Status("OK")) /\ UNCHANGED sent
     \/ n < Len(rows[c]) /\ c \in gone /\ Answer(c, Status("Canceled")) /\ UNCHANGED sent
     \/ /\ n < Len(rows[c]) /\ c \notin gone
        /\ sent' = [sent EXCEPT ![c] = Append(@, ToProtoEvent(rows[c][n + 1]))]
        /\ UNCHANGED <<at, answer>>
  /\ UNCHANGED <<store, asks, clock, stamp, profiles, events, rows, gone, got,
                 writes, seen>>

(* The $match and $group of the aggregation. *)
OfType(cust, n, t) == Cardinality({i \in 1..n : events[cust][i].type = t})
EventCountsByType(cust) ==
  LET n == Len(events[cust]) IN
  [t \in {events[cust][i].type : i \in 1..n} |-> OfType(cust, n, t)]

CountEvents(c) ==
  /\ at[c] = "repo" /\ asks[c].op = "count" /\ store = "mongo"
  /\ Answer(c, [Status("OK") EXCEPT !.counts = EventCountsByType(asks[c].cust)])
  /\ UNCHANGED <<store, asks, clock, stamp, profiles, events, rows, sent, gone,
                 got, writes, seen>>

-----------------------------------------------------------------------------
(* The client's deadline passes, or it cancels; nothing but the answer of  *)
(* a get and the progress of a stream depends on it.                       *)
GiveUp(c) ==
  /\ at[c] # "done" /\ asks[c].op \in {"get", "list"}
  /\ c \notin gone /\ gone' = gone \cup {c}
  /\ UNCHANGED <<store, asks, at, clock, stamp, profiles, events, rows, answer,
                 sent, got, writes, seen>>

(* Client.GetProfile: NotFound becomes ErrNotFound, the rest is wrapped,   *)
(* and whole seconds become a time again.                                  *)
ClientGetProfile(c) ==
  IF c \in gone \/ answer[c].code \notin {"OK", "NotFound"} THEN Status("error")
  ELSE IF answer[c].code = "NotFound" THEN Status("ErrNotFound")
  ELSE [answer[c] EXCEPT !.unix = @ * Second]

(* The answer reaches the client's stub. *)
ReplyTo(c) ==
  /\ at[c] = "reply" /\ Goto(c, "done")
  /\ got' = [got EXCEPT ![c] = IF asks[c].op = "get" THEN ClientGetProfile(c) ELSE @]
  /\ UNCHANGED <<store, asks, clock, stamp, profiles, events, rows, answer, sent,
                 gone, writes, seen>>

CallStep(c) == \/ Arrive(c) \/ ReadClock(c) \/ Upsert(c) \/ Get(c) \/ RepoFails(c)
               \/ RecordEvent(c) \/ ListEvents(c) \/ SendEvent(c) \/ CountEvents(c)
               \/ ReplyTo(c)

ProfilesNext == (\E c \in Calls : CallStep(c) \/ GiveUp(c)) \/ Tick

ProfilesSpec == ProfilesInit /\ [][ProfilesNext]_profileVars

-----------------------------------------------------------------------------
(* What Client.GetProfile returns was current at some moment of the call:  *)
(* not older than the last upsert stored when the call came in, with the   *)
(* traits and the time of one and the same upsert (whole seconds of the    *)
(* clock it read, not later than now), and ErrNotFound only if nothing had *)
(* been stored by then (profile.go of m05, lines 48-75 and 165-177).       *)
ReadsFresh ==
  \A c \in Calls : at[c] = "done" /\ asks[c].op = "get" =>
    LET k == asks[c].cust IN
    /\ got[c].code = "ErrNotFound" => seen[c] = 0
    /\ got[c].code = "OK" =>
         /\ \E i \in DOMAIN writes[k] : i >= seen[c] /\ writes[k][i] = got[c].by
         /\ got[c].unix <= stamp[got[c].by] /\ stamp[got[c].by] < got[c].unix + Second

(* A stream sends the customer's events, each once: from memory as they    *)
(* were at one moment of the call and in their order, from MongoDB by      *)
(* time; one that ends with OK has sent at least as many as were there     *)
(* when it came in.  The aggregation counts, for each type, at least those *)
(* and no event that is not there (profile.go of m05, lines 77-96, of m07, *)
(* lines 93-133).                                                          *)
StreamFaithful ==
  \A c \in Calls :
    LET k == asks[c].cust IN
    /\ \A i \in DOMAIN sent[c] :
         /\ sent[c][i].cust = k
         /\ store = "memory" =>
              i \in DOMAIN events[k] /\ sent[c][i] = ToProtoEvent(events[k][i])
    /\ store = "mongo" => \A i, j \in DOMAIN sent[c] : i < j =>
         sent[c][i].id # sent[c][j].id /\ sent[c][i].time <= sent[c][j].time
    /\ at[c] = "done" /\ answer[c].code = "OK" =>
         /\ asks[c].op = "list" => Len(sent[c]) >= seen[c]
         /\ asks[c].op = "count" =>
              /\ \A i \in 1..seen[c] : events[k][i].type \in DOMAIN answer[c].counts
              /\ \A t \in DOMAIN answer[c].counts :
                   answer[c].counts[t] \in
                     OfType(k, seen[c], t)..OfType(k, Len(events[k]), t)
=============================================================================
