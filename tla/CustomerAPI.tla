---------------------------- MODULE CustomerAPI -----------------------------
(***************************************************************************)
(* Two REST services over the same in-memory repository.  m04-rest-api:    *)
(* requests, each in a goroutine of its own, go through Recover, RequestID,*)
(* Logging and (under /v1) BearerAuth to a handler that uses the           *)
(* repository under its lock.  m10's pulse: no middleware and no listing,  *)
(* and a service between handler and repository that codes its errors.     *)
(*                                                                         *)
(* A request takes effect in three steps, which are what other requests    *)
(* can tell apart: it gets its ID and passes the checks that look at       *)
(* nothing shared, its repository call runs, and its answer is written and *)
(* logged.  A panic in a handler skips the log line and is answered by     *)
(* Recover.  Slice indices are ints of the width MaxInt stands for.        *)
(***************************************************************************)
EXTENDS Integers, Sequences, FiniteSets, Errorx

CONSTANTS Requests,     \* the requests that arrive
          Services,     \* the services to consider
          Scenarios,    \* what they may ask for: functions from Requests
          Emails,
          DefaultSize,  \* the page size used for a missing or bad ?size=
          MaxInt        \* the largest int

Nums == -(MaxInt + 1)..MaxInt

(* The operations that have a route. *)
Routes(service) == IF service = "m04" THEN {"health", "create", "get", "list"}
                   ELSE {"health", "create", "get"}

(* rid: the client sends an X-Request-ID; auth: it knows the token; body:  *)
(* what decoding and Validate will make of it; "loose" is JSON with fields *)
(* the request type does not have.                                         *)
Inputs == [op : {"health", "create", "get", "list"}, rid : BOOLEAN,
           auth : BOOLEAN, body : {"malformed", "loose", "invalid", "valid"},
           email : Emails, id : Nat, page : Nums, size : Nums]

ASSUME ConstantsAssumption ==
         /\ IsFiniteSet(Requests) /\ Services \subseteq {"m04", "m10"}
         /\ MaxInt \in Nat /\ DefaultSize \in 1..MaxInt
         /\ Scenarios \subseteq [Requests -> Inputs]

VARIABLES
  svc,        \* the service that runs
  input,      \* what each request asks for
  m, seq,     \* InMemoryRepo: emails by ID, as pairs <<ID, email>>, and seq
  ridSeq,     \* the counter behind newRequestID
  pc,         \* "start", "repo", "reply", "panic" or "done"
  rid,        \* request ID in the context of the inner handlers
  result,     \* what the handler has in hand: an error, or a value
  status,     \* status written, 0 before
  logs,       \* lines of Logging: <<request, status, request ID>>
  panicLogs,  \* lines of Recover: <<request, request ID>>
  before      \* creates already answered with 201 when a request came in

repo   == <<m, seq>>
output == <<status, logs, panicLogs>>
vars   == <<svc, input, repo, ridSeq, pc, rid, result, output, before>>

NoID == <<"none", 0>>
IDs  == {c[1] : c \in m}
Answered(r) == status[r] # 0

(* A handler's result: an error kind or "ok"/"created", with the customer  *)
(* IDs in the body and the page's metadata; names, times and the redacted  *)
(* emails of the body are left out.                                        *)
Res(kind, ids, total, hasNext) ==
  [kind |-> kind, ids |-> ids, total |-> total, hasNext |-> hasNext]
Err(kind) == Res(kind, <<>>, 0, FALSE)

Init == /\ svc \in Services /\ input \in Scenarios
        /\ \A r \in Requests : input[r].op \in Routes(svc)
        /\ m = {} /\ seq = 0 /\ ridSeq = 0
        /\ pc = [r \in Requests |-> "start"]
        /\ rid = [r \in Requests |-> NoID]
        /\ result = [r \in Requests |-> Err("none")]
        /\ status = [r \in Requests |-> 0]
        /\ logs = {} /\ panicLogs = {}
        /\ before = [r \in Requests |-> {}]

-----------------------------------------------------------------------------
(* The errors m04 attaches a code to before it responds. *)
WithCode04(kind) ==
  CASE kind = "decode"       -> WithCode(Cause(kind), "VALIDATION")
    [] kind = "unauthorized" -> WithCode(Cause(kind), "UNAUTHORIZED")
    [] OTHER                 -> Cause(kind)

(* What Service.Create and Service.Get of m10 make of the error of         *)
(* Validate and of the repository: a conflict gets no code.                *)
ServiceCreate(kind) == IF kind = "ValidationError"
                       THEN WithCode(Cause("validate"), "VALIDATION") ELSE Cause(kind)
ServiceGet(kind)    == IF IsCause(Cause(kind), "ErrNotFound")
                       THEN WithCode(Cause(kind), "NOT_FOUND") ELSE Cause(kind)

(* The handlers of m10 respond with these. *)
PulseCreate(kind) == IF kind = "decode" THEN WithCode(Cause(kind), "VALIDATION")
                     ELSE ServiceCreate(kind)
PulseGet(kind)    == ServiceGet(kind)
RespondErr(op, kind) ==
  HTTPStatus(IF op = "create" THEN PulseCreate(kind) ELSE PulseGet(kind))

(* codeOf and httpStatus of m04: an explicit code wins, then the sentinels. *)
CodeOf(err) == CASE CodesIn(err) # {}            -> OutermostCode(err)
                 [] IsCause(err, "ErrNotFound")     -> "NOT_FOUND"
                 [] IsCause(err, "ErrConflict")     -> "CONFLICT"
                 [] IsCause(err, "ValidationError") -> "VALIDATION"
                 [] OTHER                           -> "INTERNAL"

HttpStatus(code) == CASE code = "NOT_FOUND"    -> 404
                      [] code = "VALIDATION"   -> 400
                      [] code = "CONFLICT"     -> 409
                      [] code = "UNAUTHORIZED" -> 401
                      [] OTHER                 -> 500

StatusOf(op, kind) ==
  CASE kind = "ok"      -> 200
    [] kind = "created" -> 201
    [] OTHER -> IF svc = "m04" THEN HttpStatus(CodeOf(WithCode04(kind)))
                ELSE RespondErr(op, kind)

(* Two's complement arithmetic, and division that truncates. *)
Wrap(x) == ((x + MaxInt + 1) % (2 * (MaxInt + 1))) - (MaxInt + 1)
Quot(a, b) == IF a >= 0 THEN a \div b ELSE -((-a) \div b)
AtMost(x, y) == IF x > y THEN y ELSE x

Page(in) == IF in.page < 1 THEN 1 ELSE in.page
Size(in) == IF in.size < 1 THEN DefaultSize ELSE in.size

(* Seeded bug: pages counted from zero. *)
Paginate_FromZero(items, in) ==
  LET total == Len(items)
      start == AtMost(Wrap(Page(in) * Size(in)), total)
      end   == AtMost(Wrap(start + Size(in)), total)
      pages == Quot(Wrap(total + Size(in) - 1), Size(in))
  IN  IF start < 0 \/ end < start
      THEN Err("panic")
      ELSE Res("ok", SubSeq(items, start + 1, end), total, Page(in) < pages)

(* paginate: a slice expression whose bounds are out of order panics. *)
Paginate(items, in) ==
  LET total == Len(items)
      start == AtMost(Wrap(Wrap(Page(in) - 1) * Size(in)), total)
      end   == AtMost(Wrap(start + Size(in)), total)
      pages == Quot(Wrap(total + Size(in) - 1), Size(in))
  IN  IF start < 0 \/ end < start
      THEN Err("panic")
      ELSE Res("ok", SubSeq(items, start + 1, end), total, Page(in) < pages)

-----------------------------------------------------------------------------
(* m04: BearerAuth on everything under /v1, a decoder that refuses unknown *)
(* fields, and Validate in the handler.                                    *)
BearerAuth(in) == in.op = "health" \/ in.auth
DecodeJSON(in) == in.body \notin {"malformed", "loose"}
Validate(in)   == in.body # "invalid"

EarlyAnswer(in) ==
  IF ~BearerAuth(in) THEN Err("unauthorized")
  ELSE IF in.op = "health" THEN Err("ok")
  ELSE IF in.op = "create" /\ ~DecodeJSON(in) THEN Err("decode")
  ELSE IF in.op = "create" /\ ~Validate(in) THEN Err("ValidationError")
  ELSE Err("none")

(* m10: no token, a decoder that ignores unknown fields, and Validate in   *)
(* the service.                                                            *)
PulseDecode(in)   == in.body # "malformed"
PulseValidate(in) == in.body # "invalid"

PulseEarly(in) ==
  IF in.op = "health" THEN Err("ok")
  ELSE IF in.op = "create" /\ ~PulseDecode(in) THEN Err("decode")
  ELSE IF in.op = "create" /\ ~PulseValidate(in) THEN Err("ValidationError")
  ELSE Err("none")

(* The answers that need no repository. *)
Early(in) == IF svc = "m04" THEN EarlyAnswer(in) ELSE PulseEarly(in)

(* Seeded bug: the counter is read, not incremented atomically. *)
RequestID_Load(r) ==
  IF svc = "m10" THEN UNCHANGED <<rid, ridSeq>>
  ELSE IF input[r].rid
  THEN rid' = [rid EXCEPT ![r] = <<"client", 0>>] /\ UNCHANGED ridSeq
  ELSE rid' = [rid EXCEPT ![r] = <<"req", ridSeq + 1>>]
       /\ ridSeq' \in {ridSeq, ridSeq + 1}

(* The RequestID middleware of m04. *)
RequestID(r) ==
  IF svc = "m10" THEN UNCHANGED <<rid, ridSeq>>
  ELSE IF input[r].rid
  THEN rid' = [rid EXCEPT ![r] = <<"client", 0>>] /\ UNCHANGED ridSeq
  ELSE rid' = [rid EXCEPT ![r] = <<"req", ridSeq + 1>>] /\ ridSeq' = ridSeq + 1

Enter(r) ==
  /\ pc[r] = "start"
  /\ RequestID(r)
  /\ result' = [result EXCEPT ![r] = Early(input[r])]
  /\ pc' = [pc EXCEPT ![r] = IF Early(input[r]).kind = "none"
                             THEN "repo" ELSE "reply"]
  /\ before' = [before EXCEPT ![r] = {q \in Requests : status[q] = 201}]
  /\ UNCHANGED <<svc, input, repo, output>>

(* The handler goes on with the result of its repository call. *)
Return(r, res) == /\ result' = [result EXCEPT ![r] = res]
                  /\ pc' = [pc EXCEPT ![r] =
                              IF res.kind = "panic" THEN "panic" ELSE "reply"]
                  /\ UNCHANGED <<svc, input, ridSeq, rid, output, before>>

(* The loop over the map, and a new entry under the next ID. *)
Taken(email)  == \E c \in m : c[2] = email
Insert(email) == seq' = seq + 1 /\ m' = m \cup {<<seq + 1, email>>}
Found(id)     == id \in IDs

(* Seeded bug: Create does not look for the email. *)
Create_NoCheck(r) ==
  /\ Insert(input[r].email)
  /\ Return(r, Res("created", <<seq + 1>>, 0, FALSE))

(* Seeded bug: Create hands out an ID but stores into a copy. *)
Create_NotStored(r) ==
  /\ seq' = seq + 1 /\ UNCHANGED m
  /\ Return(r, Res("created", <<seq + 1>>, 0, FALSE))

(* InMemoryRepo.Create of either service, under the write lock. *)
Create(r) ==
  IF Taken(input[r].email)
  THEN Return(r, Err("ErrConflict")) /\ UNCHANGED repo
  ELSE /\ Insert(input[r].email)
       /\ Return(r, Res("created", <<seq + 1>>, 0, FALSE))

CreateCustomer(r) == pc[r] = "repo" /\ input[r].op = "create" /\ Create(r)

GetCustomer(r) ==
  /\ pc[r] = "repo" /\ input[r].op = "get"
  /\ Return(r, IF Found(input[r].id) THEN Res("ok", <<input[r].id>>, 0, FALSE)
                                      ELSE Err("ErrNotFound"))
  /\ UNCHANGED repo

(* List reads a map, so the customers come in any order. *)
Orders == {s \in [1..Cardinality(IDs) -> IDs] :
             \A i, j \in DOMAIN s : s[i] = s[j] => i = j}

ListCustomers(r) ==
  /\ pc[r] = "repo" /\ input[r].op = "list"
  /\ \E order \in Orders : Return(r, Paginate(order, input[r]))
  /\ UNCHANGED repo

(* writeJSON or the error envelope and, in m04, the line of Logging. *)
Reply(r) ==
  /\ pc[r] = "reply"
  /\ status' = [status EXCEPT ![r] = StatusOf(input[r].op, result[r].kind)]
  /\ logs' = IF svc = "m04" THEN logs \cup {<<r, status'[r], rid[r]>>} ELSE logs
  /\ pc' = [pc EXCEPT ![r] = "done"]
  /\ UNCHANGED <<svc, input, repo, ridSeq, rid, result, panicLogs, before>>

(* Seeded bug: the panic is logged but not answered. *)
RecoverPanic_NoAnswer(r) ==
  /\ pc[r] = "panic"
  /\ panicLogs' = panicLogs \cup {<<r, NoID>>}
  /\ pc' = [pc EXCEPT ![r] = "done"]
  /\ UNCHANGED <<svc, input, repo, ridSeq, rid, result, status, logs, before>>

(* Recover is the outermost middleware and logs RequestIDFrom(r.Context()) *)
(* of the request it was given, which has no ID in its context.            *)
RecoverPanic(r) ==
  /\ pc[r] = "panic"
  /\ panicLogs' = panicLogs \cup {<<r, NoID>>}
  /\ status' = [status EXCEPT ![r] = StatusOf(input[r].op, "panic")]
  /\ pc' = [pc EXCEPT ![r] = "done"]
  /\ UNCHANGED <<svc, input, repo, ridSeq, rid, result, logs, before>>

Step(r) == \/ Enter(r) \/ CreateCustomer(r) \/ GetCustomer(r)
           \/ ListCustomers(r) \/ Reply(r) \/ RecoverPanic(r)

Idle == (\A r \in Requests : pc[r] = "done") /\ UNCHANGED vars

Next == (\E r \in Requests : Step(r)) \/ Idle

Spec == Init /\ [][Next]_vars

(* The goroutine of every request runs, and the lock is passed on. *)
FairSpec == Spec /\ \A r \in Requests : WF_vars(Step(r))

-----------------------------------------------------------------------------
(* However creates race, an email is given to one customer, whose ID the   *)
(* one request answered with 201 has; a 409, in m10 a 500 because its      *)
(* service codes no conflict, means that somebody has the email            *)
(* (customer.go of m04, lines 74-88, of m10, lines 52-57 and 76-89).       *)
OneCustomerPerEmail ==
  /\ \A c, d \in m : c[1] = d[1] \/ c[2] = d[2] => c = d
  /\ \A r \in Requests :
       /\ status[r] = 201 => <<result[r].ids[1], input[r].email>> \in m
       /\ status[r] \in {409, 500} /\ input[r].op = "create" => Taken(input[r].email)
  /\ \A q, r \in Requests :
       status[q] = 201 /\ status[r] = 201 /\ input[q].email = input[r].email => q = r

(* A request sees what was answered before it came in: a created customer  *)
(* is found, counted in listings, and in the way of a second create.       *)
SeesEarlierAnswers ==
  \A r \in Requests :
    /\ status[r] = 404 => \A q \in before[r] : result[q].ids[1] # input[r].id
    /\ status[r] = 200 /\ input[r].op = "list" =>
         result[r].total >= Cardinality(before[r])
    /\ status[r] = 201 => \A q \in before[r] : input[q].email # input[r].email

(* Unless an index overflows, a listing is answered, and its page holds    *)
(* the customers from (page-1)*size to page*size, each once, and has_next  *)
(* says whether more follow (handler.go, lines 159-177).                   *)
PageFaithful ==
  \A r \in Requests : input[r].op = "list" =>
    LET p == Page(input[r])
        s == Size(input[r])
        ids == result[r].ids
        total == result[r].total
    IN  /\ status[r] = 500 => p * s + seq > MaxInt
        /\ status[r] = 200 /\ p * s + total <= MaxInt =>
             /\ Len(ids) = Cardinality({k \in 1..total : (p - 1) * s < k /\ k <= p * s})
             /\ \A i, j \in 1..Len(ids) : ids[i] = ids[j] => i = j
             /\ result[r].hasNext <=> total > p * s

(* Every answer of m04 is logged once, with the status that was sent and   *)
(* the request's ID, which, unless the client sent it, no other request    *)
(* was given; only a panic leaves no line, and then Recover has one        *)
(* (middleware.go, lines 15-84).                                           *)
LogsAccount ==
  /\ \A r \in Requests : svc = "m04" /\ Answered(r) =>
       \/ {l \in logs : l[1] = r} = {<<r, status[r], rid[r]>>} /\ rid[r] # NoID
       \/ /\ {l \in logs : l[1] = r} = {} /\ status[r] = 500
          /\ \E l \in panicLogs : l[1] = r
  /\ \A q, r \in Requests : rid[q] = rid[r] /\ rid[q][1] = "req" => q = r

(* Every request is answered, one whose handler panics too. *)
EveryRequestAnswered == <>(\A r \in Requests : Answered(r))

(* M04-rest-api.md:175-176: the recovery middleware logs a panic with the  *)
(* request ID.                                                             *)
PanicLoggedWithID == \A l \in panicLogs : l[2] = rid[l[1]]

(* M02-generics-and-idioms.md:267-268, of the pagination that m04's        *)
(* handler copies: index math is clamped, so that a page out of range is   *)
(* an empty window and no panic.                                           *)
OutOfRangePageEmpty ==
  \A r \in Requests : input[r].op = "list" =>
    /\ pc[r] # "panic"
    /\ status[r] = 200 /\ (Page(input[r]) - 1) * Size(input[r]) >= result[r].total =>
         result[r].ids = <<>>
=============================================================================
