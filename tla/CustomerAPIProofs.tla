------------------------- MODULE CustomerAPIProofs --------------------------
(***************************************************************************)
(* Safety of the REST services of m04 and m10 for any number of requests,  *)
(* whatever they ask for.                                                  *)
(*                                                                         *)
(* The properties relate answers to the repository and to one another.     *)
(* They follow from what a handler knows from the moment its repository    *)
(* call returns, so the inductive invariant speaks of the result in hand   *)
(* before it is answered, and of the kinds of result an operation can have.*)
(***************************************************************************)
EXTENDS CustomerAPI, FiniteSetTheorems, TLAPS

Places == {"start", "repo", "reply", "panic", "done"}

TypeOK ==
  /\ svc \in {"m04", "m10"} /\ input \in [Requests -> Inputs]
  /\ seq \in Nat /\ m \subseteq (1..seq) \X Emails /\ IsFiniteSet(m)
  /\ ridSeq \in Nat /\ pc \in [Requests -> Places] /\ status \in [Requests -> Nat]
  /\ DOMAIN result = Requests /\ DOMAIN rid = Requests
  /\ before \in [Requests -> SUBSET Requests]

(* The results an operation can end with. *)
KindsOf(op) ==
  CASE op = "create" -> {"decode", "ValidationError", "created", "ErrConflict"}
    [] op = "get"    -> {"ok", "ErrNotFound"}
    [] op = "list"   -> {"ok", "panic"}
    [] OTHER         -> {"ok"}

(* What a request's position says of its result and status. *)
StageInv(r) ==
  LET kind == result[r].kind IN
  /\ pc[r] # "done" => status[r] = 0
  /\ pc[r] \in {"start", "repo"} => kind = "none"
  /\ pc[r] \in {"reply", "panic", "done"} =>
       kind \in KindsOf(input[r].op) \/ (svc = "m04" /\ kind = "unauthorized")
  /\ pc[r] = "panic" => kind = "panic"
  /\ pc[r] = "reply" => kind # "panic"
  /\ pc[r] = "done" => status[r] = StatusOf(input[r].op, kind)
  /\ \A q \in before[r] : status[q] = 201

(* PageFaithful of one page. *)
PageOK(res, in) ==
  LET p == Page(in)
      s == Size(in)
  IN  p * s + res.total <= MaxInt =>
        /\ Len(res.ids) = Cardinality({k \in 1..res.total : (p - 1) * s < k /\ k <= p * s})
        /\ \A i, j \in 1..Len(res.ids) : res.ids[i] = res.ids[j] => i = j
        /\ res.hasNext <=> res.total > p * s

(* Some index of a page does not fit into an int when n customers are      *)
(* stored.                                                                 *)
Overflows(in, n) == Page(in) * Size(in) + n > MaxInt

(* What a request's result says of the repository and of earlier answers. *)
ResultInv(r) ==
  LET kind == result[r].kind IN
  /\ kind = "created" => /\ <<result[r].ids[1], input[r].email>> \in m
                         /\ \A q \in before[r] : input[q].email # input[r].email
  /\ kind = "ErrConflict" => Taken(input[r].email)
  /\ kind = "ErrNotFound" => \A q \in before[r] : result[q].ids[1] # input[r].id
  /\ kind = "ok" /\ input[r].op = "list" => /\ result[r].total >= Cardinality(before[r])
                                            /\ PageOK(result[r], input[r])
  /\ kind = "panic" => Overflows(input[r], seq)

(* One customer per ID and per email, and one creator. *)
UniqueInv ==
  /\ \A c, d \in m : c[1] = d[1] \/ c[2] = d[2] => c = d
  /\ \A q, r \in Requests :
       result[q].kind = "created" /\ result[r].kind = "created" /\ result[q].ids[1] = result[r].ids[1]
         => q = r

(* The request IDs of m04. *)
RidInv ==
  /\ \A r \in Requests :
       /\ pc[r] = "start" => rid[r] = NoID
       /\ pc[r] # "start" /\ svc = "m04" => rid[r] # NoID
       /\ rid[r] \in {NoID, <<"client", 0>>} \cup {<<"req", n>> : n \in 1..ridSeq}
  /\ \A q, r \in Requests : rid[q] = rid[r] /\ rid[q][1] = "req" => q = r

(* The lines of Logging and of Recover. *)
LogInv ==
  /\ \A l \in logs : /\ l[1] \in Requests /\ pc[l[1]] = "done" /\ result[l[1]].kind # "panic"
                     /\ l = <<l[1], status[l[1]], rid[l[1]]>>
  /\ \A r \in Requests : svc = "m04" /\ pc[r] = "done" =>
       IF result[r].kind = "panic" THEN \E l \in panicLogs : l[1] = r
       ELSE <<r, status[r], rid[r]>> \in logs

IInv == /\ TypeOK /\ UniqueInv /\ RidInv /\ LogInv
        /\ \A r \in Requests : StageInv(r) /\ ResultInv(r)

-----------------------------------------------------------------------------
(* Errors: what a chain of one or two layers answers to. *)
LEMMA PlainError ==
  ASSUME NEW kind
  PROVE  /\ CodesIn(Cause(kind)) = {} /\ Cause(kind) # <<>>
         /\ \A k : IsCause(Cause(kind), k) <=> kind = k
<1>1. DOMAIN Cause(kind) = {1} /\ Cause(kind) # <<>>
  BY DEF Cause
<1>2. Cause(kind)[1].cause = kind
  BY DEF Cause
<1>3. Cause(kind)[1].code = ""
  BY DEF Cause
<1>4. CodesIn(Cause(kind)) = {}
  BY <1>1, <1>3 DEF CodesIn
<1>5. \A k : IsCause(Cause(kind), k) <=> kind = k
  BY <1>1, <1>2 DEF IsCause
<1> QED
  BY <1>1, <1>4, <1>5

LEMMA TwoLayers ==
  ASSUME NEW x, NEW y
  PROVE  /\ DOMAIN (<<x>> \o <<y>>) = {1, 2}
         /\ (<<x>> \o <<y>>)[1] = x /\ (<<x>> \o <<y>>)[2] = y
<1>1. DOMAIN (<<x>> \o <<y>>) = 1..2
  OBVIOUS
<1>2. 1..2 = {1, 2}
  OBVIOUS
<1>3. (<<x>> \o <<y>>)[1] = x
  OBVIOUS
<1>4. (<<x>> \o <<y>>)[2] = y
  OBVIOUS
<1> QED
  BY <1>1, <1>2, <1>3, <1>4

LEMMA LeastOne ==
  ASSUME NEW S, NEW x \in S, \A j \in S : j = 1
  PROVE  (CHOOSE i \in S : \A j \in S : i <= j) = 1
OBVIOUS

LEMMA CodeOutside ==
  ASSUME NEW err, DOMAIN err = {1, 2}, err[1].code # "", err[2].code = ""
  PROVE  CodesIn(err) = {1} /\ OutermostCode(err) = err[1].code
<1>1. CodesIn(err) = {1}
  BY DEF CodesIn
<1>2. (CHOOSE i \in CodesIn(err) : \A j \in CodesIn(err) : i <= j) = 1
  BY <1>1, LeastOne
<1> QED
  BY <1>1, <1>2 DEF OutermostCode

LEMMA CodedError ==
  ASSUME NEW kind, NEW code, code # ""
  PROVE  /\ CodesIn(WithCode(Cause(kind), code)) # {}
         /\ OutermostCode(WithCode(Cause(kind), code)) = code
         /\ \A k : IsCause(WithCode(Cause(kind), code), k) <=> k = "codedError" \/ k = kind
<1> DEFINE inner == [cause |-> kind, code |-> ""]
           outer == [cause |-> "codedError", code |-> code]
           err   == <<outer>> \o <<inner>>
<1>1. WithCode(Cause(kind), code) = err
  BY PlainError DEF WithCode, Cause
<1>2. inner.cause = kind /\ outer.cause = "codedError"
  OBVIOUS
<1>3. inner.code = "" /\ outer.code = code
  OBVIOUS
<1> HIDE DEF inner, outer
<1>4. DOMAIN err = {1, 2} /\ err[1] = outer /\ err[2] = inner
  BY TwoLayers
<1> HIDE DEF err
<1>5. err[1].code = code /\ err[2].code = "" /\ err[1].cause = "codedError" /\ err[2].cause = kind
  BY <1>2, <1>3, <1>4
<1>6. CodesIn(err) = {1} /\ OutermostCode(err) = code
  BY <1>4, <1>5, CodeOutside
<1>7. \A k : IsCause(err, k) <=> k = "codedError" \/ k = kind
  BY <1>4, <1>5, Zenon DEF IsCause
<1> QED
  BY <1>1, <1>6, <1>7

(* The status of each result: what a client can conclude from it. *)
LEMMA StatusFacts ==
  ASSUME NEW op, NEW kind, kind # "none", svc \in {"m04", "m10"},
         kind \in KindsOf(op) \/ (svc = "m04" /\ kind = "unauthorized")
  PROVE  LET st == StatusOf(op, kind) IN
         /\ st \in Nat /\ st # 0
         /\ st = 201 => kind = "created"
         /\ st = 200 => kind = "ok"
         /\ st = 404 => kind = "ErrNotFound"
         /\ st \in {409, 500} /\ op = "create" => kind = "ErrConflict"
         /\ kind = "panic" => st = 500
         /\ st = 500 /\ op = "list" => kind = "panic"
<1>1. kind \in {"decode", "ValidationError", "created", "ErrConflict", "ok", "ErrNotFound", "panic",
                "unauthorized"}
  BY DEF KindsOf
<1>2. CASE kind \in {"ok", "created"}
  BY <1>2 DEF StatusOf
<1>3. CASE kind \notin {"ok", "created"} /\ svc = "m04"
  <2> DEFINE code == CodeOf(WithCode04(kind))
  <2>1. StatusOf(op, kind) = HttpStatus(code)
    BY <1>3 DEF StatusOf
  <2>2. CASE kind = "decode"
    <3>1. code = "VALIDATION"
      BY <2>2, CodedError, ZenonT(60) DEF CodeOf, WithCode04
    <3> QED
      BY <2>1, <2>2, <3>1 DEF HttpStatus, KindsOf
  <2>3. CASE kind = "unauthorized"
    <3>1. code = "UNAUTHORIZED"
      BY <2>3, CodedError DEF CodeOf, WithCode04
    <3> QED
      BY <2>1, <2>3, <3>1 DEF HttpStatus
  <2>4. CASE kind \notin {"decode", "unauthorized"}
    <3>1. WithCode04(kind) = Cause(kind)
      BY <2>4 DEF WithCode04
    <3>2. code = CASE kind = "ErrNotFound"     -> "NOT_FOUND"
                   [] kind = "ErrConflict"     -> "CONFLICT"
                   [] kind = "ValidationError" -> "VALIDATION"
                   [] OTHER                    -> "INTERNAL"
      BY <1>1, <3>1, PlainError DEF CodeOf
    <3> HIDE DEF code
    <3>3. kind \in {"ValidationError", "ErrConflict", "ErrNotFound", "panic"}
      BY <1>1, <1>3, <2>4
    <3> QED
      BY <2>1, <3>2, <3>3 DEF HttpStatus, KindsOf
  <2> QED
    BY <2>2, <2>3, <2>4
<1>4. CASE kind \notin {"ok", "created"} /\ svc # "m04"
  <2> DEFINE err == IF op = "create" THEN PulseCreate(kind) ELSE PulseGet(kind)
  <2>1. StatusOf(op, kind) = HTTPStatus(err)
    BY <1>4 DEF StatusOf, RespondErr
  <2>2. kind \in KindsOf(op)
    BY <1>4
  <2>3. CASE op = "create"
    <3>1. kind \in {"decode", "ValidationError", "ErrConflict"}
      BY <1>4, <2>2, <2>3 DEF KindsOf
    <3>2. CASE kind \in {"decode", "ValidationError"}
      <4>1. PICK c : err = WithCode(Cause(c), "VALIDATION")
        BY <2>3, <3>2 DEF PulseCreate, ServiceCreate
      <4> HIDE DEF err
      <4>2. CodesIn(err) # {} /\ OutermostCode(err) = "VALIDATION"
        BY <4>1, CodedError
      <4>3. Code(err) = "VALIDATION"
        BY <4>2 DEF Code
      <4> QED
        BY <2>1, <3>2, <4>3 DEF HTTPStatus
    <3>3. CASE kind = "ErrConflict"
      <4>1. err = Cause(kind)
        BY <2>3, <3>3 DEF PulseCreate, ServiceCreate
      <4>2. Code(err) = "INTERNAL"
        BY <4>1, PlainError DEF Code
      <4> HIDE DEF err
      <4> QED
        BY <2>1, <2>3, <3>3, <4>2 DEF HTTPStatus
    <3> QED
      BY <3>1, <3>2, <3>3
  <2>4. CASE op # "create"
    <3>1. kind \in {"ErrNotFound", "panic"}
      BY <1>4, <2>2, <2>4 DEF KindsOf
    <3>2. CASE kind = "ErrNotFound"
      <4>1. err = WithCode(Cause(kind), "NOT_FOUND")
        BY <2>4, <3>2, PlainError DEF PulseGet, ServiceGet
      <4> HIDE DEF err
      <4>2. CodesIn(err) # {} /\ OutermostCode(err) = "NOT_FOUND"
        BY <4>1, CodedError
      <4>3. Code(err) = "NOT_FOUND"
        BY <4>2 DEF Code
      <4> QED
        BY <2>1, <2>4, <3>2, <4>3 DEF HTTPStatus
    <3>3. CASE kind = "panic"
      <4>1. err = Cause(kind)
        BY <2>4, <3>3, PlainError DEF PulseGet, ServiceGet
      <4>2. Code(err) = "INTERNAL"
        BY <4>1, PlainError DEF Code
      <4> HIDE DEF err
      <4> QED
        BY <2>1, <2>4, <3>3, <4>2 DEF HTTPStatus
    <3> QED
      BY <3>1, <3>2, <3>3
  <2> QED
    BY <2>3, <2>4
<1> QED
  BY <1>2, <1>3, <1>4

-----------------------------------------------------------------------------
(* Pages.  A number that fits into an int is not wrapped. *)
LEMMA WrapSmall ==
  ASSUME NEW x \in 0..MaxInt
  PROVE  Wrap(x) = x
<1>1. MaxInt \in Nat
  BY ConstantsAssumption
<1>2. \A y, n \in Nat : y < n => y % n = y
  OBVIOUS
<1>3. x + MaxInt + 1 \in Nat /\ x + MaxInt + 1 < 2 * (MaxInt + 1) /\ 2 * (MaxInt + 1) \in Nat
  BY <1>1
<1>4. (x + MaxInt + 1) % (2 * (MaxInt + 1)) = x + MaxInt + 1
  BY <1>2, <1>3
<1> QED
  BY <1>1, <1>4 DEF Wrap

(* The number of pages, rounded up. *)
LEMMA PagesRoundUp ==
  ASSUME NEW t \in Nat, NEW p \in Nat, NEW s \in Nat \ {0}
  PROVE  p < (t + s - 1) \div s <=> t > p * s
<1> DEFINE q == (t + s - 1) \div s
<1>1. \A y \in Nat : y \div s \in Nat
  OBVIOUS
<1>2. \A y \in Nat : (y \div s) * s <= y
  OBVIOUS
<1>3. \A y \in Nat : y < (y \div s) * s + s
  OBVIOUS
<1>4. t + s - 1 \in Nat
  OBVIOUS
<1>5. q \in Nat /\ q * s <= t + s - 1 /\ t + s - 1 < q * s + s
  BY <1>1, <1>2, <1>3, <1>4
<1> HIDE DEF q
<1>6. q * s \in Nat /\ p * s \in Nat
  BY <1>5
<1>7. \A x, y \in Nat : x <= y => x * s <= y * s
  OBVIOUS
<1>8. CASE p < q
  <2>1. (p + 1) * s <= q * s
    BY <1>5, <1>7, <1>8
  <2>2. (p + 1) * s = p * s + s
    OBVIOUS
  <2> QED
    BY <1>5, <1>6, <1>8, <2>1, <2>2 DEF q
<1>9. CASE ~(p < q)
  <2>1. q * s <= p * s
    BY <1>5, <1>7, <1>9
  <2> QED
    BY <1>5, <1>6, <1>9, <2>1 DEF q
<1> QED
  BY <1>8, <1>9

(* The part of 1..t from x, s long, as slicing cuts it. *)
LEMMA SliceBounds ==
  ASSUME NEW t \in Nat, NEW x \in Nat, NEW s \in Nat, NEW start, NEW end,
         start = AtMost(x, t), end = AtMost(start + s, t)
  PROVE  /\ start \in Nat /\ end \in Nat /\ start <= end /\ end <= t
         /\ {k \in 1..t : x < k /\ k <= x + s} = (start + 1)..end
         /\ Cardinality({k \in 1..t : x < k /\ k <= x + s}) = end - start
<1>1. start \in Nat /\ end \in Nat /\ start <= end /\ end <= t
  BY DEF AtMost
<1>2. {k \in 1..t : x < k /\ k <= x + s} = (start + 1)..end
  BY <1>1 DEF AtMost
<1>3. Cardinality((start + 1)..end) = end - start
  <2>1. start + 1 \in Int /\ end \in Int
    BY <1>1
  <2>2. Cardinality((start + 1)..end) = IF start + 1 > end THEN 0 ELSE end - (start + 1) + 1
    BY <2>1, FS_Interval
  <2> QED
    BY <1>1, <2>2
<1> QED
  BY <1>1, <1>2, <1>3

(* paginate cuts the right page out, and knows whether it is the last. *)
LEMMA PaginateOK ==
  ASSUME NEW S, NEW items \in Seq(S), NEW in \in Inputs,
         \A i, j \in DOMAIN items : items[i] = items[j] => i = j
  PROVE  LET res == Paginate(items, in) IN
         /\ res.kind \in {"ok", "panic"}
         /\ res.kind = "ok" => res.total = Len(items) /\ PageOK(res, in)
         /\ res.kind = "panic" => Overflows(in, Len(items))
<1> DEFINE t == Len(items)
           p == Page(in)
           s == Size(in)
           start == AtMost(Wrap(Wrap(p - 1) * s), t)
           end   == AtMost(Wrap(start + s), t)
           pages == Quot(Wrap(t + s - 1), s)
           good  == Res("ok", SubSeq(items, start + 1, end), t, p < pages)
           res == Paginate(items, in)
<1>1. res = IF start < 0 \/ end < start THEN Err("panic") ELSE good
  BY DEF Paginate
<1>2. Err("panic").kind = "panic" /\ good.kind = "ok" /\ good.total = t
      /\ good.ids = SubSeq(items, start + 1, end) /\ good.hasNext = (p < pages)
  BY DEF Err, Res
<1>3. t \in Nat /\ p \in 1..MaxInt /\ s \in 1..MaxInt /\ MaxInt \in Nat
  <2>1. MaxInt \in Nat /\ DefaultSize \in 1..MaxInt /\ in.page \in Nums /\ in.size \in Nums
    BY ConstantsAssumption DEF Inputs
  <2> QED
    BY <2>1 DEF Page, Size, Nums
<1> HIDE DEF res, good, t, p, s, start, end, pages
<1>4. ASSUME p * s + t <= MaxInt
      PROVE  /\ Len(good.ids) = Cardinality({k \in 1..t : (p - 1) * s < k /\ k <= p * s})
             /\ \A i, j \in 1..Len(good.ids) : good.ids[i] = good.ids[j] => i = j
             /\ good.hasNext <=> t > p * s
             /\ ~(start < 0 \/ end < start)
  <2> DEFINE x == (p - 1) * s
  <2>1. x \in Nat /\ p * s = x + s /\ x + s + t <= MaxInt
    <3>1. p - 1 \in Nat /\ p = (p - 1) + 1 /\ s \in Nat
      BY <1>3
    <3>2. \A y, z \in Nat : y * z \in Nat /\ (y + 1) * z = y * z + z
      OBVIOUS
    <3>3. x \in Nat /\ p * s = x + s
      BY <3>1, <3>2
    <3> QED
      BY <1>4, <3>3
  <2> HIDE DEF x
  <2>2. start = AtMost(x, t)
    <3>1. Wrap(p - 1) = p - 1
      BY <1>3, WrapSmall
    <3>2. Wrap(x) = x
      BY <1>3, <2>1, WrapSmall
    <3> QED
      BY <3>1, <3>2 DEF start, x
  <2>3. end = AtMost(start + s, t)
    <3>1. start \in Nat /\ start <= x
      BY <1>3, <2>1, <2>2 DEF AtMost
    <3>2. start + s \in 0..MaxInt
      BY <1>3, <2>1, <3>1
    <3> QED
      BY <3>2, WrapSmall DEF end
  <2>4. /\ start \in Nat /\ end \in Nat /\ start <= end /\ end <= t
        /\ Cardinality({k \in 1..t : x < k /\ k <= x + s}) = end - start
    BY <1>3, <2>1, <2>2, <2>3, SliceBounds
  <2>5. /\ Len(good.ids) = end - start
        /\ \A i \in 1..(end - start) : good.ids[i] = items[start + i]
    BY <1>2, <1>3, <2>4 DEF t
  <2>6. Len(good.ids) = Cardinality({k \in 1..t : (p - 1) * s < k /\ k <= p * s})
    BY <2>1, <2>4, <2>5 DEF x
  <2>7. ASSUME NEW i \in 1..Len(good.ids), NEW j \in 1..Len(good.ids), good.ids[i] = good.ids[j]
        PROVE  i = j
    <3>1. start + i \in 1..t /\ start + j \in 1..t /\ i \in Nat /\ j \in Nat
      BY <1>3, <2>4, <2>5
    <3>2. start + i \in DOMAIN items /\ start + j \in DOMAIN items
      BY <3>1 DEF t
    <3>3. items[start + i] = items[start + j]
      BY <2>4, <2>5, <2>7
    <3>4. start + i = start + j
      BY <3>2, <3>3
    <3> QED
      BY <2>4, <3>1, <3>4
  <2>8. pages = (t + s - 1) \div s
    <3>1. t + s - 1 \in 0..MaxInt
      BY <1>3, <2>1
    <3>2. Wrap(t + s - 1) = t + s - 1 /\ t + s - 1 >= 0
      BY <1>3, <3>1, WrapSmall
    <3> QED
      BY <3>2 DEF pages, Quot
  <2>9. p < pages <=> t > p * s
    <3>1. p \in Nat /\ s \in Nat \ {0}
      BY <1>3
    <3> QED
      BY <1>3, <2>8, <3>1, PagesRoundUp
  <2>10. good.hasNext <=> t > p * s
    BY <1>2, <2>9
  <2> QED
    BY <2>4, <2>6, <2>7, <2>10
<1>5. PageOK(good, in)
  BY <1>2, <1>4 DEF PageOK, p, s
<1>6. CASE start < 0 \/ end < start
  <2>1. Paginate(items, in) = Err("panic")
    BY <1>1, <1>6 DEF res
  <2>2. ~(p * s + t <= MaxInt)
    BY <1>4, <1>6
  <2>3. p * s + t > MaxInt
    <3>1. \A y, z \in Nat : y * z \in Nat
      OBVIOUS
    <3>2. p * s \in Nat
      BY <1>3, <3>1
    <3> QED
      BY <1>3, <2>2, <3>2
  <2>4. Overflows(in, Len(items))
    BY <2>3 DEF Overflows, p, s, t
  <2> QED
    BY <1>2, <2>1, <2>4
<1>7. CASE ~(start < 0 \/ end < start)
  <2>1. Paginate(items, in) = good
    BY <1>1, <1>7 DEF res
  <2>2. good.kind = "ok" /\ good.total = Len(items)
    BY <1>2 DEF t
  <2> QED
    BY <1>5, <2>1, <2>2
<1> QED
  BY <1>6, <1>7

-----------------------------------------------------------------------------
(* A step of r leaves the other requests alone, and comes before r's end.  *)
Alone(r) ==
  /\ pc[r] # "done" /\ svc' = svc /\ input' = input
  /\ \A q \in Requests \ {r} : /\ pc'[q] = pc[q] /\ status'[q] = status[q] /\ rid'[q] = rid[q]
                               /\ result'[q] = result[q] /\ before'[q] = before[q]

(* A 201 means a customer in the repository. *)
LEMMA CreatedAnswer ==
  ASSUME IInv, NEW q \in Requests, status[q] = 201
  PROVE  /\ pc[q] = "done" /\ result[q].kind = "created"
         /\ <<result[q].ids[1], input[q].email>> \in m
<1>1. StageInv(q) /\ ResultInv(q) /\ svc \in {"m04", "m10"} /\ pc[q] \in Places
  BY DEF IInv, TypeOK
<1>2. pc[q] = "done"
  BY <1>1 DEF StageInv
<1>3. result[q].kind \in KindsOf(input[q].op) \/ (svc = "m04" /\ result[q].kind = "unauthorized")
  BY <1>1, <1>2 DEF StageInv
<1>4. result[q].kind # "none"
  BY <1>3 DEF KindsOf
<1>5. StatusOf(input[q].op, result[q].kind) = 201
  BY <1>1, <1>2 DEF StageInv
<1>6. result[q].kind = "created"
  BY <1>1, <1>3, <1>4, <1>5, StatusFacts
<1> QED
  BY <1>1, <1>2, <1>6 DEF ResultInv

(* A create whose 201 has been written. *)
AnsweredCreate(q) ==
  /\ q \in Requests
  /\ pc[q] = "done"
  /\ status[q] = 201
  /\ result[q].kind = "created"

(* What came before a request is a create whose 201 was written, *)
LEMMA BeforeAnswered ==
  ASSUME IInv, NEW r \in Requests, NEW q \in before[r]
  PROVE  AnsweredCreate(q)
<1>1. q \in Requests /\ status[q] = 201
  BY DEF IInv, TypeOK, StageInv
<1> QED
  BY <1>1, CreatedAnswer DEF AnsweredCreate

(* and its customer is stored. *)
LEMMA BeforeStored ==
  ASSUME IInv, NEW r \in Requests, NEW q \in before[r]
  PROVE  <<result[q].ids[1], input[q].email>> \in m
<1>1. q \in Requests /\ status[q] = 201
  BY DEF IInv, TypeOK, StageInv
<1> QED
  BY <1>1, CreatedAnswer

(* No more customers are stored than IDs were handed out. *)
LEMMA IDsCounted ==
  ASSUME TypeOK
  PROVE  IsFiniteSet(IDs) /\ Cardinality(IDs) <= seq
<1>1. seq \in Nat /\ m \subseteq (1..seq) \X Emails
  BY DEF TypeOK
<1>2. IDs \subseteq 1..seq
  BY <1>1 DEF IDs
<1>3. IsFiniteSet(1..seq) /\ Cardinality(1..seq) = seq
  BY <1>1, FS_Interval
<1> QED
  BY <1>2, <1>3, FS_Subset

LEMMA BeforeCounted ==
  ASSUME IInv, NEW r \in Requests
  PROVE  /\ Cardinality(before[r]) <= Cardinality(IDs)
         /\ Cardinality(IDs) \in Nat /\ Cardinality(before[r]) \in Nat
<1> DEFINE f == [q \in before[r] |-> result[q].ids[1]]
<1>1. IsFiniteSet(IDs)
  <2>1. seq \in Nat /\ m \subseteq (1..seq) \X Emails
    BY DEF IInv, TypeOK
  <2>2. IDs \subseteq 1..seq
    BY <2>1 DEF IDs
  <2>3. IsFiniteSet(1..seq)
    BY <2>1, FS_Interval
  <2> QED
    BY <2>2, <2>3, FS_Subset
<1>2. IsFiniteSet(before[r])
  <2>1. before[r] \subseteq Requests
    BY DEF IInv, TypeOK
  <2> QED
    BY <2>1, FS_Subset, ConstantsAssumption
<1>3. \A q \in before[r] : result[q].ids[1] \in IDs
  <2> SUFFICES ASSUME NEW q \in before[r]
               PROVE  result[q].ids[1] \in IDs
    OBVIOUS
  <2>1. <<result[q].ids[1], input[q].email>> \in m
    BY BeforeStored
  <2>2. <<result[q].ids[1], input[q].email>>[1] = result[q].ids[1]
    OBVIOUS
  <2> QED
    BY <2>1, <2>2 DEF IDs
<1>4. \A p, q \in before[r] : result[p].ids[1] = result[q].ids[1] => p = q
  <2>1. ASSUME NEW q \in before[r]
        PROVE  q \in Requests /\ result[q].kind = "created"
    <3>1. AnsweredCreate(q)
      BY BeforeAnswered
    <3> QED
      BY <3>1 DEF AnsweredCreate
  <2>2. UniqueInv
    BY DEF IInv
  <2> QED
    BY <2>1, <2>2 DEF UniqueInv
<1>5. f \in Injection(before[r], IDs)
  BY <1>3, <1>4 DEF Injection, IsInjective
<1> HIDE DEF f
<1> QED
  BY <1>1, <1>2, <1>5, FS_Injection, FS_CardinalityType

(* More customers do not make an index fit. *)
LEMMA OverflowsKept ==
  ASSUME NEW in \in Inputs, NEW k \in Nat, NEW n \in Nat, k <= n, Overflows(in, k)
  PROVE  Overflows(in, n)
<1>1. Page(in) \in Nat /\ Size(in) \in Nat /\ MaxInt \in Nat
  BY ConstantsAssumption DEF Inputs, Page, Size, Nums
<1>2. \A y, z \in Nat : y * z \in Nat
  OBVIOUS
<1>3. Page(in) * Size(in) \in Nat
  BY <1>1, <1>2
<1> QED
  BY <1>1, <1>3 DEF Overflows

(* The other requests keep what they know. *)
LEMMA OthersKept ==
  ASSUME IInv, NEW r \in Requests, Alone(r), m \subseteq m', seq' \in Nat, seq <= seq',
         NEW q \in Requests, q # r
  PROVE  StageInv(q)' /\ ResultInv(q)'
<1>1. StageInv(q) /\ ResultInv(q) /\ before[q] \subseteq Requests
  BY DEF IInv, TypeOK
<1>2. /\ pc'[q] = pc[q] /\ status'[q] = status[q] /\ result'[q] = result[q]
      /\ before'[q] = before[q] /\ svc' = svc /\ input' = input
  BY DEF Alone
<1>3. ASSUME NEW p \in before[q]
      PROVE  status'[p] = 201 /\ result'[p] = result[p]
  <2>1. AnsweredCreate(p)
    BY BeforeAnswered
  <2>2. p \in Requests /\ status[p] = 201 /\ pc[p] = "done"
    BY <2>1 DEF AnsweredCreate
  <2> QED
    BY <2>2 DEF Alone
<1>4. StageInv(q)'
  <2>1. StatusOf(input[q].op, result[q].kind)' = StatusOf(input[q].op, result[q].kind)
    BY <1>2 DEF StatusOf
  <2> QED
    BY <1>1, <1>2, <1>3, <2>1 DEF StageInv
<1>5. ResultInv(q)'
  <2>1. Overflows(input[q], seq) => Overflows(input'[q], seq')
    <3>1. input[q] \in Inputs /\ seq \in Nat
      BY DEF IInv, TypeOK
    <3> QED
      BY <1>2, <3>1, OverflowsKept
  <2> QED
    BY <1>1, <1>2, <1>3, <2>1 DEF ResultInv, Taken
<1> QED
  BY <1>4, <1>5

LEMMA InitOK ==
  ASSUME Init
  PROVE  IInv
<1>1. TypeOK
  <2>1. svc \in {"m04", "m10"} /\ input \in [Requests -> Inputs]
    BY ConstantsAssumption DEF Init
  <2>2. m = {} /\ seq = 0 /\ IsFiniteSet(m)
    BY FS_EmptySet DEF Init
  <2> QED
    BY <2>1, <2>2 DEF Init, TypeOK, Places
<1>2. \A r \in Requests : result[r].kind = "none"
  BY DEF Init, Err, Res
<1>3. UniqueInv
  BY <1>2 DEF Init, UniqueInv
<1>4. RidInv
  BY DEF Init, RidInv, NoID
<1>5. LogInv
  BY DEF Init, LogInv
<1>6. \A r \in Requests : StageInv(r) /\ ResultInv(r)
  BY <1>2 DEF Init, StageInv, ResultInv
<1> QED
  BY <1>1, <1>3, <1>4, <1>5, <1>6 DEF IInv

(* The answers that need no repository. *)
LEMMA EarlyKinds ==
  ASSUME NEW in \in Inputs, svc \in {"m04", "m10"}
  PROVE  LET kind == Early(in).kind IN
         /\ kind \in {"unauthorized", "ok", "decode", "ValidationError", "none"}
         /\ kind = "none" \/ kind \in KindsOf(in.op) \/ (svc = "m04" /\ kind = "unauthorized")
         /\ kind = "ok" => in.op = "health"
<1>1. \A k : Err(k).kind = k
  BY DEF Err, Res
<1>2. in.op \in {"health", "create", "get", "list"}
  BY DEF Inputs
<1>3. CASE svc = "m04"
  BY <1>1, <1>2, <1>3 DEF Early, EarlyAnswer, KindsOf
<1>4. CASE svc # "m04"
  BY <1>1, <1>2, <1>4 DEF Early, PulseEarly, KindsOf
<1> QED
  BY <1>3, <1>4

(* A new request ID is one that nobody has. *)
LEMMA RequestIDOK ==
  ASSUME TypeOK, RidInv, NEW r \in Requests, pc[r] = "start", RequestID(r)
  PROVE  /\ ridSeq' \in Nat /\ ridSeq <= ridSeq' /\ DOMAIN rid' = Requests
         /\ \A q \in Requests \ {r} : rid'[q] = rid[q]
         /\ svc = "m04" => rid'[r] # NoID
         /\ rid'[r] \in {NoID, <<"client", 0>>} \/ (rid'[r] = <<"req", ridSeq'>> /\ ridSeq' = ridSeq + 1)
<1>1. ridSeq \in Nat /\ DOMAIN rid = Requests /\ rid[r] = NoID /\ svc \in {"m04", "m10"}
  BY DEF TypeOK, RidInv
<1>2. CASE svc = "m10"
  BY <1>1, <1>2 DEF RequestID
<1>3. CASE svc # "m10" /\ input[r].rid
  <2>1. rid' = [rid EXCEPT ![r] = <<"client", 0>>] /\ ridSeq' = ridSeq
    BY <1>3 DEF RequestID
  <2>2. <<"client", 0>> # NoID
    BY DEF NoID
  <2> QED
    BY <1>1, <2>1, <2>2
<1>4. CASE svc # "m10" /\ ~input[r].rid
  <2>1. rid' = [rid EXCEPT ![r] = <<"req", ridSeq + 1>>] /\ ridSeq' = ridSeq + 1
    BY <1>4 DEF RequestID
  <2>2. <<"req", ridSeq + 1>> # NoID
    BY DEF NoID
  <2> QED
    BY <1>1, <2>1, <2>2
<1> QED
  BY <1>2, <1>3, <1>4

LEMMA RidInvKept ==
  ASSUME TypeOK, RidInv, NEW r \in Requests, pc[r] = "start", RequestID(r), Alone(r),
         pc'[r] # "start"
  PROVE  RidInv'
<1>1. ridSeq \in Nat /\ DOMAIN rid = Requests
  BY DEF TypeOK
<1>2. /\ ridSeq' \in Nat /\ ridSeq <= ridSeq' /\ \A q \in Requests \ {r} : rid'[q] = rid[q]
      /\ svc = "m04" => rid'[r] # NoID
      /\ rid'[r] \in {NoID, <<"client", 0>>} \/ (rid'[r] = <<"req", ridSeq'>> /\ ridSeq' = ridSeq + 1)
  BY RequestIDOK
<1>3. ASSUME NEW q \in Requests
      PROVE  /\ pc'[q] = "start" => rid'[q] = NoID
             /\ pc'[q] # "start" /\ svc' = "m04" => rid'[q] # NoID
             /\ rid'[q] \in {NoID, <<"client", 0>>} \cup {<<"req", n>> : n \in 1..ridSeq'}
  <2>1. CASE q = r
    <3>1. ridSeq' = ridSeq + 1 => ridSeq' \in 1..ridSeq'
      BY <1>1, <1>2
    <3> QED
      BY <1>2, <2>1, <3>1 DEF Alone
  <2>2. CASE q # r
    <3>1. rid'[q] = rid[q] /\ pc'[q] = pc[q] /\ svc' = svc
      BY <1>2, <2>2 DEF Alone
    <3>2. 1..ridSeq \subseteq 1..ridSeq'
      BY <1>1, <1>2
    <3> QED
      BY <3>1, <3>2 DEF RidInv
  <2> QED
    BY <2>1, <2>2
<1>4. ASSUME NEW q \in Requests \ {r}
      PROVE  rid'[q] # rid'[r] \/ rid'[r][1] # "req"
  <2>1. CASE rid'[r] \in {NoID, <<"client", 0>>}
    BY <2>1 DEF NoID
  <2>2. CASE rid'[r] = <<"req", ridSeq + 1>>
    <3>1. rid'[q] = rid[q]
      BY <1>2
    <3>2. rid[q] # <<"req", ridSeq + 1>>
      <4>1. rid[q] \in {NoID, <<"client", 0>>} \cup {<<"req", n>> : n \in 1..ridSeq}
        BY DEF RidInv
      <4>2. <<"req", ridSeq + 1>> \notin {NoID, <<"client", 0>>}
        BY DEF NoID
      <4>3. \A n \in 1..ridSeq : <<"req", n>> # <<"req", ridSeq + 1>>
        BY <1>1
      <4> QED
        BY <4>1, <4>2, <4>3
    <3> QED
      BY <2>2, <3>1, <3>2
  <2> QED
    BY <1>2, <2>1, <2>2
<1>5. \A p, q \in Requests : rid'[p] = rid'[q] /\ rid'[p][1] = "req" => p = q
  <2> SUFFICES ASSUME NEW p \in Requests, NEW q \in Requests, rid'[p] = rid'[q], rid'[p][1] = "req"
               PROVE  p = q
    OBVIOUS
  <2>1. CASE p # r /\ q # r
    BY <1>2, <2>1 DEF RidInv
  <2>2. CASE p = r \/ q = r
    BY <1>4, <2>2
  <2> QED
    BY <2>1, <2>2
<1> QED
  BY <1>3, <1>5 DEF RidInv, NoID

(* Lines are written when a request ends, so before that they stay true.   *)
LEMMA LogInvKept ==
  ASSUME LogInv, NEW r \in Requests, Alone(r), pc'[r] # "done", UNCHANGED <<logs, panicLogs>>
  PROVE  LogInv'
<1>1. ASSUME NEW l \in logs
      PROVE  /\ l[1] \in Requests /\ pc'[l[1]] = "done" /\ result'[l[1]].kind # "panic"
             /\ l = <<l[1], status'[l[1]], rid'[l[1]]>>
  <2>1. l[1] \in Requests \ {r}
    BY DEF LogInv, Alone
  <2> QED
    BY <2>1 DEF LogInv, Alone
<1>2. ASSUME NEW q \in Requests, svc = "m04", pc'[q] = "done"
      PROVE  IF result'[q].kind = "panic" THEN \E l \in panicLogs : l[1] = q
             ELSE <<q, status'[q], rid'[q]>> \in logs
  <2>1. q # r
    BY <1>2
  <2> QED
    BY <1>2, <2>1 DEF LogInv, Alone
<1> QED
  BY <1>1, <1>2 DEF LogInv, Alone

LEMMA EnterOK ==
  ASSUME IInv, NEW r \in Requests, Enter(r)
  PROVE  IInv'
<1> DEFINE kind == Early(input[r]).kind
           early == {q \in Requests : status[q] = 201}
<1>1. TypeOK /\ UniqueInv /\ RidInv /\ LogInv /\ StageInv(r)
  BY DEF IInv
<1>2. /\ kind \in {"unauthorized", "ok", "decode", "ValidationError", "none"}
      /\ kind = "none" \/ kind \in KindsOf(input[r].op) \/ (svc = "m04" /\ kind = "unauthorized")
      /\ kind = "ok" => input[r].op = "health"
  <2>1. input[r] \in Inputs /\ svc \in {"m04", "m10"}
    BY <1>1 DEF TypeOK
  <2> QED
    BY <2>1, EarlyKinds
<1>3. /\ pc[r] = "start" /\ RequestID(r) /\ UNCHANGED <<svc, input, m, seq, status, logs, panicLogs>>
      /\ result' = [result EXCEPT ![r] = Early(input[r])]
      /\ pc' = [pc EXCEPT ![r] = IF kind = "none" THEN "repo" ELSE "reply"]
      /\ before' = [before EXCEPT ![r] = early]
  BY DEF Enter, repo, output
<1> HIDE DEF kind, early
<1>4. /\ pc'[r] = (IF kind = "none" THEN "repo" ELSE "reply") /\ pc' \in [Requests -> Places]
      /\ \A q \in Requests \ {r} : pc'[q] = pc[q]
  BY <1>1, <1>3 DEF TypeOK, Places
<1>5. /\ DOMAIN result' = Requests /\ result'[r].kind = kind
      /\ \A q \in Requests \ {r} : result'[q] = result[q]
  BY <1>1, <1>3 DEF TypeOK, kind
<1>6. /\ before'[r] = early /\ before' \in [Requests -> SUBSET Requests]
      /\ \A q \in Requests \ {r} : before'[q] = before[q]
  <2>1. early \subseteq Requests
    BY DEF early
  <2> QED
    BY <1>1, <1>3, <2>1 DEF TypeOK
<1>7. /\ ridSeq' \in Nat /\ DOMAIN rid' = Requests
      /\ \A q \in Requests \ {r} : rid'[q] = rid[q]
  BY <1>1, <1>3, RequestIDOK
<1>8. Alone(r)
  BY <1>3, <1>4, <1>5, <1>6, <1>7 DEF Alone
<1>9. TypeOK'
  BY <1>1, <1>3, <1>4, <1>5, <1>6, <1>7 DEF TypeOK
<1>10. UniqueInv'
  <2>1. result'[r].kind # "created"
    BY <1>2, <1>5
  <2> QED
    BY <1>1, <1>3, <1>5, <2>1 DEF UniqueInv
<1>11. RidInv'
  BY <1>1, <1>3, <1>4, <1>8, RidInvKept
<1>12. LogInv'
  BY <1>1, <1>3, <1>4, <1>8, LogInvKept
<1>13. StageInv(r)'
  <2>1. status'[r] = 0
    BY <1>1, <1>3 DEF StageInv
  <2>2. \A q \in before'[r] : status'[q] = 201
    BY <1>3, <1>6 DEF early
  <2> QED
    BY <1>2, <1>3, <1>4, <1>5, <2>1, <2>2 DEF StageInv
<1>14. ResultInv(r)'
  BY <1>2, <1>3, <1>5 DEF ResultInv
<1>15. \A q \in Requests : StageInv(q)' /\ ResultInv(q)'
  <2>1. seq' \in Nat /\ seq <= seq' /\ m \subseteq m'
    BY <1>1, <1>3 DEF TypeOK
  <2> QED
    BY <1>8, <1>13, <1>14, <2>1, OthersKept
<1> QED
  BY <1>9, <1>10, <1>11, <1>12, <1>15 DEF IInv

(* A repository call returns: what remains to be looked at. *)
LEMMA ReturnOK ==
  ASSUME IInv, NEW r \in Requests, NEW res, pc[r] = "repo", Return(r, res),
         seq' \in Nat, m' \subseteq (1..seq') \X Emails, IsFiniteSet(m'), m \subseteq m',
         seq <= seq', res.kind \in KindsOf(input[r].op), UniqueInv', ResultInv(r)'
  PROVE  IInv'
<1>1. TypeOK /\ RidInv /\ LogInv /\ StageInv(r)
  BY DEF IInv
<1>2. /\ UNCHANGED <<svc, input, ridSeq, rid, status, logs, panicLogs, before>>
      /\ result' = [result EXCEPT ![r] = res]
      /\ pc' = [pc EXCEPT ![r] = IF res.kind = "panic" THEN "panic" ELSE "reply"]
  BY DEF Return, output
<1>3. /\ DOMAIN result' = Requests /\ result'[r] = res
      /\ \A q \in Requests \ {r} : result'[q] = result[q]
  BY <1>1, <1>2 DEF TypeOK
<1>4. /\ pc'[r] = (IF res.kind = "panic" THEN "panic" ELSE "reply") /\ pc' \in [Requests -> Places]
      /\ \A q \in Requests \ {r} : pc'[q] = pc[q]
  BY <1>1, <1>2 DEF TypeOK, Places
<1>5. Alone(r)
  BY <1>2, <1>3, <1>4 DEF Alone
<1>6. TypeOK'
  BY <1>1, <1>2, <1>3, <1>4 DEF TypeOK
<1>7. RidInv'
  BY <1>1, <1>2, <1>4 DEF RidInv, NoID
<1>8. LogInv'
  BY <1>1, <1>2, <1>4, <1>5, LogInvKept
<1>9. StageInv(r)'
  BY <1>1, <1>2, <1>3, <1>4 DEF StageInv
<1>10. \A q \in Requests : StageInv(q)' /\ ResultInv(q)'
  BY <1>5, <1>9, OthersKept
<1> QED
  BY <1>6, <1>7, <1>8, <1>10 DEF IInv

LEMMA CreateCustomerOK ==
  ASSUME IInv, NEW r \in Requests, CreateCustomer(r)
  PROVE  IInv'
<1> DEFINE email == input[r].email
<1>1. TypeOK /\ UniqueInv
  BY DEF IInv
<1>2. pc[r] = "repo" /\ input[r].op = "create" /\ email \in Emails /\ seq \in Nat
  BY <1>1 DEF CreateCustomer, TypeOK, Inputs
<1>3. CASE Taken(email)
  <2> DEFINE res == Err("ErrConflict")
  <2>1. Return(r, res) /\ m' = m /\ seq' = seq
    BY <1>3 DEF CreateCustomer, Create, repo
  <2>2. res.kind = "ErrConflict"
    BY DEF Err, Res
  <2> HIDE DEF res
  <2>3. result'[r] = res /\ (\A q \in Requests \ {r} : result'[q] = result[q]) /\ input' = input
    BY <1>1, <2>1 DEF Return, TypeOK
  <2>4. UniqueInv'
    BY <1>1, <2>1, <2>2, <2>3 DEF UniqueInv
  <2>5. ResultInv(r)'
    BY <1>3, <2>1, <2>2, <2>3 DEF ResultInv, Taken
  <2>6. res.kind \in KindsOf(input[r].op)
    BY <1>2, <2>2 DEF KindsOf
  <2> QED
    BY <1>1, <1>2, <2>1, <2>4, <2>5, <2>6, ReturnOK DEF TypeOK
<1>4. CASE ~Taken(email)
  <2> DEFINE res == Res("created", <<seq + 1>>, 0, FALSE)
             new == <<seq + 1, email>>
  <2>1. Return(r, res) /\ m' = m \cup {new} /\ seq' = seq + 1
    BY <1>4 DEF CreateCustomer, Create, Insert
  <2>2. res.kind = "created" /\ res.ids[1] = seq + 1
    BY DEF Res
  <2>3. new[1] = seq + 1 /\ new[2] = email /\ new \in (1..(seq + 1)) \X Emails
    BY <1>2
  <2> HIDE DEF res, new
  <2>4. result'[r] = res /\ (\A q \in Requests \ {r} : result'[q] = result[q])
        /\ input' = input /\ before' = before
    BY <1>1, <2>1 DEF Return, TypeOK
  <2>5. \A c \in m : c[1] \in 1..seq /\ c[1] # seq + 1 /\ c[2] # email
    BY <1>1, <1>2, <1>4 DEF TypeOK, Taken
  <2>6. \A c, d \in m' : c[1] = d[1] \/ c[2] = d[2] => c = d
    BY <1>1, <2>1, <2>3, <2>5 DEF UniqueInv
  <2>7. ASSUME NEW q \in Requests \ {r}, result[q].kind = "created"
        PROVE  result[q].ids[1] # seq + 1
    <3>1. <<result[q].ids[1], input[q].email>> \in m
      BY <2>7 DEF IInv, ResultInv
    <3>2. <<result[q].ids[1], input[q].email>>[1] = result[q].ids[1]
      OBVIOUS
    <3> QED
      BY <2>5, <3>1, <3>2
  <2>8. UniqueInv'
    BY <1>1, <2>2, <2>4, <2>6, <2>7 DEF UniqueInv
  <2>9. ASSUME NEW q \in before[r]
        PROVE  input[q].email # email
    <3>1. <<result[q].ids[1], input[q].email>> \in m
      BY BeforeStored
    <3>2. <<result[q].ids[1], input[q].email>>[2] = input[q].email
      OBVIOUS
    <3> QED
      BY <2>5, <3>1, <3>2
  <2>10. <<res.ids[1], email>> \in m'
    BY <2>1, <2>2 DEF new
  <2>11. ResultInv(r)'
    BY <1>2, <2>2, <2>4, <2>9, <2>10 DEF ResultInv
  <2>12. /\ seq' \in Nat /\ m' \subseteq (1..seq') \X Emails /\ m \subseteq m'
         /\ 1..seq \subseteq 1..(seq + 1)
    <3>1. 1..seq \subseteq 1..(seq + 1)
      BY <1>2
    <3> QED
      BY <1>1, <1>2, <2>1, <2>3, <3>1 DEF TypeOK
  <2>13. IsFiniteSet(m')
    BY <1>1, <2>1, FS_AddElement DEF TypeOK
  <2>14. res.kind \in KindsOf(input[r].op)
    BY <1>2, <2>2 DEF KindsOf
  <2> QED
    BY <1>2, <2>1, <2>8, <2>11, <2>12, <2>13, <2>14, ReturnOK
<1> QED
  BY <1>3, <1>4

LEMMA GetCustomerOK ==
  ASSUME IInv, NEW r \in Requests, GetCustomer(r)
  PROVE  IInv'
<1> DEFINE id == input[r].id
           res == IF Found(id) THEN Res("ok", <<id>>, 0, FALSE) ELSE Err("ErrNotFound")
<1>1. TypeOK /\ UniqueInv
  BY DEF IInv
<1>2. pc[r] = "repo" /\ input[r].op = "get" /\ Return(r, res) /\ m' = m /\ seq' = seq
  BY DEF GetCustomer, repo
<1>3. res.kind \in {"ok", "ErrNotFound"} /\ (res.kind = "ErrNotFound" => ~Found(id))
  BY DEF Err, Res
<1> HIDE DEF res
<1>4. result'[r] = res /\ (\A q \in Requests \ {r} : result'[q] = result[q])
      /\ input' = input /\ before' = before
  BY <1>1, <1>2 DEF Return, TypeOK
<1>5. UniqueInv'
  BY <1>1, <1>2, <1>3, <1>4 DEF UniqueInv
<1>6. ASSUME NEW q \in before[r], ~Found(id)
      PROVE  result'[q].ids[1] # id
  <2>1. <<result[q].ids[1], input[q].email>> \in m
    BY BeforeStored
  <2>2. <<result[q].ids[1], input[q].email>>[1] = result[q].ids[1]
    OBVIOUS
  <2>3. result[q].ids[1] \in IDs
    BY <2>1, <2>2 DEF IDs
  <2>4. AnsweredCreate(q)
    BY BeforeAnswered
  <2>5. q \in Requests /\ pc[q] = "done"
    BY <2>4 DEF AnsweredCreate
  <2> QED
    BY <1>2, <1>4, <1>6, <2>3, <2>5 DEF Found
<1>7. ResultInv(r)'
  BY <1>2, <1>3, <1>4, <1>6 DEF ResultInv
<1>8. res.kind \in KindsOf(input[r].op)
  BY <1>2, <1>3 DEF KindsOf
<1> QED
  BY <1>1, <1>2, <1>5, <1>7, <1>8, ReturnOK DEF TypeOK

LEMMA ListCustomersOK ==
  ASSUME IInv, NEW r \in Requests, ListCustomers(r)
  PROVE  IInv'
<1>1. TypeOK /\ UniqueInv
  BY DEF IInv
<1>2. PICK order \in Orders : Return(r, Paginate(order, input[r]))
  BY DEF ListCustomers
<1> DEFINE res == Paginate(order, input[r])
<1>3. pc[r] = "repo" /\ input[r].op = "list" /\ m' = m /\ seq' = seq
  BY DEF ListCustomers, repo
<1>4. Cardinality(before[r]) <= Cardinality(IDs) /\ Cardinality(IDs) \in Nat
  BY BeforeCounted
<1>5. /\ order \in Seq(IDs) /\ Len(order) = Cardinality(IDs)
      /\ \A i, j \in DOMAIN order : order[i] = order[j] => i = j
  <2>1. order \in [1..Cardinality(IDs) -> IDs]
        /\ \A i, j \in DOMAIN order : order[i] = order[j] => i = j
    BY DEF Orders
  <2> QED
    BY <1>4, <2>1
<1>6. /\ res.kind \in {"ok", "panic"}
      /\ res.kind = "ok" => res.total = Len(order) /\ PageOK(res, input[r])
      /\ res.kind = "panic" => Overflows(input[r], Len(order))
  <2>1. input[r] \in Inputs
    BY <1>1 DEF TypeOK
  <2> QED
    BY <1>5, <2>1, PaginateOK
<1>7. Return(r, res)
  BY <1>2
<1> HIDE DEF res
<1>8. result'[r] = res /\ (\A q \in Requests \ {r} : result'[q] = result[q])
      /\ input' = input /\ before' = before
  BY <1>1, <1>7 DEF Return, TypeOK
<1>9. UniqueInv'
  BY <1>1, <1>3, <1>6, <1>8 DEF UniqueInv
<1>10. ResultInv(r)'
  <2>1. res.kind = "ok" => res.total >= Cardinality(before[r])
    <3>1. Cardinality(before[r]) \in Nat
      BY BeforeCounted
    <3> QED
      BY <1>4, <1>5, <1>6, <3>1
  <2>2. res.kind = "panic" => Overflows(input[r], seq)
    <3>1. input[r] \in Inputs /\ seq \in Nat /\ Cardinality(IDs) <= seq
      BY <1>1, IDsCounted DEF TypeOK
    <3> QED
      BY <1>4, <1>5, <1>6, <3>1, OverflowsKept
  <2> QED
    BY <1>3, <1>6, <1>8, <2>1, <2>2 DEF ResultInv
<1>11. res.kind \in KindsOf(input[r].op)
  BY <1>3, <1>6 DEF KindsOf
<1> QED
  BY <1>1, <1>3, <1>7, <1>9, <1>10, <1>11, ReturnOK DEF TypeOK

(* A request ends, with a line of Logging or of Recover. *)
LEMMA EndOK ==
  ASSUME IInv, NEW r \in Requests, pc[r] \in {"reply", "panic"},
         status' = [status EXCEPT ![r] = StatusOf(input[r].op, result[r].kind)],
         pc' = [pc EXCEPT ![r] = "done"],
         UNCHANGED <<svc, input, m, seq, ridSeq, rid, result, before>>,
         LogInv'
  PROVE  IInv'
<1> DEFINE st == StatusOf(input[r].op, result[r].kind)
<1>1. TypeOK /\ UniqueInv /\ RidInv /\ StageInv(r) /\ ResultInv(r)
  BY DEF IInv
<1>2. result[r].kind \in KindsOf(input[r].op) \/ (svc = "m04" /\ result[r].kind = "unauthorized")
  BY <1>1 DEF StageInv
<1>3. st \in Nat
  <2>1. result[r].kind # "none" /\ svc \in {"m04", "m10"}
    BY <1>1, <1>2 DEF KindsOf, TypeOK
  <2> QED
    BY <1>2, <2>1, StatusFacts
<1> HIDE DEF st
<1>4. status'[r] = st /\ status' \in [Requests -> Nat]
      /\ \A q \in Requests \ {r} : status'[q] = status[q]
  BY <1>1, <1>3 DEF TypeOK, st
<1>5. pc'[r] = "done" /\ pc' \in [Requests -> Places] /\ \A q \in Requests \ {r} : pc'[q] = pc[q]
  BY <1>1 DEF TypeOK, Places
<1>6. Alone(r)
  BY <1>4, <1>5 DEF Alone
<1>7. TypeOK'
  BY <1>1, <1>4, <1>5 DEF TypeOK
<1>8. UniqueInv'
  BY <1>1 DEF UniqueInv
<1>9. RidInv'
  BY <1>1, <1>5 DEF RidInv, NoID
<1>10. StageInv(r)'
  <2>1. StatusOf(input[r].op, result[r].kind)' = st
    BY DEF StatusOf, st
  <2>2. ASSUME NEW q \in before[r]
        PROVE  status'[q] = 201
    <3>1. AnsweredCreate(q)
      BY BeforeAnswered
    <3>2. q \in Requests /\ status[q] = 201 /\ pc[q] = "done"
      BY <3>1 DEF AnsweredCreate
    <3> QED
      BY <1>4, <3>2
  <2> QED
    BY <1>2, <1>4, <1>5, <2>1, <2>2 DEF StageInv
<1>11. ResultInv(r)'
  BY <1>1 DEF ResultInv, Taken
<1>12. \A q \in Requests : StageInv(q)' /\ ResultInv(q)'
  <2>1. seq' \in Nat /\ seq <= seq' /\ m \subseteq m'
    BY <1>1 DEF TypeOK
  <2> QED
    BY <1>6, <1>10, <1>11, <2>1, OthersKept
<1> QED
  BY <1>7, <1>8, <1>9, <1>12 DEF IInv

LEMMA ReplyOK ==
  ASSUME IInv, NEW r \in Requests, Reply(r)
  PROVE  IInv'
<1>1. TypeOK /\ LogInv /\ StageInv(r)
  BY DEF IInv
<1>2. /\ pc[r] = "reply" /\ result[r].kind # "panic"
      /\ status' = [status EXCEPT ![r] = StatusOf(input[r].op, result[r].kind)]
      /\ pc' = [pc EXCEPT ![r] = "done"]
      /\ UNCHANGED <<svc, input, m, seq, ridSeq, rid, result, before, panicLogs>>
  BY <1>1 DEF Reply, repo, StageInv
<1>3. \A q \in Requests \ {r} : status'[q] = status[q] /\ pc'[q] = pc[q]
  BY <1>1, <1>2 DEF TypeOK
<1>4. pc'[r] = "done"
  BY <1>1, <1>2 DEF TypeOK
<1>5. logs' = IF svc = "m04" THEN logs \cup {<<r, status'[r], rid[r]>>} ELSE logs
  BY DEF Reply
<1>6. ASSUME NEW l \in logs
      PROVE  /\ l[1] \in Requests /\ pc'[l[1]] = "done" /\ result[l[1]].kind # "panic"
             /\ l = <<l[1], status'[l[1]], rid[l[1]]>>
  <2>1. l[1] \in Requests \ {r}
    BY <1>1, <1>2 DEF LogInv
  <2> QED
    BY <1>1, <1>3, <2>1 DEF LogInv
<1>7. ASSUME NEW l, l = <<r, status'[r], rid[r]>>
      PROVE  /\ l[1] \in Requests /\ pc'[l[1]] = "done" /\ result[l[1]].kind # "panic"
             /\ l = <<l[1], status'[l[1]], rid[l[1]]>>
  <2>1. l[1] = r
    BY <1>7
  <2> QED
    BY <1>2, <1>4, <1>7, <2>1
<1>8. ASSUME NEW q \in Requests, svc = "m04", pc'[q] = "done"
      PROVE  IF result[q].kind = "panic" THEN \E l \in panicLogs : l[1] = q
             ELSE <<q, status'[q], rid[q]>> \in logs'
  <2>1. CASE q = r
    BY <1>2, <1>5, <1>8, <2>1
  <2>2. CASE q # r
    <3>1. pc[q] = "done" /\ status'[q] = status[q]
      BY <1>3, <1>8, <2>2
    <3> QED
      BY <1>1, <1>5, <1>8, <3>1 DEF LogInv
  <2> QED
    BY <2>1, <2>2
<1>9. LogInv'
  BY <1>2, <1>5, <1>6, <1>7, <1>8 DEF LogInv
<1> QED
  BY <1>2, <1>9, EndOK

LEMMA RecoverPanicOK ==
  ASSUME IInv, NEW r \in Requests, RecoverPanic(r)
  PROVE  IInv'
<1>1. TypeOK /\ LogInv /\ StageInv(r)
  BY DEF IInv
<1>2. /\ pc[r] = "panic" /\ result[r].kind = "panic"
      /\ status' = [status EXCEPT ![r] = StatusOf(input[r].op, result[r].kind)]
      /\ pc' = [pc EXCEPT ![r] = "done"] /\ panicLogs' = panicLogs \cup {<<r, NoID>>}
      /\ UNCHANGED <<svc, input, m, seq, ridSeq, rid, result, before, logs>>
  BY <1>1 DEF RecoverPanic, repo, StageInv
<1>3. \A q \in Requests \ {r} : status'[q] = status[q] /\ pc'[q] = pc[q]
  BY <1>1, <1>2 DEF TypeOK
<1>4. ASSUME NEW l \in logs
      PROVE  /\ l[1] \in Requests /\ pc'[l[1]] = "done" /\ result[l[1]].kind # "panic"
             /\ l = <<l[1], status'[l[1]], rid[l[1]]>>
  <2>1. l[1] \in Requests \ {r}
    BY <1>1, <1>2 DEF LogInv
  <2> QED
    BY <1>1, <1>3, <2>1 DEF LogInv
<1>5. ASSUME NEW q \in Requests, svc = "m04", pc'[q] = "done"
      PROVE  IF result[q].kind = "panic" THEN \E l \in panicLogs' : l[1] = q
             ELSE <<q, status'[q], rid[q]>> \in logs
  <2>1. CASE q = r
    <3>1. <<r, NoID>> \in panicLogs' /\ <<r, NoID>>[1] = r
      BY <1>2
    <3> QED
      BY <1>2, <2>1, <3>1
  <2>2. CASE q # r
    <3>1. pc[q] = "done" /\ status'[q] = status[q] /\ panicLogs \subseteq panicLogs'
      BY <1>2, <1>3, <1>5, <2>2
    <3> QED
      BY <1>1, <1>5, <3>1 DEF LogInv
  <2> QED
    BY <2>1, <2>2
<1>6. LogInv'
  BY <1>2, <1>4, <1>5 DEF LogInv
<1> QED
  BY <1>2, <1>6, EndOK

LEMMA NextOK ==
  ASSUME IInv, [Next]_vars
  PROVE  IInv'
<1>1. CASE UNCHANGED vars
  <2>1. UNCHANGED <<svc, input, m, seq, ridSeq, pc, rid, result, status, logs, panicLogs, before>>
    BY <1>1 DEF vars, repo, output
  <2>2. TypeOK' /\ UniqueInv'
    BY <2>1 DEF IInv, TypeOK, UniqueInv
  <2>3. RidInv'
    BY <2>1 DEF IInv, RidInv, NoID
  <2>4. LogInv'
    BY <2>1 DEF IInv, LogInv
  <2>5. ASSUME NEW r \in Requests
        PROVE  StageInv(r)' /\ ResultInv(r)'
    <3>1. StageInv(r) /\ ResultInv(r)
      BY DEF IInv
    <3>2. StageInv(r)'
      BY <2>1, <3>1 DEF StageInv, StatusOf
    <3>3. ResultInv(r)'
      BY <2>1, <3>1 DEF ResultInv, Taken
    <3> QED
      BY <3>2, <3>3
  <2> QED
    BY <2>2, <2>3, <2>4, <2>5 DEF IInv
<1>2. ASSUME NEW r \in Requests, Step(r)
      PROVE  IInv'
  BY <1>2, EnterOK, CreateCustomerOK, GetCustomerOK, ListCustomersOK, ReplyOK, RecoverPanicOK DEF Step
<1> QED
  BY <1>1, <1>2 DEF Next, Idle

-----------------------------------------------------------------------------
(* What holds whenever either service runs: what each handler has in hand  *)
(* agrees with the repository, and what it has answered with what is       *)
(* logged.                                                                 *)
THEOREM Invariant == Spec => []IInv
<1>1. Init => IInv
  BY InitOK
<1>2. IInv /\ [Next]_vars => IInv'
  BY NextOK
<1> QED
  BY <1>1, <1>2, PTL DEF Spec

(* IDs are those handed out so far, and the repository stays finite. *)
THEOREM TypeCorrect == Spec => []TypeOK
<1>1. IInv => TypeOK
  BY DEF IInv
<1> QED
  BY <1>1, Invariant, PTL

(* What the status of an answered request says of its result. *)
LEMMA AnswerMeans ==
  ASSUME IInv, NEW r \in Requests, status[r] # 0
  PROVE  /\ pc[r] = "done"
         /\ status[r] = 201 => result[r].kind = "created"
         /\ status[r] = 200 => result[r].kind = "ok"
         /\ status[r] = 404 => result[r].kind = "ErrNotFound"
         /\ status[r] \in {409, 500} /\ input[r].op = "create" => result[r].kind = "ErrConflict"
         /\ result[r].kind = "panic" => status[r] = 500
         /\ status[r] = 500 /\ input[r].op = "list" => result[r].kind = "panic"
<1>1. StageInv(r) /\ svc \in {"m04", "m10"} /\ pc[r] \in Places
  BY DEF IInv, TypeOK
<1>2. pc[r] = "done" /\ status[r] = StatusOf(input[r].op, result[r].kind)
  BY <1>1 DEF StageInv
<1>3. result[r].kind \in KindsOf(input[r].op) \/ (svc = "m04" /\ result[r].kind = "unauthorized")
  BY <1>1, <1>2 DEF StageInv
<1>4. result[r].kind # "none"
  BY <1>3 DEF KindsOf
<1> QED
  BY <1>1, <1>2, <1>3, <1>4, StatusFacts

(* However creates of either InMemoryRepo race, an email has one customer  *)
(* and one request that was told 201; a conflict is answered only to who   *)
(* lost the email.                                                         *)
THEOREM OneCustomerPerEmailHolds == Spec => []OneCustomerPerEmail
<1>1. ASSUME IInv
      PROVE  OneCustomerPerEmail
  <2>1. UniqueInv
    BY <1>1 DEF IInv
  <2>2. ASSUME NEW r \in Requests, status[r] = 201
        PROVE  result[r].kind = "created" /\ <<result[r].ids[1], input[r].email>> \in m
    BY <1>1, <2>2, CreatedAnswer
  <2>3. ASSUME NEW r \in Requests, status[r] \in {409, 500}, input[r].op = "create"
        PROVE  Taken(input[r].email)
    <3>1. result[r].kind = "ErrConflict"
      BY <1>1, <2>3, AnswerMeans
    <3> QED
      BY <1>1, <3>1 DEF IInv, ResultInv
  <2>4. ASSUME NEW q \in Requests, NEW r \in Requests, status[q] = 201, status[r] = 201,
               input[q].email = input[r].email
        PROVE  q = r
    <3> DEFINE c == <<result[q].ids[1], input[q].email>>
               d == <<result[r].ids[1], input[r].email>>
    <3>1. c \in m /\ d \in m /\ result[q].kind = "created" /\ result[r].kind = "created"
      BY <2>2, <2>4
    <3>2. c[2] = d[2] /\ c[1] = result[q].ids[1] /\ d[1] = result[r].ids[1]
      BY <2>4
    <3> HIDE DEF c, d
    <3>3. c = d
      BY <2>1, <3>1, <3>2 DEF UniqueInv
    <3> QED
      BY <2>1, <3>1, <3>2, <3>3 DEF UniqueInv
  <2> QED
    BY <2>1, <2>2, <2>3, <2>4 DEF OneCustomerPerEmail, UniqueInv
<1>2. IInv => OneCustomerPerEmail
  BY <1>1
<1> QED
  BY <1>2, Invariant, PTL

(* What was answered with 201 before a request came in is found by its     *)
(* get, counted in its listing and in the way of its create.               *)
THEOREM SeesEarlierAnswersHolds == Spec => []SeesEarlierAnswers
<1>1. ASSUME IInv, NEW r \in Requests
      PROVE  /\ status[r] = 404 => \A q \in before[r] : result[q].ids[1] # input[r].id
             /\ status[r] = 200 /\ input[r].op = "list" =>
                  result[r].total >= Cardinality(before[r])
             /\ status[r] = 201 => \A q \in before[r] : input[q].email # input[r].email
  <2>1. ResultInv(r)
    BY <1>1 DEF IInv
  <2>2. /\ status[r] = 201 => result[r].kind = "created"
        /\ status[r] = 200 => result[r].kind = "ok"
        /\ status[r] = 404 => result[r].kind = "ErrNotFound"
    BY <1>1, AnswerMeans
  <2> QED
    BY <2>1, <2>2 DEF ResultInv
<1>2. IInv => SeesEarlierAnswers
  BY <1>1 DEF SeesEarlierAnswers
<1> QED
  BY <1>2, Invariant, PTL

(* paginate of m04's handler, for every width of int: unless an index      *)
(* overflows, a listing does not panic and its page is the right part,     *)
(* without duplicates, and has_next is right.                              *)
THEOREM PageFaithfulHolds == Spec => []PageFaithful
<1>1. ASSUME IInv, NEW r \in Requests, input[r].op = "list", status[r] = 200
      PROVE  PageOK(result[r], input[r])
  <2>1. result[r].kind = "ok"
    BY <1>1, AnswerMeans
  <2> QED
    BY <1>1, <2>1 DEF IInv, ResultInv
<1>2. ASSUME IInv, NEW r \in Requests, input[r].op = "list", status[r] = 500
      PROVE  Overflows(input[r], seq)
  <2>1. result[r].kind = "panic"
    BY <1>2, AnswerMeans
  <2> QED
    BY <1>2, <2>1 DEF IInv, ResultInv
<1>3. IInv => PageFaithful
  BY <1>1, <1>2 DEF PageFaithful, PageOK, Overflows
<1> QED
  BY <1>3, Invariant, PTL

(* Logging and Recover of m04: an answer has one line, with its status and *)
(* the request's ID, or Recover has logged the panic; generated IDs differ.*)
THEOREM LogsAccountHolds == Spec => []LogsAccount
<1>1. ASSUME IInv, NEW r \in Requests, svc = "m04", Answered(r)
      PROVE  \/ {l \in logs : l[1] = r} = {<<r, status[r], rid[r]>>} /\ rid[r] # NoID
             \/ /\ {l \in logs : l[1] = r} = {} /\ status[r] = 500
                /\ \E l \in panicLogs : l[1] = r
  <2>1. LogInv /\ RidInv
    BY <1>1 DEF IInv
  <2>2. pc[r] = "done" /\ (result[r].kind = "panic" => status[r] = 500)
    BY <1>1, AnswerMeans DEF Answered
  <2>3. CASE result[r].kind = "panic"
    <3>1. \E l \in panicLogs : l[1] = r
      BY <1>1, <2>1, <2>2, <2>3 DEF LogInv
    <3>2. \A l \in logs : l[1] # r
      BY <2>1, <2>3 DEF LogInv
    <3> QED
      BY <2>2, <2>3, <3>1, <3>2
  <2>4. CASE result[r].kind # "panic"
    <3> DEFINE line == <<r, status[r], rid[r]>>
    <3>1. line \in logs /\ line[1] = r
      BY <1>1, <2>1, <2>2, <2>4 DEF LogInv
    <3>2. \A l \in logs : l[1] = r => l = line
      BY <2>1 DEF LogInv
    <3>3. rid[r] # NoID
      BY <1>1, <2>1, <2>2 DEF RidInv
    <3> HIDE DEF line
    <3>4. {l \in logs : l[1] = r} = {line}
      BY <3>1, <3>2
    <3> QED
      BY <3>3, <3>4 DEF line
  <2> QED
    BY <2>3, <2>4
<1>2. ASSUME IInv
      PROVE  \A q, r \in Requests : rid[q] = rid[r] /\ rid[q][1] = "req" => q = r
  BY <1>2 DEF IInv, RidInv
<1>3. IInv => LogsAccount
  BY <1>1, <1>2 DEF LogsAccount
<1> QED
  BY <1>3, Invariant, PTL

=============================================================================
