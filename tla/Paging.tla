------------------------------- MODULE Paging -------------------------------
(***************************************************************************)
(* Two ways of the repository to list customers page by page while others  *)
(* write: the snapshot of the generic store of m02, cut by genx.Paginate   *)
(* ("store"), and List of the Postgres repository of m06, one query with   *)
(* LIMIT and OFFSET for each page ("postgres").                            *)
(*                                                                         *)
(* Operations of the store run under its lock.  Postgres is external: an   *)
(* INSERT takes created_at from the clock when its statement begins and    *)
(* its row is seen when it commits; rows with the same created_at come in  *)
(* any order, which may change from query to query.                        *)
(***************************************************************************)
EXTENDS Naturals, Sequences, FiniteSets

CONSTANTS Items,      \* customers
          PageSizes,  \* page sizes (or limits) asked for
          MaxNow      \* bound of the clock

ASSUME PagingAssumption == /\ IsFiniteSet(Items) /\ PageSizes \subseteq Nat
                           /\ MaxNow \in Nat

VARIABLES
  lister,   \* "store" or "postgres"
  present,  \* customers in the map, or committed rows
  begun,    \* customers whose INSERT statement has begun
  created,  \* created_at
  now,      \* the clock
  size,     \* the page size asked for
  snapshot, \* what All returned
  pages,    \* pages so far
  first,    \* history: customers there before the first page
  listed    \* the last page has been read

pagingVars == <<lister, present, begun, created, now, size, snapshot, pages,
                first, listed>>

PagingInit ==
  /\ lister \in {"store", "postgres"} /\ size \in PageSizes
  /\ present = {} /\ begun = {} /\ created = [i \in Items |-> 0] /\ now = 0
  /\ snapshot = <<>> /\ pages = <<>> /\ first = {} /\ listed = FALSE

InSome(S) == {s \in [1..Cardinality(S) -> S] :
                \A i, j \in DOMAIN s : s[i] = s[j] => i = j}
AtMostOf(x, y) == IF x > y THEN y ELSE x

-----------------------------------------------------------------------------
Put(i) ==
  /\ lister = "store" /\ ~listed /\ present' = present \cup {i}
  /\ UNCHANGED <<lister, begun, created, now, size, snapshot, pages, first, listed>>

Delete(i) ==
  /\ lister = "store" /\ ~listed /\ present' = present \ {i}
  /\ UNCHANGED <<lister, begun, created, now, size, snapshot, pages, first, listed>>

(* All copies the values of the map, in any order. *)
All ==
  /\ lister = "store" /\ first = {} /\ present # {} /\ first' = present
  /\ snapshot' \in InSome(present)
  /\ UNCHANGED <<lister, present, begun, created, now, size, pages, listed>>

(* Seeded bug: the window ends one too early. *)
GenxPaginate_Short(items, page, sz) ==
  LET s == IF sz < 1 THEN 20 ELSE sz
      start == AtMostOf((page - 1) * s, Len(items))
      end   == AtMostOf(start + s - 1, Len(items))
      total == (Len(items) + s - 1) \div s
  IN  [items |-> SubSeq(items, start + 1, end), hasNext |-> page < total]

(* Paginate: bad arguments are clamped. *)
GenxPaginate(items, page, sz) ==
  LET p == IF page < 1 THEN 1 ELSE page
      s == IF sz < 1 THEN 20 ELSE sz
      start == AtMostOf((p - 1) * s, Len(items))
      end   == AtMostOf(start + s, Len(items))
      total == (Len(items) + s - 1) \div s
  IN  [items |-> SubSeq(items, start + 1, end), hasNext |-> p < total]

StorePage ==
  /\ lister = "store" /\ first # {} /\ ~listed
  /\ LET p == GenxPaginate(snapshot, Len(pages) + 1, size) IN
     pages' = Append(pages, p.items) /\ listed' = ~p.hasNext
  /\ UNCHANGED <<lister, present, begun, created, now, size, snapshot, first>>

-----------------------------------------------------------------------------
Advance == /\ lister = "postgres" /\ ~listed /\ now < MaxNow /\ now' = now + 1
           /\ UNCHANGED <<lister, present, begun, created, size, snapshot, pages,
                          first, listed>>

(* The INSERT of PostgresRepo.Create: created_at is DEFAULT now(). *)
BeginInsert(i) ==
  /\ lister = "postgres" /\ ~listed /\ i \notin begun /\ begun' = begun \cup {i}
  /\ created' = [created EXCEPT ![i] = now]
  /\ UNCHANGED <<lister, present, now, size, snapshot, pages, first, listed>>

CommitInsert(i) ==
  /\ lister = "postgres" /\ ~listed /\ i \in begun \ present
  /\ present' = present \cup {i}
  /\ UNCHANGED <<lister, begun, created, now, size, snapshot, pages, first, listed>>

ByCreated(s) == \A i, j \in DOMAIN s : i < j => created[s[i]] >= created[s[j]]

(* What List(limit, offset) may return; limits below 1 mean 20. *)
Limit(limit) == IF limit <= 0 THEN 20 ELSE limit
List(limit, offset) ==
  {SubSeq(s, offset + 1, AtMostOf(offset + Limit(limit), Len(s))) :
     s \in {o \in InSome(present) : ByCreated(o)}}

(* A caller asks for one page after the other, until one is short. *)
ListPage ==
  /\ lister = "postgres" /\ ~listed
  /\ \E p \in List(size, Len(pages) * Limit(size)) :
       /\ pages' = Append(pages, p) /\ listed' = (Len(p) < Limit(size))
       /\ first' = IF pages = <<>> THEN present ELSE first
  /\ UNCHANGED <<lister, present, begun, created, now, size, snapshot>>

(* ByID sees what is committed. *)
ByID(i) == IF i \in present THEN i ELSE "ErrNotFound"

PagingNext == \/ All \/ StorePage \/ Advance \/ ListPage
              \/ \E i \in Items : Put(i) \/ Delete(i) \/ BeginInsert(i) \/ CommitInsert(i)

PagingSpec == PagingInit /\ [][PagingNext]_pagingVars

-----------------------------------------------------------------------------
Entries == UNION {{p} \X (1..Len(pages[p])) : p \in DOMAIN pages}
Shown   == {pages[e[1]][e[2]] : e \in Entries}

(* The pages of a snapshot show each of its customers once, whatever is    *)
(* written meanwhile.  Pages by OFFSET miss no customer who was there when *)
(* the first was read, unless two share a created_at: an INSERT, even one  *)
(* that commits late, only moves rows to later pages, so that one may be   *)
(* shown twice; and whoever is shown is found by ByID (genx.go, lines      *)
(* 86-111; store.go, lines 44-52; customer.go of m06, lines 81-116).       *)
PagesFaithful ==
  listed =>
    IF lister = "store"
    THEN Shown = first /\ Cardinality(Entries) = Cardinality(first)
    ELSE /\ (\A i, j \in present : created[i] = created[j] => i = j) =>
              first \subseteq Shown
         /\ \A i \in Shown : ByID(i) = i
=============================================================================
