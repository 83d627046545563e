----------------------------- MODULE Enrollment -----------------------------
(***************************************************************************)
(* The Postgres repository of m06-postgresql/solution-customer: customers  *)
(* and campaigns are created by single statements, an enrollment by a      *)
(* transaction of two statements run through inTx on a pooled connection.  *)
(*                                                                         *)
(* Postgres is external and modelled at READ COMMITTED by the locks these  *)
(* statements take: an uncommitted INSERT holds its primary key, so a      *)
(* second INSERT of the same key waits for it; an UPDATE holds its row.    *)
(* The foreign-key checks take FOR KEY SHARE on the parent rows, which     *)
(* does not conflict with the UPDATE and is left out.                      *)
(***************************************************************************)
EXTENDS Naturals, FiniteSets

CONSTANTS Emails, Campaigns,  \* rows that may be created; an email stands
                              \* for the customer, a campaign for its ID
          Calls,              \* calls of EnrollCustomer
          Customer, Campaign, \* their arguments: functions on Calls
          MaxConns,           \* cfg.MaxConns of the pool
          NoCall

ASSUME EnrollmentAssumption ==
         /\ IsFiniteSet(Calls) /\ IsFiniteSet(Emails) /\ IsFiniteSet(Campaigns)
         /\ Customer \in [Calls -> Emails] /\ Campaign \in [Calls -> Campaigns]
         /\ MaxConns \in Nat \ {0}
         /\ NoCall \notin Calls

VARIABLES
  customers, campaigns,  \* committed rows
  enrollments,           \* committed rows, <<customer, campaign>>
  enrolledCount,         \* campaigns.enrolled_count, committed
  txPc, res,             \* where each call is, and what it returns
  conns,                 \* calls that hold a pooled connection
  keyLock,               \* uncommitted enrollments rows, by call
  rowLock, newCount,     \* the call whose UPDATE holds a campaign's row, and
                         \* the count it will commit
  applied                \* calls whose transaction has committed

rows  == <<customers, campaigns, enrollments, enrolledCount>>
locks == <<conns, keyLock, rowLock, newCount>>
enrollmentVars == <<rows, txPc, res, locks, applied>>

Pair(t) == <<Customer[t], Campaign[t]>>

(* The tables as the migrations create them, and a pool without callers. *)
EnrollmentInit == /\ customers = {} /\ campaigns = {} /\ enrollments = {}
                  /\ enrolledCount = [k \in Campaigns |-> 0]
                  /\ txPc = [t \in Calls |-> "begin"] /\ res = [t \in Calls |-> "none"]
                  /\ conns = {} /\ keyLock = {}
                  /\ rowLock = [k \in Campaigns |-> NoCall]
                  /\ newCount = [k \in Campaigns |-> 0]
                  /\ applied = {}

-----------------------------------------------------------------------------
(* Create and CreateCampaign: one INSERT each, atomic in the database. A   *)
(* duplicate email is refused with ErrConflict and changes nothing.        *)
Create(e) == /\ e \notin customers
             /\ customers' = customers \cup {e}
             /\ UNCHANGED <<campaigns, enrollments, enrolledCount, txPc, res,
                            locks, applied>>

CreateCampaign(k) == /\ k \notin campaigns
                     /\ campaigns' = campaigns \cup {k}
                     /\ UNCHANGED <<customers, enrollments, enrolledCount, txPc,
                                    res, locks, applied>>

PoolHasRoom == Cardinality(conns) < MaxConns

(* inTx: pool.Begin waits for a free connection, or fails. *)
Begin(t) == /\ txPc[t] = "begin" /\ PoolHasRoom
            /\ conns' = conns \cup {t}
            /\ txPc' = [txPc EXCEPT ![t] = "insert"]
            /\ UNCHANGED <<rows, res, keyLock, rowLock, newCount, applied>>

BeginFails(t) == /\ txPc[t] = "begin"
                 /\ txPc' = [txPc EXCEPT ![t] = "done"]
                 /\ res' = [res EXCEPT ![t] = "error"]
                 /\ UNCHANGED <<rows, locks, applied>>

(* Seeded bug: without the primary key an enrollment can be repeated. *)
InsertResult_NoKey(t) ==
  IF Customer[t] \notin customers \/ Campaign[t] \notin campaigns
  THEN "notFound" ELSE "none"

(* What the INSERT makes of this pair once no other transaction holds it.  *)
InsertResult(t) ==
  IF Customer[t] \notin customers \/ Campaign[t] \notin campaigns
  THEN "notFound"                                            \* 23503
  ELSE IF Pair(t) \in enrollments THEN "conflict" ELSE "none"  \* 23505

Insert(t) ==
  /\ txPc[t] = "insert"
  /\ \A u \in keyLock : Pair(u) # Pair(t)
  /\ res' = [res EXCEPT ![t] = InsertResult(t)]
  /\ IF InsertResult(t) = "none"
     THEN keyLock' = keyLock \cup {t} /\ txPc' = [txPc EXCEPT ![t] = "update"]
     ELSE keyLock' = keyLock /\ txPc' = [txPc EXCEPT ![t] = "rollback"]
  /\ UNCHANGED <<rows, conns, rowLock, newCount, applied>>

(* Seeded bug: the count is read and written back without the row lock. *)
Update_ReadModifyWrite(t) ==
  /\ txPc[t] = "update"
  /\ rowLock' = [rowLock EXCEPT ![Campaign[t]] = t]
  /\ newCount' = [newCount EXCEPT ![Campaign[t]] = enrolledCount[Campaign[t]] + 1]
  /\ txPc' = [txPc EXCEPT ![t] = "commit"]
  /\ UNCHANGED <<rows, res, conns, keyLock, applied>>

(* UPDATE campaigns SET enrolled_count = enrolled_count + 1. *)
Update(t) ==
  /\ txPc[t] = "update" /\ rowLock[Campaign[t]] = NoCall
  /\ rowLock' = [rowLock EXCEPT ![Campaign[t]] = t]
  /\ newCount' = [newCount EXCEPT ![Campaign[t]] = enrolledCount[Campaign[t]] + 1]
  /\ txPc' = [txPc EXCEPT ![t] = "commit"]
  /\ UNCHANGED <<rows, res, conns, keyLock, applied>>

(* A statement fails for another reason: the connection breaks or ctx is   *)
(* cancelled; fn returns the wrapped error.                                *)
StatementFails(t) ==
  /\ txPc[t] \in {"insert", "update", "commit"}
  /\ txPc' = [txPc EXCEPT ![t] = "rollback"]
  /\ res' = [res EXCEPT ![t] = "error"]
  /\ UNCHANGED <<rows, locks, applied>>

Unlock(t) == /\ conns' = conns \ {t} /\ keyLock' = keyLock \ {t}
             /\ rowLock' = [k \in Campaigns |->
                              IF rowLock[k] = t THEN NoCall ELSE rowLock[k]]
             /\ txPc' = [txPc EXCEPT ![t] = "done"]

(* tx.Commit: both writes become visible together.  The answer may be      *)
(* lost, and then the caller gets an error for work that was done.         *)
Commit(t, answered) ==
  /\ txPc[t] = "commit"
  /\ enrollments' = enrollments \cup {Pair(t)}
  /\ enrolledCount' = IF rowLock[Campaign[t]] = t
                      THEN [enrolledCount EXCEPT ![Campaign[t]] = newCount[Campaign[t]]]
                      ELSE enrolledCount
  /\ applied' = applied \cup {t}
  /\ res' = [res EXCEPT ![t] = IF answered THEN "ok" ELSE "error"]
  /\ Unlock(t)
  /\ UNCHANGED <<customers, campaigns, newCount>>

(* Seeded bug: no deferred Rollback on the error path. *)
Rollback_Missing(t) == /\ txPc[t] = "rollback"
                       /\ txPc' = [txPc EXCEPT ![t] = "done"]
                       /\ UNCHANGED <<rows, res, locks, applied>>

(* The deferred tx.Rollback: locks and connection are given back. *)
Rollback(t) == /\ txPc[t] = "rollback"
               /\ Unlock(t)
               /\ UNCHANGED <<rows, res, newCount, applied>>

CallStep(t) ==
  \/ Begin(t) \/ BeginFails(t) \/ Insert(t) \/ Update(t) \/ StatementFails(t)
  \/ (\E answered \in BOOLEAN : Commit(t, answered)) \/ Rollback(t)

AllReturned == (\A t \in Calls : txPc[t] = "done") /\ UNCHANGED enrollmentVars

EnrollmentNext == \/ \E t \in Calls : CallStep(t)
                  \/ \E e \in Emails : Create(e)
                  \/ \E k \in Campaigns : CreateCampaign(k)
                  \/ AllReturned

EnrollmentSpec == EnrollmentInit /\ [][EnrollmentNext]_enrollmentVars

(* A step of a call that does not fail. *)
Progress(t) == \/ Begin(t) \/ Insert(t) \/ Update(t) \/ Rollback(t)
               \/ \E answered \in BOOLEAN : Commit(t, answered)

(* The pool and the lock queues of Postgres are served, so a call that can *)
(* go on again and again does; nothing need ever fail.                     *)
EnrollmentFairness == \A t \in Calls : SF_enrollmentVars(Progress(t))

-----------------------------------------------------------------------------
CallPCs == {"begin", "insert", "update", "commit", "rollback", "done"}
Results == {"none", "ok", "conflict", "notFound", "error"}

EnrollmentTypeOK == /\ customers \subseteq Emails /\ campaigns \subseteq Campaigns
                    /\ enrollments \subseteq customers \X campaigns
                    /\ enrolledCount \in [Campaigns -> Nat] /\ newCount \in [Campaigns -> Nat]
                    /\ txPc \in [Calls -> CallPCs] /\ res \in [Calls -> Results]
                    /\ conns \subseteq Calls /\ keyLock \subseteq conns
                    /\ rowLock \in [Campaigns -> Calls \cup {NoCall}]
                    /\ applied \subseteq Calls

(* What a reader gets, who sees committed rows only. *)
CampaignEnrolledCount(k) == enrolledCount[k]

(* CampaignEnrolledCount is the number of enrollment rows at any time,     *)
(* whatever fails between the two statements and however enrollments of    *)
(* one campaign overlap (lines 152-182).                                   *)
CountMatchesRows ==
  \A k \in Campaigns :
    CampaignEnrolledCount(k) = Cardinality({p \in enrollments : p[2] = k})

(* What a call returns is what happened: nil means its own transaction     *)
(* committed, ErrConflict and ErrNotFound mean it did not, and one pair is *)
(* enrolled by one call only.  An error says nothing (a lost commit).      *)
ResultsHonest ==
  /\ \A t \in Calls :
       /\ res[t] = "ok" => t \in applied
       /\ res[t] = "conflict" => t \notin applied /\ Pair(t) \in enrollments
       /\ res[t] = "notFound" => t \notin applied
  /\ \A t, u \in applied : Pair(t) = Pair(u) => t = u

(* No call keeps a connection or a lock after it has returned, so the pool *)
(* of MaxConns connections cannot be drained by failing calls (line 135).  *)
NothingHeldAfterReturn ==
  /\ Cardinality(conns) <= MaxConns
  /\ \A t \in Calls : txPc[t] = "done" =>
       t \notin conns /\ \A k \in Campaigns : rowLock[k] # t

(* Every call returns: neither the pool nor the locks of two overlapping   *)
(* enrollments make calls wait for each other for ever.                    *)
CallsReturn == \A t \in Calls : <>(txPc[t] = "done")
=============================================================================
