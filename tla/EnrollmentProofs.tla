-------------------------- MODULE EnrollmentProofs --------------------------
(***************************************************************************)
(* Safety of the enrollment transactions for any number of calls,          *)
(* customers, campaigns and pooled connections.                            *)
(*                                                                         *)
(* A call commits a count it computed one statement earlier, so the count  *)
(* is right only because the row lock and the uncommitted key it holds     *)
(* keep everybody else away until then; the inductive invariant says which *)
(* locks each position in inTx implies.                                    *)
(***************************************************************************)
EXTENDS Enrollment, FiniteSetTheorems, TLAPS

(* A connection is held from Begin to the end of the transaction. *)
ConnInv ==
  /\ IsFiniteSet(conns) /\ Cardinality(conns) <= MaxConns
  /\ \A t \in Calls : t \in conns <=> txPc[t] \in {"insert", "update", "commit", "rollback"}

(* An uncommitted row is its transaction's alone, and is not there yet. *)
KeyInv ==
  /\ \A t \in Calls : txPc[t] \in {"update", "commit"} => t \in keyLock
  /\ \A t \in keyLock : /\ txPc[t] \in {"update", "commit", "rollback"}
                        /\ Customer[t] \in customers /\ Campaign[t] \in campaigns
                        /\ Pair(t) \notin enrollments
  /\ \A t, u \in keyLock : Pair(t) = Pair(u) => t = u

(* The count a transaction will commit is still the one to commit. *)
RowInv ==
  /\ \A t \in Calls : txPc[t] = "commit" => rowLock[Campaign[t]] = t
  /\ \A k \in Campaigns : rowLock[k] # NoCall =>
       /\ Campaign[rowLock[k]] = k
       /\ txPc[rowLock[k]] \in {"commit", "rollback"}
       /\ newCount[k] = enrolledCount[k] + 1

(* What has been answered, and what has been done for it. *)
AppliedInv ==
  /\ \A t \in applied : txPc[t] = "done" /\ Pair(t) \in enrollments
                        /\ res[t] \in {"ok", "error"}
  /\ \A t \in Calls : res[t] = "none" <=> txPc[t] \in {"begin", "insert", "update", "commit"}

IInv == /\ EnrollmentTypeOK /\ ConnInv /\ KeyInv /\ RowInv /\ AppliedInv
        /\ IsFiniteSet(enrollments) /\ CountMatchesRows /\ ResultsHonest

-----------------------------------------------------------------------------
LEMMA InitInv == EnrollmentInit => IInv
<1> SUFFICES ASSUME EnrollmentInit
             PROVE  IInv
  OBVIOUS
<1>1. EnrollmentTypeOK
  BY DEF EnrollmentInit, EnrollmentTypeOK, CallPCs, Results
<1>2. ConnInv
  BY EnrollmentAssumption, FS_EmptySet DEF EnrollmentInit, ConnInv
<1>3. KeyInv /\ RowInv /\ AppliedInv
  BY DEF EnrollmentInit, KeyInv, RowInv, AppliedInv
<1>4. IsFiniteSet(enrollments)
  BY FS_EmptySet DEF EnrollmentInit
<1>5. CountMatchesRows
  <2> SUFFICES ASSUME NEW k \in Campaigns
               PROVE  enrolledCount[k] = Cardinality({p \in enrollments : p[2] = k})
    BY DEF CountMatchesRows, CampaignEnrolledCount
  <2>1. {p \in enrollments : p[2] = k} = {}
    BY DEF EnrollmentInit
  <2> QED
    BY <2>1, FS_EmptySet DEF EnrollmentInit
<1>6. ResultsHonest
  BY DEF EnrollmentInit, ResultsHonest
<1> QED
  BY <1>1, <1>2, <1>3, <1>4, <1>5, <1>6 DEF IInv

(* Steps that leave the enrollments and the counts alone. *)
LEMMA CountKept ==
  ASSUME IInv, UNCHANGED <<enrollments, enrolledCount>>
  PROVE  IsFiniteSet(enrollments)' /\ CountMatchesRows'
BY DEF IInv, CountMatchesRows, CampaignEnrolledCount

(* A customer is created. *)
LEMMA CreateInv ==
  ASSUME IInv, NEW e \in Emails, Create(e)
  PROVE  IInv'
<1> USE DEF IInv
<1>1. EnrollmentTypeOK'
  BY EnrollmentAssumption DEF ConnInv, KeyInv, EnrollmentTypeOK, CallPCs, Results,
     Pair, Create, locks
<1>2. ConnInv'
  BY EnrollmentAssumption DEF ConnInv, EnrollmentTypeOK, CallPCs, Results, Pair,
     Create, locks
<1>3. KeyInv'
  BY EnrollmentAssumption DEF ConnInv, KeyInv, EnrollmentTypeOK, CallPCs, Results,
     Pair, Create, locks
<1>4. RowInv'
  BY EnrollmentAssumption DEF RowInv, EnrollmentTypeOK, CallPCs, Results, Pair,
     Create, locks
<1>5. AppliedInv'
  BY EnrollmentAssumption DEF AppliedInv, EnrollmentTypeOK, CallPCs, Results, Pair,
     Create, locks
<1>6. IsFiniteSet(enrollments)' /\ CountMatchesRows'
  BY CountKept DEF Create, locks
<1>7. ResultsHonest'
  BY EnrollmentAssumption DEF AppliedInv, ResultsHonest, EnrollmentTypeOK, CallPCs,
     Results, Pair, Create, locks
<1> QED
  BY <1>1, <1>2, <1>3, <1>4, <1>5, <1>6, <1>7

(* A campaign is created. *)
LEMMA CreateCampaignInv ==
  ASSUME IInv, NEW k \in Campaigns, CreateCampaign(k)
  PROVE  IInv'
<1> USE DEF IInv
<1>1. EnrollmentTypeOK'
  BY EnrollmentAssumption DEF ConnInv, KeyInv, EnrollmentTypeOK, CallPCs, Results,
     Pair, CreateCampaign, locks
<1>2. ConnInv'
  BY EnrollmentAssumption DEF ConnInv, EnrollmentTypeOK, CallPCs, Results, Pair,
     CreateCampaign, locks
<1>3. KeyInv'
  BY EnrollmentAssumption DEF ConnInv, KeyInv, EnrollmentTypeOK, CallPCs, Results,
     Pair, CreateCampaign, locks
<1>4. RowInv'
  BY EnrollmentAssumption DEF RowInv, EnrollmentTypeOK, CallPCs, Results, Pair,
     CreateCampaign, locks
<1>5. AppliedInv'
  BY EnrollmentAssumption DEF AppliedInv, EnrollmentTypeOK, CallPCs, Results, Pair,
     CreateCampaign, locks
<1>6. IsFiniteSet(enrollments)' /\ CountMatchesRows'
  BY CountKept DEF CreateCampaign, locks
<1>7. ResultsHonest'
  BY EnrollmentAssumption DEF AppliedInv, ResultsHonest, EnrollmentTypeOK, CallPCs,
     Results, Pair, CreateCampaign, locks
<1> QED
  BY <1>1, <1>2, <1>3, <1>4, <1>5, <1>6, <1>7

(* A call gets a connection. *)
LEMMA BeginInv ==
  ASSUME IInv, NEW t \in Calls, Begin(t)
  PROVE  IInv'
<1> USE DEF IInv
<1>1. EnrollmentTypeOK'
  BY EnrollmentAssumption DEF ConnInv, KeyInv, EnrollmentTypeOK, CallPCs, Results,
     Pair, Begin, PoolHasRoom, rows
<1>2. ConnInv'
  <2>1. IsFiniteSet(conns') /\ Cardinality(conns') <= MaxConns
    <3>1. IsFiniteSet(conns) /\ Cardinality(conns) \in Nat /\ conns' = conns \cup {t}
      BY FS_CardinalityType DEF ConnInv, Begin
    <3>2. /\ IsFiniteSet(conns \cup {t})
          /\ Cardinality(conns \cup {t}) =
               IF t \in conns THEN Cardinality(conns) ELSE Cardinality(conns) + 1
      BY <3>1, FS_AddElement
    <3> QED
      BY <3>1, <3>2, EnrollmentAssumption DEF Begin, PoolHasRoom
  <2>2. \A u \in Calls : u \in conns' <=> txPc'[u] \in {"insert", "update", "commit", "rollback"}
    BY DEF ConnInv, EnrollmentTypeOK, Begin
  <2> QED
    BY <2>1, <2>2 DEF ConnInv
<1>3. KeyInv'
  BY EnrollmentAssumption DEF ConnInv, KeyInv, EnrollmentTypeOK, CallPCs, Results,
     Pair, Begin, PoolHasRoom, rows
<1>4. RowInv'
  BY EnrollmentAssumption DEF RowInv, EnrollmentTypeOK, CallPCs, Results, Pair, Begin,
     PoolHasRoom, rows
<1>5. AppliedInv'
  BY EnrollmentAssumption DEF AppliedInv, EnrollmentTypeOK, CallPCs, Results, Pair,
     Begin, PoolHasRoom, rows
<1>6. IsFiniteSet(enrollments)' /\ CountMatchesRows'
  BY CountKept DEF Begin, PoolHasRoom, rows
<1>7. ResultsHonest'
  BY EnrollmentAssumption DEF AppliedInv, ResultsHonest, EnrollmentTypeOK, CallPCs,
     Results, Pair, Begin, PoolHasRoom, rows
<1> QED
  BY <1>1, <1>2, <1>3, <1>4, <1>5, <1>6, <1>7

(* The pool fails. *)
LEMMA BeginFailsInv ==
  ASSUME IInv, NEW t \in Calls, BeginFails(t)
  PROVE  IInv'
<1> USE DEF IInv
<1>1. EnrollmentTypeOK'
  BY EnrollmentAssumption DEF ConnInv, KeyInv, EnrollmentTypeOK, CallPCs, Results,
     Pair, BeginFails, rows, locks
<1>2. ConnInv'
  BY EnrollmentAssumption DEF ConnInv, EnrollmentTypeOK, CallPCs, Results, Pair,
     BeginFails, rows, locks
<1>3. KeyInv'
  BY EnrollmentAssumption DEF ConnInv, KeyInv, EnrollmentTypeOK, CallPCs, Results,
     Pair, BeginFails, rows, locks
<1>4. RowInv'
  BY EnrollmentAssumption DEF RowInv, EnrollmentTypeOK, CallPCs, Results, Pair,
     BeginFails, rows, locks
<1>5. AppliedInv'
  BY EnrollmentAssumption DEF AppliedInv, EnrollmentTypeOK, CallPCs, Results, Pair,
     BeginFails, rows, locks
<1>6. IsFiniteSet(enrollments)' /\ CountMatchesRows'
  BY CountKept DEF BeginFails, rows, locks
<1>7. ResultsHonest'
  BY EnrollmentAssumption DEF AppliedInv, ResultsHonest, EnrollmentTypeOK, CallPCs,
     Results, Pair, BeginFails, rows, locks
<1> QED
  BY <1>1, <1>2, <1>3, <1>4, <1>5, <1>6, <1>7

(* The INSERT is executed. *)
LEMMA InsertInv ==
  ASSUME IInv, NEW t \in Calls, Insert(t)
  PROVE  IInv'
<1> USE DEF IInv
<1>1. EnrollmentTypeOK'
  BY EnrollmentAssumption DEF ConnInv, KeyInv, EnrollmentTypeOK, CallPCs, Results,
     Pair, Insert, InsertResult, rows
<1>2. ConnInv'
  BY EnrollmentAssumption DEF ConnInv, EnrollmentTypeOK, CallPCs, Results, Pair,
     Insert, InsertResult, rows
<1>3. KeyInv'
  BY EnrollmentAssumption DEF ConnInv, KeyInv, EnrollmentTypeOK, CallPCs, Results,
     Pair, Insert, InsertResult, rows
<1>4. RowInv'
  BY EnrollmentAssumption DEF RowInv, EnrollmentTypeOK, CallPCs, Results, Pair,
     Insert, InsertResult, rows
<1>5. AppliedInv'
  BY EnrollmentAssumption DEF AppliedInv, EnrollmentTypeOK, CallPCs, Results, Pair,
     Insert, InsertResult, rows
<1>6. IsFiniteSet(enrollments)' /\ CountMatchesRows'
  BY CountKept DEF Insert, InsertResult, rows
<1>7. ResultsHonest'
  BY EnrollmentAssumption DEF AppliedInv, ResultsHonest, EnrollmentTypeOK, CallPCs,
     Results, Pair, Insert, InsertResult, rows
<1> QED
  BY <1>1, <1>2, <1>3, <1>4, <1>5, <1>6, <1>7

(* The UPDATE is executed. *)
LEMMA UpdateInv ==
  ASSUME IInv, NEW t \in Calls, Update(t)
  PROVE  IInv'
<1> USE DEF IInv
<1>1. EnrollmentTypeOK'
  <2>1. Campaign[t] \in Campaigns
    BY EnrollmentAssumption
  <2>2. newCount' \in [Campaigns -> Nat] /\ rowLock' \in [Campaigns -> Calls \cup {NoCall}]
    BY <2>1 DEF EnrollmentTypeOK, Update
  <2> QED
    BY <2>2 DEF EnrollmentTypeOK, CallPCs, Update, rows
<1>2. ConnInv'
  BY EnrollmentAssumption DEF ConnInv, EnrollmentTypeOK, CallPCs, Results, Pair,
     Update, rows
<1>3. KeyInv'
  BY EnrollmentAssumption DEF ConnInv, KeyInv, EnrollmentTypeOK, CallPCs, Results,
     Pair, Update, rows
<1>4. RowInv'
  <2>1. Campaign[t] \in Campaigns /\ t # NoCall
    BY EnrollmentAssumption
  <2>2. ASSUME NEW u \in Calls, txPc'[u] = "commit"
        PROVE  rowLock'[Campaign[u]] = u
    <3>1. CASE u = t
      BY <2>1, <3>1 DEF EnrollmentTypeOK, Update
    <3>2. CASE u # t
      <4>1. txPc[u] = "commit" /\ rowLock[Campaign[u]] = u /\ u # NoCall
        BY <2>2, <3>2, EnrollmentAssumption DEF EnrollmentTypeOK, RowInv, Update
      <4> QED
        BY <4>1, <2>1 DEF EnrollmentTypeOK, Update
    <3> QED
      BY <3>1, <3>2
  <2>3. ASSUME NEW k \in Campaigns, rowLock'[k] # NoCall
        PROVE  /\ Campaign[rowLock'[k]] = k
               /\ txPc'[rowLock'[k]] \in {"commit", "rollback"}
               /\ newCount'[k] = enrolledCount'[k] + 1
    <3>1. CASE k = Campaign[t]
      BY <2>1, <3>1 DEF EnrollmentTypeOK, Update, rows
    <3>2. CASE k # Campaign[t]
      <4>1. rowLock'[k] = rowLock[k] /\ newCount'[k] = newCount[k] /\ rowLock[k] \in Calls
        BY <2>1, <2>3, <3>2 DEF EnrollmentTypeOK, Update
      <4> QED
        BY <2>3, <4>1 DEF EnrollmentTypeOK, RowInv, Update, rows
    <3> QED
      BY <3>1, <3>2
  <2> QED
    BY <2>2, <2>3 DEF RowInv
<1>5. AppliedInv'
  BY EnrollmentAssumption DEF AppliedInv, EnrollmentTypeOK, CallPCs, Results, Pair,
     Update, rows
<1>6. IsFiniteSet(enrollments)' /\ CountMatchesRows'
  BY CountKept DEF Update, rows
<1>7. ResultsHonest'
  BY EnrollmentAssumption DEF AppliedInv, ResultsHonest, EnrollmentTypeOK, CallPCs,
     Results, Pair, Update, rows
<1> QED
  BY <1>1, <1>2, <1>3, <1>4, <1>5, <1>6, <1>7

(* A statement fails. *)
LEMMA StatementFailsInv ==
  ASSUME IInv, NEW t \in Calls, StatementFails(t)
  PROVE  IInv'
<1> USE DEF IInv
<1>1. EnrollmentTypeOK'
  BY EnrollmentAssumption DEF ConnInv, KeyInv, EnrollmentTypeOK, CallPCs, Results,
     Pair, StatementFails, rows, locks
<1>2. ConnInv'
  BY EnrollmentAssumption DEF ConnInv, EnrollmentTypeOK, CallPCs, Results, Pair,
     StatementFails, rows, locks
<1>3. KeyInv'
  BY EnrollmentAssumption DEF ConnInv, KeyInv, EnrollmentTypeOK, CallPCs, Results,
     Pair, StatementFails, rows, locks
<1>4. RowInv'
  BY EnrollmentAssumption DEF RowInv, EnrollmentTypeOK, CallPCs, Results, Pair,
     StatementFails, rows, locks
<1>5. AppliedInv'
  BY EnrollmentAssumption DEF AppliedInv, EnrollmentTypeOK, CallPCs, Results, Pair,
     StatementFails, rows, locks
<1>6. IsFiniteSet(enrollments)' /\ CountMatchesRows'
  BY CountKept DEF StatementFails, rows, locks
<1>7. ResultsHonest'
  BY EnrollmentAssumption DEF AppliedInv, ResultsHonest, EnrollmentTypeOK, CallPCs,
     Results, Pair, StatementFails, rows, locks
<1> QED
  BY <1>1, <1>2, <1>3, <1>4, <1>5, <1>6, <1>7

(* Giving back a call's connection and locks, at Commit and at Rollback. *)
LEMMA UnlockInv ==
  ASSUME IInv, NEW t \in Calls, txPc[t] \in {"commit", "rollback"}, Unlock(t),
         newCount' = newCount,
         \A k \in Campaigns : rowLock[k] # t => enrolledCount'[k] = enrolledCount[k]
  PROVE  ConnInv' /\ RowInv'
<1> USE DEF IInv, Unlock
<1>1. IsFiniteSet(conns') /\ Cardinality(conns') <= MaxConns
  BY EnrollmentAssumption, FS_RemoveElement, FS_CardinalityType DEF ConnInv,
     EnrollmentTypeOK
<1>2. \A u \in Calls : u \in conns' <=> txPc'[u] \in {"insert", "update", "commit", "rollback"}
  BY DEF ConnInv, EnrollmentTypeOK
<1>3. \A u \in Calls : txPc'[u] = "commit" => rowLock'[Campaign[u]] = u
  <2> SUFFICES ASSUME NEW u \in Calls, txPc'[u] = "commit"
               PROVE  rowLock'[Campaign[u]] = u
    OBVIOUS
  <2>1. u # t /\ txPc[u] = "commit"
    BY DEF EnrollmentTypeOK
  <2>2. Campaign[u] \in Campaigns /\ rowLock[Campaign[u]] = u
    BY <2>1, EnrollmentAssumption DEF RowInv
  <2> QED
    BY <2>1, <2>2
<1>4. ASSUME NEW k \in Campaigns, rowLock'[k] # NoCall
      PROVE  /\ Campaign[rowLock'[k]] = k
             /\ txPc'[rowLock'[k]] \in {"commit", "rollback"}
             /\ newCount'[k] = enrolledCount'[k] + 1
  <2>1. rowLock[k] # t /\ rowLock'[k] = rowLock[k] /\ rowLock[k] \in Calls
    BY <1>4 DEF EnrollmentTypeOK
  <2> QED
    BY <1>4, <2>1 DEF RowInv, EnrollmentTypeOK
<1> QED
  BY <1>1, <1>2, <1>3, <1>4 DEF ConnInv, RowInv

(* The transaction is rolled back. *)
LEMMA RollbackInv ==
  ASSUME IInv, NEW t \in Calls, Rollback(t)
  PROVE  IInv'
<1> USE DEF IInv
<1>1. EnrollmentTypeOK'
  BY EnrollmentAssumption DEF ConnInv, KeyInv, EnrollmentTypeOK, CallPCs, Results,
     Pair, Rollback, Unlock, rows
<1>2. ConnInv' /\ RowInv'
  BY UnlockInv DEF Rollback, rows
<1>3. KeyInv'
  BY EnrollmentAssumption DEF ConnInv, KeyInv, EnrollmentTypeOK, CallPCs, Results,
     Pair, Rollback, Unlock, rows
<1>4. AppliedInv'
  BY EnrollmentAssumption DEF AppliedInv, EnrollmentTypeOK, CallPCs, Results, Pair,
     Rollback, Unlock, rows
<1>5. IsFiniteSet(enrollments)' /\ CountMatchesRows'
  BY CountKept DEF Rollback, Unlock, rows
<1>6. ResultsHonest'
  BY EnrollmentAssumption DEF AppliedInv, ResultsHonest, EnrollmentTypeOK, CallPCs,
     Results, Pair, Rollback, Unlock, rows
<1> QED
  BY <1>1, <1>2, <1>3, <1>4, <1>5, <1>6

(* The transaction commits. *)
LEMMA CommitInv ==
  ASSUME IInv, NEW t \in Calls, NEW answered \in BOOLEAN, Commit(t, answered)
  PROVE  IInv'
<1> USE DEF IInv
<1>0. Campaign[t] \in Campaigns /\ Pair(t) \in customers \X campaigns
  BY EnrollmentAssumption DEF Pair, KeyInv, EnrollmentTypeOK, Commit
<1>1. EnrollmentTypeOK'
  <2>1. enrolledCount' \in [Campaigns -> Nat] /\ rowLock' \in [Campaigns -> Calls \cup {NoCall}]
    BY <1>0 DEF EnrollmentTypeOK, Commit, Unlock
  <2>2. enrollments' \subseteq customers' \X campaigns'
    BY <1>0 DEF EnrollmentTypeOK, Commit
  <2>3. res' \in [Calls -> Results] /\ txPc' \in [Calls -> CallPCs]
    BY DEF EnrollmentTypeOK, Commit, Unlock, CallPCs, Results
  <2> QED
    BY <2>1, <2>2, <2>3 DEF EnrollmentTypeOK, Commit, Unlock
<1>2. ConnInv' /\ RowInv'
  <2>1. \A k \in Campaigns : rowLock[k] # t => enrolledCount'[k] = enrolledCount[k]
    BY DEF EnrollmentTypeOK, Commit
  <2> QED
    BY <2>1, UnlockInv DEF Commit
<1>3. KeyInv'
  BY EnrollmentAssumption DEF ConnInv, KeyInv, EnrollmentTypeOK, CallPCs, Results,
     Pair, Commit, Unlock
<1>4. AppliedInv'
  BY EnrollmentAssumption DEF AppliedInv, EnrollmentTypeOK, CallPCs, Results, Pair,
     Commit, Unlock
<1>5. IsFiniteSet(enrollments)'
  BY FS_AddElement DEF Commit
<1>6. CountMatchesRows'
  <2> SUFFICES ASSUME NEW k \in Campaigns
               PROVE  enrolledCount'[k] = Cardinality({p \in enrollments' : p[2] = k})
    BY DEF CountMatchesRows, CampaignEnrolledCount
  <2> DEFINE Rows == {p \in enrollments : p[2] = k}
  <2>1. enrolledCount[k] = Cardinality(Rows) /\ IsFiniteSet(Rows)
    BY FS_Subset DEF CountMatchesRows, CampaignEnrolledCount
  <2>2. Pair(t)[2] = Campaign[t] /\ Campaign[t] \in Campaigns
    BY EnrollmentAssumption DEF Pair
  <2>3. CASE Campaign[t] = k
    <3>1. Pair(t) \notin enrollments
      BY DEF Commit, KeyInv
    <3>2. {p \in enrollments' : p[2] = k} = Rows \cup {Pair(t)}
      BY <2>2, <2>3 DEF Commit
    <3>3. Cardinality(Rows \cup {Pair(t)}) = Cardinality(Rows) + 1
      BY <2>1, <3>1, FS_AddElement
    <3>4. rowLock[k] = t /\ t # NoCall
      BY <2>3, EnrollmentAssumption DEF Commit, RowInv
    <3>5. enrolledCount'[k] = enrolledCount[k] + 1
      BY <2>2, <2>3, <3>4 DEF Commit, RowInv, EnrollmentTypeOK
    <3> QED
      BY <2>1, <3>2, <3>3, <3>5
  <2>4. CASE Campaign[t] # k
    <3>1. {p \in enrollments' : p[2] = k} = Rows
      BY <2>2, <2>4 DEF Commit
    <3>2. enrolledCount'[k] = enrolledCount[k]
      BY <2>4 DEF Commit, EnrollmentTypeOK
    <3> QED
      BY <2>1, <3>1, <3>2
  <2> QED
    BY <2>3, <2>4
<1>7. ResultsHonest'
  <2>1. \A u \in applied : Pair(u) # Pair(t)
    BY DEF AppliedInv, KeyInv, EnrollmentTypeOK, Commit
  <2>2. \A u, v \in applied' : Pair(u) = Pair(v) => u = v
    BY <2>1 DEF ResultsHonest, Commit
  <2>3. ASSUME NEW u \in Calls
        PROVE  /\ res'[u] = "ok" => u \in applied'
               /\ res'[u] = "conflict" => u \notin applied' /\ Pair(u) \in enrollments'
               /\ res'[u] = "notFound" => u \notin applied'
    BY DEF ResultsHonest, EnrollmentTypeOK, Commit
  <2>4. \A u \in Calls : Pair(u)' = Pair(u)
    BY DEF Pair
  <2> QED
    BY <2>2, <2>3, <2>4 DEF ResultsHonest, EnrollmentTypeOK
<1> QED
  BY <1>1, <1>2, <1>3, <1>4, <1>5, <1>6, <1>7

LEMMA StutterInv == IInv /\ UNCHANGED enrollmentVars => IInv'
BY DEF IInv, EnrollmentTypeOK, ConnInv, KeyInv, RowInv, AppliedInv, CountMatchesRows,
   CampaignEnrolledCount, ResultsHonest, Pair, enrollmentVars, rows, locks

LEMMA StepInv == IInv /\ [EnrollmentNext]_enrollmentVars => IInv'
BY CreateInv, CreateCampaignInv, BeginInv, BeginFailsInv, InsertInv, UpdateInv,
   StatementFailsInv, CommitInv, RollbackInv, StutterInv
   DEF EnrollmentNext, CallStep, AllReturned

(* The invariant holds in every reachable state. *)
THEOREM Invariant == EnrollmentSpec => []IInv
BY InitInv, StepInv, PTL DEF EnrollmentSpec

(* The rows, the locks and the calls keep their types; in particular an    *)
(* enrollment always has its customer and its campaign.                    *)
THEOREM TypeCorrect == EnrollmentSpec => []EnrollmentTypeOK
<1>1. IInv => EnrollmentTypeOK
  BY DEF IInv
<1> QED
  BY <1>1, Invariant, PTL

(* The counter equals the rows whatever fails and however the enrollments  *)
(* overlap (customer.go, lines 129-182).                                   *)
THEOREM CountMatchesRowsHolds == EnrollmentSpec => []CountMatchesRows
<1>1. IInv => CountMatchesRows
  BY DEF IInv
<1> QED
  BY <1>1, Invariant, PTL

(* What a call returns is what happened (customer.go, lines 129-182). *)
THEOREM ResultsHonestHolds == EnrollmentSpec => []ResultsHonest
<1>1. IInv => ResultsHonest
  BY DEF IInv
<1> QED
  BY <1>1, Invariant, PTL

(* A call that has returned holds neither a connection nor a lock          *)
(* (customer.go, lines 129-143).                                           *)
THEOREM NothingHeldAfterReturnHolds == EnrollmentSpec => []NothingHeldAfterReturn
<1>1. IInv => NothingHeldAfterReturn
  BY EnrollmentAssumption DEF IInv, EnrollmentTypeOK, ConnInv, RowInv,
     NothingHeldAfterReturn
<1> QED
  BY <1>1, Invariant, PTL
=============================================================================
