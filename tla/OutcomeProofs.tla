---------------------------- MODULE OutcomeProofs ---------------------------
(***************************************************************************)
(* What the record of attempts guarantees, for every instance of Pipeline: *)
(* every outcome a page shows is on record, and the record is one          *)
(* append-only log per page and engine (the refinement of AttemptLog).     *)
(***************************************************************************)
EXTENDS PipelineProofs, Sequences

-----------------------------------------------------------------------------
(* Outcomes on record.                                                     *)

\* A step that loses no attempt, and gives no page an outcome it did not have.
LEMMA OutcomesFrame ==
    ASSUME OutcomesOnRecord, extractions \subseteq extractions',
           \A p \in Pages : pages'[p].status \in ExtractionStatus =>
                pages'[p].status = pages[p].status
    PROVE  OutcomesOnRecord'
<1>1. SUFFICES ASSUME NEW p \in Pages, pages'[p].status \in ExtractionStatus
               PROVE  \E x \in extractions' : x.page = p /\ x.status = pages'[p].status
  BY DEF OutcomesOnRecord
<1>2. PICK x \in extractions : x.page = p /\ x.status = pages[p].status
  BY <1>1 DEF OutcomesOnRecord
<1> QED
  BY <1>1, <1>2

LEMMA OutcomesCommitAttempt ==
    ASSUME TypeOK, AttemptsFollow, OutcomesOnRecord, NEW w \in Workers, CommitAttempt(w)
    PROVE  OutcomesOnRecord'
<1> DEFINE s == step[w]
           new == Inserted(w)
<1>1. s \in ExtractStep /\ s.outcome \in ExtractionStatus
  BY StepShapes DEF TypeOK, CommitAttempt, AtStage, AttemptsFollow, Recording
<1>2. /\ extractions' = extractions \cup {new}
      /\ pages' = [pages EXCEPT ![s.page] = Finished(s, @)]
      /\ new.page = s.page /\ new.status = s.outcome
  BY DEF CommitAttempt, Inserted
<1>3. s.page \in Pages /\ pages \in [Pages -> PageRow]
  BY <1>1 DEF ExtractStep, TypeOK, TablesTypeOK
<1>4. /\ pages'[s.page].status \in {s.outcome, pages[s.page].status}
      /\ \A p \in Pages \ {s.page} : pages'[p] = pages[p]
  BY <1>2, <1>3 DEF Finished, Flushed
<1> HIDE DEF new, s
<1>5. SUFFICES ASSUME NEW p \in Pages, pages'[p].status \in ExtractionStatus
               PROVE  \E x \in extractions' : x.page = p /\ x.status = pages'[p].status
  BY DEF OutcomesOnRecord
<1>6. CASE p = s.page /\ pages'[p].status = s.outcome
  BY <1>2, <1>6
<1>7. CASE pages'[p].status = pages[p].status
  <2>1. PICK x \in extractions : x.page = p /\ x.status = pages[p].status
    BY <1>5, <1>7 DEF OutcomesOnRecord
  <2> QED
    BY <1>2, <1>7, <2>1
<1> QED
  BY <1>4, <1>6, <1>7

\* Only a commit of a worker stores an attempt.
LEMMA OnlyCommitsRecord ==
    ASSUME [Next]_vars
    PROVE  UNCHANGED extractions \/ \E w \in Workers : CommitAttempt(w)
<1>1. CASE UNCHANGED vars
  BY <1>1 DEF vars, tableVars
<1>2. ASSUME NEW w \in Workers, WorkerProgress(w)
      PROVE  UNCHANGED extractions \/ CommitAttempt(w)
  BY <1>2 DEF WorkerProgress, ReleaseAbandonedClaims, ClaimDocuments, ClaimPages, EndTick,
              BeginConvert, ConvertSucceeds, ConvertFails, BeginExtract, VendorAnswers,
              RecordAttempt, AttemptCollides, DeriveStatus, tableVars
<1>3. ASSUME NEW w \in Workers, WorkerFault(w)
      PROVE  UNCHANGED extractions
  BY <1>3 DEF WorkerFault, StepRaises, Crash, tableVars
<1>4. ASSUME NEW r \in Requests, RequestNext(r)
      PROVE  UNCHANGED extractions
  BY <1>4 DEF RequestNext, RetryArrives, RetryProgress, RetryLoads, RetrySelectsFailed,
              RetrySelectsPage, RetryRequeues, RetryRestarts, tableVars
<1>5. CASE Environment
  BY <1>5 DEF Environment, DocumentArrives, AdministratorSwitchesEngines, ClaimsAge,
              DocumentClaimAges, PageClaimAges
<1> QED
  BY <1>1, <1>2, <1>3, <1>4, <1>5 DEF Next, WorkerNext

\* A worker's step that is not a commit gives no page an outcome.
LEMMA OutcomesProgress ==
    ASSUME TypeOK, NEW w \in Workers, WorkerProgress(w), ~CommitAttempt(w), NEW p \in Pages,
           pages'[p].status \in ExtractionStatus
    PROVE  pages'[p].status = pages[p].status
<1>1. pages \in [Pages -> PageRow]
  BY DEF TypeOK, TablesTypeOK
<1>2. CASE ReleaseAbandonedClaims(w)
  BY <1>1, <1>2 DEF ReleaseAbandonedClaims, Released, ExtractionStatus, PageRow
<1>3. CASE ClaimPages(w)
  <2>1. PICK S \in Batches(ClaimablePages) :
            pages' = [q \in Pages |-> IF q \in S THEN ClaimedPage(pages[q]) ELSE pages[q]]
    BY <1>3 DEF ClaimPages
  <2> QED
    BY <1>1, <2>1 DEF ClaimedPage, ExtractionStatus, PageRow
<1>4. CASE ConvertSucceeds(w)
  <2>1. CASE UNCHANGED pages
    BY <2>1
  <2>2. CASE ~UNCHANGED pages
    <3>1. PICK n \in PageNos : pages' = [q \in Pages |->
                IF q[1] = step[w].document /\ q[2] <= n THEN NewPage ELSE pages[q]]
      BY <1>4, <2>2 DEF ConvertSucceeds
    <3>2. NewPage.status = "pending"
      BY DEF NewPage, AbsentPage
    <3> QED
      BY <3>1, <3>2 DEF ExtractionStatus
  <2> QED
    BY <2>1, <2>2
<1>5. CASE UNCHANGED pages
  BY <1>5
<1> QED
  BY <1>2, <1>3, <1>4, <1>5
     DEF WorkerProgress, ClaimDocuments, EndTick, BeginConvert, ConvertFails, BeginExtract,
         VendorAnswers, RecordAttempt, AttemptCollides, DeriveStatus, tableVars

\* Nor does a request, the passing of time or anything else.
LEMMA OutcomesOthers ==
    ASSUME TypeOK,
           \/ \E w \in Workers : WorkerFault(w)
           \/ \E r \in Requests : RequestNext(r)
           \/ Environment,
           NEW p \in Pages, pages'[p].status \in ExtractionStatus
    PROVE  pages'[p].status = pages[p].status
<1>1. pages \in [Pages -> PageRow]
  BY DEF TypeOK, TablesTypeOK
<1>2. ASSUME NEW w \in Workers, WorkerFault(w)
      PROVE  pages'[p].status = pages[p].status
  BY <1>2 DEF WorkerFault, StepRaises, Crash, tableVars
<1>3. ASSUME NEW r \in Requests, RequestNext(r)
      PROVE  pages'[p].status = pages[p].status
  <2>1. CASE RetryRequeues(r)
    <3>1. pages' = [q \in Pages |->
            IF q \in DOMAIN request[r].targets THEN Requeued(r, q) ELSE pages[q]]
      BY <2>1 DEF RetryRequeues
    <3>2. Requeued(r, p).status = "pending"
      BY <1>1 DEF Requeued, PageRow
    <3> QED
      BY <3>1, <3>2 DEF ExtractionStatus
  <2>2. CASE UNCHANGED pages
    BY <2>2
  <2> QED
    BY <1>3, <2>1, <2>2 DEF RequestNext, RetryArrives, RetryProgress, RetryLoads,
            RetrySelectsFailed, RetrySelectsPage, RetryRestarts, tableVars
<1>4. CASE Environment
  <2>1. ASSUME NEW q \in Pages, PageClaimAges(q)
        PROVE  pages'[p].status = pages[p].status
    BY <1>1, <2>1 DEF PageClaimAges, PageRow
  <2> QED
    BY <1>4, <2>1 DEF Environment, DocumentArrives, AdministratorSwitchesEngines, ClaimsAge,
                      DocumentClaimAges
<1> QED
  BY <1>2, <1>3, <1>4

LEMMA OutcomesNext ==
    ASSUME TypeOK, AttemptsFollow, OutcomesOnRecord, [Next]_vars
    PROVE  OutcomesOnRecord'
<1>1. CASE \E w \in Workers : CommitAttempt(w)
  BY <1>1, OutcomesCommitAttempt
<1>2. CASE ~\E w \in Workers : CommitAttempt(w)
  <2>1. UNCHANGED extractions
    BY <1>2, OnlyCommitsRecord
  <2>2. ASSUME NEW p \in Pages, pages'[p].status \in ExtractionStatus
        PROVE  pages'[p].status = pages[p].status
    BY <1>2, <2>2, OutcomesProgress, OutcomesOthers DEF Next, WorkerNext, vars, tableVars
  <2> QED
    BY <2>1, <2>2, OutcomesFrame
<1> QED
  BY <1>1, <1>2

\* A page never shows an outcome that no attempt of it has: status and attempt
\* are committed together, and a step that loaded the page when it was finished
\* already, because its claim was released, leaves it with an outcome on record.
THEOREM OutcomesAlwaysOnRecord == Spec => []OutcomesOnRecord
<1>1. Init => OutcomesOnRecord
  <2>1. AbsentPage.status \notin ExtractionStatus
    BY DEF AbsentPage, ExtractionStatus
  <2> QED
    BY <2>1 DEF Init, TablesInit, OutcomesOnRecord
<1>2. InductiveInvariant /\ OutcomesOnRecord /\ [Next]_vars => OutcomesOnRecord'
  BY OutcomesNext DEF InductiveInvariant, AttemptsInvariant
<1> QED
  BY <1>1, <1>2, InductiveInvariantHolds, PTL DEF Spec

-----------------------------------------------------------------------------
(* The record is an append-only log (AttemptLog).                          *)

\* The attempt of a number, when there is one only.
LEMMA TheAttempt ==
    ASSUME NEW S, NEW x \in S, \A y \in S : y.attempt_no = x.attempt_no => y = x
    PROVE  (CHOOSE y \in S : y.attempt_no = x.attempt_no) = x
  OBVIOUS

\* What a log holds, for a set of attempts whose numbers are 1..k.
StatusOf(S, n) == (CHOOSE x \in S : x.attempt_no = n).status

LEMMA HistoryIs ==
    ASSUME NEW p, NEW e
    PROVE  History(p, e) = [n \in AttemptNos(p, e) |-> StatusOf(Attempts(p, e), n)]
  BY DEF History, StatusOf

LEMMA HistoryType ==
    ASSUME TypeOK, Contiguous, NEW p \in Pages, NEW e \in Engines
    PROVE  History(p, e) \in Seq(ExtractionStatus)
<1>1. PICK k \in Nat : AttemptNos(p, e) = 1..k
  BY DEF Contiguous
<1>2. \A n \in 1..k : StatusOf(Attempts(p, e), n) \in ExtractionStatus
  <2>1. SUFFICES ASSUME NEW n \in 1..k
                 PROVE  StatusOf(Attempts(p, e), n) \in ExtractionStatus
    OBVIOUS
  <2>2. \E x \in Attempts(p, e) : x.attempt_no = n
    BY <1>1 DEF AttemptNos
  <2>3. Attempts(p, e) \subseteq ExtractionRow
    BY DEF Attempts, TypeOK, TablesTypeOK
  <2> QED
    BY <2>2, <2>3 DEF StatusOf, ExtractionRow
<1> QED
  BY <1>1, <1>2, HistoryIs

\* A commit appends its outcome to one log.
LEMMA CommitAppends ==
    ASSUME TypeOK, Numbering, Numbering', NEW w \in Workers, CommitAttempt(w)
    PROVE  \E s \in Pages \X Engines, o \in ExtractionStatus :
             Logs' = [Logs EXCEPT ![s] = Append(@, o)]
<1>1. PICK new : new = Inserted(w)
  OBVIOUS
<1>2. PICK P, E, o : P = step[w].page /\ E = step[w].engine /\ o = step[w].outcome
  OBVIOUS
<1>3. P \in Pages /\ E \in Engines /\ o \in ExtractionStatus
  BY <1>2, StepShapes DEF TypeOK, CommitAttempt, AtStage, Numbering, AttemptsFollow, Recording,
                          ExtractStep
<1>4. /\ extractions' = extractions \cup {new}
      /\ new.page = P /\ new.engine_key = E /\ new.status = o
      /\ new.attempt_no = step[w].attempt_no
  BY <1>1, <1>2 DEF CommitAttempt, Inserted
<1>5. \A x \in extractions : ~SameKey(x, new)
  BY <1>1 DEF CommitAttempt, AtStage, Numbering, KeysHeldOnce, KeyStored, Holding
<1>6. ASSUME NEW p \in Pages, NEW e \in Engines, <<p, e>> # <<P, E>>
      PROVE  History(p, e)' = History(p, e)
  <2>1. Attempts(p, e)' = Attempts(p, e)
    BY <1>4, <1>6 DEF Attempts
  <2> QED
    BY <2>1 DEF History, AttemptNos
<1>7. Attempts(P, E)' = Attempts(P, E) \cup {new}
  BY <1>4 DEF Attempts
<1>8. PICK k \in Nat : AttemptNos(P, E) = 1..k
  BY <1>3 DEF Numbering, Contiguous
<1>9. new.attempt_no = k + 1
  <2>1. new.attempt_no \in Nat \ {0} /\ (new.attempt_no = 1 \/ new.attempt_no - 1 \in 1..k)
    BY <1>2, <1>4, <1>8 DEF CommitAttempt, AtStage, Numbering, AttemptsFollow, Recording
  <2>2. new.attempt_no \notin 1..k
    BY <1>4, <1>5, <1>8 DEF AttemptNos, Attempts, SameKey
  <2> QED
    BY <2>1, <2>2
<1>10. AttemptNos(P, E)' = 1..(k + 1)
  <2>1. AttemptNos(P, E)' = AttemptNos(P, E) \cup {k + 1}
    BY <1>7, <1>9 DEF AttemptNos
  <2> QED
    BY <1>8, <2>1
<1>11. PICK A, B : A = Attempts(P, E) /\ B = Attempts(P, E)'
  OBVIOUS
<1>12. B = A \cup {new} /\ \A y \in A : y.attempt_no # k + 1
  BY <1>4, <1>5, <1>7, <1>9, <1>11 DEF Attempts, SameKey
<1>13. \A x, y \in A : x.attempt_no = y.attempt_no => x = y
  BY <1>11 DEF Attempts, Numbering, KeysUnique, SameKey
<1>14. StatusOf(B, k + 1) = o
  <2>1. new \in B /\ \A y \in B : y.attempt_no = new.attempt_no => y = new
    BY <1>9, <1>12
  <2> QED
    BY <1>4, <1>9, <2>1, TheAttempt DEF StatusOf
<1>15. ASSUME NEW n \in 1..k
       PROVE  StatusOf(B, n) = StatusOf(A, n)
  <2>1. PICK x \in A : x.attempt_no = n
    BY <1>8, <1>11 DEF AttemptNos
  <2>2. n # k + 1
    BY <1>8, <1>15
  <2>3. \A y \in B : y.attempt_no = x.attempt_no => y = x
    BY <1>9, <1>12, <1>13, <2>1, <2>2
  <2> QED
    BY <1>12, <1>13, <2>1, <2>3, TheAttempt DEF StatusOf
<1>16. PICK h, g : h = History(P, E) /\ g = History(P, E)'
  OBVIOUS
<1>17. h = [n \in 1..k |-> StatusOf(A, n)]
  BY <1>8, <1>11, <1>16, HistoryIs
<1>18. g = [n \in 1..(k + 1) |-> StatusOf(B, n)]
  BY <1>10, <1>11, <1>16 DEF History, StatusOf
<1>19. h \in Seq(ExtractionStatus) /\ Len(h) = k
  <2>1. h \in Seq(ExtractionStatus)
    BY <1>3, <1>16, HistoryType DEF Numbering
  <2> QED
    BY <1>8, <1>17, <2>1
<1>20. g = Append(h, o)
  BY <1>8, <1>14, <1>15, <1>17, <1>18, <1>19
<1>21. PICK L, M : L = Logs /\ M = Logs'
  OBVIOUS
<1>22. /\ L = [s \in Pages \X Engines |-> History(s[1], s[2])]
       /\ M = [s \in Pages \X Engines |-> History(s[1], s[2])']
  BY <1>21 DEF Logs
<1>23. M[<<P, E>>] = Append(L[<<P, E>>], o)
  <2>1. L[<<P, E>>] = h
    BY <1>3, <1>16, <1>22
  <2>2. M[<<P, E>>] = g
    BY <1>3, <1>16, <1>22
  <2> QED
    BY <1>20, <2>1, <2>2
<1>24. ASSUME NEW s \in Pages \X Engines, s # <<P, E>>
       PROVE  M[s] = L[s]
  <2>1. PICK p \in Pages, e \in Engines : s = <<p, e>>
    OBVIOUS
  <2>2. History(p, e)' = History(p, e)
    BY <1>6, <1>24, <2>1
  <2>3. L[s] = History(p, e)
    BY <1>22, <2>1
  <2>4. M[s] = History(p, e)'
    BY <1>22, <2>1
  <2> QED
    BY <2>2, <2>3, <2>4
<1>25. M = [L EXCEPT ![<<P, E>>] = Append(@, o)]
  BY <1>22, <1>23, <1>24
<1> QED
  BY <1>3, <1>21, <1>25

LEMMA LogsInit == Init => Log!Init
<1>1. SUFFICES ASSUME Init PROVE Logs = [k \in Pages \X Engines |-> <<>>]
  BY DEF Log!Init
<1>2. ASSUME NEW p, NEW e
      PROVE  History(p, e) = <<>>
  <2>1. AttemptNos(p, e) = {}
    BY <1>1 DEF Init, TablesInit, AttemptNos, Attempts
  <2> QED
    BY <2>1 DEF History
<1> QED
  BY <1>2 DEF Logs

LEMMA LogsNext ==
    ASSUME TypeOK, Numbering, Numbering', [Next]_vars
    PROVE  [Log!Next]_Logs
<1>1. CASE UNCHANGED extractions
  BY <1>1 DEF Logs, History, AttemptNos, Attempts
<1>2. ASSUME NEW w \in Workers, CommitAttempt(w)
      PROVE  Log!Next
  BY <1>2, CommitAppends DEF Log!Next, Log!Record
<1> QED
  BY <1>1, <1>2, OnlyCommitsRecord

\* The extractions table implements an append-only log per page and engine: a
\* retry, a crash or a step run twice adds one outcome at the end of one log, or
\* nothing.
THEOREM RecordAppendsOnly == Spec => AppendsOnly
<1> DEFINE Inv == TypeOK /\ Numbering
<1>1. Init => Log!Init
  BY LogsInit
<1>2. Inv /\ Inv' /\ [Next]_vars => [Log!Next]_Logs
  BY LogsNext
<1>3. Spec => []Inv
  BY TypedNumbering
<1> HIDE DEF Inv
<1> QED
  BY <1>1, <1>2, <1>3, PTL DEF Spec, AppendsOnly, Log!Spec

=============================================================================
