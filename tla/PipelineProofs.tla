--------------------------- MODULE PipelineProofs ---------------------------
(***************************************************************************)
(* Theorems about Pipeline, for every number of documents, pages, engines, *)
(* workers and requests: TypeOK, PagesMatchCount and AttemptsNumbered.     *)
(***************************************************************************)
EXTENDS Pipeline, TLAPS

-----------------------------------------------------------------------------
(* What the operators return.                                              *)

\* The numbers of the attempts of a page on an engine are an initial segment.
Contiguous ==
    \A p \in Pages, e \in Engines : \E k \in Nat : AttemptNos(p, e) = 1..k

\* The greatest number of an initial segment is its length.
LEMMA LastOfSegment ==
    ASSUME NEW k \in Nat \ {0}
    PROVE  Last(1..k) = k
<1>1. k \in 1..k /\ \A m \in 1..k : m <= k
  OBVIOUS
<1>2. \A n \in 1..k : (\A m \in 1..k : m <= n) => n = k
  <2>1. SUFFICES ASSUME NEW n \in 1..k, \A m \in 1..k : m <= n
                 PROVE  n = k
    OBVIOUS
  <2>2. k <= n
    BY <1>1, <2>1
  <2> QED
    BY <2>2
<1> QED
  BY <1>1, <1>2 DEF Last

\* next_attempt_no returns a number that may come next.
LEMMA NextAttemptFollows ==
    ASSUME Contiguous, NEW p \in Pages, NEW e \in Engines
    PROVE  /\ NextAttemptNo(p, e) \in Nat \ {0}
           /\ \/ NextAttemptNo(p, e) = 1
              \/ NextAttemptNo(p, e) - 1 \in AttemptNos(p, e)
<1>1. PICK k \in Nat : AttemptNos(p, e) = 1..k
  BY DEF Contiguous
<1>2. CASE k = 0
  BY <1>1, <1>2 DEF NextAttemptNo
<1>3. CASE k # 0
  <2>1. Last(AttemptNos(p, e)) = k
    BY <1>1, <1>3, LastOfSegment
  <2>2. NextAttemptNo(p, e) = k + 1
    BY <1>1, <1>3, <2>1 DEF NextAttemptNo
  <2> QED
    BY <1>1, <1>3, <2>2
<1> QED
  BY <1>2, <1>3

\* get_active returns a registered engine, or none.
LEMMA ActiveEngineType ==
    ASSUME active \in SUBSET Engines
    PROVE  ActiveEngine \in Engines \cup {NoEngine}
<1>1. CASE active = {}
  BY <1>1 DEF ActiveEngine
<1>2. CASE active # {}
  <2>1. \E e \in active : \A f \in active : e <= f
    BY <1>2, TablesAssumption
  <2>2. ActiveEngine \in active
    BY <1>2, <2>1 DEF ActiveEngine
  <2> QED
    BY <2>2
<1> QED
  BY <1>1, <1>2

LEMMA EngineForType ==
    ASSUME active \in SUBSET Engines, NEW row \in PageRow
    PROVE  EngineFor(row) \in Engines \cup {NoEngine}
  BY ActiveEngineType DEF EngineFor, PageRow

\* A finished page is a page row that was inserted.
LEMMA FinishedType ==
    ASSUME NEW s \in ExtractStep, s.outcome \in ExtractionStatus, NEW row \in PageRow
    PROVE  /\ Finished(s, row) \in PageRow
           /\ Finished(s, row).status # "absent" \/ row.status = "absent"
  BY DEF Finished, Flushed, PageRow, ExtractStep, ExtractionStatus, PageStatus, Claim, NoEngine

\* The statuses a document can be given.
LEMMA DeriveType ==
    ASSUME NEW statuses
    PROVE  Derive(statuses) \in DocumentStatus \cup {NoStatus}
  BY DEF Derive, DocumentStatus, NoStatus

\* What a worker's step may be.
LEMMA StepShapes ==
    ASSUME WorkerTypeOK, NEW w \in Workers
    PROVE  /\ step[w].kind = "none" => step[w] = NoStep
           /\ step[w].kind = "convert" => step[w] \in ConvertStep
           /\ step[w].kind = "extract" => step[w] \in ExtractStep
           /\ step[w].kind \in {"none", "convert", "extract"}
<1>1. step[w] \in {NoStep} \cup ConvertStep \cup ExtractStep
  BY DEF WorkerTypeOK
<1>2. NoStep.kind = "none"
  BY DEF NoStep
<1>3. \A s \in ConvertStep : s.kind = "convert"
  BY DEF ConvertStep
<1>4. \A s \in ExtractStep : s.kind = "extract"
  BY DEF ExtractStep
<1> QED
  BY <1>1, <1>2, <1>3, <1>4
-----------------------------------------------------------------------------
(* Type correctness, one lemma per action that changes a typed value.      *)

LEMMA InitType == Init => TypeOK
<1>1. SUFFICES ASSUME Init PROVE TypeOK
  OBVIOUS
<1>2. AbsentDocument \in DocumentRow
  BY TablesAssumption DEF AbsentDocument, DocumentRow, Claim
<1>3. AbsentPage \in PageRow
  BY DEF AbsentPage, PageRow, Claim, NoEngine
<1>4. TablesTypeOK
  BY <1>1, <1>2, <1>3, TablesAssumption DEF Init, TablesInit, TablesTypeOK
<1>5. WorkerTypeOK
  BY <1>1, WorkerAssumption DEF Init, WorkerInit, WorkerTypeOK, Phases
<1>6. RetryTypeOK
  BY <1>1 DEF Init, RetryInit, RetryTypeOK
<1> QED
  BY <1>4, <1>5, <1>6 DEF TypeOK

LEMMA ReleaseType ==
    ASSUME TypeOK, NEW w \in Workers, ReleaseAbandonedClaims(w), UNCHANGED retryVars
    PROVE  TypeOK'
<1>1. \A row \in PageRow : Released(row) \in PageRow
  BY DEF Released, PageRow, PageStatus, Claim
<1>2. \A row \in DocumentRow : Released(row) \in DocumentRow
  BY DEF Released, DocumentRow, DocumentStatus, Claim
<1>3. TablesTypeOK'
  BY <1>1, <1>2 DEF TypeOK, TablesTypeOK, ReleaseAbandonedClaims
<1>4. WorkerTypeOK'
  BY DEF TypeOK, WorkerTypeOK, ReleaseAbandonedClaims, Phases
<1> QED
  BY <1>3, <1>4 DEF TypeOK, RetryTypeOK, retryVars

LEMMA ClaimDocumentsType ==
    ASSUME TypeOK, NEW w \in Workers, ClaimDocuments(w), UNCHANGED retryVars
    PROVE  TypeOK'
<1>1. \A row \in DocumentRow : ClaimedDocument(row) \in DocumentRow
  BY DEF ClaimedDocument, DocumentRow, DocumentStatus, Claim
<1>2. PICK S \in Batches({d \in Documents : documents[d].status = "pending"}) :
        /\ documents' = [d \in Documents |->
                IF d \in S THEN ClaimedDocument(documents[d]) ELSE documents[d]]
        /\ document_ids' = [document_ids EXCEPT ![w] = S]
  BY DEF ClaimDocuments
<1>3. S \subseteq Documents
  BY <1>2 DEF Batches
<1>4. TablesTypeOK'
  BY <1>1, <1>2 DEF TypeOK, TablesTypeOK, ClaimDocuments
<1>5. WorkerTypeOK'
  BY <1>2, <1>3 DEF TypeOK, WorkerTypeOK, ClaimDocuments, Phases
<1> QED
  BY <1>4, <1>5 DEF TypeOK, RetryTypeOK, retryVars

LEMMA ClaimPagesType ==
    ASSUME TypeOK, NEW w \in Workers, ClaimPages(w), UNCHANGED retryVars
    PROVE  TypeOK'
<1>1. \A row \in PageRow : ClaimedPage(row) \in PageRow
  BY DEF ClaimedPage, PageRow, PageStatus, Claim
<1>2. PICK S \in Batches(ClaimablePages) :
        /\ pages' = [p \in Pages |-> IF p \in S THEN ClaimedPage(pages[p]) ELSE pages[p]]
        /\ page_ids' = [page_ids EXCEPT ![w] = S]
  BY DEF ClaimPages
<1>3. S \subseteq Pages
  BY <1>2 DEF Batches, ClaimablePages
<1>4. TablesTypeOK'
  BY <1>1, <1>2 DEF TypeOK, TablesTypeOK, ClaimPages
<1>5. WorkerTypeOK'
  BY <1>2, <1>3 DEF TypeOK, WorkerTypeOK, ClaimPages, Phases
<1> QED
  BY <1>4, <1>5 DEF TypeOK, RetryTypeOK, retryVars

LEMMA EndTickType ==
    ASSUME TypeOK, NEW w \in Workers, EndTick(w), UNCHANGED retryVars
    PROVE  TypeOK'
  BY DEF TypeOK, TablesTypeOK, WorkerTypeOK, RetryTypeOK, retryVars, tableVars, EndTick, Phases

LEMMA BeginConvertType ==
    ASSUME TypeOK, NEW w \in Workers, BeginConvert(w), UNCHANGED retryVars
    PROVE  TypeOK'
<1>1. PICK d \in document_ids[w] :
        /\ step' = [step EXCEPT ![w] =
                [kind |-> "convert", document |-> d, loaded |-> documents[d]]]
        /\ document_ids' = [document_ids EXCEPT ![w] = @ \ {d}]
  BY DEF BeginConvert
<1>2. d \in Documents /\ documents[d] \in DocumentRow
  BY DEF TypeOK, WorkerTypeOK, TablesTypeOK
<1>3. [kind |-> "convert", document |-> d, loaded |-> documents[d]] \in ConvertStep
  BY <1>2 DEF ConvertStep
<1>4. WorkerTypeOK'
  BY <1>1, <1>3 DEF TypeOK, WorkerTypeOK, BeginConvert
<1> QED
  BY <1>4 DEF TypeOK, TablesTypeOK, RetryTypeOK, retryVars, tableVars, BeginConvert

\* A step that ends leaves the worker's variables well typed.
LEMMA EndStepType ==
    ASSUME WorkerTypeOK, NEW w \in Workers, EndStep(w), faults' \in 0..MaxFaults
    PROVE  WorkerTypeOK'
  BY DEF WorkerTypeOK, EndStep

LEMMA ConvertSucceedsType ==
    ASSUME TypeOK, NEW w \in Workers, ConvertSucceeds(w), UNCHANGED retryVars
    PROVE  TypeOK'
<1>1. step[w] \in ConvertStep
  BY StepShapes DEF TypeOK, ConvertSucceeds
<1> DEFINE d == step[w].document
           old == step[w].loaded
<1>2. d \in Documents /\ old \in DocumentRow
  BY <1>1 DEF ConvertStep
<1>3. TablesTypeOK'
  <2>1. CASE PagesCollide(d)
    BY <2>1 DEF TypeOK, TablesTypeOK, ConvertSucceeds
  <2>2. CASE ~PagesCollide(d)
    <3>1. PICK n \in PageNos :
            /\ pages' = [p \in Pages |-> IF p[1] = d /\ p[2] <= n THEN NewPage ELSE pages[p]]
            /\ documents' = [documents EXCEPT ![d].page_count = n,
                        ![d].status = Flushed(old.status, "extracting", @),
                        ![d].claimed_at = Flushed(old.claimed_at, "null", @)]
      BY <2>2 DEF ConvertSucceeds
    <3>2. NewPage \in PageRow
      BY DEF NewPage, AbsentPage, PageRow, PageStatus, Claim, NoEngine
    <3>3. n \in 0..MaxPages
      BY TablesAssumption DEF PageNos
    <3>4. documents' \in [Documents -> DocumentRow]
      BY <1>2, <3>1, <3>3 DEF TypeOK, TablesTypeOK, DocumentRow, Flushed, DocumentStatus, Claim
    <3>5. pages' \in [Pages -> PageRow]
      BY <3>1, <3>2 DEF TypeOK, TablesTypeOK
    <3> QED
      BY <3>4, <3>5 DEF TypeOK, TablesTypeOK, ConvertSucceeds
  <2> QED
    BY <2>1, <2>2
<1>4. WorkerTypeOK'
  BY EndStepType DEF TypeOK, WorkerTypeOK, ConvertSucceeds
<1> QED
  BY <1>3, <1>4 DEF TypeOK, RetryTypeOK, retryVars

LEMMA ConvertFailsType ==
    ASSUME TypeOK, NEW w \in Workers, ConvertFails(w), UNCHANGED retryVars
    PROVE  TypeOK'
<1>1. step[w] \in ConvertStep
  BY StepShapes DEF TypeOK, ConvertFails
<1>2. step[w].document \in Documents /\ step[w].loaded \in DocumentRow
  BY <1>1 DEF ConvertStep
<1>3. documents' \in [Documents -> DocumentRow]
  BY <1>2 DEF TypeOK, TablesTypeOK, ConvertFails, DocumentRow, Flushed, DocumentStatus, Claim
<1>4. WorkerTypeOK'
  BY EndStepType DEF TypeOK, WorkerTypeOK, ConvertFails
<1> QED
  BY <1>3, <1>4 DEF TypeOK, TablesTypeOK, RetryTypeOK, retryVars, ConvertFails

LEMMA BeginExtractType ==
    ASSUME TypeOK, NEW w \in Workers, BeginExtract(w), UNCHANGED retryVars
    PROVE  TypeOK'
<1>1. PICK p \in page_ids[w] :
        /\ page_ids' = [page_ids EXCEPT ![w] = @ \ {p}]
        /\ step' = IF EngineFor(pages[p]) = NoEngine THEN step
                   ELSE [step EXCEPT ![w] =
                            [kind |-> "extract", stage |-> "vendor", page |-> p,
                             loaded |-> pages[p], engine |-> EngineFor(pages[p]),
                             outcome |-> NoStatus, attempt_no |-> 0,
                             document_status |-> NoStatus, derived |-> NoStatus]]
  BY DEF BeginExtract
<1>2. p \in Pages /\ pages[p] \in PageRow /\ active \in SUBSET Engines
  BY DEF TypeOK, WorkerTypeOK, TablesTypeOK
<1>3. EngineFor(pages[p]) \in Engines \cup {NoEngine}
  BY <1>2, EngineForType
<1>4. EngineFor(pages[p]) # NoEngine =>
        [kind |-> "extract", stage |-> "vendor", page |-> p,
         loaded |-> pages[p], engine |-> EngineFor(pages[p]),
         outcome |-> NoStatus, attempt_no |-> 0,
         document_status |-> NoStatus, derived |-> NoStatus] \in ExtractStep
  BY <1>2, <1>3 DEF ExtractStep, NoStatus
<1>5. step' \in [Workers -> {NoStep} \cup ConvertStep \cup ExtractStep]
  BY <1>1, <1>4 DEF TypeOK, WorkerTypeOK
<1>6. WorkerTypeOK'
  BY <1>1, <1>5 DEF TypeOK, WorkerTypeOK, BeginExtract
<1> QED
  BY <1>6 DEF TypeOK, TablesTypeOK, RetryTypeOK, retryVars, tableVars, BeginExtract

\* A step that is replaced by another OCR step leaves everything well typed.
LEMMA ExtractStepType ==
    ASSUME TypeOK, NEW w \in Workers, NEW s \in ExtractStep,
           step' = [step EXCEPT ![w] = s],
           UNCHANGED <<tableVars, phase, document_ids, page_ids, faults, retryVars>>
    PROVE  TypeOK'
  BY DEF TypeOK, TablesTypeOK, WorkerTypeOK, RetryTypeOK, retryVars, tableVars

LEMMA VendorAnswersType ==
    ASSUME TypeOK, Contiguous, NEW w \in Workers, VendorAnswers(w), UNCHANGED retryVars
    PROVE  TypeOK'
<1>1. step[w] \in ExtractStep
  BY StepShapes DEF TypeOK, VendorAnswers, AtStage
<1> DEFINE no == NextAttemptNo(step[w].page, step[w].engine)
<1>2. no \in Nat
  BY <1>1, NextAttemptFollows DEF ExtractStep
<1>3. PICK o \in ExtractionStatus :
        step' = [step EXCEPT ![w].stage = "insert", ![w].outcome = o, ![w].attempt_no = no]
  BY DEF VendorAnswers
<1> DEFINE s == [step[w] EXCEPT !.stage = "insert", !.outcome = o, !.attempt_no = no]
<1> HIDE DEF no
<1>4. s \in ExtractStep
  BY <1>1, <1>2 DEF ExtractStep
<1>5. step' = [step EXCEPT ![w] = s]
  BY <1>3 DEF TypeOK, WorkerTypeOK
<1> QED
  BY <1>4, <1>5, ExtractStepType DEF VendorAnswers

LEMMA RecordAttemptType ==
    ASSUME TypeOK, NEW w \in Workers, RecordAttempt(w), UNCHANGED retryVars
    PROVE  TypeOK'
<1>1. step[w] \in ExtractStep
  BY StepShapes DEF TypeOK, RecordAttempt, AtStage
<1> DEFINE status == documents[step[w].page[1]].status
           s == [step[w] EXCEPT !.stage = "derive", !.document_status = status]
<1>2. status \in DocumentStatus \cup {"absent"}
  BY <1>1 DEF TypeOK, TablesTypeOK, ExtractStep, Pages, DocumentRow
<1>3. s \in ExtractStep
  BY <1>1, <1>2 DEF ExtractStep
<1>4. step' = [step EXCEPT ![w] = s]
  BY DEF RecordAttempt, TypeOK, WorkerTypeOK
<1> QED
  BY <1>3, <1>4, ExtractStepType DEF RecordAttempt

LEMMA AttemptCollidesType ==
    ASSUME TypeOK, NEW w \in Workers, AttemptCollides(w), UNCHANGED retryVars
    PROVE  TypeOK'
  BY EndStepType DEF TypeOK, TablesTypeOK, WorkerTypeOK, RetryTypeOK, retryVars, tableVars,
                     AttemptCollides

LEMMA DeriveStatusType ==
    ASSUME TypeOK, NEW w \in Workers, DeriveStatus(w), UNCHANGED retryVars
    PROVE  TypeOK'
<1>1. step[w] \in ExtractStep
  BY StepShapes DEF TypeOK, DeriveStatus, AtStage
<1> DEFINE s == [step[w] EXCEPT !.stage = "commit", !.derived = Derive(StatusesSeenBy(w))]
<1>2. s \in ExtractStep
  BY <1>1, DeriveType DEF ExtractStep
<1>3. step' = [step EXCEPT ![w] = s]
  BY DEF DeriveStatus, TypeOK, WorkerTypeOK
<1> QED
  BY <1>2, <1>3, ExtractStepType DEF DeriveStatus

LEMMA CommitAttemptType ==
    ASSUME TypeOK, AttemptsFollow, NEW w \in Workers, CommitAttempt(w), UNCHANGED retryVars
    PROVE  TypeOK'
<1> DEFINE s == step[w]
           d == s.page[1]
<1>1. s \in ExtractStep
  BY StepShapes DEF TypeOK, CommitAttempt, AtStage
<1>2. s.outcome \in ExtractionStatus /\ s.attempt_no \in Nat \ {0}
  BY DEF AttemptsFollow, Recording, AtStage, CommitAttempt
<1>3. extractions' \subseteq ExtractionRow
  <2>1. Inserted(w) \in ExtractionRow
    BY <1>1, <1>2 DEF Inserted, ExtractionRow, ExtractStep
  <2> QED
    BY <2>1 DEF TypeOK, TablesTypeOK, CommitAttempt
<1>4. pages' \in [Pages -> PageRow]
  <2>1. s.page \in Pages
    BY <1>1 DEF ExtractStep
  <2>2. Finished(s, pages[s.page]) \in PageRow
    BY <1>1, <1>2, <2>1, FinishedType DEF TypeOK, TablesTypeOK
  <2>3. pages' = [pages EXCEPT ![s.page] = Finished(s, pages[s.page])]
    BY DEF CommitAttempt
  <2> QED
    BY <2>1, <2>2, <2>3 DEF TypeOK, TablesTypeOK
<1>5. documents' \in [Documents -> DocumentRow]
  <2>1. d \in Documents
    BY <1>1 DEF ExtractStep, Pages
  <2>2. s.derived \in DocumentStatus \cup {NoStatus}
    BY <1>1 DEF ExtractStep
  <2>3. CASE s.derived = NoStatus
    BY <2>3 DEF CommitAttempt, TypeOK, TablesTypeOK
  <2>4. CASE s.derived # NoStatus
    <3>1. documents' = [documents EXCEPT ![d].status = Flushed(s.document_status, s.derived, @)]
      BY <2>4 DEF CommitAttempt
    <3> QED
      BY <2>1, <2>2, <2>4, <3>1 DEF TypeOK, TablesTypeOK, DocumentRow, Flushed
  <2> QED
    BY <2>3, <2>4
<1>6. WorkerTypeOK'
  BY EndStepType DEF TypeOK, WorkerTypeOK, CommitAttempt
<1> QED
  BY <1>3, <1>4, <1>5, <1>6 DEF TypeOK, TablesTypeOK, RetryTypeOK, retryVars, CommitAttempt

LEMMA FaultType ==
    ASSUME TypeOK, NEW w \in Workers, WorkerFault(w), UNCHANGED retryVars
    PROVE  TypeOK'
<1>1. faults' \in 0..MaxFaults
  BY WorkerAssumption DEF WorkerFault, StepRaises, Crash, TypeOK, WorkerTypeOK
<1>2. CASE StepRaises(w)
  BY <1>1, <1>2, EndStepType DEF StepRaises, TypeOK, TablesTypeOK, RetryTypeOK, retryVars, tableVars
<1>3. CASE Crash(w)
  <2>1. WorkerTypeOK'
    BY <1>1, <1>3 DEF Crash, TypeOK, WorkerTypeOK, Phases
  <2> QED
    BY <1>3, <2>1 DEF Crash, TypeOK, TablesTypeOK, RetryTypeOK, retryVars, tableVars
<1> QED
  BY <1>2, <1>3 DEF WorkerFault

LEMMA ClaimsAgeType ==
    ASSUME TypeOK, ClaimsAge, UNCHANGED retryVars
    PROVE  TypeOK'
<1>1. ASSUME NEW d \in Documents, DocumentClaimAges(d)
      PROVE  TypeOK'
  <2>1. documents' \in [Documents -> DocumentRow]
    BY <1>1 DEF DocumentClaimAges, TypeOK, TablesTypeOK, DocumentRow, Claim
  <2> QED
    BY <1>1, <2>1 DEF DocumentClaimAges, TypeOK, TablesTypeOK, WorkerTypeOK, RetryTypeOK,
                      retryVars, workerVars
<1>2. ASSUME NEW p \in Pages, PageClaimAges(p)
      PROVE  TypeOK'
  <2>1. pages' \in [Pages -> PageRow]
    BY <1>2 DEF PageClaimAges, TypeOK, TablesTypeOK, PageRow, Claim
  <2> QED
    BY <1>2, <2>1 DEF PageClaimAges, TypeOK, TablesTypeOK, WorkerTypeOK, RetryTypeOK,
                      retryVars, workerVars
<1> QED
  BY <1>1, <1>2 DEF ClaimsAge

\* What a request may be.
LEMMA RequestShapes ==
    ASSUME RetryTypeOK, NEW r \in Requests
    PROVE  /\ request[r].stage \in {"loaded", "restart"} => request[r] \in LoadedRequest
           /\ request[r].stage = "requeue" => request[r] \in RequeueRequest
<1>1. request[r] \in {NewRequest, ClosedRequest} \cup LoadedRequest \cup RequeueRequest
  BY DEF RetryTypeOK
<1>2. NewRequest.stage = "new" /\ ClosedRequest.stage = "closed"
  BY DEF NewRequest, ClosedRequest
<1>3. \A q \in LoadedRequest : q.stage \in {"loaded", "restart"}
  BY DEF LoadedRequest
<1>4. \A q \in RequeueRequest : q.stage = "requeue"
  BY DEF RequeueRequest
<1> QED
  BY <1>1, <1>2, <1>3, <1>4

\* A request that changes its own record only.
LEMMA RequestType ==
    ASSUME TypeOK, NEW r \in Requests,
           NEW q \in {NewRequest, ClosedRequest} \cup LoadedRequest \cup RequeueRequest,
           request' = [request EXCEPT ![r] = q],
           UNCHANGED <<tableVars, workerVars>>
    PROVE  TypeOK'
  BY DEF TypeOK, TablesTypeOK, WorkerTypeOK, RetryTypeOK, tableVars, workerVars

LEMMA RetryLoadsType ==
    ASSUME TypeOK, NEW r \in Requests, NEW d \in Documents, NEW n \in 0..MaxPages,
           NEW e \in Engines \cup {NoEngine}, RetryLoads(r, d, n, e)
    PROVE  TypeOK'
<1> DEFINE q == [stage |-> "loaded", document |-> d, loaded |-> documents[d],
                 page_no |-> n, engine_key |-> e]
<1>1. q \in LoadedRequest
  BY DEF LoadedRequest, TypeOK, TablesTypeOK
<1> QED
  BY <1>1, RequestType DEF RetryLoads

\* The record a request keeps when it goes on to re-queue pages.
LEMMA RequeueType ==
    ASSUME TypeOK, NEW r \in Requests, NEW targets \in SUBSET Pages,
           request[r].stage = "loaded", Requeue(r, targets),
           UNCHANGED <<tableVars, workerVars>>
    PROVE  TypeOK'
<1>1. request[r] \in LoadedRequest
  BY RequestShapes DEF TypeOK
<1> DEFINE keys == [p \in targets |-> pages[p].requested_engine_key]
           q == [stage |-> "requeue", document |-> request[r].document,
                 loaded |-> request[r].loaded, page_no |-> request[r].page_no,
                 engine_key |-> request[r].engine_key, targets |-> keys]
<1>2. keys \in [targets -> Engines \cup {NoEngine}]
  BY DEF TypeOK, TablesTypeOK, PageRow
<1>3. keys \in UNION {[S -> Engines \cup {NoEngine}] : S \in SUBSET Pages}
  BY <1>2
<1> HIDE DEF keys
<1>4. q \in RequeueRequest
  BY <1>1, <1>3 DEF RequeueRequest, LoadedRequest
<1>5. request' = [request EXCEPT ![r] = q]
  BY DEF Requeue, keys
<1> QED
  BY <1>4, <1>5, RequestType

LEMMA CloseType ==
    ASSUME TypeOK, NEW r \in Requests, Close(r), UNCHANGED <<tableVars, workerVars>>
    PROVE  TypeOK'
  BY RequestType DEF Close

LEMMA RetrySelectsFailedType ==
    ASSUME TypeOK, NEW r \in Requests, RetrySelectsFailed(r)
    PROVE  TypeOK'
<1> DEFINE targets == Targets(request[r].document)
<1>1. request[r] \in LoadedRequest /\ request[r].stage = "loaded"
  BY RequestShapes DEF TypeOK, RetrySelectsFailed
<1>2. targets \in SUBSET Pages
  BY DEF Targets, FailedPages, PagesOf
<1>3. CASE targets # {}
  BY <1>1, <1>2, <1>3, RequeueType DEF RetrySelectsFailed
<1>4. CASE targets = {} /\ request[r].loaded.status = "failed"
  <2>1. [request[r] EXCEPT !.stage = "restart"] \in LoadedRequest
    BY <1>1 DEF LoadedRequest
  <2>2. request' = [request EXCEPT ![r] = [request[r] EXCEPT !.stage = "restart"]]
    BY <1>4 DEF RetrySelectsFailed, TypeOK, RetryTypeOK
  <2> QED
    BY <2>1, <2>2, RequestType DEF RetrySelectsFailed
<1>5. CASE targets = {} /\ request[r].loaded.status # "failed"
  BY <1>5, CloseType DEF RetrySelectsFailed
<1> QED
  BY <1>3, <1>4, <1>5

LEMMA RetrySelectsPageType ==
    ASSUME TypeOK, NEW r \in Requests, RetrySelectsPage(r)
    PROVE  TypeOK'
<1> DEFINE p == <<request[r].document, request[r].page_no>>
<1>1. request[r] \in LoadedRequest /\ request[r].stage = "loaded"
  BY RequestShapes DEF TypeOK, RetrySelectsPage
<1>2. p \in Pages
  BY <1>1, TablesAssumption DEF LoadedRequest, Pages, PageNos, RetrySelectsPage, AllFailed
<1>3. CASE Close(r)
  BY <1>3, CloseType DEF RetrySelectsPage
<1>4. CASE Requeue(r, {p})
  BY <1>1, <1>2, <1>4, RequeueType DEF RetrySelectsPage
<1> QED
  BY <1>3, <1>4 DEF RetrySelectsPage

LEMMA RetryRequeuesType ==
    ASSUME TypeOK, NEW r \in Requests, RetryRequeues(r)
    PROVE  TypeOK'
<1> DEFINE d == request[r].document
           targets == DOMAIN request[r].targets
<1>1. request[r] \in RequeueRequest
  BY RequestShapes DEF TypeOK, RetryRequeues
<1>2. d \in Documents /\ request[r].loaded \in DocumentRow
      /\ request[r].engine_key \in Engines \cup {NoEngine}
  BY <1>1 DEF RequeueRequest
<1>3. pages' \in [Pages -> PageRow]
  <2>1. ASSUME NEW p \in Pages
        PROVE  Requeued(r, p) \in PageRow
    BY <1>2 DEF Requeued, Flushed, TypeOK, TablesTypeOK, PageRow, PageStatus
  <2>2. pages' = [p \in Pages |-> IF p \in targets THEN Requeued(r, p) ELSE pages[p]]
    BY DEF RetryRequeues
  <2> QED
    BY <2>1, <2>2 DEF TypeOK, TablesTypeOK
<1>4. documents' \in [Documents -> DocumentRow]
  BY <1>2 DEF RetryRequeues, Flushed, TypeOK, TablesTypeOK, DocumentRow, DocumentStatus
<1>5. RetryTypeOK'
  BY DEF RetryRequeues, Close, TypeOK, RetryTypeOK
<1> QED
  BY <1>3, <1>4, <1>5 DEF RetryRequeues, TypeOK, TablesTypeOK, WorkerTypeOK, workerVars

LEMMA RetryRestartsType ==
    ASSUME TypeOK, NEW r \in Requests, RetryRestarts(r)
    PROVE  TypeOK'
<1>1. request[r] \in LoadedRequest
  BY RequestShapes DEF TypeOK, RetryRestarts
<1>2. request[r].document \in Documents /\ request[r].loaded \in DocumentRow
  BY <1>1 DEF LoadedRequest
<1>3. documents' \in [Documents -> DocumentRow]
  BY <1>2 DEF RetryRestarts, Flushed, TypeOK, TablesTypeOK, DocumentRow, DocumentStatus, Claim
<1>4. RetryTypeOK'
  BY DEF RetryRestarts, Close, TypeOK, RetryTypeOK
<1> QED
  BY <1>3, <1>4 DEF RetryRestarts, TypeOK, TablesTypeOK, WorkerTypeOK, workerVars

LEMMA DocumentArrivesType ==
    ASSUME TypeOK, NEW d \in Documents, DocumentArrives(d)
    PROVE  TypeOK'
<1>1. NewDocument \in DocumentRow
  BY TablesAssumption DEF NewDocument, AbsentDocument, DocumentRow, DocumentStatus, Claim
<1> QED
  BY <1>1 DEF DocumentArrives, TypeOK, TablesTypeOK, WorkerTypeOK, RetryTypeOK,
              workerVars, retryVars

LEMMA SwitchType ==
    ASSUME TypeOK, AdministratorSwitchesEngines
    PROVE  TypeOK'
  BY TablesAssumption DEF AdministratorSwitchesEngines, TypeOK, TablesTypeOK, WorkerTypeOK,
              RetryTypeOK, workerVars, retryVars

\* Every step keeps the types, given what the numbering invariant says of the
\* attempts under way.
LEMMA NextType ==
    ASSUME TypeOK, Contiguous, AttemptsFollow, [Next]_vars
    PROVE  TypeOK'
<1>1. CASE UNCHANGED vars
  BY <1>1 DEF vars, tableVars, workerVars, retryVars, TypeOK, TablesTypeOK, WorkerTypeOK, RetryTypeOK
<1>2. ASSUME NEW w \in Workers, WorkerProgress(w), UNCHANGED retryVars
      PROVE  TypeOK'
  BY <1>2, ReleaseType, ClaimDocumentsType, ClaimPagesType, EndTickType, BeginConvertType,
     ConvertSucceedsType, ConvertFailsType, BeginExtractType, VendorAnswersType,
     RecordAttemptType, AttemptCollidesType, DeriveStatusType, CommitAttemptType
     DEF WorkerProgress
<1>3. ASSUME NEW w \in Workers, WorkerFault(w), UNCHANGED retryVars
      PROVE  TypeOK'
  BY <1>3, FaultType
<1>4. ASSUME NEW r \in Requests, RequestNext(r)
      PROVE  TypeOK'
  BY <1>4, RetryLoadsType, RetrySelectsFailedType, RetrySelectsPageType, RetryRequeuesType,
     RetryRestartsType
     DEF RequestNext, RetryArrives, RetryProgress
<1>5. CASE Environment
  BY <1>5, DocumentArrivesType, SwitchType, ClaimsAgeType DEF Environment
<1> QED
  BY <1>1, <1>2, <1>3, <1>4, <1>5 DEF Next, WorkerNext

-----------------------------------------------------------------------------
(* The numbering of attempts.                                              *)

\* No two stored attempts have one key.
KeysUnique == \A x, y \in extractions : SameKey(x, y) => x = y

Numbering == Contiguous /\ KeysUnique /\ AttemptsFollow /\ KeysHeldOnce

LEMMA NumberingInit == Init => Numbering
<1>1. SUFFICES ASSUME Init PROVE Numbering
  OBVIOUS
<1>2. extractions = {}
  BY <1>1 DEF Init, TablesInit
<1>3. \A w \in Workers : step[w].kind = "none"
  BY <1>1 DEF Init, WorkerInit, NoStep
<1>4. \A p \in Pages, e \in Engines : AttemptNos(p, e) = 1..0
  BY <1>2 DEF AttemptNos, Attempts
<1> QED
  BY <1>2, <1>3, <1>4 DEF Numbering, Contiguous, KeysUnique, AttemptsFollow, KeysHeldOnce,
                          Recording, Holding, AtStage

\* A step that touches neither the attempts stored nor those under way.
LEMMA NumberingFrame ==
    ASSUME Numbering, UNCHANGED <<step, extractions>>
    PROVE  Numbering'
  BY DEF Numbering, Contiguous, KeysUnique, AttemptsFollow, KeysHeldOnce, Recording, Holding,
         AtStage, KeyStored, Inserted, AttemptNos, Attempts, SameKey

\* A worker takes up, or gives up, a step that has no answer to record.
LEMMA NumberingIdle ==
    ASSUME TypeOK, Numbering, NEW w \in Workers, NEW s,
           s.kind = "extract" => s.stage = "vendor",
           step' = [step EXCEPT ![w] = s], UNCHANGED extractions
    PROVE  Numbering'
<1>1. step'[w] = s /\ \A v \in Workers \ {w} : step'[v] = step[v]
  BY DEF TypeOK, WorkerTypeOK
<1>2. ~Recording(w)' /\ ~Holding(w)'
  BY <1>1 DEF Recording, Holding, AtStage
<1>3. \A v \in Workers \ {w} : /\ Recording(v)' = Recording(v) /\ Holding(v)' = Holding(v)
                               /\ Inserted(v)' = Inserted(v) /\ KeyStored(v)' = KeyStored(v)
  BY <1>1 DEF Recording, Holding, AtStage, Inserted, KeyStored
<1>4. Contiguous' /\ KeysUnique'
  BY DEF Numbering, Contiguous, KeysUnique, AttemptNos, Attempts
<1>5. AttemptsFollow'
  BY <1>1, <1>2, <1>3 DEF Numbering, AttemptsFollow, AttemptNos, Attempts
<1>6. KeysHeldOnce'
  BY <1>2, <1>3 DEF Numbering, KeysHeldOnce
<1> QED
  BY <1>4, <1>5, <1>6 DEF Numbering

LEMMA NumberingVendorAnswers ==
    ASSUME TypeOK, Numbering, NEW w \in Workers, VendorAnswers(w)
    PROVE  Numbering'
<1>1. step[w] \in ExtractStep
  BY StepShapes DEF TypeOK, VendorAnswers, AtStage
<1> DEFINE no == NextAttemptNo(step[w].page, step[w].engine)
<1>2. /\ no \in Nat \ {0}
      /\ no = 1 \/ no - 1 \in AttemptNos(step[w].page, step[w].engine)
  BY <1>1, NextAttemptFollows DEF Numbering, ExtractStep
<1>3. PICK o \in ExtractionStatus :
        step' = [step EXCEPT ![w].stage = "insert", ![w].outcome = o, ![w].attempt_no = no]
  BY DEF VendorAnswers
<1> HIDE DEF no
<1>4. /\ step'[w].stage = "insert" /\ step'[w].outcome = o /\ step'[w].attempt_no = no
      /\ step'[w].page = step[w].page /\ step'[w].engine = step[w].engine
  BY <1>1, <1>3 DEF TypeOK, WorkerTypeOK, ExtractStep
<1>5. \A v \in Workers \ {w} : step'[v] = step[v]
  BY <1>3 DEF TypeOK, WorkerTypeOK
<1>6. UNCHANGED extractions
  BY DEF VendorAnswers, tableVars
<1>7. Contiguous' /\ KeysUnique'
  BY <1>6 DEF Numbering, Contiguous, KeysUnique, AttemptNos, Attempts
<1>8. AttemptsFollow'
  <2>1. ASSUME NEW v \in Workers, Recording(v)', v # w
        PROVE  AttemptsFollow!(v)'
    BY <2>1, <1>5, <1>6 DEF Numbering, AttemptsFollow, Recording, AtStage, AttemptNos, Attempts
  <2>2. AttemptsFollow!(w)'
    BY <1>2, <1>3, <1>4, <1>6 DEF AttemptNos, Attempts
  <2> QED
    BY <2>1, <2>2 DEF AttemptsFollow
<1>9. KeysHeldOnce'
  BY <1>4, <1>5, <1>6 DEF Numbering, KeysHeldOnce, Holding, AtStage, KeyStored, Inserted, SameKey
<1> QED
  BY <1>7, <1>8, <1>9 DEF Numbering

\* A step of OCR goes on with the attempt it carries.
LEMMA NumberingGoesOn ==
    ASSUME TypeOK, Numbering, NEW w \in Workers, Recording(w), NEW s \in ExtractStep,
           s.stage \in {"derive", "commit"},
           s.page = step[w].page, s.engine = step[w].engine,
           s.attempt_no = step[w].attempt_no, s.outcome = step[w].outcome,
           step' = [step EXCEPT ![w] = s], UNCHANGED extractions,
           ~KeyStored(w),
           \A v \in Workers \ {w} : Holding(v) => ~SameKey(Inserted(v), Inserted(w))
    PROVE  Numbering'
<1>1. step'[w] = s /\ \A v \in Workers \ {w} : step'[v] = step[v]
  BY DEF TypeOK, WorkerTypeOK
<1>2. Inserted(w)' = Inserted(w) /\ ~KeyStored(w)'
  BY <1>1 DEF Inserted, KeyStored
<1>3. \A v \in Workers \ {w} : /\ Recording(v)' = Recording(v) /\ Holding(v)' = Holding(v)
                               /\ Inserted(v)' = Inserted(v) /\ KeyStored(v)' = KeyStored(v)
  BY <1>1 DEF Recording, Holding, AtStage, Inserted, KeyStored
<1>4. Contiguous' /\ KeysUnique'
  BY DEF Numbering, Contiguous, KeysUnique, AttemptNos, Attempts
<1>5. AttemptsFollow'
  BY <1>1, <1>3 DEF Numbering, AttemptsFollow, AttemptNos, Attempts
<1>6. KeysHeldOnce'
  <2>1. ASSUME NEW v \in Workers, Holding(v)'
        PROVE  ~KeyStored(v)'
    BY <1>2, <1>3, <2>1 DEF Numbering, KeysHeldOnce
  <2>2. ASSUME NEW v \in Workers, NEW u \in Workers \ {v}, Holding(v)', Holding(u)'
        PROVE  ~SameKey(Inserted(u), Inserted(v))'
    <3>1. CASE v = w
      BY <1>2, <1>3, <2>2, <3>1 DEF SameKey
    <3>2. CASE u = w
      BY <1>2, <1>3, <2>2, <3>2 DEF SameKey
    <3>3. CASE v # w /\ u # w
      BY <1>3, <2>2, <3>3 DEF Numbering, KeysHeldOnce, SameKey
    <3> QED
      BY <3>1, <3>2, <3>3
  <2> QED
    BY <2>1, <2>2 DEF KeysHeldOnce
<1> QED
  BY <1>4, <1>5, <1>6 DEF Numbering

LEMMA NumberingRecordAttempt ==
    ASSUME TypeOK, Numbering, NEW w \in Workers, RecordAttempt(w)
    PROVE  Numbering'
<1>1. step[w] \in ExtractStep /\ step[w].stage = "insert" /\ Recording(w)
  BY StepShapes DEF TypeOK, RecordAttempt, AtStage, Recording
<1> DEFINE status == documents[step[w].page[1]].status
           s == [step[w] EXCEPT !.stage = "derive", !.document_status = status]
<1>2. status \in DocumentStatus \cup {"absent"}
  BY <1>1 DEF TypeOK, TablesTypeOK, ExtractStep, Pages, DocumentRow
<1>3. s \in ExtractStep
  BY <1>1, <1>2 DEF ExtractStep
<1>4. step' = [step EXCEPT ![w] = s]
  BY DEF RecordAttempt, TypeOK, WorkerTypeOK
<1>5. \A v \in Workers \ {w} : Holding(v) => ~SameKey(Inserted(v), Inserted(w))
  BY DEF RecordAttempt, MustWait, Holding
<1>6. s.page = step[w].page /\ s.engine = step[w].engine /\ s.stage = "derive"
      /\ s.attempt_no = step[w].attempt_no /\ s.outcome = step[w].outcome
  BY <1>1 DEF ExtractStep
<1> HIDE DEF s
<1> QED
  BY <1>1, <1>3, <1>4, <1>5, <1>6, NumberingGoesOn DEF RecordAttempt, tableVars

LEMMA NumberingDeriveStatus ==
    ASSUME TypeOK, Numbering, NEW w \in Workers, DeriveStatus(w)
    PROVE  Numbering'
<1>1. step[w] \in ExtractStep /\ Recording(w) /\ Holding(w)
  BY StepShapes DEF TypeOK, DeriveStatus, AtStage, Recording, Holding
<1> DEFINE s == [step[w] EXCEPT !.stage = "commit", !.derived = Derive(StatusesSeenBy(w))]
<1>2. s \in ExtractStep
  BY <1>1, DeriveType DEF ExtractStep
<1>3. step' = [step EXCEPT ![w] = s]
  BY DEF DeriveStatus, TypeOK, WorkerTypeOK
<1>4. ~KeyStored(w) /\ \A v \in Workers \ {w} : Holding(v) => ~SameKey(Inserted(v), Inserted(w))
  BY <1>1 DEF Numbering, KeysHeldOnce
<1>5. s.page = step[w].page /\ s.engine = step[w].engine /\ s.stage = "commit"
      /\ s.attempt_no = step[w].attempt_no /\ s.outcome = step[w].outcome
  BY <1>1 DEF ExtractStep
<1> HIDE DEF s
<1> QED
  BY <1>1, <1>2, <1>3, <1>4, <1>5, NumberingGoesOn DEF DeriveStatus, tableVars

LEMMA NumberingCommitAttempt ==
    ASSUME TypeOK, Numbering, NEW w \in Workers, CommitAttempt(w)
    PROVE  Numbering'
<1> DEFINE new == Inserted(w)
<1>1. step[w] \in ExtractStep /\ Recording(w) /\ Holding(w)
  BY StepShapes DEF TypeOK, CommitAttempt, AtStage, Recording, Holding
<1>2. extractions' = extractions \cup {new}
  BY DEF CommitAttempt
<1>3. step' = [step EXCEPT ![w] = NoStep]
  BY DEF CommitAttempt, EndStep
<1>4. step'[w].kind = "none" /\ \A v \in Workers \ {w} : step'[v] = step[v]
  BY <1>3 DEF TypeOK, WorkerTypeOK, NoStep
<1>5. /\ new.page = step[w].page /\ new.engine_key = step[w].engine
      /\ new.attempt_no = step[w].attempt_no
  BY DEF Inserted
<1>6. \A x \in extractions : ~SameKey(x, new)
  BY <1>1 DEF Numbering, KeysHeldOnce, KeyStored
<1> HIDE DEF new
<1>7. ASSUME NEW p \in Pages, NEW e \in Engines
      PROVE  AttemptNos(p, e)' = AttemptNos(p, e) \cup
                (IF new.page = p /\ new.engine_key = e THEN {new.attempt_no} ELSE {})
  BY <1>2 DEF AttemptNos, Attempts
<1>8. Contiguous'
  <2>1. SUFFICES ASSUME NEW p \in Pages, NEW e \in Engines
                 PROVE  \E k \in Nat : AttemptNos(p, e)' = 1..k
    BY DEF Contiguous
  <2>2. PICK k \in Nat : AttemptNos(p, e) = 1..k
    BY DEF Numbering, Contiguous
  <2>3. CASE ~(new.page = p /\ new.engine_key = e)
    BY <1>7, <2>2, <2>3
  <2>4. CASE new.page = p /\ new.engine_key = e
    <3> DEFINE n == new.attempt_no
    <3>1. n \in Nat \ {0} /\ (n = 1 \/ n - 1 \in 1..k)
      BY <1>1, <1>5, <2>2, <2>4 DEF Numbering, AttemptsFollow
    <3>2. n \notin 1..k
      BY <1>6, <2>2, <2>4 DEF AttemptNos, Attempts, SameKey
    <3>3. n = k + 1
      BY <3>1, <3>2
    <3>4. AttemptNos(p, e)' = (1..k) \cup {n}
      BY <1>7, <2>2, <2>4
    <3>5. (1..k) \cup {k + 1} = 1..(k + 1)
      OBVIOUS
    <3> QED
      BY <3>3, <3>4, <3>5
  <2> QED
    BY <2>3, <2>4
<1>9. KeysUnique'
  BY <1>2, <1>6 DEF Numbering, KeysUnique, SameKey
<1>10. AttemptsFollow'
  <2>1. SUFFICES ASSUME NEW v \in Workers, Recording(v)'
                 PROVE  AttemptsFollow!(v)'
    BY DEF AttemptsFollow
  <2>2. v # w /\ step'[v] = step[v] /\ Recording(v)
    BY <1>4, <2>1 DEF Recording, AtStage
  <2>3. AttemptsFollow!(v)
    BY <2>2 DEF Numbering, AttemptsFollow
  <2>4. step[v] \in ExtractStep
    BY <2>2, StepShapes DEF TypeOK, Recording, AtStage
  <2>5. AttemptNos(step[v].page, step[v].engine) \subseteq AttemptNos(step[v].page, step[v].engine)'
    BY <1>2, <2>2 DEF AttemptNos, Attempts
  <2> QED
    BY <2>2, <2>3, <2>5
<1>11. KeysHeldOnce'
  <2>1. SUFFICES ASSUME NEW v \in Workers, Holding(v)'
                 PROVE  /\ ~KeyStored(v)'
                        /\ \A u \in Workers \ {v} : Holding(u)' => ~SameKey(Inserted(u), Inserted(v))'
    BY DEF KeysHeldOnce
  <2>2. \A u \in Workers : Holding(u)' => u # w /\ Holding(u) /\ Inserted(u)' = Inserted(u)
    BY <1>4 DEF Holding, AtStage, Inserted
  <2>3. ~SameKey(new, Inserted(v))
    BY <1>1, <2>1, <2>2 DEF Numbering, KeysHeldOnce, new
  <2>4. ~KeyStored(v)
    BY <2>1, <2>2 DEF Numbering, KeysHeldOnce
  <2>5. ~KeyStored(v)'
    BY <1>2, <2>1, <2>2, <2>3, <2>4 DEF KeyStored
  <2>6. \A u \in Workers \ {v} : Holding(u)' => ~SameKey(Inserted(u), Inserted(v))'
    BY <2>1, <2>2 DEF Numbering, KeysHeldOnce, SameKey
  <2> QED
    BY <2>5, <2>6
<1> QED
  BY <1>8, <1>9, <1>10, <1>11 DEF Numbering

\* Every step keeps the numbering.
LEMMA NumberingNext ==
    ASSUME TypeOK, Numbering, [Next]_vars
    PROVE  Numbering'
<1>1. CASE UNCHANGED vars
  BY <1>1, NumberingFrame DEF vars, tableVars, workerVars
<1>2. ASSUME NEW w \in Workers, EndStep(w), UNCHANGED extractions
      PROVE  Numbering'
  <2>1. NoStep.kind # "extract"
    BY DEF NoStep
  <2> QED
    BY <1>2, <2>1, NumberingIdle DEF EndStep
<1>3. ASSUME NEW w \in Workers, BeginConvert(w)
      PROVE  Numbering'
  <2>1. PICK d \in document_ids[w] : step' = [step EXCEPT ![w] =
                [kind |-> "convert", document |-> d, loaded |-> documents[d]]]
    BY <1>3 DEF BeginConvert
  <2> DEFINE s == [kind |-> "convert", document |-> d, loaded |-> documents[d]]
  <2>2. step' = [step EXCEPT ![w] = s] /\ s.kind # "extract"
    BY <2>1
  <2>3. UNCHANGED extractions
    BY <1>3 DEF BeginConvert, tableVars
  <2> HIDE DEF s
  <2> QED
    BY <2>2, <2>3, NumberingIdle
<1>4. ASSUME NEW w \in Workers, BeginExtract(w)
      PROVE  Numbering'
  <2>1. CASE step' = step
    BY <1>4, <2>1, NumberingFrame DEF BeginExtract, tableVars
  <2>2. CASE step' # step
    <3>1. PICK p \in page_ids[w] : step' = [step EXCEPT ![w] =
                [kind |-> "extract", stage |-> "vendor", page |-> p,
                 loaded |-> pages[p], engine |-> EngineFor(pages[p]),
                 outcome |-> NoStatus, attempt_no |-> 0,
                 document_status |-> NoStatus, derived |-> NoStatus]]
      BY <1>4, <2>2 DEF BeginExtract
    <3> DEFINE s == [kind |-> "extract", stage |-> "vendor", page |-> p,
                     loaded |-> pages[p], engine |-> EngineFor(pages[p]),
                     outcome |-> NoStatus, attempt_no |-> 0,
                     document_status |-> NoStatus, derived |-> NoStatus]
    <3>2. step' = [step EXCEPT ![w] = s] /\ s.stage = "vendor"
      BY <3>1
    <3>3. UNCHANGED extractions
      BY <1>4 DEF BeginExtract, tableVars
    <3> HIDE DEF s
    <3> QED
      BY <3>2, <3>3, NumberingIdle
  <2> QED
    BY <2>1, <2>2
<1>5. ASSUME NEW w \in Workers, WorkerProgress(w)
      PROVE  Numbering'
  <2>1. ASSUME ReleaseAbandonedClaims(w) \/ ClaimDocuments(w) \/ ClaimPages(w) \/ EndTick(w)
        PROVE  Numbering'
    BY <2>1, NumberingFrame
       DEF ReleaseAbandonedClaims, ClaimDocuments, ClaimPages, EndTick, tableVars
  <2>2. ASSUME ConvertSucceeds(w) \/ ConvertFails(w) \/ AttemptCollides(w)
        PROVE  Numbering'
    BY <1>2, <2>2 DEF ConvertSucceeds, ConvertFails, AttemptCollides, tableVars
  <2> QED
    BY <1>3, <1>4, <1>5, <2>1, <2>2, NumberingVendorAnswers, NumberingRecordAttempt,
       NumberingDeriveStatus, NumberingCommitAttempt
       DEF WorkerProgress
<1>6. ASSUME NEW w \in Workers, WorkerFault(w)
      PROVE  Numbering'
  <2>1. CASE StepRaises(w)
    BY <1>2, <2>1 DEF StepRaises, tableVars
  <2>2. CASE Crash(w)
    <3>1. NoStep.kind # "extract"
      BY DEF NoStep
    <3> QED
      BY <2>2, <3>1, NumberingIdle DEF Crash, tableVars
  <2> QED
    BY <1>6, <2>1, <2>2 DEF WorkerFault
<1>7. ASSUME NEW r \in Requests, RequestNext(r)
      PROVE  Numbering'
  BY <1>7, NumberingFrame
     DEF RequestNext, RetryArrives, RetryProgress, RetryLoads, RetrySelectsFailed,
         RetrySelectsPage, RetryRequeues, RetryRestarts, tableVars, workerVars
<1>8. CASE Environment
  BY <1>8, NumberingFrame
     DEF Environment, DocumentArrives, AdministratorSwitchesEngines, ClaimsAge,
         DocumentClaimAges, PageClaimAges, workerVars
<1> QED
  BY <1>1, <1>5, <1>6, <1>7, <1>8 DEF Next, WorkerNext

\* What AttemptsNumbered says follows from the numbering.
LEMMA NumberingSuffices ==
    ASSUME TypeOK, Contiguous, KeysUnique
    PROVE  AttemptsNumbered
<1>1. SUFFICES ASSUME NEW x \in extractions
               PROVE  1..x.attempt_no \subseteq AttemptNos(x.page, x.engine_key)
  BY DEF AttemptsNumbered, KeysUnique
<1>2. x.page \in Pages /\ x.engine_key \in Engines /\ x.attempt_no \in Nat \ {0}
  BY DEF TypeOK, TablesTypeOK, ExtractionRow
<1>3. PICK k \in Nat : AttemptNos(x.page, x.engine_key) = 1..k
  BY <1>2 DEF Contiguous
<1>4. x.attempt_no \in 1..k
  BY <1>3 DEF AttemptNos, Attempts
<1> QED
  BY <1>2, <1>3, <1>4

\* The types and the numbering are inductive together: the types need that an
\* attempt under way has a number and an outcome, the numbering needs the types.
LEMMA TypedNumbering == Spec => [](TypeOK /\ Numbering)
<1>1. Init => TypeOK /\ Numbering
  BY InitType, NumberingInit
<1>2. TypeOK /\ Numbering /\ [Next]_vars => (TypeOK /\ Numbering)'
  BY NextType, NumberingNext DEF Numbering
<1> QED
  BY <1>1, <1>2, PTL DEF Spec

\* Every reachable state is well typed: no worker, request, fault or passing of
\* time leaves a row, a claim or a transaction the code has no name for.
THEOREM TypeCorrect == Spec => []TypeOK
<1>1. TypeOK /\ Numbering => TypeOK
  OBVIOUS
<1> QED
  BY <1>1, TypedNumbering, PTL

\* However many workers and retries run the same page, its attempts on an engine
\* are numbered 1, 2, 3, ... : _new_extraction reads the number it gives, the
\* unique key refuses what came too late, and no number is skipped.
THEOREM AttemptsAlwaysNumbered == Spec => []AttemptsNumbered
<1>1. TypeOK /\ Numbering => AttemptsNumbered
  BY NumberingSuffices DEF Numbering
<1> QED
  BY <1>1, TypedNumbering, PTL

-----------------------------------------------------------------------------
(* The pages of a document.                                                *)

\* No row appears or disappears, and no document changes its page_count.
RowsStay ==
    /\ \A d \in Documents :
        /\ documents'[d].status = "absent" <=> documents[d].status = "absent"
        /\ documents'[d].page_count = documents[d].page_count
    /\ \A p \in Pages : pages'[p].status = "absent" <=> pages[p].status = "absent"

\* What the workers, or the requests, have in hand after the step existed
\* before it.
WorkersTakeRows ==
    \A w \in Workers :
        /\ \A d \in Documents : HoldsDocument(w, d)' => documents[d].status # "absent"
        /\ \A p \in Pages : HoldsPage(w, p)' => pages[p].status # "absent"
RequestsTakeRows ==
    \A r \in Requests :
        /\ request'[r].stage \in {"loaded", "requeue", "restart"} =>
            documents[request'[r].document].status # "absent"
        /\ request'[r].stage = "requeue" =>
            \A p \in DOMAIN request'[r].targets : pages[p].status # "absent"

LEMMA PagesInit == Init => PagesInvariant
<1>1. SUFFICES ASSUME Init PROVE PagesInvariant
  OBVIOUS
<1>2. \A d \in Documents : documents[d].status = "absent" /\ documents[d].page_count = 0
  BY <1>1 DEF Init, TablesInit, AbsentDocument
<1>3. \A p \in Pages : pages[p].status = "absent"
  BY <1>1 DEF Init, TablesInit, AbsentPage
<1>4. \A w \in Workers : /\ \A d \in Documents : ~HoldsDocument(w, d)
                         /\ \A p \in Pages : ~HoldsPage(w, p)
  BY <1>1 DEF Init, WorkerInit, NoStep, HoldsDocument, HoldsPage, Converting, Extracting
<1>5. \A r \in Requests : request[r].stage = "new"
  BY <1>1 DEF Init, RetryInit, NewRequest
<1>6. PagesMatchCount
  BY <1>2, <1>3 DEF PagesMatchCount, PagesOf
<1> QED
  BY <1>2, <1>4, <1>5, <1>6 DEF PagesInvariant, InHandExists, AbsentHaveNoPages

\* What existed when it was taken up exists as long as no row disappears.
LEMMA InHandGrows ==
    ASSUME TypeOK, TypeOK', WorkersTakeRows, RequestsTakeRows,
           \A d \in Documents : documents[d].status # "absent" => documents'[d].status # "absent",
           \A p \in Pages : pages[p].status # "absent" => pages'[p].status # "absent"
    PROVE  InHandExists'
<1>1. ASSUME NEW r \in Requests, request'[r].stage = "requeue", NEW p \in DOMAIN request'[r].targets
      PROVE  p \in Pages
  <2>1. request'[r] \in RequeueRequest
    BY <1>1 DEF TypeOK, RetryTypeOK, NewRequest, ClosedRequest, LoadedRequest, RequeueRequest
  <2> QED
    BY <1>1, <2>1 DEF RequeueRequest
<1>2. ASSUME NEW r \in Requests, request'[r].stage \in {"loaded", "requeue", "restart"}
      PROVE  request'[r].document \in Documents
  BY <1>2 DEF TypeOK, RetryTypeOK, NewRequest, ClosedRequest, LoadedRequest, RequeueRequest
<1> QED
  BY <1>1, <1>2 DEF WorkersTakeRows, RequestsTakeRows, InHandExists

\* A step that adds no row keeps the invariant when what it takes up exists.
LEMMA PagesFrame ==
    ASSUME TypeOK, TypeOK', PagesInvariant, RowsStay, WorkersTakeRows, RequestsTakeRows
    PROVE  PagesInvariant'
<1>1. \A d \in Documents : PagesOf(d)' = PagesOf(d)
  BY DEF RowsStay, PagesOf
<1>2. PagesMatchCount' /\ AbsentHaveNoPages'
  BY <1>1 DEF PagesInvariant, PagesMatchCount, AbsentHaveNoPages, RowsStay
<1>3. InHandExists'
  BY InHandGrows DEF RowsStay
<1> QED
  BY <1>2, <1>3 DEF PagesInvariant

\* Those who do not move hold what they held.
LEMMA WorkersRest ==
    ASSUME InHandExists, UNCHANGED <<document_ids, page_ids, step>>
    PROVE  WorkersTakeRows
  BY DEF InHandExists, WorkersTakeRows, HoldsDocument, HoldsPage, Converting, Extracting

LEMMA RequestsRest ==
    ASSUME InHandExists, UNCHANGED request
    PROVE  RequestsTakeRows
  BY DEF InHandExists, RequestsTakeRows

\* A worker that drops what it holds, or goes on with the row it has.
LEMMA WorkerDrops ==
    ASSUME TypeOK, InHandExists, NEW w \in Workers, EndStep(w)
    PROVE  WorkersTakeRows
<1>1. step'[w].kind = "none" /\ \A v \in Workers \ {w} : step'[v] = step[v]
  BY DEF EndStep, NoStep, TypeOK, WorkerTypeOK
<1> QED
  BY <1>1 DEF EndStep, InHandExists, WorkersTakeRows, HoldsDocument, HoldsPage, Converting, Extracting

LEMMA WorkerGoesOn ==
    ASSUME TypeOK, InHandExists, NEW w \in Workers, step[w].kind = "extract",
           step'[w].kind = "extract", step'[w].page = step[w].page,
           \A v \in Workers \ {w} : step'[v] = step[v],
           UNCHANGED <<document_ids, page_ids>>
    PROVE  WorkersTakeRows
  BY DEF InHandExists, WorkersTakeRows, HoldsDocument, HoldsPage, Converting, Extracting

LEMMA PagesRelease ==
    ASSUME TypeOK, TypeOK', PagesInvariant, NEW w \in Workers,
           ReleaseAbandonedClaims(w), UNCHANGED retryVars
    PROVE  PagesInvariant'
<1>1. RowsStay
  BY DEF ReleaseAbandonedClaims, RowsStay, Released, AbandonedPages, AbandonedDocuments,
         Abandoned, TypeOK, TablesTypeOK, DocumentRow, PageRow
<1> QED
  BY <1>1, PagesFrame, WorkersRest, RequestsRest
     DEF PagesInvariant, ReleaseAbandonedClaims, retryVars

LEMMA PagesClaimDocuments ==
    ASSUME TypeOK, TypeOK', PagesInvariant, NEW w \in Workers,
           ClaimDocuments(w), UNCHANGED retryVars
    PROVE  PagesInvariant'
<1>1. PICK S \in Batches({d \in Documents : documents[d].status = "pending"}) :
        /\ documents' = [d \in Documents |->
                IF d \in S THEN ClaimedDocument(documents[d]) ELSE documents[d]]
        /\ document_ids' = [document_ids EXCEPT ![w] = S]
  BY DEF ClaimDocuments
<1>2. \A d \in S : d \in Documents /\ documents[d].status = "pending"
  BY <1>1 DEF Batches
<1>3. RowsStay
  BY <1>1, <1>2 DEF ClaimDocuments, RowsStay, ClaimedDocument, TypeOK, TablesTypeOK, DocumentRow
<1>4. WorkersTakeRows
  BY <1>1, <1>2 DEF ClaimDocuments, PagesInvariant, InHandExists, WorkersTakeRows,
     HoldsDocument, HoldsPage, Converting, Extracting, TypeOK, WorkerTypeOK
<1> QED
  BY <1>3, <1>4, PagesFrame, RequestsRest DEF PagesInvariant, retryVars

LEMMA PagesClaimPages ==
    ASSUME TypeOK, TypeOK', PagesInvariant, NEW w \in Workers,
           ClaimPages(w), UNCHANGED retryVars
    PROVE  PagesInvariant'
<1>1. PICK S \in Batches(ClaimablePages) :
        /\ pages' = [p \in Pages |-> IF p \in S THEN ClaimedPage(pages[p]) ELSE pages[p]]
        /\ page_ids' = [page_ids EXCEPT ![w] = S]
  BY DEF ClaimPages
<1>2. \A p \in S : p \in Pages /\ pages[p].status = "pending"
  BY <1>1 DEF Batches, ClaimablePages
<1>3. RowsStay
  BY <1>1, <1>2 DEF ClaimPages, RowsStay, ClaimedPage, TypeOK, TablesTypeOK, PageRow
<1>4. WorkersTakeRows
  BY <1>1, <1>2 DEF ClaimPages, PagesInvariant, InHandExists, WorkersTakeRows,
     HoldsDocument, HoldsPage, Converting, Extracting, TypeOK, WorkerTypeOK
<1> QED
  BY <1>3, <1>4, PagesFrame, RequestsRest DEF PagesInvariant, retryVars

LEMMA PagesEndTick ==
    ASSUME TypeOK, TypeOK', PagesInvariant, NEW w \in Workers, EndTick(w), UNCHANGED retryVars
    PROVE  PagesInvariant'
<1>1. RowsStay
  BY DEF EndTick, RowsStay, tableVars
<1> QED
  BY <1>1, PagesFrame, WorkersRest, RequestsRest DEF PagesInvariant, EndTick, retryVars

LEMMA PagesBeginConvert ==
    ASSUME TypeOK, TypeOK', PagesInvariant, NEW w \in Workers, BeginConvert(w), UNCHANGED retryVars
    PROVE  PagesInvariant'
<1>1. RowsStay
  BY DEF BeginConvert, RowsStay, tableVars
<1>2. PICK d \in document_ids[w] :
        /\ step' = [step EXCEPT ![w] =
                [kind |-> "convert", document |-> d, loaded |-> documents[d]]]
        /\ document_ids' = [document_ids EXCEPT ![w] = @ \ {d}]
  BY DEF BeginConvert
<1>3. /\ \A v \in Workers : document_ids'[v] \subseteq document_ids[v]
      /\ \A v \in Workers \ {w} : step'[v] = step[v]
      /\ step'[w].kind = "convert" /\ step'[w].document = d
  BY <1>2 DEF TypeOK, WorkerTypeOK
<1>4. WorkersTakeRows
  BY <1>3 DEF BeginConvert, PagesInvariant, InHandExists, WorkersTakeRows,
     HoldsDocument, HoldsPage, Converting, Extracting
<1> QED
  BY <1>1, <1>4, PagesFrame, RequestsRest DEF PagesInvariant, retryVars

LEMMA PagesBeginExtract ==
    ASSUME TypeOK, TypeOK', PagesInvariant, NEW w \in Workers, BeginExtract(w), UNCHANGED retryVars
    PROVE  PagesInvariant'
<1>1. RowsStay
  BY DEF BeginExtract, RowsStay, tableVars
<1>2. PICK p \in page_ids[w] :
        /\ page_ids' = [page_ids EXCEPT ![w] = @ \ {p}]
        /\ step' = IF EngineFor(pages[p]) = NoEngine THEN step
                   ELSE [step EXCEPT ![w] =
                            [kind |-> "extract", stage |-> "vendor", page |-> p,
                             loaded |-> pages[p], engine |-> EngineFor(pages[p]),
                             outcome |-> NoStatus, attempt_no |-> 0,
                             document_status |-> NoStatus, derived |-> NoStatus]]
  BY DEF BeginExtract
<1>3. /\ \A v \in Workers : page_ids'[v] \subseteq page_ids[v]
      /\ \A v \in Workers \ {w} : step'[v] = step[v]
      /\ step'[w] = step[w] \/ (step'[w].kind = "extract" /\ step'[w].page = p)
  BY <1>2 DEF TypeOK, WorkerTypeOK
<1>4. WorkersTakeRows
  BY <1>3 DEF BeginExtract, PagesInvariant, InHandExists, WorkersTakeRows,
     HoldsDocument, HoldsPage, Converting, Extracting
<1> QED
  BY <1>1, <1>4, PagesFrame, RequestsRest DEF PagesInvariant, retryVars

\* A conversion that commits gives the document the pages 1..n, and it had none.
LEMMA PagesConvertSucceeds ==
    ASSUME TypeOK, TypeOK', PagesInvariant, NEW w \in Workers,
           ConvertSucceeds(w), UNCHANGED retryVars
    PROVE  PagesInvariant'
<1> DEFINE old == step[w].loaded
<1>a. step[w] \in ConvertStep
  BY StepShapes DEF TypeOK, ConvertSucceeds
<1>1. PICK d \in Documents : d = step[w].document
  BY <1>a DEF ConvertStep
<1>2. WorkersTakeRows /\ RequestsTakeRows
  BY WorkerDrops, RequestsRest DEF PagesInvariant, ConvertSucceeds, retryVars
<1>3. CASE PagesCollide(d)
  <2>1. RowsStay
    BY <1>1, <1>3 DEF ConvertSucceeds, RowsStay
  <2> QED
    BY <1>2, <2>1, PagesFrame
<1>4. CASE ~PagesCollide(d)
  <2>1. PICK n \in PageNos :
            /\ pages' = [p \in Pages |->
                    IF p[1] = step[w].document /\ p[2] <= n THEN NewPage ELSE pages[p]]
            /\ documents' = [documents EXCEPT ![step[w].document].page_count = n,
                        ![step[w].document].status = Flushed(old.status, "extracting", @),
                        ![step[w].document].claimed_at = Flushed(old.claimed_at, "null", @)]
    BY <1>1, <1>4 DEF ConvertSucceeds
  <2>2. documents[d].status # "absent"
    BY <1>1 DEF PagesInvariant, InHandExists, HoldsDocument, Converting, ConvertSucceeds
  <2>3. /\ documents'[d].page_count = n /\ documents'[d].status # "absent"
        /\ \A c \in Documents \ {d} : documents'[c] = documents[c]
    <3> DEFINE status == Flushed(old.status, "extracting", documents[d].status)
               claimed == Flushed(old.claimed_at, "null", documents[d].claimed_at)
    <3>1. documents' = [documents EXCEPT ![d] =
                [documents[d] EXCEPT !.page_count = n, !.status = status, !.claimed_at = claimed]]
      BY <1>1, <2>1 DEF TypeOK, TablesTypeOK, DocumentRow
    <3>2. status # "absent"
      BY <2>2 DEF Flushed
    <3> HIDE DEF status, claimed
    <3> QED
      BY <3>1, <3>2 DEF TypeOK, TablesTypeOK, DocumentRow
  <2>4. AbsentHaveNoPages'
    BY <2>3 DEF PagesInvariant, AbsentHaveNoPages
  <2>5. \A p \in Pages : IF p[1] = d /\ p[2] <= n THEN pages'[p].status = "pending"
                                                  ELSE pages'[p] = pages[p]
    BY <1>1, <2>1 DEF NewPage, AbsentPage
  <2>6. PagesOf(d)' = {d} \X (1..n)
    <3>1. \A p \in Pages : p[1] = d => pages[p].status = "absent"
      BY <1>4 DEF PagesCollide, PagesOf
    <3>2. \A p \in Pages : p[1] = d => (pages'[p].status # "absent" <=> p[2] <= n)
      BY <2>5, <3>1
    <3>3. n \in 1..MaxPages
      BY DEF PageNos
    <3>4. ASSUME NEW p \in PagesOf(d)'
          PROVE  p \in {d} \X (1..n)
      <4>1. p \in Pages /\ p[1] = d /\ pages'[p].status # "absent"
        BY <3>4 DEF PagesOf
      <4>2. PICK c \in Documents, m \in PageNos : p = <<c, m>>
        BY <4>1 DEF Pages
      <4>3. m <= n
        BY <3>2, <4>1, <4>2
      <4>4. m \in 1..n
        BY <3>3, <4>3, TablesAssumption DEF PageNos
      <4> QED
        BY <4>1, <4>2, <4>4
    <3>5. ASSUME NEW m \in 1..n
          PROVE  <<d, m>> \in PagesOf(d)'
      <4>1. m \in PageNos /\ m <= n
        BY <3>3, TablesAssumption DEF PageNos
      <4>2. <<d, m>> \in Pages
        BY <1>1, <4>1 DEF Pages
      <4>3. pages'[<<d, m>>].status # "absent"
        BY <3>2, <4>1, <4>2
      <4> QED
        BY <4>2, <4>3 DEF PagesOf
    <3> QED
      BY <3>4, <3>5
  <2>7. \A c \in Documents \ {d} : PagesOf(c)' = PagesOf(c)
    BY <2>5 DEF PagesOf
  <2>8. PagesMatchCount'
    <3>1. SUFFICES ASSUME NEW c \in Documents
                   PROVE  PagesOf(c)' = {c} \X (1..documents'[c].page_count)
      BY DEF PagesMatchCount
    <3>2. CASE c = d
      BY <2>3, <2>6, <3>2
    <3>3. CASE c # d
      BY <2>3, <2>7, <3>3 DEF PagesInvariant, PagesMatchCount
    <3> QED
      BY <3>2, <3>3
  <2>9. /\ \A c \in Documents : documents[c].status # "absent" => documents'[c].status # "absent"
        /\ \A p \in Pages : pages[p].status # "absent" => pages'[p].status # "absent"
    BY <2>3, <2>5
  <2> QED
    BY <1>2, <2>4, <2>8, <2>9, InHandGrows DEF PagesInvariant
<1> QED
  BY <1>3, <1>4

LEMMA PagesConvertFails ==
    ASSUME TypeOK, TypeOK', PagesInvariant, NEW w \in Workers, ConvertFails(w), UNCHANGED retryVars
    PROVE  PagesInvariant'
<1> DEFINE d == step[w].document
<1>1. step[w] \in ConvertStep /\ d \in Documents
  BY StepShapes DEF TypeOK, ConvertFails, ConvertStep
<1>2. documents[d].status # "absent"
  BY <1>1 DEF PagesInvariant, InHandExists, HoldsDocument, Converting, ConvertFails
<1>3. RowsStay
  BY <1>1, <1>2 DEF ConvertFails, RowsStay, Flushed, TypeOK, TablesTypeOK, DocumentRow
<1>4. WorkersTakeRows /\ RequestsTakeRows
  BY WorkerDrops, RequestsRest DEF PagesInvariant, ConvertFails, retryVars
<1> QED
  BY <1>3, <1>4, PagesFrame

\* A step that has loaded its page and ends, or goes on, without COMMIT.
LEMMA PagesStepGoesOn ==
    ASSUME TypeOK, TypeOK', PagesInvariant, NEW w \in Workers,
           VendorAnswers(w) \/ RecordAttempt(w) \/ DeriveStatus(w) \/ AttemptCollides(w),
           UNCHANGED retryVars
    PROVE  PagesInvariant'
<1>1. RowsStay /\ RequestsTakeRows
  BY RequestsRest DEF RowsStay, VendorAnswers, RecordAttempt, DeriveStatus, AttemptCollides,
     tableVars, retryVars, PagesInvariant
<1>2. CASE AttemptCollides(w)
  BY <1>1, <1>2, PagesFrame, WorkerDrops DEF AttemptCollides, PagesInvariant
<1>3. CASE VendorAnswers(w) \/ RecordAttempt(w) \/ DeriveStatus(w)
  <2>1. step[w] \in ExtractStep
    BY <1>3, StepShapes DEF TypeOK, VendorAnswers, RecordAttempt, DeriveStatus, AtStage
  <2>2. /\ step'[w].kind = "extract" /\ step'[w].page = step[w].page
        /\ \A v \in Workers \ {w} : step'[v] = step[v]
        /\ UNCHANGED <<document_ids, page_ids>>
    <3>1. CASE VendorAnswers(w)
      <4> DEFINE no == NextAttemptNo(step[w].page, step[w].engine)
      <4>1. PICK o \in ExtractionStatus : step' =
                [step EXCEPT ![w].stage = "insert", ![w].outcome = o, ![w].attempt_no = no]
        BY <3>1 DEF VendorAnswers
      <4>2. UNCHANGED <<document_ids, page_ids>>
        BY <3>1 DEF VendorAnswers
      <4> HIDE DEF no
      <4> QED
        BY <2>1, <4>1, <4>2 DEF TypeOK, WorkerTypeOK, ExtractStep
    <3>2. CASE RecordAttempt(w)
      BY <2>1, <3>2 DEF RecordAttempt, TypeOK, WorkerTypeOK, ExtractStep
    <3>3. CASE DeriveStatus(w)
      BY <2>1, <3>3 DEF DeriveStatus, TypeOK, WorkerTypeOK, ExtractStep
    <3> QED
      BY <1>3, <3>1, <3>2, <3>3
  <2>3. step[w].kind = "extract"
    BY <2>1 DEF ExtractStep
  <2>4. WorkersTakeRows
    BY <2>2, <2>3, WorkerGoesOn DEF PagesInvariant
  <2> QED
    BY <1>1, <2>4, PagesFrame
<1> QED
  BY <1>2, <1>3

LEMMA PagesCommitAttempt ==
    ASSUME TypeOK, TypeOK', PagesInvariant, AttemptsFollow, NEW w \in Workers,
           CommitAttempt(w), UNCHANGED retryVars
    PROVE  PagesInvariant'
<1> DEFINE s == step[w]
<1>1. s \in ExtractStep /\ s.page \in Pages
  BY StepShapes DEF TypeOK, CommitAttempt, AtStage, ExtractStep
<1>2. s.outcome \in ExtractionStatus
  BY DEF AttemptsFollow, Recording, AtStage, CommitAttempt
<1>3. pages[s.page].status # "absent"
  BY <1>1 DEF PagesInvariant, InHandExists, HoldsPage, Extracting, CommitAttempt, AtStage
<1>4. PICK d \in Documents : d = s.page[1]
  BY <1>1 DEF Pages
<1>5. documents[d].status # "absent"
  <2>1. s.page \in {d} \X (1..documents[d].page_count)
    BY <1>1, <1>3, <1>4 DEF PagesInvariant, PagesMatchCount, PagesOf
  <2>2. documents[d].page_count # 0
    BY <2>1
  <2> QED
    BY <2>2 DEF PagesInvariant, AbsentHaveNoPages
<1>6. \A p \in Pages : pages'[p].status = "absent" <=> pages[p].status = "absent"
  <2>1. Finished(s, pages[s.page]).status # "absent"
    BY <1>1, <1>2, <1>3, FinishedType DEF TypeOK, TablesTypeOK
  <2>2. pages' = [pages EXCEPT ![s.page] = Finished(s, pages[s.page])]
    BY DEF CommitAttempt
  <2> QED
    BY <1>1, <1>3, <2>1, <2>2 DEF TypeOK, TablesTypeOK
<1>7. \A c \in Documents : /\ documents'[c].status = "absent" <=> documents[c].status = "absent"
                           /\ documents'[c].page_count = documents[c].page_count
  <2>1. s.derived # "absent"
    BY <1>1 DEF ExtractStep, DocumentStatus, NoStatus
  <2>2. CASE s.derived = NoStatus
    BY <2>2 DEF CommitAttempt
  <2>3. CASE s.derived # NoStatus
    <3> DEFINE status == Flushed(s.document_status, s.derived, documents[s.page[1]].status)
    <3>1. documents' = [documents EXCEPT ![s.page[1]].status = status]
      BY <2>3 DEF CommitAttempt
    <3>2. status # "absent"
      BY <1>4, <1>5, <2>1 DEF Flushed
    <3> HIDE DEF status
    <3> QED
      BY <1>4, <1>5, <3>1, <3>2 DEF TypeOK, TablesTypeOK, DocumentRow
  <2> QED
    BY <2>2, <2>3
<1>8. WorkersTakeRows /\ RequestsTakeRows
  BY WorkerDrops, RequestsRest DEF PagesInvariant, CommitAttempt, retryVars
<1> QED
  BY <1>6, <1>7, <1>8, PagesFrame DEF RowsStay

LEMMA PagesFault ==
    ASSUME TypeOK, TypeOK', PagesInvariant, NEW w \in Workers, WorkerFault(w), UNCHANGED retryVars
    PROVE  PagesInvariant'
<1>1. RowsStay /\ RequestsTakeRows
  BY RequestsRest DEF WorkerFault, StepRaises, Crash, RowsStay, tableVars, retryVars, PagesInvariant
<1>2. CASE StepRaises(w)
  BY <1>1, <1>2, PagesFrame, WorkerDrops DEF StepRaises, PagesInvariant
<1>3. CASE Crash(w)
  <2>1. /\ step'[w].kind = "none" /\ document_ids'[w] = {} /\ page_ids'[w] = {}
        /\ \A v \in Workers \ {w} : /\ step'[v] = step[v]
                                    /\ document_ids'[v] = document_ids[v]
                                    /\ page_ids'[v] = page_ids[v]
    BY <1>3 DEF Crash, NoStep, TypeOK, WorkerTypeOK
  <2>2. WorkersTakeRows
    BY <2>1 DEF PagesInvariant, InHandExists, WorkersTakeRows, HoldsDocument, HoldsPage,
       Converting, Extracting
  <2> QED
    BY <1>1, <2>2, PagesFrame
<1> QED
  BY <1>2, <1>3 DEF WorkerFault

LEMMA PagesRequest ==
    ASSUME TypeOK, TypeOK', PagesInvariant, NEW r \in Requests, RequestNext(r)
    PROVE  PagesInvariant'
<1> DEFINE q == request[r]
<1>1. /\ q.stage \in {"loaded", "restart"} => q \in LoadedRequest
      /\ q.stage = "requeue" => q \in RequeueRequest
  BY RequestShapes DEF TypeOK
<1>2. /\ q.stage \in {"loaded", "requeue", "restart"} => documents[q.document].status # "absent"
      /\ q.stage = "requeue" => \A p \in DOMAIN q.targets : pages[p].status # "absent"
  BY DEF PagesInvariant, InHandExists
<1>3. \A t \in Requests \ {r} : request'[t] = request[t]
  BY DEF RequestNext, RetryArrives, RetryProgress, RetryLoads, RetrySelectsFailed,
     RetrySelectsPage, RetryRequeues, RetryRestarts, Close, Requeue, TypeOK, RetryTypeOK
<1>4. WorkersTakeRows
  BY WorkersRest DEF PagesInvariant, RequestNext, RetryArrives, RetryProgress, RetryLoads,
     RetrySelectsFailed, RetrySelectsPage, RetryRequeues, RetryRestarts, workerVars
<1>5. ASSUME RowsStay,
             /\ request'[r].stage \in {"loaded", "requeue", "restart"} =>
                    documents[request'[r].document].status # "absent"
             /\ request'[r].stage = "requeue" =>
                    \A p \in DOMAIN request'[r].targets : pages[p].status # "absent"
      PROVE  PagesInvariant'
  <2>1. RequestsTakeRows
    BY <1>3, <1>5 DEF RequestsTakeRows, PagesInvariant, InHandExists
  <2> QED
    BY <1>4, <1>5, <2>1, PagesFrame
<1>6. CASE RetryArrives(r)
  <2>1. RowsStay
    BY <1>6 DEF RetryArrives, RetryLoads, RowsStay, tableVars
  <2>2. request'[r].stage = "loaded" /\ documents[request'[r].document].status # "absent"
    BY <1>6 DEF RetryArrives, RetryLoads, TypeOK, RetryTypeOK
  <2> QED
    BY <1>5, <2>1, <2>2
<1>7. ASSUME Close(r), RowsStay
      PROVE  PagesInvariant'
  <2>1. request'[r].stage = "closed"
    BY <1>7 DEF Close, ClosedRequest, TypeOK, RetryTypeOK
  <2> QED
    BY <1>5, <1>7, <2>1
<1>8. ASSUME NEW targets \in SUBSET Pages, q.stage = "loaded", Requeue(r, targets), RowsStay,
             \A p \in targets : pages[p].status # "absent"
      PROVE  PagesInvariant'
  <2>1. /\ request'[r].stage = "requeue" /\ request'[r].document = q.document
        /\ DOMAIN request'[r].targets = targets
    BY <1>8 DEF Requeue, TypeOK, RetryTypeOK
  <2> QED
    BY <1>2, <1>5, <1>8, <2>1
<1>9. CASE RetrySelectsFailed(r)
  <2> DEFINE targets == Targets(q.document)
  <2>1. RowsStay /\ q.stage = "loaded"
    BY <1>9 DEF RetrySelectsFailed, RowsStay, tableVars
  <2>2. targets \in SUBSET Pages /\ \A p \in targets : pages[p].status # "absent"
    BY DEF Targets, FailedPages, PagesOf
  <2>3. CASE request' = [request EXCEPT ![r].stage = "restart"]
    <3>1. q \in LoadedRequest
      BY <1>1, <2>1
    <3>2. request'[r].stage = "restart" /\ request'[r].document = q.document
      BY <2>3, <3>1 DEF TypeOK, RetryTypeOK, LoadedRequest
    <3> QED
      BY <1>2, <1>5, <2>1, <3>2
  <2>4. Close(r) \/ Requeue(r, targets) \/ request' = [request EXCEPT ![r].stage = "restart"]
    BY <1>9 DEF RetrySelectsFailed
  <2> QED
    BY <1>7, <1>8, <2>1, <2>2, <2>3, <2>4
<1>10. CASE RetrySelectsPage(r)
  <2> DEFINE p == <<q.document, q.page_no>>
  <2>1. RowsStay /\ q.stage = "loaded" /\ q.page_no # AllFailed
    BY <1>10 DEF RetrySelectsPage, RowsStay, tableVars
  <2>2. p \in Pages
    BY <1>1, <2>1, TablesAssumption DEF LoadedRequest, Pages, PageNos, AllFailed
  <2>3. Close(r) \/ (Requeue(r, {p}) /\ pages[p].status # "absent")
    BY <1>10 DEF RetrySelectsPage
  <2> QED
    BY <1>7, <1>8, <2>1, <2>2, <2>3
<1>11. CASE RetryRequeues(r)
  <2>1. q \in RequeueRequest /\ q.document \in Documents /\ documents[q.document].status # "absent"
    BY <1>1, <1>2, <1>11 DEF RetryRequeues, RequeueRequest
  <2>2. \A p \in DOMAIN q.targets : pages[p].status # "absent"
    BY <1>2, <1>11 DEF RetryRequeues
  <2>3. \A p \in Pages : Requeued(r, p).status = "pending"
    BY DEF Requeued, TypeOK, TablesTypeOK, PageRow
  <2>4. \A p \in Pages : pages'[p].status = "absent" <=> pages[p].status = "absent"
    BY <1>11, <2>2, <2>3 DEF RetryRequeues
  <2>5. RowsStay
    BY <1>11, <2>1, <2>4 DEF RetryRequeues, RowsStay, Flushed, TypeOK, TablesTypeOK, DocumentRow
  <2> QED
    BY <1>7, <1>11, <2>5 DEF RetryRequeues
<1>12. CASE RetryRestarts(r)
  <2>1. q.document \in Documents /\ documents[q.document].status # "absent"
    BY <1>1, <1>2, <1>12 DEF RetryRestarts, LoadedRequest
  <2>2. RowsStay
    BY <1>12, <2>1 DEF RetryRestarts, RowsStay, TypeOK, TablesTypeOK, DocumentRow
  <2> QED
    BY <1>7, <1>12, <2>2 DEF RetryRestarts
<1> QED
  BY <1>6, <1>9, <1>10, <1>11, <1>12 DEF RequestNext, RetryProgress

LEMMA PagesEnvironment ==
    ASSUME TypeOK, TypeOK', PagesInvariant, Environment
    PROVE  PagesInvariant'
<1>1. WorkersTakeRows /\ RequestsTakeRows
  BY WorkersRest, RequestsRest
     DEF PagesInvariant, Environment, DocumentArrives, AdministratorSwitchesEngines, ClaimsAge,
         DocumentClaimAges, PageClaimAges, workerVars, retryVars
<1>2. CASE \E d \in Documents : DocumentArrives(d)
  <2>1. PICK d \in Documents : DocumentArrives(d)
    BY <1>2
  <2>2. /\ documents'[d].status # "absent" /\ documents'[d].page_count = 0
        /\ \A c \in Documents \ {d} : documents'[c] = documents[c]
        /\ UNCHANGED pages
    BY <2>1 DEF DocumentArrives, NewDocument, AbsentDocument, TypeOK, TablesTypeOK
  <2>3. documents[d].page_count = 0
    BY <2>1 DEF DocumentArrives, PagesInvariant, AbsentHaveNoPages
  <2>4. \A c \in Documents : /\ PagesOf(c)' = PagesOf(c)
                             /\ documents'[c].page_count = documents[c].page_count
    BY <2>2, <2>3 DEF PagesOf
  <2>5. PagesMatchCount' /\ AbsentHaveNoPages'
    BY <2>2, <2>4 DEF PagesInvariant, PagesMatchCount, AbsentHaveNoPages
  <2>6. InHandExists'
    BY <1>1, <2>2, InHandGrows
  <2> QED
    BY <2>5, <2>6 DEF PagesInvariant
<1>3. CASE AdministratorSwitchesEngines
  <2>1. RowsStay
    BY <1>3 DEF AdministratorSwitchesEngines, RowsStay
  <2> QED
    BY <1>1, <2>1, PagesFrame
<1>4. CASE ClaimsAge
  <2>1. RowsStay
    BY <1>4 DEF ClaimsAge, DocumentClaimAges, PageClaimAges, RowsStay, TypeOK, TablesTypeOK,
       DocumentRow, PageRow
  <2> QED
    BY <1>1, <2>1, PagesFrame
<1> QED
  BY <1>2, <1>3, <1>4 DEF Environment

\* Every step keeps the pages of every document whole.
LEMMA PagesNext ==
    ASSUME TypeOK, TypeOK', PagesInvariant, AttemptsFollow, [Next]_vars
    PROVE  PagesInvariant'
<1>1. CASE UNCHANGED vars
  <2>1. RowsStay
    BY <1>1 DEF vars, tableVars, RowsStay
  <2> QED
    BY <1>1, <2>1, PagesFrame, WorkersRest, RequestsRest
       DEF vars, workerVars, retryVars, PagesInvariant
<1>2. ASSUME NEW w \in Workers, WorkerProgress(w), UNCHANGED retryVars
      PROVE  PagesInvariant'
  BY <1>2, PagesRelease, PagesClaimDocuments, PagesClaimPages, PagesEndTick, PagesBeginConvert,
     PagesConvertSucceeds, PagesConvertFails, PagesBeginExtract, PagesStepGoesOn,
     PagesCommitAttempt
     DEF WorkerProgress
<1> QED
  BY <1>1, <1>2, PagesFault, PagesRequest, PagesEnvironment DEF Next, WorkerNext

\* What holds together in every reachable state: the types, the pages of each
\* document, what is in hand, and the numbering of the attempts.
THEOREM InductiveInvariantHolds == Spec => []InductiveInvariant
<1> DEFINE Inv == TypeOK /\ Numbering /\ PagesInvariant
<1>1. Init => Inv
  BY InitType, NumberingInit, PagesInit
<1>2. Inv /\ [Next]_vars => Inv'
  BY NextType, NumberingNext, PagesNext DEF Numbering
<1>3. Inv => InductiveInvariant
  BY NumberingSuffices DEF Numbering, InductiveInvariant, AttemptsInvariant
<1> QED
  BY <1>1, <1>2, <1>3, PTL DEF Spec

\* A document has exactly the pages 1..page_count: two conversions of one
\* document, one of them of a worker whose claim was released, commit the pages
\* of one of them only, and no retry or crash adds or removes a page.
THEOREM PagesAlwaysMatchCount == Spec => []PagesMatchCount
<1>1. InductiveInvariant => PagesMatchCount
  BY DEF InductiveInvariant, PagesInvariant
<1> QED
  BY <1>1, InductiveInvariantHolds, PTL

=============================================================================
