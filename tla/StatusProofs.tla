---------------------------- MODULE StatusProofs -----------------------------
(***************************************************************************)
(* What holds of documents and of their status, for any number of          *)
(* documents, pages, retries and faults.  When nobody works on a claim     *)
(* that another may release, and no two retries are under way on one       *)
(* document, a claim in use can age and documents are handed out one by    *)
(* one until they have their pages; and, until somebody asks for a retry,  *)
(* a document at rest shows the counts that its status stands for.  With   *)
(* one worker, however slow, and any retries, overlapping or not, a        *)
(* document that nobody works on has the status that its pages imply.      *)
(***************************************************************************)
EXTENDS TimelyProofs, OutcomeProofs, FiniteSetTheorems

-----------------------------------------------------------------------------
(* The invariant of conversions.                                           *)

\* A document without pages that is in hand reads converting under a claim, which
\* only slow steps let go stale, is in one hand, and is converted as it was claimed.
DocumentsInHand ==
    \A w \in Workers, d \in Documents : HoldsDocument(w, d) /\ PagesOf(d) = {} =>
        /\ documents[d].status = "converting" /\ documents[d].claimed_at # "null"
        /\ SlowSteps \/ documents[d].claimed_at = "fresh"
DocumentsHeldOnce ==
    \A d \in Documents, v, w \in Workers :
        PagesOf(d) = {} /\ HoldsDocument(v, d) /\ HoldsDocument(w, d) => v = w
ConvertOnce ==
    \A w \in Workers, d \in Documents :
        PagesOf(d) = {} /\ Converting(w, d) => d \notin document_ids[w]
ConvertsAsClaimed(d) ==
    \A w \in Workers : Converting(w, d) =>
        step[w].loaded.status = "converting" /\ step[w].loaded.claimed_at # "null"
ConvertLoaded == \A d \in Documents : PagesOf(d) = {} => ConvertsAsClaimed(d)
DocumentHands == DocumentsInHand /\ DocumentsHeldOnce /\ ConvertOnce /\ ConvertLoaded

\* A document without pages that a request has loaded as failed, and may send back
\* to conversion, is failed still.
LoadedFailed(r) ==
    \/ request[r].stage = "restart"
    \/ request[r].stage = "loaded" /\ request[r].loaded.status = "failed"
FailedAsLoaded ==
    \A r \in Requests : LoadedFailed(r) /\ PagesOf(request[r].document) = {} =>
        documents[request[r].document].status = "failed"

ConversionsTimely == DocumentHands /\ FailedAsLoaded /\ ClaimsCanAge

-----------------------------------------------------------------------------
(* The invariant of documents that nobody has asked to retry.              *)

NoneAsked == \A r \in Requests : request[r] = NewRequest

\* A document has no pages before its conversion ends, nor while it is in hand.
EarlyHaveNoPages ==
    \A d \in Documents :
        documents[d].status \in {"absent", "pending", "converting"} => PagesOf(d) = {}
HeldHaveNoPages ==
    \A w \in Workers, d \in Documents : HoldsDocument(w, d) => PagesOf(d) = {}

\* What a step derives, if anything, is a status of rest.
DerivedRests ==
    \A w \in Workers : AtStage(w, {"commit"}) => step[w].derived \in Resting \cup {NoStatus}

\* A document at rest has the pages that its status stands for, and a step that has
\* derived a status would derive it again.
Statuses(d) == {pages[p].status : p \in PagesOf(d)}
RestsAsSaid(d) ==
    /\ documents[d].status = "completed" => Statuses(d) = {"succeeded"}
    /\ documents[d].status = "failed" => Statuses(d) \subseteq {"failed"}
    /\ documents[d].status = "partial_failed" => Statuses(d) = {"succeeded", "failed"}
RestingStands == \A d \in Documents : RestsAsSaid(d)
DerivedStands ==
    \A w \in Workers :
        AtStage(w, {"commit"}) /\ step[w].derived # NoStatus =>
            step[w].derived = Derive(StatusesSeenBy(w))

DocumentsTimely ==
    /\ ConversionsTimely /\ EarlyHaveNoPages /\ HeldHaveNoPages
    /\ DerivedRests /\ RestingStands /\ DerivedStands

\* What is known of every reachable state, whatever the speed of the steps.
Sound == TypeOK /\ Numbering /\ PagesInvariant

LEMMA AlwaysSound == Spec => []Sound
<1>1. TypeOK /\ Numbering /\ InductiveInvariant => Sound
  BY DEF Sound, InductiveInvariant
<1> QED
  BY <1>1, TypedNumbering, InductiveInvariantHolds, PTL

-----------------------------------------------------------------------------
(* What a step does to a document.                                         *)

\* How a step changes the status and the claim of a document, if at all.
DocumentMoves(d) ==
    \/ /\ documents'[d].status = documents[d].status
       /\ \/ documents'[d].claimed_at = documents[d].claimed_at
          \/ /\ documents[d].claimed_at = "fresh" /\ documents'[d].claimed_at = "stale"
             /\ SlowSteps \/ \A w \in Workers : ~HoldsDocument(w, d)
    \/ documents[d].status = "absent" /\ documents'[d].status = "pending"
    \/ /\ \E w \in Workers : ReleaseAbandonedClaims(w)
       /\ documents[d].status = "converting" /\ documents[d].claimed_at = "stale"
       /\ documents'[d].status = "pending"
    \/ /\ documents[d].status = "pending"
       /\ documents'[d].status = "converting" /\ documents'[d].claimed_at = "fresh"
    \/ \E w \in Workers :
        /\ Converting(w, d) /\ EndStep(w)
        /\ \/ ConvertFails(w) /\ documents'[d].status = "failed"
           \/ ConvertSucceeds(w) /\ documents'[d].status = "extracting"
    \/ \E w \in Workers :
        /\ CommitAttempt(w) /\ step[w].page[1] = d
        /\ step[w].derived # NoStatus /\ documents'[d].status = step[w].derived
        /\ documents'[d].claimed_at = documents[d].claimed_at
    \/ \E r \in Requests :
        /\ RetryRequeues(r) /\ request[r].document = d
        /\ documents'[d].status = "extracting"
        /\ documents'[d].claimed_at = documents[d].claimed_at
    \/ \E r \in Requests :
        /\ RetryRestarts(r) /\ request[r].document = d
        /\ documents'[d].status = "pending"

LEMMA ConvertMoves ==
    ASSUME TypeOK, NEW w \in Workers, NEW d \in Documents, ConvertsAsClaimed(d),
           ConvertSucceeds(w) \/ ConvertFails(w)
    PROVE  DocumentMoves(d)
<1>1. step[w] \in ConvertStep /\ EndStep(w) /\ step[w].kind = "convert"
  BY StepShapes DEF TypeOK, ConvertSucceeds, ConvertFails
<1>2. step[w].document = d => step[w].loaded.status = "converting"
  BY <1>1 DEF ConvertsAsClaimed, Converting
<1>3. PICK c \in Documents : c = step[w].document
  BY <1>1 DEF ConvertStep
<1>4. PICK old : old = step[w].loaded
  OBVIOUS
<1>5. documents \in [Documents -> DocumentRow]
  BY DEF TypeOK, TablesTypeOK
<1>6. CASE ConvertFails(w)
  <2>1. documents' = [documents EXCEPT ![c].error_message = "set",
                        ![c].status = Flushed(old.status, "failed", @),
                        ![c].claimed_at = Flushed(old.claimed_at, "null", @)]
    BY <1>3, <1>4, <1>6 DEF ConvertFails
  <2>2. /\ c = d => documents'[c].status = "failed"
        /\ \A e \in Documents \ {c} : documents'[e] = documents[e]
    BY <1>2, <1>3, <1>4, <1>5, <2>1 DEF Flushed, DocumentRow
  <2> QED
    BY <1>1, <1>3, <1>6, <2>2 DEF DocumentMoves, Converting, ConvertFails
<1>7. CASE ConvertSucceeds(w) /\ PagesCollide(c)
  BY <1>3, <1>7 DEF ConvertSucceeds, DocumentMoves
<1>8. CASE ConvertSucceeds(w) /\ ~PagesCollide(c)
  <2>1. PICK n \in PageNos :
          documents' = [documents EXCEPT ![c].page_count = n,
                          ![c].status = Flushed(old.status, "extracting", @),
                          ![c].claimed_at = Flushed(old.claimed_at, "null", @)]
    BY <1>3, <1>4, <1>8 DEF ConvertSucceeds
  <2>2. /\ c = d => documents'[c].status = "extracting"
        /\ \A e \in Documents \ {c} : documents'[e] = documents[e]
    BY <1>2, <1>3, <1>4, <1>5, <2>1 DEF Flushed, DocumentRow
  <2> QED
    BY <1>1, <1>3, <1>8, <2>2 DEF DocumentMoves, Converting, ConvertSucceeds
<1> QED
  BY <1>6, <1>7, <1>8

LEMMA WorkerMovesDocuments ==
    ASSUME TypeOK, NEW w \in Workers, WorkerNext(w), NEW d \in Documents, ConvertsAsClaimed(d)
    PROVE  DocumentMoves(d)
<1>1. documents \in [Documents -> DocumentRow]
  BY DEF TypeOK, TablesTypeOK
<1>2. CASE ReleaseAbandonedClaims(w)
  BY <1>1, <1>2 DEF ReleaseAbandonedClaims, AbandonedDocuments, Abandoned, Released, DocumentMoves,
                    DocumentRow
<1>3. CASE ClaimDocuments(w)
  <2>1. PICK S \in SUBSET {c \in Documents : documents[c].status = "pending"} :
          documents' = [c \in Documents |->
                IF c \in S THEN ClaimedDocument(documents[c]) ELSE documents[c]]
    BY <1>3 DEF ClaimDocuments, Batches
  <2>2. documents[d] \in DocumentRow
    BY <1>1
  <2> QED
    BY <2>1, <2>2 DEF ClaimedDocument, DocumentRow, DocumentMoves
<1>4. CASE CommitAttempt(w)
  <2>1. PICK c : c = step[w].page[1]
    OBVIOUS
  <2>2. CASE step[w].derived = NoStatus
    BY <1>4, <2>2 DEF CommitAttempt, DocumentMoves
  <2>3. CASE step[w].derived # NoStatus
    <3>1. documents' = [documents EXCEPT
            ![c].status = Flushed(step[w].document_status, step[w].derived, @)]
      BY <1>4, <2>1, <2>3 DEF CommitAttempt
    <3>2. documents[d] \in DocumentRow
      BY <1>1
    <3>3. CASE c # d
      BY <1>1, <3>1, <3>3 DEF DocumentMoves
    <3>4. CASE c = d
      <4>1. /\ documents'[d].status \in {documents[d].status, step[w].derived}
            /\ documents'[d].claimed_at = documents[d].claimed_at
        BY <1>1, <3>1, <3>2, <3>4 DEF Flushed, DocumentRow
      <4> QED
        BY <1>4, <2>1, <2>3, <3>4, <4>1 DEF DocumentMoves
    <3> QED
      BY <3>3, <3>4
  <2> QED
    BY <2>2, <2>3
<1>5. CASE UNCHANGED documents
  BY <1>5 DEF DocumentMoves
<1> QED
  BY <1>2, <1>3, <1>4, <1>5, ConvertMoves
     DEF WorkerNext, WorkerProgress, WorkerFault, ClaimPages, EndTick, BeginConvert, BeginExtract,
         VendorAnswers, RecordAttempt, AttemptCollides, DeriveStatus, StepRaises, Crash, tableVars

LEMMA RequestMovesDocuments ==
    ASSUME TypeOK, NEW r \in Requests, RequestNext(r), NEW d \in Documents
    PROVE  DocumentMoves(d)
<1>1. documents \in [Documents -> DocumentRow] /\ documents[d] \in DocumentRow
  BY DEF TypeOK, TablesTypeOK
<1>2. PICK c, old : c = request[r].document /\ old = request[r].loaded
  OBVIOUS
<1>3. CASE RetryRequeues(r)
  <2>1. documents' = [documents EXCEPT ![c].status = Flushed(old.status, "extracting", @)]
    BY <1>2, <1>3 DEF RetryRequeues
  <2>2. CASE c # d
    BY <1>1, <2>1, <2>2 DEF DocumentMoves
  <2>3. CASE c = d
    <3>1. /\ documents'[d].status \in {documents[d].status, "extracting"}
          /\ documents'[d].claimed_at = documents[d].claimed_at
      BY <1>1, <2>1, <2>3 DEF Flushed, DocumentRow
    <3> QED
      BY <1>2, <1>3, <2>3, <3>1 DEF DocumentMoves
  <2> QED
    BY <2>2, <2>3
<1>4. CASE RetryRestarts(r)
  <2>1. documents' = [documents EXCEPT
          ![c].status = "pending",
          ![c].error_message = Flushed(old.error_message, "null", @),
          ![c].claimed_at = Flushed(old.claimed_at, "null", @)]
    BY <1>2, <1>4 DEF RetryRestarts
  <2>2. CASE c # d
    BY <1>1, <2>1, <2>2 DEF DocumentMoves
  <2>3. CASE c = d
    <3>1. documents'[d].status = "pending"
      BY <1>1, <2>1, <2>3 DEF DocumentRow
    <3> QED
      BY <1>2, <1>4, <2>3, <3>1 DEF DocumentMoves
  <2> QED
    BY <2>2, <2>3
<1>5. CASE UNCHANGED documents
  BY <1>5 DEF DocumentMoves
<1> QED
  BY <1>3, <1>4, <1>5
     DEF RequestNext, RetryArrives, RetryLoads, RetryProgress, RetrySelectsFailed, RetrySelectsPage,
         tableVars

LEMMA DocumentsMove ==
    ASSUME TypeOK, [Next]_vars, NEW d \in Documents, ConvertsAsClaimed(d)
    PROVE  DocumentMoves(d)
<1>1. documents \in [Documents -> DocumentRow] /\ documents[d] \in DocumentRow
  BY DEF TypeOK, TablesTypeOK
<1>2. ASSUME NEW c \in Documents, DocumentArrives(c)
      PROVE  DocumentMoves(d)
  BY <1>1, <1>2 DEF DocumentArrives, NewDocument, AbsentDocument, DocumentMoves
<1>3. ASSUME NEW c \in Documents, DocumentClaimAges(c)
      PROVE  DocumentMoves(d)
  <2>1. CASE c # d
    BY <1>1, <1>3, <2>1 DEF DocumentClaimAges, DocumentMoves
  <2>2. CASE c = d
    BY <1>1, <1>3, <2>2 DEF DocumentClaimAges, DocumentMoves, DocumentRow
  <2> QED
    BY <2>1, <2>2
<1>4. CASE UNCHANGED documents
  BY <1>4 DEF DocumentMoves
<1> QED
  BY <1>2, <1>3, <1>4, WorkerMovesDocuments, RequestMovesDocuments
     DEF Next, Environment, AdministratorSwitchesEngines, ClaimsAge, PageClaimAges, vars, tableVars

-----------------------------------------------------------------------------
(* The pages of a document.                                                *)

\* Only the conversion that ends gives a document pages, and it had none.
Converts(d) == \E w \in Workers : ConvertSucceeds(w) /\ Converting(w, d)

LEMMA CountStays ==
    ASSUME TypeOK, PagesInvariant, [Next]_vars, NEW d \in Documents,
           PagesOf(d) # {} \/ ~Converts(d)
    PROVE  documents'[d].page_count = documents[d].page_count
<1>1. documents \in [Documents -> DocumentRow] /\ documents[d] \in DocumentRow
  BY DEF TypeOK, TablesTypeOK
<1>2. ASSUME NEW w \in Workers, WorkerNext(w)
      PROVE  documents'[d].page_count = documents[d].page_count
  <2>1. CASE ReleaseAbandonedClaims(w)
    BY <1>1, <2>1 DEF ReleaseAbandonedClaims, Released, DocumentRow
  <2>2. CASE ClaimDocuments(w)
    <3>1. PICK S : documents' = [c \in Documents |->
                IF c \in S THEN ClaimedDocument(documents[c]) ELSE documents[c]]
      BY <2>2 DEF ClaimDocuments
    <3> QED
      BY <1>1, <3>1 DEF ClaimedDocument, DocumentRow
  <2>3. CASE ConvertSucceeds(w)
    <3>1. CASE step[w].document = d
      BY <2>3, <3>1 DEF ConvertSucceeds, PagesCollide, Converts, Converting
    <3>2. CASE step[w].document # d
      BY <1>1, <2>3, <3>2 DEF ConvertSucceeds
    <3> QED
      BY <3>1, <3>2
  <2>4. CASE ConvertFails(w)
    <3>1. PICK c, s, a : documents' = [documents EXCEPT ![c].error_message = "set",
                            ![c].status = s, ![c].claimed_at = a]
      BY <2>4 DEF ConvertFails
    <3> QED
      BY <1>1, <3>1 DEF DocumentRow
  <2>5. CASE CommitAttempt(w)
    <3>1. UNCHANGED documents \/ \E c, s : documents' = [documents EXCEPT ![c].status = s]
      BY <2>5 DEF CommitAttempt
    <3> QED
      BY <1>1, <3>1 DEF DocumentRow
  <2>6. CASE UNCHANGED documents
    BY <2>6
  <2> QED
    BY <1>2, <2>1, <2>2, <2>3, <2>4, <2>5, <2>6
     DEF WorkerNext, WorkerProgress, WorkerFault, ClaimPages, EndTick, BeginConvert, BeginExtract,
         VendorAnswers, RecordAttempt, AttemptCollides, DeriveStatus, StepRaises, Crash, tableVars
<1>3. ASSUME NEW r \in Requests, RequestNext(r)
      PROVE  documents'[d].page_count = documents[d].page_count
  <2>1. CASE RetryRequeues(r)
    <3>1. PICK c, s : documents' = [documents EXCEPT ![c].status = s]
      BY <2>1 DEF RetryRequeues
    <3> QED
      BY <1>1, <3>1 DEF DocumentRow
  <2>2. CASE RetryRestarts(r)
    <3>1. PICK c, e, a : documents' = [documents EXCEPT ![c].status = "pending",
                            ![c].error_message = e, ![c].claimed_at = a]
      BY <2>2 DEF RetryRestarts
    <3> QED
      BY <1>1, <3>1 DEF DocumentRow
  <2>3. CASE UNCHANGED documents
    BY <2>3
  <2> QED
    BY <1>3, <2>1, <2>2, <2>3
       DEF RequestNext, RetryArrives, RetryLoads, RetryProgress, RetrySelectsFailed,
           RetrySelectsPage, tableVars
<1>4. ASSUME NEW c \in Documents, DocumentArrives(c)
      PROVE  documents'[d].page_count = documents[d].page_count
  <2>1. NewDocument.page_count = 0
    BY DEF NewDocument, AbsentDocument
  <2> QED
    BY <1>1, <1>4, <2>1 DEF DocumentArrives, PagesInvariant, AbsentHaveNoPages
<1>5. ASSUME NEW c \in Documents, DocumentClaimAges(c)
      PROVE  documents'[d].page_count = documents[d].page_count
  BY <1>1, <1>5 DEF DocumentClaimAges, DocumentRow
<1>6. CASE UNCHANGED documents
  BY <1>6
<1> QED
  BY <1>2, <1>3, <1>4, <1>5, <1>6
     DEF Next, Environment, AdministratorSwitchesEngines, ClaimsAge, PageClaimAges, vars, tableVars

LEMMA PagesOfStays ==
    ASSUME Sound, Sound', [Next]_vars, NEW d \in Documents, PagesOf(d) # {} \/ ~Converts(d)
    PROVE  PagesOf(d)' = PagesOf(d)
<1>1. documents'[d].page_count = documents[d].page_count
  BY CountStays DEF Sound
<1>2. /\ PagesOf(d) = {d} \X (1..documents[d].page_count)
      /\ PagesOf(d)' = {d} \X (1..documents'[d].page_count)
  BY DEF Sound, PagesInvariant, PagesMatchCount
<1> QED
  BY <1>1, <1>2

\* The pages that a request queues again are finished pages of its document, and
\* it queues one at least.
LEMMA RequeuesSome ==
    ASSUME Sound, TargetsRest, TargetsChosen, NEW r \in Requests, RetryRequeues(r)
    PROVE  \E p \in PagesOf(request[r].document) :
             pages[p].status \in ExtractionStatus /\ pages'[p].status = "pending"
<1>1. DOMAIN request[r].targets \subseteq Pages
  BY RequeueShape DEF Sound, RetryRequeues
<1>2. PICK p \in DOMAIN request[r].targets : TRUE
  BY DEF RetryRequeues, TargetsChosen
<1>3. p \in Pages /\ p[1] = request[r].document /\ pages[p].status \in ExtractionStatus
  BY <1>1, <1>2 DEF RetryRequeues, TargetsRest
<1>4. p \in PagesOf(request[r].document)
  BY <1>3 DEF PagesOf, ExtractionStatus
<1>5. pages'[p] = Requeued(r, p) /\ pages[p] \in PageRow
  BY <1>2, <1>3 DEF RetryRequeues, Sound, TypeOK, TablesTypeOK
<1>6. pages'[p].status = "pending"
  BY <1>5 DEF Requeued, PageRow
<1> QED
  BY <1>3, <1>4, <1>6

Requeueing(d) == \E r \in Requests : RetryRequeues(r) /\ request[r].document = d

\* A finished page stays so but for a retry of its document.
LEMMA FinishedUnlessRequeued ==
    ASSUME Sound, Hands, TargetsRest, [Next]_vars, NEW p \in Pages,
           pages[p].status \in ExtractionStatus, ~Requeueing(p[1])
    PROVE  pages'[p].status = pages[p].status
<1>1. ASSUME NEW r \in Requests, RequestNext(r), pages'[p] # pages[p]
      PROVE  FALSE
  <2>1. RetryRequeues(r) /\ p \in DOMAIN request[r].targets
    BY <1>1, RetryWrites DEF Sound
  <2> QED
    BY <2>1 DEF TargetsRest, RetryRequeues, Requeueing
<1> QED
  BY <1>1, FinishedStays, EnvironmentMoves DEF Sound, Next, vars, tableVars

LEMMA StatusesStay ==
    ASSUME Sound, Sound', Hands, TargetsRest, [Next]_vars, NEW d \in Documents, ~Requeueing(d),
           PagesOf(d) # {} \/ ~Converts(d), Statuses(d) \subseteq ExtractionStatus
    PROVE  Statuses(d)' = Statuses(d)
<1>1. PagesOf(d)' = PagesOf(d)
  BY PagesOfStays
<1>2. \A p \in PagesOf(d) : pages'[p].status = pages[p].status
  BY FinishedUnlessRequeued DEF Statuses, PagesOf
<1> QED
  BY <1>1, <1>2 DEF Statuses

-----------------------------------------------------------------------------
(* Where the step of a worker has come to.                                 *)

LEMMA StageReached ==
    ASSUME TypeOK, [Next]_vars, NEW w \in Workers, step'[w] # step[w],
           AtStage(w, {"derive", "commit"})'
    PROVE  \/ RecordAttempt(w) /\ step'[w].stage = "derive"
           \/ DeriveStatus(w) /\ step'[w].stage = "commit"
<1>1. DOMAIN step = Workers
  BY DEF TypeOK, WorkerTypeOK
<1>2. PICK v \in Workers : WorkerProgress(v) \/ WorkerFault(v)
  BY DEF Next, WorkerNext, RequestNext, RetryArrives, RetryLoads, RetryProgress, RetrySelectsFailed,
         RetrySelectsPage, RetryRequeues, RetryRestarts, Environment, DocumentArrives,
         AdministratorSwitchesEngines, ClaimsAge, DocumentClaimAges, PageClaimAges, vars, workerVars
<1>3. CASE UNCHANGED step
  BY <1>3
<1>4. CASE step' = [step EXCEPT ![v] = NoStep]
  BY <1>1, <1>4 DEF NoStep, AtStage
<1>5. CASE BeginConvert(v)
  <2>1. \E new : new.kind = "convert" /\ step' = [step EXCEPT ![v] = new]
    BY <1>5 DEF BeginConvert
  <2> QED
    BY <1>1, <2>1 DEF AtStage
<1>6. CASE BeginExtract(v)
  <2>1. UNCHANGED step \/ \E new : new.stage = "vendor" /\ step' = [step EXCEPT ![v] = new]
    BY <1>6 DEF BeginExtract
  <2> QED
    BY <1>1, <2>1 DEF AtStage
<1>7. CASE VendorAnswers(v) \/ RecordAttempt(v) \/ DeriveStatus(v)
  <2>1. step[v] \in ExtractStep
    BY <1>7, StepShapes DEF VendorAnswers, RecordAttempt, DeriveStatus, AtStage, TypeOK
  <2>2. CASE VendorAnswers(v)
    <3>1. PICK o, n : step' = [step EXCEPT ![v].stage = "insert", ![v].outcome = o,
                                           ![v].attempt_no = n]
      BY <2>2 DEF VendorAnswers
    <3> QED
      BY <1>1, <2>1, <3>1 DEF AtStage, ExtractStep
  <2>3. CASE RecordAttempt(v)
    <3>1. PICK s : step' = [step EXCEPT ![v].stage = "derive", ![v].document_status = s]
      BY <2>3 DEF RecordAttempt
    <3>2. v = w
      BY <1>1, <3>1
    <3> QED
      BY <1>1, <2>1, <2>3, <3>1, <3>2 DEF ExtractStep
  <2>4. CASE DeriveStatus(v)
    <3>1. PICK s : step' = [step EXCEPT ![v].stage = "commit", ![v].derived = s]
      BY <2>4 DEF DeriveStatus
    <3>2. v = w
      BY <1>1, <3>1
    <3> QED
      BY <1>1, <2>1, <2>4, <3>1, <3>2 DEF ExtractStep
  <2> QED
    BY <1>7, <2>2, <2>3, <2>4
<1> QED
  BY <1>2, <1>3, <1>4, <1>5, <1>6, <1>7
     DEF WorkerProgress, WorkerFault, ReleaseAbandonedClaims, ClaimDocuments, ClaimPages, EndTick,
         ConvertSucceeds, ConvertFails, AttemptCollides, CommitAttempt, StepRaises, Crash, EndStep

\* What a step writes when it records its attempt, and when it derives.
LEMMA RecordWrites ==
    ASSUME TypeOK, NEW w \in Workers, RecordAttempt(w)
    PROVE  /\ UNCHANGED tableVars /\ step'[w].kind = "extract" /\ step'[w].page = step[w].page
           /\ step'[w].document_status = documents[step[w].page[1]].status
<1>1. step[w] \in ExtractStep /\ DOMAIN step = Workers
  BY StepShapes DEF RecordAttempt, AtStage, TypeOK, WorkerTypeOK
<1>2. PICK s : /\ s = documents[step[w].page[1]].status
               /\ step' = [step EXCEPT ![w].stage = "derive", ![w].document_status = s]
  BY DEF RecordAttempt
<1> QED
  BY <1>1, <1>2 DEF RecordAttempt, ExtractStep

LEMMA DeriveWrites ==
    ASSUME TypeOK, NEW w \in Workers, DeriveStatus(w)
    PROVE  /\ UNCHANGED tableVars /\ step'[w].kind = "extract" /\ step'[w].page = step[w].page
           /\ step'[w].derived = Derive(StatusesSeenBy(w))
           /\ step'[w].document_status = step[w].document_status
           /\ StatusesSeenBy(w)' = StatusesSeenBy(w)
<1>1. step[w] \in ExtractStep /\ DOMAIN step = Workers
  BY StepShapes DEF DeriveStatus, AtStage, TypeOK, WorkerTypeOK
<1>2. PICK s : /\ s = Derive(StatusesSeenBy(w))
               /\ step' = [step EXCEPT ![w].stage = "commit", ![w].derived = s]
  BY DEF DeriveStatus
<1>3. UNCHANGED tableVars
  BY DEF DeriveStatus
<1>4. /\ step'[w].kind = "extract" /\ step'[w].page = step[w].page /\ step'[w].derived = s
      /\ step'[w].document_status = step[w].document_status
      /\ step'[w].outcome = step[w].outcome /\ step'[w].loaded = step[w].loaded
  BY <1>1, <1>2 DEF ExtractStep
<1>5. UNCHANGED pages
  BY <1>3 DEF tableVars
<1>6. StatusesSeenBy(w)' = StatusesSeenBy(w)
  BY <1>4, <1>5 DEF StatusesSeenBy, Finished, PagesOf
<1> QED
  BY <1>2, <1>3, <1>4, <1>6

LEMMA DerivedRestsStep ==
    ASSUME TypeOK, DerivedRests, [Next]_vars
    PROVE  DerivedRests'
<1>1. SUFFICES ASSUME NEW w \in Workers, AtStage(w, {"commit"})'
               PROVE  step'[w].derived \in Resting \cup {NoStatus}
  BY DEF DerivedRests
<1>2. CASE step'[w] = step[w]
  BY <1>1, <1>2 DEF DerivedRests, AtStage
<1>3. CASE step'[w] # step[w]
  <2>1. DeriveStatus(w)
    BY <1>1, <1>3, StageReached DEF AtStage
  <2>2. step'[w].derived = Derive(StatusesSeenBy(w))
    BY <2>1, DeriveWrites
  <2> QED
    BY <2>2 DEF Derive, Resting
<1> QED
  BY <1>2, <1>3

-----------------------------------------------------------------------------
(* The documents in hand.                                                  *)

\* No document is added to a list, and no conversion begun.
NoDocumentTaken ==
    \A w \in Workers :
        /\ document_ids'[w] \subseteq document_ids[w]
        /\ step'[w].kind = "convert" => step'[w] = step[w]

LEMMA DocumentHandsKept ==
    ASSUME DocumentHands, NoDocumentTaken,
           \A d \in Documents : PagesOf(d)' = {} => PagesOf(d) = {},
           \A w \in Workers, d \in Documents :
             HoldsDocument(w, d) /\ HoldsDocument(w, d)' /\ PagesOf(d)' = {} =>
                /\ documents'[d].status = documents[d].status
                /\ \/ documents'[d].claimed_at = documents[d].claimed_at
                   \/ SlowSteps /\ documents'[d].claimed_at = "stale"
    PROVE  DocumentHands'
<1>1. \A w \in Workers, d \in Documents : HoldsDocument(w, d)' => HoldsDocument(w, d)
  BY DEF NoDocumentTaken, HoldsDocument, Converting
<1>2. DocumentsInHand'
  BY <1>1 DEF DocumentHands, DocumentsInHand
<1>3. DocumentsHeldOnce'
  BY <1>1 DEF DocumentHands, DocumentsHeldOnce
<1>4. ConvertOnce'
  BY DEF DocumentHands, ConvertOnce, NoDocumentTaken, Converting
<1>5. ConvertLoaded'
  BY DEF DocumentHands, ConvertLoaded, ConvertsAsClaimed, Converting, NoDocumentTaken
<1> QED
  BY <1>2, <1>3, <1>4, <1>5 DEF DocumentHands

\* Only a claim of documents and the beginning of a conversion take any.
LEMMA NoneTaken ==
    ASSUME TypeOK, [Next]_vars,
           \A w \in Workers : ~ClaimDocuments(w) /\ ~BeginConvert(w)
    PROVE  NoDocumentTaken
<1>1. document_ids \in [Workers -> SUBSET Documents] /\ DOMAIN step = Workers
  BY DEF TypeOK, WorkerTypeOK
<1>2. ASSUME NEW w \in Workers, WorkerNext(w)
      PROVE  NoDocumentTaken
  <2>1. \A v \in Workers : document_ids'[v] \subseteq document_ids[v]
    BY <1>1, <1>2 DEF WorkerNext, WorkerProgress, WorkerFault, ReleaseAbandonedClaims, ClaimPages,
         EndTick, ConvertSucceeds, ConvertFails, BeginExtract, VendorAnswers, RecordAttempt,
         AttemptCollides, DeriveStatus, CommitAttempt, StepRaises, Crash, EndStep
  <2>2. \A v \in Workers : step'[v].kind = "convert" => step'[v] = step[v]
    <3>1. CASE UNCHANGED step
      BY <3>1
    <3>2. CASE step' = [step EXCEPT ![w] = NoStep]
      BY <1>1, <3>2 DEF NoStep
    <3>3. CASE VendorAnswers(w) \/ RecordAttempt(w) \/ DeriveStatus(w) \/ BeginExtract(w)
      <4>1. \A v \in Workers \ {w} : step'[v] = step[v]
        BY <1>1, <3>3 DEF VendorAnswers, RecordAttempt, DeriveStatus, BeginExtract
      <4>2. step'[w].kind # "convert"
        <5>1. CASE BeginExtract(w)
          <6>1. step' = step \/ \E new : new.kind = "extract" /\ step' = [step EXCEPT ![w] = new]
            BY <5>1 DEF BeginExtract
          <6> QED
            BY <1>1, <5>1, <6>1 DEF BeginExtract, NoStep
        <5>2. CASE VendorAnswers(w) \/ RecordAttempt(w) \/ DeriveStatus(w)
          <6>1. step[w] \in ExtractStep
            BY <5>2, StepShapes DEF VendorAnswers, RecordAttempt, DeriveStatus, AtStage, TypeOK
          <6>2. \/ \E o, n : step' = [step EXCEPT ![w].stage = "insert", ![w].outcome = o,
                                                  ![w].attempt_no = n]
                \/ \E s : step' = [step EXCEPT ![w].stage = "derive", ![w].document_status = s]
                \/ \E s : step' = [step EXCEPT ![w].stage = "commit", ![w].derived = s]
            BY <5>2 DEF VendorAnswers, RecordAttempt, DeriveStatus
          <6> QED
            BY <1>1, <6>1, <6>2 DEF ExtractStep
        <5> QED
          BY <3>3, <5>1, <5>2
      <4> QED
        BY <4>1, <4>2
    <3> QED
      BY <1>2, <3>1, <3>2, <3>3
         DEF WorkerNext, WorkerProgress, WorkerFault, ReleaseAbandonedClaims, ClaimPages, EndTick,
             ConvertSucceeds, ConvertFails, AttemptCollides, CommitAttempt, StepRaises, Crash,
             EndStep
  <2> QED
    BY <2>1, <2>2 DEF NoDocumentTaken
<1>3. CASE UNCHANGED <<document_ids, step>>
  BY <1>3 DEF NoDocumentTaken
<1> QED
  BY <1>2, <1>3
     DEF Next, RequestNext, RetryArrives, RetryLoads, RetryProgress, RetrySelectsFailed,
         RetrySelectsPage, RetryRequeues, RetryRestarts, Environment, DocumentArrives,
         AdministratorSwitchesEngines, ClaimsAge, DocumentClaimAges, PageClaimAges, vars, workerVars

\* A claim takes documents that wait, which nobody has in hand, and dates them.
LEMMA ClaimDocumentHands ==
    ASSUME TypeOK, DocumentHands, NEW w \in Workers, ClaimDocuments(w)
    PROVE  DocumentHands'
<1>1. PICK S \in SUBSET {d \in Documents : documents[d].status = "pending"} :
        /\ documents' = [d \in Documents |->
                IF d \in S THEN ClaimedDocument(documents[d]) ELSE documents[d]]
        /\ document_ids' = [document_ids EXCEPT ![w] = S]
  BY DEF ClaimDocuments, Batches
<1>2. /\ document_ids \in [Workers -> SUBSET Documents]
      /\ documents \in [Documents -> DocumentRow]
  BY DEF TypeOK, WorkerTypeOK, TablesTypeOK
<1>3. UNCHANGED <<pages, step>>
  BY DEF ClaimDocuments
<1>4. \A d \in S : documents'[d].status = "converting" /\ documents'[d].claimed_at = "fresh"
  BY <1>1, <1>2 DEF ClaimedDocument, DocumentRow
<1>5. \A d \in Documents : d \notin S => documents'[d] = documents[d]
  BY <1>1, <1>2
<1>6. \A v \in Workers, d \in Documents : HoldsDocument(v, d) /\ PagesOf(d) = {} => d \notin S
  BY <1>1 DEF DocumentHands, DocumentsInHand
<1>7. document_ids'[w] = S /\ \A v \in Workers \ {w} : document_ids'[v] = document_ids[v]
  BY <1>1, <1>2
<1>8. \A v \in Workers, d \in Documents :
        HoldsDocument(v, d)' => HoldsDocument(v, d) \/ (v = w /\ d \in S)
  BY <1>3, <1>7 DEF HoldsDocument, Converting
<1>0. \A d \in Documents : PagesOf(d)' = PagesOf(d)
  BY <1>3 DEF PagesOf
<1>9. DocumentsInHand'
  BY <1>0, <1>4, <1>5, <1>6, <1>8 DEF DocumentHands, DocumentsInHand
<1>10. DocumentsHeldOnce'
  BY <1>0, <1>6, <1>8 DEF DocumentHands, DocumentsHeldOnce
<1>11. ConvertOnce'
  BY <1>0, <1>3, <1>6, <1>7 DEF DocumentHands, ConvertOnce, HoldsDocument, Converting
<1>12. ConvertLoaded'
  BY <1>0, <1>3 DEF DocumentHands, ConvertLoaded, ConvertsAsClaimed, Converting
<1> QED
  BY <1>9, <1>10, <1>11, <1>12 DEF DocumentHands

\* A document whose conversion begins leaves the list.
LEMMA BeginTakes ==
    ASSUME TypeOK, NEW w \in Workers, BeginConvert(w)
    PROVE  \E d \in document_ids[w] :
             /\ d \in Documents /\ UNCHANGED <<documents, pages>>
             /\ Converting(w, d)' /\ step'[w].loaded = documents[d] /\ step'[w].document = d
             /\ \A v \in Workers \ {w} : step'[v] = step[v] /\ document_ids'[v] = document_ids[v]
             /\ document_ids'[w] = document_ids[w] \ {d}
             /\ \A v \in Workers, c \in Documents : HoldsDocument(v, c)' => HoldsDocument(v, c)
<1>1. PICK d \in document_ids[w] : \E new :
        /\ new.kind = "convert" /\ new.document = d /\ new.loaded = documents[d]
        /\ step' = [step EXCEPT ![w] = new]
        /\ document_ids' = [document_ids EXCEPT ![w] = @ \ {d}]
  BY DEF BeginConvert
<1>2. PICK new :
        /\ new.kind = "convert" /\ new.document = d /\ new.loaded = documents[d]
        /\ step' = [step EXCEPT ![w] = new]
        /\ document_ids' = [document_ids EXCEPT ![w] = @ \ {d}]
  BY <1>1
<1>3. document_ids \in [Workers -> SUBSET Documents] /\ DOMAIN step = Workers
  BY DEF TypeOK, WorkerTypeOK
<1>4. UNCHANGED <<documents, pages>>
  BY DEF BeginConvert, tableVars
<1>5. step'[w] = new /\ \A v \in Workers \ {w} : step'[v] = step[v]
  BY <1>2, <1>3
<1>6. /\ document_ids'[w] = document_ids[w] \ {d}
      /\ \A v \in Workers \ {w} : document_ids'[v] = document_ids[v]
  BY <1>2, <1>3
<1>7. d \in Documents /\ HoldsDocument(w, d)
  BY <1>1, <1>3 DEF HoldsDocument
<1>8. \A v \in Workers, c \in Documents : HoldsDocument(v, c)' => HoldsDocument(v, c)
  BY <1>2, <1>5, <1>6, <1>7 DEF HoldsDocument, Converting
<1> QED
  BY <1>1, <1>2, <1>4, <1>5, <1>6, <1>7, <1>8 DEF Converting

\* It is loaded as it was claimed.
LEMMA BeginDocumentHands ==
    ASSUME TypeOK, DocumentHands, NEW w \in Workers, BeginConvert(w)
    PROVE  DocumentHands'
<1>1. PICK d \in document_ids[w] :
             /\ d \in Documents /\ UNCHANGED <<documents, pages>>
             /\ Converting(w, d)' /\ step'[w].loaded = documents[d] /\ step'[w].document = d
             /\ \A v \in Workers \ {w} : step'[v] = step[v] /\ document_ids'[v] = document_ids[v]
             /\ document_ids'[w] = document_ids[w] \ {d}
             /\ \A v \in Workers, c \in Documents : HoldsDocument(v, c)' => HoldsDocument(v, c)
  BY BeginTakes
<1>2. \A c \in Documents : PagesOf(c)' = PagesOf(c)
  BY <1>1 DEF PagesOf
<1>3. DocumentsInHand' /\ DocumentsHeldOnce'
  BY <1>1, <1>2 DEF DocumentHands, DocumentsInHand, DocumentsHeldOnce
<1>4. ConvertOnce'
  BY <1>1, <1>2 DEF DocumentHands, ConvertOnce, Converting
<1>5. HoldsDocument(w, d)
  BY <1>1 DEF HoldsDocument
<1>6. ConvertLoaded'
  BY <1>1, <1>2, <1>5 DEF DocumentHands, DocumentsInHand, ConvertLoaded, ConvertsAsClaimed, Converting
<1> QED
  BY <1>3, <1>4, <1>6 DEF DocumentHands

\* Pages in hand exist, and those under way run.
LEMMA RunsPage ==
    ASSUME Sound, NEW w \in Workers, step[w].kind = "extract"
    PROVE  /\ step[w].page \in PagesOf(step[w].page[1]) /\ step[w].page \in Pages
           /\ step[w].page[1] \in Documents
<1>1. step[w].page \in Pages
  BY StepShapes DEF Sound, TypeOK, ExtractStep
<1>2. pages[step[w].page].status # "absent"
  BY <1>1 DEF Sound, PagesInvariant, InHandExists, HoldsPage, Extracting
<1> QED
  BY <1>1, <1>2 DEF PagesOf, Pages

LEMMA CommitsRunningPage ==
    ASSUME Sound, Hands, NEW w \in Workers, step[w].kind = "extract"
    PROVE  /\ step[w].page \in PagesOf(step[w].page[1]) /\ pages[step[w].page].status = "processing"
           /\ step[w].page[1] \in Documents
<1>1. pages[step[w].page].status = "processing"
  BY RunsPage DEF Hands, InHand, HoldsPage, Extracting
<1> QED
  BY <1>1, RunsPage

\* A document without pages that is in hand is left alone by all but its worker, and
\* by time.
LEMMA DocumentHandsStep ==
    ASSUME Sound, Sound', EmptyHanded, TargetsRest, TargetsChosen, DocumentHands, FailedAsLoaded,
           OnTime, [Next]_vars
    PROVE  DocumentHands'
<1>1. ASSUME NEW w \in Workers, ClaimDocuments(w) \/ BeginConvert(w)
      PROVE  DocumentHands'
  BY <1>1, ClaimDocumentHands, BeginDocumentHands DEF Sound
<1>2. CASE \A w \in Workers : ~ClaimDocuments(w) /\ ~BeginConvert(w)
  <2>1. NoDocumentTaken
    BY <1>2, NoneTaken DEF Sound
  <2>2. ASSUME NEW v \in Workers, NEW d \in Documents, HoldsDocument(v, d), HoldsDocument(v, d)',
               PagesOf(d)' = {}
        PROVE  /\ documents'[d].status = documents[d].status
               /\ \/ documents'[d].claimed_at = documents[d].claimed_at
                  \/ SlowSteps /\ documents'[d].claimed_at = "stale"
    <3>0. PagesOf(d) = {}
      BY <2>2, PagesOfStays
    <3>1. /\ documents[d].status = "converting"
          /\ SlowSteps \/ documents[d].claimed_at = "fresh"
      BY <2>2, <3>0 DEF DocumentHands, DocumentsInHand
    <3>2. ASSUME NEW w \in Workers, ReleaseAbandonedClaims(w), documents[d].claimed_at = "stale"
          PROVE  FALSE
      <4>1. v = w /\ phase[w] = "sleep"
        BY <3>1, <3>2 DEF OnTime, ReleaseAbandonedClaims
      <4> QED
        BY <2>2, <4>1 DEF EmptyHanded, HoldsDocument, Converting, NoStep
    <3>3. ASSUME NEW w \in Workers, Converting(w, d), EndStep(w)
          PROVE  FALSE
      <4>1. v = w
        BY <2>2, <3>0, <3>3 DEF DocumentHands, DocumentsHeldOnce, HoldsDocument
      <4>2. d \notin document_ids[w] /\ UNCHANGED document_ids /\ step'[w] = NoStep
        BY <3>0, <3>3 DEF DocumentHands, ConvertOnce, EndStep, Sound, TypeOK, WorkerTypeOK
      <4> QED
        BY <2>2, <4>1, <4>2 DEF HoldsDocument, Converting, NoStep
    <3>4. ASSUME NEW w \in Workers, CommitAttempt(w), step[w].page[1] = d
          PROVE  FALSE
      BY <3>0, <3>4, RunsPage DEF CommitAttempt, AtStage
    <3>5. ASSUME NEW r \in Requests, RetryRequeues(r), request[r].document = d
          PROVE  FALSE
      BY <3>0, <3>5, RequeuesSome
    <3>6. ASSUME NEW r \in Requests, RetryRestarts(r), request[r].document = d
          PROVE  FALSE
      BY <3>0, <3>1, <3>6 DEF RetryRestarts, FailedAsLoaded, LoadedFailed
    <3>7. DocumentMoves(d)
      BY <3>0, DocumentsMove DEF Sound, DocumentHands, ConvertLoaded
    <3> QED
      BY <2>2, <3>1, <3>2, <3>3, <3>4, <3>5, <3>6, <3>7 DEF DocumentMoves
  <2>3. \A d \in Documents : PagesOf(d)' = {} => PagesOf(d) = {}
    BY PagesOfStays
  <2> QED
    BY <2>1, <2>2, <2>3, DocumentHandsKept
<1> QED
  BY <1>1, <1>2

-----------------------------------------------------------------------------
(* Requests that have loaded a document as failed.                         *)

\* While a request is under way no other writes its document or pages of it.
LEMMA NoneElseWrites ==
    ASSUME TypeOK, OneAtATime, NEW r \in Requests, UnderWay(r), request'[r] = request[r],
           NEW q \in Requests, RetryRequeues(q) \/ RetryRestarts(q)
    PROVE  request[q].document # request[r].document
<1>1. DOMAIN request = Requests
  BY DEF TypeOK, RetryTypeOK
<1>2. request'[q].stage = "closed"
  BY <1>1 DEF RetryRequeues, RetryRestarts, Close, ClosedRequest
<1>3. q # r
  BY <1>2 DEF UnderWay
<1>4. UnderWay(q)
  BY DEF UnderWay, RetryRequeues, RetryRestarts
<1> QED
  BY <1>3, <1>4 DEF OneAtATime

\* A request that has loaded its document has no other beside it, and no worker has
\* a failed document in hand.
LEMMA FailedAsLoadedStep ==
    ASSUME Sound, Sound', DocumentHands, FailedAsLoaded, OneAtATime, [Next]_vars
    PROVE  FailedAsLoaded'
<1>1. SUFFICES ASSUME NEW r \in Requests, LoadedFailed(r)', PagesOf(request[r].document)' = {}
               PROVE  documents'[request'[r].document].status = "failed"
  BY DEF FailedAsLoaded
<1>2. /\ request' \in [Requests -> {NewRequest, ClosedRequest} \cup LoadedRequest \cup RequeueRequest]
      /\ request \in [Requests -> {NewRequest, ClosedRequest} \cup LoadedRequest \cup RequeueRequest]
  BY DEF Sound, TypeOK, RetryTypeOK
<1>3. request'[r] \in LoadedRequest
  BY <1>1, <1>2 DEF LoadedFailed, NewRequest, ClosedRequest, RequeueRequest
<1>4. PICK d \in Documents : d = request'[r].document
  BY <1>3 DEF LoadedRequest
<1>5. PagesOf(d)' = {} /\ PagesOf(d) = {}
  <2>1. PagesOf(d)' = {}
    BY <1>1, <1>4 DEF PagesOf
  <2> QED
    BY <2>1, PagesOfStays
<1>6. CASE request'[r] = request[r]
  <2>1. LoadedFailed(r) /\ UnderWay(r) /\ request[r].document = d
    BY <1>1, <1>4, <1>6 DEF LoadedFailed, UnderWay
  <2>2. documents[d].status = "failed"
    BY <1>5, <2>1 DEF FailedAsLoaded
  <2>3. \A w \in Workers : ~HoldsDocument(w, d)
    BY <1>5, <2>2 DEF DocumentHands, DocumentsInHand
  <2>4. \A w \in Workers : CommitAttempt(w) => step[w].page[1] # d
    BY <1>5, RunsPage DEF CommitAttempt, AtStage
  <2>5. \A q \in Requests : RetryRequeues(q) \/ RetryRestarts(q) => request[q].document # d
    BY <1>6, <2>1, NoneElseWrites DEF Sound
  <2>6. DocumentMoves(d)
    BY <1>5, DocumentsMove DEF Sound, DocumentHands, ConvertLoaded
  <2>7. documents'[d].status = "failed"
    BY <2>2, <2>3, <2>4, <2>5, <2>6 DEF DocumentMoves, HoldsDocument
  <2> QED
    BY <1>4, <2>7
<1>7. CASE request'[r] # request[r]
  <2>1. RequestNext(r) /\ UNCHANGED documents
    <3>1. PICK q \in Requests : RequestNext(q)
      BY <1>7 DEF Next, WorkerNext, Environment, DocumentArrives, AdministratorSwitchesEngines,
                  vars, retryVars
    <3>2. q = r
      BY <1>7, <3>1, RequestAlone DEF Sound
    <3>3. ~RetryRequeues(r) /\ ~RetryRestarts(r)
      BY <1>1, <1>2 DEF LoadedFailed, RetryRequeues, RetryRestarts, Close, ClosedRequest
    <3> QED
      BY <3>1, <3>2, <3>3 DEF RequestNext, RetryArrives, RetryLoads, RetryProgress,
         RetrySelectsFailed, RetrySelectsPage, tableVars
  <2>2. CASE RetryArrives(r)
    <3>1. PICK c \in Documents : /\ request'[r].document = c /\ request'[r].loaded = documents[c]
                                 /\ request'[r].stage = "loaded"
      BY <1>2, <2>2 DEF RetryArrives, RetryLoads
    <3> QED
      BY <1>1, <1>4, <2>1, <3>1 DEF LoadedFailed
  <2>3. CASE ~RetryArrives(r)
    <3>1. RetrySelectsFailed(r)
      BY <1>1, <1>2, <2>1, <2>3 DEF LoadedFailed, RequestNext, RetryProgress, RetryRequeues,
         RetryRestarts, RetrySelectsPage, Close, ClosedRequest, Requeue
    <3>2. request[r] \in LoadedRequest /\ request[r].stage = "loaded"
      BY <3>1, RequestShapes DEF RetrySelectsFailed, Sound, TypeOK
    <3>3. /\ request' = [request EXCEPT ![r].stage = "restart"]
          /\ request[r].loaded.status = "failed"
      BY <1>1, <1>2, <3>1 DEF LoadedFailed, RetrySelectsFailed, Requeue, Close, ClosedRequest
    <3>4. request[r].document = d
      BY <1>2, <1>4, <3>2, <3>3 DEF LoadedRequest
    <3>5. documents[d].status = "failed"
      BY <1>5, <3>2, <3>3, <3>4 DEF FailedAsLoaded, LoadedFailed
    <3> QED
      BY <1>4, <2>1, <3>5
  <2> QED
    BY <2>2, <2>3
<1> QED
  BY <1>6, <1>7

-----------------------------------------------------------------------------
(* What a step sees of the pages of its document.                          *)

\* A step has not loaded its page as finished.
Unfinished ==
    \A w \in Workers : step[w].kind = "extract" => step[w].loaded.status \notin ExtractionStatus

LEMMA HandsUnfinished == Hands => Unfinished
  BY DEF Hands, LoadedStands, Unfinished, ExtractionStatus

\* So it writes the page with its own outcome.
LEMMA OutcomeWritten ==
    ASSUME Sound, Unfinished, NEW w \in Workers, Recording(w), NEW row
    PROVE  /\ step[w].outcome \in ExtractionStatus
           /\ Finished(step[w], row).status = step[w].outcome
<1>1. step[w].outcome \in ExtractionStatus
  BY DEF Sound, Numbering, AttemptsFollow
<1>2. step[w].loaded.status \notin ExtractionStatus
  BY DEF Unfinished, Recording, AtStage
<1> QED
  BY <1>1, <1>2 DEF Finished, Flushed

LEMMA SeenIs ==
    ASSUME Sound, Unfinished, NEW w \in Workers, Recording(w)
    PROVE  StatusesSeenBy(w) =
             {IF q = step[w].page THEN step[w].outcome ELSE pages[q].status :
                q \in PagesOf(step[w].page[1])}
  BY OutcomeWritten DEF StatusesSeenBy

\* The other pages of the document are finished.
OthersFinished(w) ==
    \A q \in PagesOf(step[w].page[1]) \ {step[w].page} : pages[q].status \in ExtractionStatus

LEMMA SeenFinished ==
    ASSUME Sound, Unfinished, NEW w \in Workers, Recording(w)
    PROVE  /\ OthersFinished(w) <=> StatusesSeenBy(w) \subseteq ExtractionStatus
           /\ StatusesSeenBy(w) # {}
           /\ StatusesSeenBy(w) \subseteq PageStatus
<1>1. step[w].page \in PagesOf(step[w].page[1])
  BY RunsPage DEF Recording, AtStage
<1>2. step[w].outcome \in ExtractionStatus
  BY OutcomeWritten
<1>3. \A q \in PagesOf(step[w].page[1]) : pages[q].status \in PageStatus
  BY DEF PagesOf, Sound, TypeOK, TablesTypeOK, PageRow
<1> QED
  BY <1>1, <1>2, <1>3, SeenIs DEF OthersFinished, ExtractionStatus, PageStatus

\* What a step has seen stands as long as the other pages stay as they are.
LEMMA SeenStays ==
    ASSUME Sound, Sound', Unfinished, [Next]_vars, NEW w \in Workers, Recording(w),
           step'[w] = step[w],
           \A q \in PagesOf(step[w].page[1]) \ {step[w].page} : pages'[q].status = pages[q].status
    PROVE  StatusesSeenBy(w)' = StatusesSeenBy(w)
<1>1. PICK d \in Documents : d = step[w].page[1] /\ step[w].page \in PagesOf(d)
  BY RunsPage DEF Recording, AtStage
<1>2. PagesOf(d)' = PagesOf(d)
  BY <1>1, PagesOfStays
<1>3. StatusesSeenBy(w) = {IF q = step[w].page THEN step[w].outcome ELSE pages[q].status :
                             q \in PagesOf(d)}
  BY <1>1, SeenIs
<1>4. StatusesSeenBy(w)' = {IF q = step[w].page THEN step[w].outcome ELSE pages'[q].status :
                              q \in PagesOf(d)'}
  <2>1. \A row : Finished(step[w], row).status = step[w].outcome
    BY OutcomeWritten
  <2> QED
    BY <1>1, <2>1 DEF StatusesSeenBy, PagesOf
<1> QED
  BY <1>1, <1>2, <1>3, <1>4

\* A commit leaves the document with the statuses that its step has seen.
LEMMA CommitsSeen ==
    ASSUME Sound, Sound', Unfinished, [Next]_vars, NEW w \in Workers, CommitAttempt(w),
           NEW d \in Documents, d = step[w].page[1]
    PROVE  Statuses(d)' = StatusesSeenBy(w)
<1>1. Recording(w) /\ step[w].page \in PagesOf(d) /\ step[w].page \in Pages
  BY RunsPage DEF CommitAttempt, Recording, AtStage
<1>2. PagesOf(d)' = PagesOf(d)
  BY <1>1, PagesOfStays
<1>3. pages' = [pages EXCEPT ![step[w].page] = Finished(step[w], @)]
  BY DEF CommitAttempt
<1>4. /\ pages'[step[w].page].status = step[w].outcome
      /\ \A q \in Pages \ {step[w].page} : pages'[q] = pages[q]
  BY <1>1, <1>3, OutcomeWritten DEF Sound, TypeOK, TablesTypeOK
<1>5. \A q \in PagesOf(d) : q \in Pages
  BY DEF PagesOf
<1> QED
  BY <1>1, <1>2, <1>4, <1>5, SeenIs DEF Statuses

-----------------------------------------------------------------------------
(* Claims that can age.                                                    *)

LEMMA RunningPagesDated ==
    ASSUME Sound, Hands, ClaimsCanAge, [Next]_vars, NEW p \in Pages, pages'[p].status = "processing"
    PROVE  pages'[p].claimed_at # "null"
<1>1. pages \in [Pages -> PageRow] /\ pages[p] \in PageRow
  BY DEF Sound, TypeOK, TablesTypeOK
<1>2. CASE pages'[p] = pages[p]
  BY <1>2 DEF ClaimsCanAge
<1>3. ASSUME NEW w \in Workers, WorkerNext(w), pages'[p] # pages[p]
      PROVE  pages'[p].claimed_at # "null"
  <2>1. CASE ReleaseAbandonedClaims(w)
    BY <1>1, <1>3, <2>1 DEF ReleaseAbandonedClaims, Released, PageRow
  <2>2. CASE ClaimPages(w)
    <3>1. PICK S : pages' = [q \in Pages |-> IF q \in S THEN ClaimedPage(pages[q]) ELSE pages[q]]
      BY <2>2 DEF ClaimPages
    <3> QED
      BY <1>1, <1>3, <3>1 DEF ClaimedPage, PageRow
  <2>3. CASE ConvertSucceeds(w)
    <3>1. pages'[p] = NewPage
      BY <1>3, <2>3 DEF ConvertSucceeds
    <3> QED
      BY <3>1 DEF NewPage, AbsentPage
  <2>4. CASE CommitAttempt(w)
    <3>1. Recording(w)
      BY <2>4 DEF CommitAttempt, Recording, AtStage
    <3>2. pages'[p] = Finished(step[w], pages[p])
      BY <1>1, <1>3, <2>4 DEF CommitAttempt
    <3> QED
      BY <3>1, <3>2, OutcomeWritten, HandsUnfinished DEF ExtractionStatus
  <2>5. UNCHANGED pages \/ ReleaseAbandonedClaims(w) \/ ClaimPages(w) \/ ConvertSucceeds(w)
            \/ CommitAttempt(w)
    BY <1>3 DEF WorkerNext, WorkerProgress, WorkerFault, ClaimDocuments, EndTick, BeginConvert,
                ConvertFails, BeginExtract, VendorAnswers, RecordAttempt, AttemptCollides,
                DeriveStatus, StepRaises, Crash, tableVars
  <2> QED
    BY <1>3, <2>1, <2>2, <2>3, <2>4, <2>5
<1>4. ASSUME NEW r \in Requests, RequestNext(r), pages'[p] # pages[p]
      PROVE  FALSE
  <2>1. RetryRequeues(r) /\ p \in DOMAIN request[r].targets
    BY <1>4, RetryWrites DEF Sound
  <2>2. pages'[p] = Requeued(r, p)
    BY <2>1 DEF RetryRequeues
  <2> QED
    BY <1>1, <2>2 DEF Requeued, PageRow
<1>5. CASE Environment
  BY <1>1, <1>2, <1>5 DEF Environment, DocumentArrives, AdministratorSwitchesEngines, ClaimsAge,
                          DocumentClaimAges, PageClaimAges, PageRow
<1> QED
  BY <1>2, <1>3, <1>4, <1>5 DEF Next, vars, tableVars

LEMMA ClaimsCanAgeStep ==
    ASSUME Sound, Sound', Hands, DocumentHands, ClaimsCanAge, [Next]_vars
    PROVE  ClaimsCanAge'
<1>1. ASSUME NEW d \in Documents, documents'[d].status = "converting", PagesOf(d)' = {}
      PROVE  documents'[d].claimed_at # "null"
  <2>1. PagesOf(d) = {}
    BY <1>1, PagesOfStays
  <2>2. documents[d].status = "converting" => documents[d].claimed_at # "null"
    BY <2>1 DEF ClaimsCanAge
  <2>3. \A w \in Workers : CommitAttempt(w) => step[w].page[1] # d
    BY <2>1, RunsPage DEF CommitAttempt, AtStage
  <2>4. DocumentMoves(d)
    BY <2>1, DocumentsMove DEF Sound, DocumentHands, ConvertLoaded
  <2> QED
    BY <1>1, <2>2, <2>3, <2>4 DEF DocumentMoves
<1>2. ASSUME NEW p \in Pages, pages'[p].status = "processing"
      PROVE  pages'[p].claimed_at # "null"
  BY <1>2, RunningPagesDated
<1> QED
  BY <1>1, <1>2 DEF ClaimsCanAge

-----------------------------------------------------------------------------
(* Conversions in time.                                                    *)

LEMMA ConversionsTimelyInit == Init => ConversionsTimely
<1>1. SUFFICES ASSUME Init PROVE ConversionsTimely
  OBVIOUS
<1>2. /\ \A d \in Documents : documents[d].status = "absent"
      /\ \A p \in Pages : pages[p].status = "absent"
  BY <1>1 DEF Init, TablesInit, AbsentDocument, AbsentPage
<1>3. \A w \in Workers : step[w].kind = "none" /\ document_ids[w] = {}
  BY <1>1 DEF Init, WorkerInit, NoStep
<1>4. \A r \in Requests : request[r].stage = "new"
  BY <1>1 DEF Init, RetryInit, NewRequest
<1>5. FailedAsLoaded /\ ClaimsCanAge
  BY <1>2, <1>4 DEF FailedAsLoaded, LoadedFailed, ClaimsCanAge
<1>6. DocumentHands
  BY <1>3 DEF DocumentHands, DocumentsInHand, DocumentsHeldOnce, ConvertOnce, ConvertLoaded,
              ConvertsAsClaimed, HoldsDocument, Converting
<1> QED
  BY <1>5, <1>6 DEF ConversionsTimely

LEMMA ConversionsTimelyStep ==
    ASSUME Sound, Sound', Timely, ConversionsTimely, OnTime, OneAtATime, [Next]_vars
    PROVE  ConversionsTimely'
<1>1. DocumentHands'
  BY DocumentHandsStep DEF Timely, ConversionsTimely
<1>2. FailedAsLoaded'
  BY FailedAsLoadedStep DEF ConversionsTimely
<1>3. ClaimsCanAge'
  BY ClaimsCanAgeStep DEF Timely, ConversionsTimely
<1> QED
  BY <1>1, <1>2, <1>3 DEF ConversionsTimely

LEMMA ConversionsTimelyAlways ==
    ASSUME OnTime
    PROVE  Spec /\ []OneAtATime => [](Timely /\ ConversionsTimely)
<1>1. /\ Sound /\ Sound' /\ Timely /\ ConversionsTimely /\ OneAtATime /\ [Next]_vars
      => ConversionsTimely'
  BY ConversionsTimelyStep
<1> QED
  BY <1>1, ConversionsTimelyInit, TimelyAlways, AlwaysSound, PTL DEF Spec

\* "A crash strands nothing": a page marked as being run, and a document marked as
\* being converted into its first pages, carry a claim, so that the release finds
\* them when their worker is gone, whatever retries follow one another.  With two
\* retries under way at once the run lost_conversion shows a document that loses
\* its conversion and its claim with it.
THEOREM ClaimsAlwaysCanAge ==
    ASSUME OnTime
    PROVE  Spec /\ []OneAtATime => []ClaimsCanAge
<1>1. ConversionsTimely => ClaimsCanAge
  BY DEF ConversionsTimely
<1> QED
  BY <1>1, ConversionsTimelyAlways, PTL

-----------------------------------------------------------------------------
(* What documents at rest stand for, until somebody asks for a retry.      *)

LEMMA DerivedMeans ==
    ASSUME NEW S \in SUBSET PageStatus, S # {}, Derive(S) # NoStatus
    PROVE  /\ S \subseteq ExtractionStatus
           /\ Derive(S) = "completed" => S = {"succeeded"}
           /\ Derive(S) = "failed" => S = {"failed"}
           /\ Derive(S) = "partial_failed" => S = {"succeeded", "failed"}
<1>1. S \cap {"pending", "processing"} = {}
  BY DEF Derive
<1>2. S \subseteq {"succeeded", "failed"}
  BY <1>1 DEF PageStatus
<1> QED
  BY <1>1, <1>2 DEF Derive, ExtractionStatus

\* Who has not asked now has not asked before.
LEMMA NoneAskedBefore ==
    ASSUME Sound, [Next]_vars, NoneAsked'
    PROVE  NoneAsked
<1>1. request \in [Requests -> {NewRequest, ClosedRequest} \cup LoadedRequest \cup RequeueRequest]
  BY DEF Sound, TypeOK, RetryTypeOK
<1>2. NewRequest.stage = "new" /\ ClosedRequest.stage = "closed"
  BY DEF NewRequest, ClosedRequest
<1>3. ASSUME NEW r \in Requests, RequestNext(r)
      PROVE  FALSE
  <2>1. CASE RetryArrives(r)
    BY <1>1, <1>2, <2>1 DEF RetryArrives, RetryLoads, NoneAsked
  <2>2. request[r].stage \in {"requeue", "restart", "loaded"} => request[r] # NewRequest
    BY <1>2
  <2>3. CASE RetryRequeues(r) \/ RetryRestarts(r)
    BY <1>1, <1>2, <2>3 DEF RetryRequeues, RetryRestarts, Close, NoneAsked
  <2>4. CASE RetrySelectsFailed(r) \/ RetrySelectsPage(r)
    <3>1. request[r] \in LoadedRequest
      BY <2>4, RequestShapes DEF RetrySelectsFailed, RetrySelectsPage, Sound, TypeOK
    <3>2. request'[r].stage \in {"requeue", "restart", "closed"}
      BY <1>1, <1>2, <2>4, <3>1
         DEF RetrySelectsFailed, RetrySelectsPage, Close, Requeue, LoadedRequest
    <3> QED
      BY <1>2, <3>2 DEF NoneAsked
  <2> QED
    BY <1>3, <2>1, <2>3, <2>4 DEF RequestNext, RetryProgress
<1> QED
  BY <1>3 DEF Next, WorkerNext, Environment, DocumentArrives, AdministratorSwitchesEngines, vars,
              retryVars, NoneAsked

\* And then no retry writes.
LEMMA NoneWrites ==
    ASSUME Sound, [Next]_vars, NoneAsked'
    PROVE  /\ NoneAsked /\ OneAtATime
           /\ \A r \in Requests : ~RetryRequeues(r) /\ ~RetryRestarts(r)
<1>1. NoneAsked
  BY NoneAskedBefore
<1>2. \A r \in Requests : request[r].stage = "new"
  BY <1>1 DEF NoneAsked, NewRequest
<1> QED
  BY <1>1, <1>2 DEF OneAtATime, UnderWay, RetryRequeues, RetryRestarts

LEMMA AllConvertAsClaimed ==
    ASSUME DocumentHands, HeldHaveNoPages, NEW d \in Documents
    PROVE  ConvertsAsClaimed(d)
  BY DEF DocumentHands, HeldHaveNoPages, ConvertLoaded, ConvertsAsClaimed, HoldsDocument

\* A document in hand is converting, and only such a document gets pages.
LEMMA OnlyHeldConvert ==
    ASSUME DocumentHands, HeldHaveNoPages, NEW d \in Documents, Converts(d)
    PROVE  documents[d].status = "converting"
  BY DEF Converts, DocumentHands, DocumentsInHand, HeldHaveNoPages, HoldsDocument

LEMMA HeldHaveNoPagesStep ==
    ASSUME Sound, Sound', DocumentHands, EarlyHaveNoPages, HeldHaveNoPages, [Next]_vars
    PROVE  HeldHaveNoPages'
<1>1. SUFFICES ASSUME NEW w \in Workers, NEW d \in Documents, HoldsDocument(w, d)'
               PROVE  PagesOf(d)' = {}
  BY DEF HeldHaveNoPages
<1>2. CASE HoldsDocument(w, d)
  <2>1. PagesOf(d) = {}
    BY <1>2 DEF HeldHaveNoPages
  <2>2. ASSUME NEW v \in Workers, ConvertSucceeds(v), Converting(v, d)
        PROVE  FALSE
    <3>1. v = w /\ d \notin document_ids[w]
      BY <1>2, <2>1, <2>2 DEF DocumentHands, DocumentsHeldOnce, ConvertOnce, HoldsDocument
    <3>2. UNCHANGED document_ids /\ step'[w].kind = "none"
      BY <2>2, <3>1 DEF ConvertSucceeds, EndStep, NoStep, Sound, TypeOK, WorkerTypeOK
    <3> QED
      BY <1>1, <3>1, <3>2 DEF HoldsDocument, Converting
  <2> QED
    BY <2>1, <2>2, PagesOfStays DEF Converts
<1>3. CASE ~HoldsDocument(w, d)
  <2>1. PICK v \in Workers : ClaimDocuments(v) \/ BeginConvert(v)
    BY <1>1, <1>3, NoneTaken DEF Sound, NoDocumentTaken, HoldsDocument, Converting
  <2>2. ClaimDocuments(v)
    BY <1>1, <1>3, <2>1, BeginTakes DEF Sound
  <2>3. documents[d].status = "pending"
    <3>1. PICK S \in SUBSET {c \in Documents : documents[c].status = "pending"} :
            document_ids' = [document_ids EXCEPT ![v] = S]
      BY <2>2 DEF ClaimDocuments, Batches
    <3>2. d \in document_ids'[w] /\ d \notin document_ids[w]
      BY <1>1, <1>3, <2>2 DEF ClaimDocuments, HoldsDocument, Converting
    <3> QED
      BY <3>1, <3>2 DEF Sound, TypeOK, WorkerTypeOK
  <2>4. PagesOf(d)' = PagesOf(d)
    BY <2>2 DEF ClaimDocuments, PagesOf
  <2> QED
    BY <2>3, <2>4 DEF EarlyHaveNoPages
<1> QED
  BY <1>2, <1>3

LEMMA EarlyHaveNoPagesStep ==
    ASSUME Sound, Sound', EarlyHaveNoPages, HeldHaveNoPages, DocumentHands, DerivedRests,
           [Next]_vars, \A r \in Requests : ~RetryRestarts(r)
    PROVE  EarlyHaveNoPages'
<1>1. SUFFICES ASSUME NEW d \in Documents,
                      documents'[d].status \in {"absent", "pending", "converting"}
               PROVE  PagesOf(d)' = {}
  BY DEF EarlyHaveNoPages
<1>2. DocumentMoves(d)
  BY DocumentsMove, AllConvertAsClaimed DEF Sound
<1>3. CASE PagesOf(d) # {}
  <2>1. documents[d].status \notin {"absent", "pending", "converting"}
    BY <1>3 DEF EarlyHaveNoPages
  <2>2. \A w \in Workers : ~Converting(w, d)
    BY <1>3 DEF HeldHaveNoPages, HoldsDocument
  <2>3. ASSUME NEW w \in Workers, step[w].derived # NoStatus, CommitAttempt(w)
        PROVE  step[w].derived \notin {"absent", "pending", "converting"}
    BY <2>3 DEF DerivedRests, Resting, CommitAttempt
  <2> QED
    BY <1>1, <1>2, <2>1, <2>2, <2>3 DEF DocumentMoves
<1>4. CASE PagesOf(d) = {} /\ ~Converts(d)
  BY <1>4, PagesOfStays
<1>5. CASE PagesOf(d) = {} /\ Converts(d)
  <2>1. PICK w \in Workers : ConvertSucceeds(w) /\ Converting(w, d)
    BY <1>5 DEF Converts
  <2>2. documents'[d].status = "extracting"
    <3>1. ~PagesCollide(d)
      BY <1>5 DEF PagesCollide
    <3>2. PICK old : old = step[w].loaded
      OBVIOUS
    <3>3. old.status = "converting" /\ step[w].document = d
      BY <1>5, <2>1, <3>2 DEF DocumentHands, ConvertLoaded, ConvertsAsClaimed, Converting
    <3>4. \E n \in PageNos :
            documents' = [documents EXCEPT ![d].page_count = n,
                            ![d].status = Flushed(old.status, "extracting", @),
                            ![d].claimed_at = Flushed(old.claimed_at, "null", @)]
      BY <2>1, <3>1, <3>2, <3>3 DEF ConvertSucceeds
    <3>5. documents \in [Documents -> DocumentRow] /\ documents[d] \in DocumentRow
      BY DEF Sound, TypeOK, TablesTypeOK
    <3> QED
      BY <3>3, <3>4, <3>5 DEF Flushed, DocumentRow
  <2> QED
    BY <1>1, <2>2
<1> QED
  BY <1>3, <1>4, <1>5

\* A document at rest stands for its pages as long as no retry queues one of them,
\* when the status that a step commits with its attempt is what the step has seen.
LEMMA RestsKept ==
    ASSUME Sound, Sound', Hands, TargetsRest, DocumentsTimely, [Next]_vars,
           NEW d \in Documents, ~Requeueing(d)
    PROVE  RestsAsSaid(d)'
<1>0. DocumentHands /\ HeldHaveNoPages /\ RestsAsSaid(d) /\ DerivedStands /\ Unfinished
  BY HandsUnfinished DEF DocumentsTimely, ConversionsTimely, RestingStands
<1>1. ASSUME documents'[d].status = documents[d].status, documents[d].status \in Resting
      PROVE  Statuses(d)' = Statuses(d)
  <2>1. Statuses(d) \subseteq ExtractionStatus
    BY <1>0, <1>1 DEF RestsAsSaid, Resting, ExtractionStatus
  <2>2. ~Converts(d)
    BY <1>0, <1>1, OnlyHeldConvert DEF Resting
  <2> QED
    BY <2>1, <2>2, StatusesStay
<1>2. ASSUME NEW w \in Workers, Converting(w, d), ConvertFails(w)
      PROVE  Statuses(d)' = {}
  <2>1. PagesOf(d) = {}
    BY <1>0, <1>2 DEF HeldHaveNoPages, HoldsDocument
  <2> QED
    BY <1>2, <2>1 DEF ConvertFails, Statuses, PagesOf
<1>3. ASSUME NEW w \in Workers, CommitAttempt(w), step[w].page[1] = d, step[w].derived # NoStatus
      PROVE  /\ step[w].derived = Derive(Statuses(d)')
             /\ Statuses(d)' # {} /\ Statuses(d)' \subseteq PageStatus
  <2>1. AtStage(w, {"commit"}) /\ Recording(w)
    BY <1>3 DEF CommitAttempt, AtStage, Recording
  <2>2. step[w].derived = Derive(StatusesSeenBy(w))
    BY <1>0, <1>3, <2>1 DEF DerivedStands
  <2>3. Statuses(d)' = StatusesSeenBy(w)
    BY <1>0, <1>3, CommitsSeen
  <2> QED
    BY <1>0, <2>1, <2>2, <2>3, SeenFinished
<1>4. CASE documents'[d].status = documents[d].status
  BY <1>0, <1>1, <1>4 DEF Resting, RestsAsSaid
<1>5. CASE \E w \in Workers : /\ CommitAttempt(w) /\ step[w].page[1] = d
                              /\ step[w].derived # NoStatus
                              /\ documents'[d].status = step[w].derived
  <2>1. PICK S : S = Statuses(d)'
    OBVIOUS
  <2>2. S \in SUBSET PageStatus /\ S # {} /\ Derive(S) # NoStatus /\ documents'[d].status = Derive(S)
    BY <1>3, <1>5, <2>1
  <2>3. /\ Derive(S) = "completed" => S = {"succeeded"}
        /\ Derive(S) = "failed" => S = {"failed"}
        /\ Derive(S) = "partial_failed" => S = {"succeeded", "failed"}
    BY <2>2, DerivedMeans
  <2> QED
    BY <2>1, <2>2, <2>3 DEF RestsAsSaid
<1>6. DocumentMoves(d)
  BY <1>0, DocumentsMove, AllConvertAsClaimed DEF Sound
<1> QED
  BY <1>2, <1>4, <1>5, <1>6 DEF DocumentMoves, RestsAsSaid, Requeueing

\* What a step has derived it would derive again: the pages it has seen are finished.
LEMMA DerivedStandsStep ==
    ASSUME Sound, Sound', Hands, TargetsRest, DerivedStands, [Next]_vars,
           \A r \in Requests : ~RetryRequeues(r)
    PROVE  DerivedStands'
<1>1. SUFFICES ASSUME NEW w \in Workers, AtStage(w, {"commit"})', step'[w].derived # NoStatus
               PROVE  step'[w].derived = Derive(StatusesSeenBy(w)')
  BY DEF DerivedStands, AtStage, Derive
<1>0. Unfinished
  BY HandsUnfinished
<1>2. CASE step'[w] # step[w]
  <2>1. DeriveStatus(w)
    BY <1>1, <1>2, StageReached DEF Sound, AtStage
  <2> QED
    BY <2>1, DeriveWrites DEF Sound
<1>3. CASE step'[w] = step[w]
  <2>1. AtStage(w, {"commit"}) /\ Recording(w)
    BY <1>1, <1>3 DEF AtStage, Recording
  <2>2. step[w].derived = Derive(StatusesSeenBy(w))
    BY <1>1, <1>3, <2>1 DEF DerivedStands
  <2>3. StatusesSeenBy(w) \subseteq ExtractionStatus
    BY <1>0, <1>1, <1>3, <2>1, <2>2, SeenFinished, DerivedMeans
  <2>4. OthersFinished(w)
    BY <1>0, <2>1, <2>3, SeenFinished
  <2>5. \A q \in PagesOf(step[w].page[1]) \ {step[w].page} : pages'[q].status = pages[q].status
    BY <2>4, FinishedUnlessRequeued DEF OthersFinished, PagesOf, Requeueing
  <2>6. StatusesSeenBy(w)' = StatusesSeenBy(w)
    BY <1>0, <1>3, <2>1, <2>5, SeenStays
  <2> QED
    BY <1>3, <2>2, <2>6
<1> QED
  BY <1>2, <1>3

LEMMA DocumentsTimelyInit == Init => DocumentsTimely
<1>1. SUFFICES ASSUME Init PROVE DocumentsTimely
  OBVIOUS
<1>2. /\ \A d \in Documents : documents[d].status = "absent"
      /\ \A p \in Pages : pages[p].status = "absent"
  BY <1>1 DEF Init, TablesInit, AbsentDocument, AbsentPage
<1>3. \A w \in Workers : step[w].kind = "none"
  BY <1>1 DEF Init, WorkerInit, NoStep
<1>4. EarlyHaveNoPages /\ HeldHaveNoPages /\ RestingStands
  BY <1>2 DEF EarlyHaveNoPages, HeldHaveNoPages, RestingStands, RestsAsSaid, PagesOf
<1>5. DerivedRests /\ DerivedStands
  BY <1>3 DEF DerivedRests, DerivedStands, AtStage
<1> QED
  BY <1>1, <1>4, <1>5, ConversionsTimelyInit DEF DocumentsTimely

LEMMA DocumentsTimelyStep ==
    ASSUME Sound, Sound', Timely, DocumentsTimely, OnTime, NoneAsked', [Next]_vars
    PROVE  DocumentsTimely'
<1>1. OneAtATime /\ \A r \in Requests : ~RetryRequeues(r) /\ ~RetryRestarts(r)
  BY NoneWrites
<1>2. ConversionsTimely'
  BY <1>1, ConversionsTimelyStep DEF DocumentsTimely
<1>3. EarlyHaveNoPages' /\ HeldHaveNoPages'
  BY <1>1, EarlyHaveNoPagesStep, HeldHaveNoPagesStep DEF DocumentsTimely, ConversionsTimely
<1>4. DerivedRests'
  BY DerivedRestsStep DEF Sound, DocumentsTimely
<1>5. RestingStands'
  BY <1>1, RestsKept DEF RestingStands, Requeueing, Timely
<1>6. DerivedStands'
  BY <1>1, DerivedStandsStep DEF Timely, DocumentsTimely
<1> QED
  BY <1>2, <1>3, <1>4, <1>5, <1>6 DEF DocumentsTimely

LEMMA TimelyBeforeRetries ==
    ASSUME OnTime
    PROVE  Spec => [](NoneAsked => Timely /\ DocumentsTimely)
<1>1. Sound /\ [Next]_vars /\ NoneAsked' => NoneAsked /\ OneAtATime
  BY NoneWrites
<1>2. Sound /\ OneAtATime /\ Timely /\ [Next]_vars => Timely'
  BY TimelyStep DEF Sound
<1>3. Sound /\ Sound' /\ Timely /\ DocumentsTimely /\ NoneAsked' /\ [Next]_vars => DocumentsTimely'
  BY DocumentsTimelyStep
<1> QED
  BY <1>1, <1>2, <1>3, TimelyInit, DocumentsTimelyInit, AlwaysSound, PTL DEF Spec

LEMMA PagesCounted ==
    ASSUME Sound, NEW d \in Documents
    PROVE  /\ documents[d].page_count \in Nat
           /\ IsFiniteSet(PagesOf(d)) /\ Cardinality(PagesOf(d)) = documents[d].page_count
<1>1. PICK k : k = documents[d].page_count
  OBVIOUS
<1>2. k \in Nat
  BY <1>1, TablesAssumption DEF Sound, TypeOK, TablesTypeOK, DocumentRow
<1>3. PagesOf(d) = {d} \X (1..k)
  BY <1>1 DEF Sound, PagesInvariant, PagesMatchCount
<1>4. IsFiniteSet(1..k) /\ Cardinality(1..k) = k
  BY <1>2, FS_Interval
<1>5. IsFiniteSet({d}) /\ Cardinality({d}) = 1
  BY FS_Singleton
<1>6. /\ IsFiniteSet({d} \X (1..k))
      /\ Cardinality({d} \X (1..k)) = Cardinality({d}) * Cardinality(1..k)
  BY <1>4, <1>5, FS_Product
<1> QED
  BY <1>1, <1>2, <1>3, <1>4, <1>5, <1>6

\* The counts of the history screen, of a document whose pages have these statuses.
LEMMA CountsAdd ==
    ASSUME Sound, NEW d \in Documents
    PROVE  /\ Statuses(d) = {"succeeded"} =>
                /\ Summary(d).pages_succeeded = Summary(d).page_count /\ Summary(d).page_count > 0
           /\ Statuses(d) \subseteq {"failed"} => Summary(d).pages_failed = Summary(d).page_count
           /\ Statuses(d) = {"succeeded", "failed"} =>
                /\ Summary(d).pages_succeeded > 0 /\ Summary(d).pages_failed > 0
                /\ Summary(d).pages_succeeded + Summary(d).pages_failed = Summary(d).page_count
<1>1. PICK S, F : /\ S = {p \in PagesOf(d) : pages[p].status = "succeeded"}
                  /\ F = FailedPages(d)
  OBVIOUS
<1>2. /\ Summary(d).pages_succeeded = Cardinality(S) /\ Summary(d).pages_failed = Cardinality(F)
      /\ Summary(d).page_count = Cardinality(PagesOf(d))
  BY <1>1, PagesCounted DEF Summary
<1>3. IsFiniteSet(PagesOf(d)) /\ Cardinality(PagesOf(d)) \in Nat
  BY PagesCounted
<1>4. S \subseteq PagesOf(d) /\ F \subseteq PagesOf(d) /\ S \cap F = {}
  BY <1>1 DEF FailedPages
<1>5. /\ IsFiniteSet(S) /\ IsFiniteSet(F) /\ Cardinality(S) \in Nat /\ Cardinality(F) \in Nat
  BY <1>3, <1>4, FS_Subset, FS_CardinalityType
<1>6. \A T : IsFiniteSet(T) => (Cardinality(T) = 0 <=> T = {})
  BY FS_EmptySet
<1>7. ASSUME Statuses(d) = {"succeeded"}
      PROVE  S = PagesOf(d) /\ PagesOf(d) # {}
  BY <1>1, <1>7 DEF Statuses
<1>8. ASSUME Statuses(d) \subseteq {"failed"}
      PROVE  F = PagesOf(d)
  BY <1>1, <1>8 DEF Statuses, FailedPages
<1>9. ASSUME Statuses(d) = {"succeeded", "failed"}
      PROVE  /\ S # {} /\ F # {}
             /\ Cardinality(S) + Cardinality(F) = Cardinality(PagesOf(d))
  <2>1. S # {} /\ F # {} /\ S \cup F = PagesOf(d)
    BY <1>1, <1>9 DEF Statuses, FailedPages
  <2>2. Cardinality(S \cup F) = Cardinality(S) + Cardinality(F) - Cardinality(S \cap F)
    BY <1>5, FS_Union
  <2>3. Cardinality(S \cap F) = 0
    BY <1>4, FS_EmptySet
  <2>4. Cardinality(PagesOf(d)) = Cardinality(S) + Cardinality(F) - 0
    BY <2>1, <2>2, <2>3
  <2> QED
    BY <1>5, <2>1, <2>4
<1> QED
  BY <1>2, <1>3, <1>5, <1>6, <1>7, <1>8, <1>9

\* As long as nobody has asked for a retry, a document that the history screen
\* shows at rest is shown with the counts of that status, however many workers
\* derive it at once and whatever crashed in between.
THEOREM SummaryAlwaysAddsUp ==
    ASSUME OnTime
    PROVE  Spec => []SummaryAddsUp
<1>1. Sound /\ (NoneAsked => DocumentsTimely) => SummaryAddsUp
  <2>1. SUFFICES ASSUME Sound, NoneAsked, DocumentsTimely, NEW d \in Documents
                 PROVE  /\ Summary(d).status = "completed" =>
                            /\ Summary(d).pages_succeeded = Summary(d).page_count
                            /\ Summary(d).page_count > 0
                        /\ Summary(d).status = "failed" =>
                            Summary(d).pages_failed = Summary(d).page_count
                        /\ Summary(d).status = "partial_failed" =>
                            /\ Summary(d).pages_succeeded > 0 /\ Summary(d).pages_failed > 0
                            /\ Summary(d).pages_succeeded + Summary(d).pages_failed
                                  = Summary(d).page_count
    BY DEF SummaryAddsUp, NoneAsked
  <2>2. Summary(d).status = documents[d].status
    BY DEF Summary
  <2> QED
    BY <2>1, <2>2, CountsAdd DEF DocumentsTimely, RestingStands, RestsAsSaid
<1> QED
  BY <1>1, TimelyBeforeRetries, AlwaysSound, PTL

-----------------------------------------------------------------------------
(* One worker: what it has in hand.                                        *)

OneWorker == \A v, w \in Workers : v = w

\* No page in hand is finished, although retries under way may reset it, and a
\* request that is about to queue pages has selected some of its document.
HeldUnfinished ==
    \A w \in Workers, p \in Pages : HoldsPage(w, p) => pages[p].status \notin ExtractionStatus
TargetsOfDocument ==
    \A r \in Requests : request[r].stage = "requeue" =>
        /\ DOMAIN request[r].targets # {}
        /\ \A p \in DOMAIN request[r].targets : p[1] = request[r].document
Alone == EmptyHanded /\ HeldUnfinished /\ RunOnce /\ Unfinished /\ TargetsOfDocument

\* Only a commit finishes a page.
LEMMA OnlyCommitsFinish ==
    ASSUME TypeOK, [Next]_vars, NEW p \in Pages, pages'[p].status \in ExtractionStatus,
           \A w \in Workers : CommitAttempt(w) => step[w].page # p
    PROVE  pages'[p].status = pages[p].status
<1>1. ASSUME NEW w \in Workers, CommitAttempt(w)
      PROVE  pages'[p] = pages[p]
  BY <1>1 DEF CommitAttempt, TypeOK, TablesTypeOK
<1> QED
  BY <1>1, OutcomesProgress, OutcomesOthers DEF Next, WorkerNext, vars, tableVars

LEMMA AloneKept ==
    ASSUME Sound, HeldUnfinished, RunOnce, Unfinished, OneWorker, NothingTaken, [Next]_vars
    PROVE  HeldUnfinished' /\ RunOnce' /\ Unfinished'
<1>1. \A w \in Workers, p \in Pages : HoldsPage(w, p)' => HoldsPage(w, p)
  BY DEF NothingTaken, SameRun, HoldsPage, Extracting
<1>2. ASSUME NEW w \in Workers, NEW p \in Pages, HoldsPage(w, p)'
      PROVE  pages'[p].status \notin ExtractionStatus
  <2>1. HoldsPage(w, p) /\ pages[p].status \notin ExtractionStatus
    BY <1>1, <1>2 DEF HeldUnfinished
  <2>2. ASSUME NEW v \in Workers, CommitAttempt(v), step[v].page = p
        PROVE  FALSE
    <3>1. v = w /\ Extracting(w, p)
      BY <2>2 DEF OneWorker, CommitAttempt, AtStage, Extracting
    <3>2. UNCHANGED page_ids /\ step'[w] = NoStep /\ NoStep.kind = "none"
      BY <2>2, <3>1 DEF CommitAttempt, EndStep, NoStep, Sound, TypeOK, WorkerTypeOK
    <3> QED
      BY <1>2, <3>1, <3>2 DEF RunOnce, HoldsPage, Extracting
  <2> QED
    BY <2>1, <2>2, OnlyCommitsFinish DEF Sound
<1>3. RunOnce'
  BY DEF RunOnce, NothingTaken, SameRun, Extracting
<1>4. Unfinished'
  BY DEF Unfinished, NothingTaken, SameRun
<1> QED
  BY <1>2, <1>3, <1>4 DEF HeldUnfinished

\* A claim takes pages that wait, when nothing is under way.
LEMMA ClaimAlone ==
    ASSUME Sound, EmptyHanded, HeldUnfinished, Unfinished, OneWorker,
           NEW w \in Workers, ClaimPages(w)
    PROVE  HeldUnfinished' /\ RunOnce' /\ Unfinished'
<1>1. PICK S \in SUBSET ClaimablePages :
        /\ pages' = [p \in Pages |-> IF p \in S THEN ClaimedPage(pages[p]) ELSE pages[p]]
        /\ page_ids' = [page_ids EXCEPT ![w] = S]
  BY DEF ClaimPages, Batches
<1>2. page_ids \in [Workers -> SUBSET Pages] /\ pages \in [Pages -> PageRow]
  BY DEF Sound, TypeOK, WorkerTypeOK, TablesTypeOK
<1>3. UNCHANGED step /\ step[w] = NoStep /\ NoStep.kind = "none"
  BY DEF ClaimPages, EmptyHanded, NoStep
<1>4. \A p \in Pages : IF p \in S THEN pages'[p].status = "processing" ELSE pages'[p] = pages[p]
  BY <1>1, <1>2 DEF ClaimedPage, PageRow
<1>5. \A v \in Workers : v = w
  BY DEF OneWorker
<1>6. HeldUnfinished'
  BY <1>1, <1>2, <1>3, <1>4, <1>5 DEF HeldUnfinished, HoldsPage, Extracting, ExtractionStatus
<1>7. RunOnce' /\ Unfinished'
  BY <1>3, <1>5 DEF RunOnce, Unfinished, Extracting
<1> QED
  BY <1>6, <1>7

\* A page is begun as it is then.
LEMMA BeginAlone ==
    ASSUME Sound, HeldUnfinished, OneWorker, NEW w \in Workers, BeginExtract(w)
    PROVE  HeldUnfinished' /\ RunOnce' /\ Unfinished'
<1>1. UNCHANGED pages /\ step[w] = NoStep /\ NoStep.kind = "none"
  BY DEF BeginExtract, tableVars, NoStep
<1>2. page_ids \in [Workers -> SUBSET Pages] /\ DOMAIN step = Workers
  BY DEF Sound, TypeOK, WorkerTypeOK
<1>3. PICK p \in page_ids[w] :
        /\ page_ids' = [page_ids EXCEPT ![w] = @ \ {p}]
        /\ \/ step' = step
           \/ \E new : /\ new.kind = "extract" /\ new.page = p /\ new.loaded = pages[p]
                       /\ step' = [step EXCEPT ![w] = new]
  BY DEF BeginExtract
<1>4. /\ page_ids'[w] = page_ids[w] \ {p}
      /\ step'[w].kind = "extract" => step'[w].page = p /\ step'[w].loaded = pages[p]
  BY <1>1, <1>2, <1>3
<1>5. p \in Pages /\ HoldsPage(w, p) /\ \A v \in Workers : v = w
  BY <1>2, <1>3 DEF HoldsPage, OneWorker
<1>6. HeldUnfinished'
  BY <1>1, <1>4, <1>5 DEF HeldUnfinished, HoldsPage, Extracting
<1>7. RunOnce' /\ Unfinished'
  BY <1>4, <1>5 DEF HeldUnfinished, RunOnce, Unfinished, Extracting
<1> QED
  BY <1>6, <1>7

LEMMA TargetsOfDocumentStep ==
    ASSUME TypeOK, TargetsOfDocument, [Next]_vars
    PROVE  TargetsOfDocument'
<1>1. ASSUME NEW r \in Requests, RequestNext(r)
      PROVE  TargetsOfDocument'
  <2>1. ASSUME NEW q \in Requests \ {r}
        PROVE  request'[q] = request[q]
    BY <1>1, <2>1, RequestAlone
  <2>2. ASSUME request'[r].stage = "requeue"
        PROVE  /\ DOMAIN request'[r].targets # {}
               /\ \A p \in DOMAIN request'[r].targets : p[1] = request'[r].document
    BY <1>1, <2>2, RetrySelects
  <2> QED
    BY <2>1, <2>2 DEF TargetsOfDocument
<1>2. CASE UNCHANGED request
  BY <1>2 DEF TargetsOfDocument
<1> QED
  BY <1>1, <1>2 DEF Next, WorkerNext, Environment, DocumentArrives, AdministratorSwitchesEngines,
                    vars, retryVars

LEMMA AloneStep ==
    ASSUME Sound, Alone, OneWorker, [Next]_vars
    PROVE  Alone'
<1>1. EmptyHanded' /\ TargetsOfDocument'
  BY EmptyHandedStep, TargetsOfDocumentStep DEF Alone, Sound
<1>2. ASSUME NothingTaken
      PROVE  HeldUnfinished' /\ RunOnce' /\ Unfinished'
  BY <1>2, AloneKept DEF Alone
<1>3. ASSUME NEW w \in Workers, WorkerNext(w)
      PROVE  HeldUnfinished' /\ RunOnce' /\ Unfinished'
  BY <1>2, <1>3, WorkerTakesNothing, ClaimAlone, BeginAlone
     DEF Alone, Sound, WorkerNext, WorkerProgress
<1>4. CASE UNCHANGED vars
  <2>1. NothingTaken
    BY <1>4 DEF vars, workerVars, NothingTaken, SameRun
  <2> QED
    BY <1>1, <1>2, <2>1 DEF Alone
<1>5. CASE (\E r \in Requests : RequestNext(r)) \/ Environment
  <2>1. NothingTaken
    BY <1>5, OthersTakeNothing
  <2> QED
    BY <1>1, <1>2, <2>1 DEF Alone
<1>6. (\E w \in Workers : WorkerNext(w)) \/ ((\E r \in Requests : RequestNext(r)) \/ Environment)
        \/ UNCHANGED vars
  BY DEF Next
<1> QED
  BY <1>1, <1>3, <1>4, <1>5, <1>6 DEF Alone

-----------------------------------------------------------------------------
(* One worker: the status of the documents.                                *)

\* A converted document whose pages are finished has the status that they imply,
\* unless another conversion of it is due or has failed.  The step about to commit
\* has derived it, when the page it runs is the last one; and it knows the status
\* that it replaces, unless a retry has sent the document back to conversion.
FinishedAdds ==
    \A d \in Documents :
        /\ PagesOf(d) # {} /\ Statuses(d) \subseteq ExtractionStatus
        /\ documents[d].status \notin {"pending", "converting"}
        /\ documents[d].error_message = "null"
        => documents[d].status = Derive(Statuses(d))
CommitAdds ==
    \A w \in Workers :
        AtStage(w, {"commit"}) /\ OthersFinished(w) => step[w].derived = Derive(StatusesSeenBy(w))
SnapshotStands ==
    \A w \in Workers :
        AtStage(w, {"derive", "commit"}) /\ OthersFinished(w) =>
            documents[step[w].page[1]].status \in {step[w].document_status, "pending"}
StatusFollows == FinishedAdds /\ CommitAdds /\ SnapshotStands

\* The pages that a conversion inserts wait.
LEMMA ConvertedWait ==
    ASSUME Sound, NEW d \in Documents, Converts(d), PagesOf(d) = {},
           NEW p \in PagesOf(d)'
    PROVE  pages'[p].status = "pending"
<1>1. p \in Pages /\ p[1] = d /\ pages'[p].status # "absent"
  BY DEF PagesOf
<1>2. pages[p].status = "absent"
  BY <1>1 DEF PagesOf
<1>3. pages'[p] = NewPage
  BY <1>1, <1>2 DEF Converts, ConvertSucceeds
<1> QED
  BY <1>3 DEF NewPage, AbsentPage

\* A retry leaves a page of its document waiting, which no step has written.
LEMMA RequeuesWaiting ==
    ASSUME Sound, TargetsOfDocument, NEW r \in Requests, RetryRequeues(r)
    PROVE  \E p \in PagesOf(request[r].document) : pages'[p].status = "pending" /\ ~PageLocked(p)
<1>1. DOMAIN request[r].targets \subseteq Pages
  BY RequeueShape DEF Sound, RetryRequeues
<1>2. PICK p \in DOMAIN request[r].targets : TRUE
  BY DEF RetryRequeues, TargetsOfDocument
<1>3. p \in Pages /\ p[1] = request[r].document /\ ~PageLocked(p)
  BY <1>1, <1>2 DEF RetryRequeues, TargetsOfDocument
<1>4. pages[p].status # "absent"
  BY <1>2 DEF Sound, PagesInvariant, InHandExists, RetryRequeues
<1>5. pages'[p] = Requeued(r, p) /\ pages[p] \in PageRow
  BY <1>2, <1>3 DEF RetryRequeues, Sound, TypeOK, TablesTypeOK
<1>6. pages'[p].status = "pending"
  BY <1>5 DEF Requeued, PageRow
<1> QED
  BY <1>3, <1>4, <1>6 DEF PagesOf

\* While a step stands between its attempt and its commit, its worker does nothing
\* else.
LEMMA AloneStands ==
    ASSUME Sound, Alone, OneWorker, [Next]_vars,
           NEW w \in Workers, AtStage(w, {"derive", "commit"}), step'[w] = step[w]
    PROVE  (\E r \in Requests : RequestNext(r)) \/ Environment \/ UNCHANGED vars
<1>1. phase[w] = "run" /\ step[w].kind = "extract" /\ NoStep.kind = "none"
  BY DEF AtStage, Alone, EmptyHanded, NoStep
<1>2. DOMAIN step = Workers
  BY DEF Sound, TypeOK, WorkerTypeOK
<1>3. ~EndStep(w) /\ ~Crash(w)
  BY <1>1, <1>2 DEF EndStep, Crash
<1>4. ~DeriveStatus(w)
  <2>1. ASSUME DeriveStatus(w)
        PROVE  FALSE
    <3>1. step[w] \in ExtractStep /\ step[w].stage = "derive"
      BY <1>1, <2>1, StepShapes DEF Sound, TypeOK, DeriveStatus, AtStage
    <3>2. \E s : step' = [step EXCEPT ![w].stage = "commit", ![w].derived = s]
      BY <2>1 DEF DeriveStatus
    <3>3. step'[w].stage = "commit"
      BY <1>2, <3>1, <3>2 DEF ExtractStep
    <3> QED
      BY <3>1, <3>3
  <2> QED
    BY <2>1
<1>5. ~WorkerNext(w)
  <2>1. ~ReleaseAbandonedClaims(w) /\ ~ClaimDocuments(w) /\ ~ClaimPages(w)
    BY <1>1 DEF ReleaseAbandonedClaims, ClaimDocuments, ClaimPages
  <2>2. ~EndTick(w) /\ ~BeginConvert(w) /\ ~BeginExtract(w)
    BY <1>1 DEF EndTick, BeginConvert, BeginExtract
  <2>3. ~ConvertSucceeds(w) /\ ~ConvertFails(w) /\ ~AttemptCollides(w) /\ ~CommitAttempt(w)
        /\ ~WorkerFault(w)
    BY <1>3 DEF ConvertSucceeds, ConvertFails, AttemptCollides, CommitAttempt, WorkerFault, StepRaises
  <2>4. ~VendorAnswers(w) /\ ~RecordAttempt(w)
    BY DEF VendorAnswers, RecordAttempt, AtStage
  <2> QED
    BY <1>4, <2>1, <2>2, <2>3, <2>4 DEF WorkerNext, WorkerProgress
<1>6. \A v \in Workers : ~WorkerNext(v)
  BY <1>5 DEF OneWorker
<1> QED
  BY <1>6 DEF Next

\* A request or the environment gives a document no status but pending, unless it
\* queues pages of it.
LEMMA OthersMoveStatus ==
    ASSUME Sound, NEW d \in Documents, ~Requeueing(d),
           (\E r \in Requests : RequestNext(r)) \/ Environment \/ UNCHANGED vars
    PROVE  documents'[d].status \in {documents[d].status, "pending"}
<1>1. documents \in [Documents -> DocumentRow] /\ documents[d] \in DocumentRow
  BY DEF Sound, TypeOK, TablesTypeOK
<1>2. ASSUME NEW r \in Requests, RequestNext(r)
      PROVE  documents'[d].status \in {documents[d].status, "pending"}
  <2>1. CASE RetryRequeues(r)
    <3>1. request[r].document # d
      BY <2>1 DEF Requeueing
    <3> QED
      BY <1>1, <2>1, <3>1 DEF RetryRequeues
  <2>2. CASE RetryRestarts(r)
    <3>1. PICK c, e, a : documents' = [documents EXCEPT ![c].status = "pending",
                            ![c].error_message = e, ![c].claimed_at = a]
      BY <2>2 DEF RetryRestarts
    <3> QED
      BY <1>1, <3>1 DEF DocumentRow
  <2>3. CASE UNCHANGED documents
    BY <2>3
  <2> QED
    BY <1>2, <2>1, <2>2, <2>3
       DEF RequestNext, RetryArrives, RetryLoads, RetryProgress, RetrySelectsFailed,
           RetrySelectsPage, tableVars
<1>3. ASSUME NEW c \in Documents, DocumentArrives(c)
      PROVE  documents'[d].status \in {documents[d].status, "pending"}
  BY <1>1, <1>3 DEF DocumentArrives, NewDocument, AbsentDocument
<1>4. ASSUME NEW c \in Documents, DocumentClaimAges(c)
      PROVE  documents'[d].status \in {documents[d].status, "pending"}
  BY <1>1, <1>4 DEF DocumentClaimAges, DocumentRow
<1>5. CASE UNCHANGED documents
  BY <1>5
<1> QED
  BY <1>2, <1>3, <1>4, <1>5
     DEF Environment, AdministratorSwitchesEngines, ClaimsAge, PageClaimAges, vars, tableVars

\* While a step has its answer, nobody finishes another page of the document, and
\* a retry of the document leaves one waiting.
LEMMA OthersFinishedBefore ==
    ASSUME Sound, Sound', Alone, OneWorker, [Next]_vars,
           NEW w \in Workers, AtStage(w, {"derive", "commit"}), step'[w] = step[w], OthersFinished(w)'
    PROVE  /\ OthersFinished(w) /\ ~Requeueing(step[w].page[1])
           /\ \A q \in PagesOf(step[w].page[1]) \ {step[w].page} : pages'[q].status = pages[q].status
<1>1. PICK d \in Documents : d = step[w].page[1] /\ step[w].page \in PagesOf(d)
  BY RunsPage DEF AtStage
<1>2. Recording(w) /\ step[w].page \in Pages
  BY RunsPage DEF AtStage, Recording
<1>3. PagesOf(d)' = PagesOf(d)
  BY <1>1, PagesOfStays
<1>4. \A q \in PagesOf(d) \ {step[w].page} : pages'[q].status \in ExtractionStatus
  BY <1>1, <1>3 DEF OthersFinished
<1>5. PageLocked(step[w].page)
  <2>1. step[w].outcome # step[w].loaded.status
    BY <1>2, OutcomeWritten DEF Alone, Unfinished, AtStage
  <2> QED
    BY <2>1 DEF PageLocked, Updates
<1>6. ~Requeueing(d)
  <2>1. SUFFICES ASSUME NEW r \in Requests, RetryRequeues(r), request[r].document = d
                 PROVE  FALSE
    BY DEF Requeueing
  <2>2. PICK p \in PagesOf(d) : pages'[p].status = "pending" /\ ~PageLocked(p)
    BY <2>1, RequeuesWaiting DEF Alone
  <2> QED
    BY <1>4, <1>5, <2>2 DEF ExtractionStatus
<1>7. \A v \in Workers : ~CommitAttempt(v)
  <2>1. ~CommitAttempt(w)
    <3>1. step[w].kind = "extract" /\ NoStep.kind = "none"
      BY DEF AtStage, NoStep
    <3> QED
      BY <3>1 DEF CommitAttempt, EndStep, Sound, TypeOK, WorkerTypeOK
  <2> QED
    BY <2>1 DEF OneWorker
<1>8. \A q \in PagesOf(d) \ {step[w].page} : pages'[q].status = pages[q].status
  BY <1>4, <1>7, OnlyCommitsFinish DEF Sound, PagesOf
<1> QED
  BY <1>1, <1>4, <1>6, <1>8 DEF OthersFinished

LEMMA CommitAddsStep ==
    ASSUME Sound, Sound', Alone, StatusFollows, OneWorker, [Next]_vars
    PROVE  CommitAdds'
<1>1. SUFFICES ASSUME NEW w \in Workers, AtStage(w, {"commit"})', OthersFinished(w)'
               PROVE  step'[w].derived = Derive(StatusesSeenBy(w)')
  BY DEF CommitAdds, AtStage, Derive
<1>2. CASE step'[w] # step[w]
  <2>1. DeriveStatus(w)
    BY <1>1, <1>2, StageReached DEF Sound, AtStage
  <2> QED
    BY <2>1, DeriveWrites DEF Sound
<1>3. CASE step'[w] = step[w]
  <2>1. AtStage(w, {"commit"}) /\ AtStage(w, {"derive", "commit"}) /\ Recording(w)
    BY <1>1, <1>3 DEF AtStage, Recording
  <2>2. /\ OthersFinished(w)
        /\ \A q \in PagesOf(step[w].page[1]) \ {step[w].page} : pages'[q].status = pages[q].status
    BY <1>1, <1>3, <2>1, OthersFinishedBefore
  <2>3. StatusesSeenBy(w)' = StatusesSeenBy(w)
    BY <1>3, <2>1, <2>2, SeenStays DEF Alone
  <2> QED
    BY <1>3, <2>1, <2>2, <2>3 DEF StatusFollows, CommitAdds
<1> QED
  BY <1>2, <1>3

LEMMA SnapshotStandsStep ==
    ASSUME Sound, Sound', Alone, StatusFollows, OneWorker, [Next]_vars
    PROVE  SnapshotStands'
<1>1. SUFFICES ASSUME NEW w \in Workers, AtStage(w, {"derive", "commit"})', OthersFinished(w)',
                      NEW d, d = step'[w].page[1]
               PROVE  documents'[d].status \in {step'[w].document_status, "pending"}
  BY DEF SnapshotStands, AtStage
<1>2. CASE step'[w] # step[w]
  <2>1. RecordAttempt(w) \/ DeriveStatus(w)
    BY <1>1, <1>2, StageReached DEF Sound
  <2>2. CASE RecordAttempt(w)
    BY <1>1, <2>2, RecordWrites DEF Sound, tableVars
  <2>3. CASE DeriveStatus(w)
    <3>1. /\ UNCHANGED <<pages, documents>> /\ step'[w].page = step[w].page
          /\ step'[w].document_status = step[w].document_status
      BY <2>3, DeriveWrites DEF Sound, tableVars
    <3>2. OthersFinished(w)
      BY <1>1, <3>1 DEF OthersFinished, PagesOf
    <3>3. AtStage(w, {"derive", "commit"})
      BY <2>3 DEF DeriveStatus, AtStage
    <3> QED
      BY <1>1, <3>1, <3>2, <3>3 DEF StatusFollows, SnapshotStands
  <2> QED
    BY <2>1, <2>2, <2>3
<1>3. CASE step'[w] = step[w]
  <2>1. AtStage(w, {"derive", "commit"})
    BY <1>1, <1>3 DEF AtStage
  <2>2. OthersFinished(w) /\ ~Requeueing(d)
    BY <1>1, <1>3, <2>1, OthersFinishedBefore
  <2>3. d \in Documents
    BY <1>1, <1>3, <2>1, RunsPage DEF AtStage
  <2>4. documents'[d].status \in {documents[d].status, "pending"}
    BY <1>3, <2>1, <2>2, <2>3, AloneStands, OthersMoveStatus
  <2> QED
    BY <1>1, <1>3, <2>1, <2>2, <2>4 DEF StatusFollows, SnapshotStands
<1> QED
  BY <1>2, <1>3

\* How the status of a converted document changes when no page of it is committed or
\* queued again: a retry sends it back to conversion, or a conversion of it fails.
LEMMA ConvertedMoves ==
    ASSUME Sound, [Next]_vars, NEW d \in Documents, PagesOf(d) # {}, ~Requeueing(d),
           \A w \in Workers : CommitAttempt(w) => step[w].page[1] # d
    PROVE  \/ documents'[d].status \in {"pending", "converting"}
           \/ documents'[d].error_message = "set"
           \/ /\ documents'[d].status = documents[d].status
              /\ documents'[d].error_message = documents[d].error_message
<1> DEFINE Moves == \/ documents'[d].status \in {"pending", "converting"}
                    \/ documents'[d].error_message = "set"
                    \/ /\ documents'[d].status = documents[d].status
                       /\ documents'[d].error_message = documents[d].error_message
<1>1. documents \in [Documents -> DocumentRow] /\ documents[d] \in DocumentRow
  BY DEF Sound, TypeOK, TablesTypeOK
<1>2. CASE UNCHANGED documents
  BY <1>2
<1>3. ASSUME NEW w \in Workers, WorkerNext(w)
      PROVE  Moves
  <2>1. CASE ReleaseAbandonedClaims(w)
    BY <1>1, <2>1 DEF ReleaseAbandonedClaims, Released, DocumentRow
  <2>2. CASE ClaimDocuments(w)
    <3>1. PICK S : documents' = [c \in Documents |->
                IF c \in S THEN ClaimedDocument(documents[c]) ELSE documents[c]]
      BY <2>2 DEF ClaimDocuments
    <3> QED
      BY <1>1, <3>1 DEF ClaimedDocument, DocumentRow
  <2>3. CASE ConvertSucceeds(w)
    <3>1. CASE step[w].document = d
      BY <2>3, <3>1 DEF ConvertSucceeds, PagesCollide
    <3>2. CASE step[w].document # d
      BY <1>1, <2>3, <3>2 DEF ConvertSucceeds
    <3> QED
      BY <3>1, <3>2
  <2>4. CASE ConvertFails(w)
    <3>1. PICK c, x, a : documents' = [documents EXCEPT ![c].error_message = "set",
                            ![c].status = x, ![c].claimed_at = a]
      BY <2>4 DEF ConvertFails
    <3> QED
      BY <1>1, <3>1 DEF DocumentRow
  <2>5. CASE CommitAttempt(w)
    <3>1. step[w].page[1] # d
      BY <2>5
    <3> QED
      BY <1>1, <2>5, <3>1 DEF CommitAttempt
  <2> QED
    BY <1>2, <1>3, <2>1, <2>2, <2>3, <2>4, <2>5
     DEF WorkerNext, WorkerProgress, WorkerFault, ClaimPages, EndTick, BeginConvert, BeginExtract,
         VendorAnswers, RecordAttempt, AttemptCollides, DeriveStatus, StepRaises, Crash, tableVars
<1>4. ASSUME NEW r \in Requests, RequestNext(r)
      PROVE  Moves
  <2>1. CASE RetryRequeues(r)
    <3>1. request[r].document # d
      BY <2>1 DEF Requeueing
    <3> QED
      BY <1>1, <2>1, <3>1 DEF RetryRequeues
  <2>2. CASE RetryRestarts(r)
    <3>1. PICK c, e, a : documents' = [documents EXCEPT ![c].status = "pending",
                            ![c].error_message = e, ![c].claimed_at = a]
      BY <2>2 DEF RetryRestarts
    <3> QED
      BY <1>1, <3>1 DEF DocumentRow
  <2> QED
    BY <1>2, <1>4, <2>1, <2>2
       DEF RequestNext, RetryArrives, RetryLoads, RetryProgress, RetrySelectsFailed,
           RetrySelectsPage, tableVars
<1>5. ASSUME NEW c \in Documents, DocumentArrives(c)
      PROVE  Moves
  BY <1>1, <1>5 DEF DocumentArrives, NewDocument, AbsentDocument
<1>6. ASSUME NEW c \in Documents, DocumentClaimAges(c)
      PROVE  Moves
  BY <1>1, <1>6 DEF DocumentClaimAges, DocumentRow
<1>7. Moves
  BY <1>2, <1>3, <1>4, <1>5, <1>6
     DEF Next, Environment, AdministratorSwitchesEngines, ClaimsAge, PageClaimAges, vars, tableVars
<1> QED
  BY <1>7

LEMMA FinishedAddsStep ==
    ASSUME Sound, Sound', Alone, StatusFollows, [Next]_vars
    PROVE  FinishedAdds'
<1>1. SUFFICES ASSUME NEW d \in Documents, PagesOf(d)' # {}, Statuses(d)' \subseteq ExtractionStatus,
                      documents'[d].status \notin {"pending", "converting"},
                      documents'[d].error_message = "null"
               PROVE  documents'[d].status = Derive(Statuses(d)')
  BY DEF FinishedAdds, Derive
<1>2. \A p \in PagesOf(d)' : pages'[p].status \in ExtractionStatus
  BY <1>1 DEF Statuses
<1>3. PagesOf(d) # {} /\ PagesOf(d)' = PagesOf(d)
  <2>1. CASE PagesOf(d) = {} /\ Converts(d)
    BY <1>1, <1>2, <2>1, ConvertedWait DEF ExtractionStatus
  <2>2. CASE PagesOf(d) # {} \/ ~Converts(d)
    BY <1>1, <2>2, PagesOfStays
  <2> QED
    BY <2>1, <2>2
<1>4. CASE \E w \in Workers : CommitAttempt(w) /\ step[w].page[1] = d
  <2>1. PICK w \in Workers : CommitAttempt(w) /\ step[w].page[1] = d
    BY <1>4
  <2>2. /\ AtStage(w, {"commit"}) /\ AtStage(w, {"derive", "commit"}) /\ Recording(w)
        /\ step[w].page \in Pages
    BY <2>1, RunsPage DEF CommitAttempt, AtStage, Recording
  <2>3. OthersFinished(w)
    <3>1. \A q \in Pages \ {step[w].page} : pages'[q] = pages[q]
      BY <2>1, <2>2 DEF CommitAttempt, Sound, TypeOK, TablesTypeOK
    <3>2. \A q \in PagesOf(d) : q \in Pages
      BY DEF PagesOf
    <3> QED
      BY <1>2, <1>3, <2>1, <3>1, <3>2 DEF OthersFinished
  <2>4. /\ step[w].derived = Derive(StatusesSeenBy(w))
        /\ documents[d].status \in {step[w].document_status, "pending"}
    BY <2>1, <2>2, <2>3 DEF StatusFollows, CommitAdds, SnapshotStands
  <2>5. StatusesSeenBy(w) = Statuses(d)'
    BY <2>1, CommitsSeen DEF Alone
  <2>6. step[w].derived # NoStatus
    BY <1>1, <2>4, <2>5 DEF Derive, NoStatus, ExtractionStatus
  <2>7. documents' = [documents EXCEPT ![d].status = Flushed(step[w].document_status, step[w].derived, @)]
    BY <2>1, <2>6 DEF CommitAttempt
  <2>8. documents \in [Documents -> DocumentRow]
    BY DEF Sound, TypeOK, TablesTypeOK
  <2>9. documents'[d].status = step[w].derived
    BY <1>1, <2>4, <2>7, <2>8 DEF Flushed, DocumentRow
  <2> QED
    BY <2>4, <2>5, <2>9
<1>5. CASE \A w \in Workers : CommitAttempt(w) => step[w].page[1] # d
  <2>1. \A p \in PagesOf(d) : pages'[p].status = pages[p].status
    BY <1>2, <1>3, <1>5, OnlyCommitsFinish DEF Sound, PagesOf
  <2>2. Statuses(d)' = Statuses(d)
    BY <1>3, <2>1 DEF Statuses
  <2>3. ~Requeueing(d)
    <3>1. SUFFICES ASSUME NEW r \in Requests, RetryRequeues(r), request[r].document = d
                   PROVE  FALSE
      BY DEF Requeueing
    <3>2. \E p \in PagesOf(d) : pages'[p].status = "pending"
      BY <3>1, RequeuesWaiting DEF Alone
    <3> QED
      BY <1>2, <1>3, <3>2 DEF ExtractionStatus
  <2>4. /\ documents'[d].status = documents[d].status
        /\ documents'[d].error_message = documents[d].error_message
    BY <1>1, <1>3, <1>5, <2>3, ConvertedMoves
  <2> QED
    BY <1>1, <1>3, <2>2, <2>4 DEF StatusFollows, FinishedAdds
<1> QED
  BY <1>4, <1>5

LEMMA AloneInit == Init => Alone /\ StatusFollows
<1>1. ASSUME Init
      PROVE  /\ \A d \in Documents : PagesOf(d) = {}
             /\ \A w \in Workers : step[w] = NoStep /\ step[w].kind = "none"
             /\ \A w \in Workers : page_ids[w] = {} /\ document_ids[w] = {}
             /\ \A r \in Requests : request[r].stage = "new"
  BY <1>1 DEF Init, TablesInit, WorkerInit, RetryInit, NewRequest, AbsentPage, NoStep, PagesOf
<1>2. Init => StatusFollows
  BY <1>1 DEF StatusFollows, FinishedAdds, CommitAdds, SnapshotStands, AtStage
<1>3. Init => Alone
  BY <1>1 DEF Alone, EmptyHanded, HeldUnfinished, RunOnce, Unfinished, TargetsOfDocument, HoldsPage,
              Extracting
<1> QED
  BY <1>2, <1>3

LEMMA StatusFollowsStep ==
    ASSUME Sound, Sound', Alone, StatusFollows, OneWorker, [Next]_vars
    PROVE  StatusFollows'
<1>1. FinishedAdds'
  BY FinishedAddsStep
<1>2. CommitAdds'
  BY CommitAddsStep
<1>3. SnapshotStands'
  BY SnapshotStandsStep
<1> QED
  BY <1>1, <1>2, <1>3 DEF StatusFollows

LEMMA FollowsIsDerived == StatusFollows => QuietStatusDerived
<1>1. SUFFICES ASSUME StatusFollows, NEW d \in Documents, Quiet(d)
               PROVE  documents[d].status = IF Statuses(d) = {"succeeded"} THEN "completed"
                                            ELSE IF Statuses(d) = {"failed"} THEN "failed"
                                            ELSE "partial_failed"
  BY DEF QuietStatusDerived, Statuses
<1>2. /\ PagesOf(d) # {} /\ Statuses(d) \subseteq ExtractionStatus
      /\ documents[d].status \notin {"pending", "converting"} /\ documents[d].error_message = "null"
  BY <1>1 DEF Quiet, Statuses
<1>3. documents[d].status = Derive(Statuses(d))
  BY <1>1, <1>2 DEF StatusFollows, FinishedAdds
<1> QED
  BY <1>2, <1>3 DEF Derive, ExtractionStatus

\* One worker keeps the status of a document true to its pages: a document that
\* nobody is working on has the status that its pages imply, however slow the worker
\* is, wherever it crashes, and whatever retries come, one after another or at once.
\* With two workers, which may commit two pages of a document at once, the run
\* write_skew leaves a document extracting for ever.
THEOREM OneWorkerDerives ==
    ASSUME OneWorker
    PROVE  Spec => []QuietStatusDerived
<1>1. Sound /\ Sound' /\ Alone /\ StatusFollows /\ [Next]_vars => Alone' /\ StatusFollows'
  BY AloneStep, StatusFollowsStep
<1> QED
  BY <1>1, AloneInit, FollowsIsDerived, AlwaysSound, PTL DEF Spec

-----------------------------------------------------------------------------
(* The refinement of ClaimQueue by documents: the actions of the queue.    *)

\* How a step may leave the documents outside S in the queue, and those in hand.
QueuedAs(d) == DocumentStates[d]
HasToConvert(w, d) == PagesOf(d) = {} /\ HoldsDocument(w, d)
QueueKept(S) == \A d \in Documents \ S : QueuedAs(d)' = QueuedAs(d)
SameDocumentHands ==
    \A w \in Workers, d \in Documents : HasToConvert(w, d)' <=> HasToConvert(w, d)
LetsDocumentsGo(w, S) ==
    \A v \in Workers, d \in Documents :
        HasToConvert(v, d)' <=> HasToConvert(v, d) /\ ~(v = w /\ d \in S)

LEMMA StatesQueued ==
    /\ DocumentStates = [d \in Documents |-> QueuedAs(d)]
    /\ DocumentStates' = [d \in Documents |-> QueuedAs(d)']
  BY DEF DocumentStates, QueuedAs

LEMMA HeldToConvert ==
    /\ DocumentsHeld = [w \in Workers |-> {d \in Documents : HasToConvert(w, d)}]
    /\ DocumentsHeld' = [w \in Workers |-> {d \in Documents : HasToConvert(w, d)'}]
  BY DEF DocumentsHeld, HasToConvert

LEMMA DocumentsStay ==
    ASSUME SameDocumentHands
    PROVE  DocumentsHeld' = DocumentsHeld
<1>1. \A w \in Workers :
        {d \in Documents : HasToConvert(w, d)'} = {d \in Documents : HasToConvert(w, d)}
  BY DEF SameDocumentHands
<1> QED
  BY <1>1, HeldToConvert

LEMMA DocumentsShrink ==
    ASSUME NEW w \in Workers, NEW S, LetsDocumentsGo(w, S)
    PROVE  DocumentQueue!LetGo(w, S)
<1>1. \A v \in Workers : {d \in Documents : HasToConvert(v, d)'} =
            IF v = w THEN {d \in Documents : HasToConvert(v, d)} \ S
            ELSE {d \in Documents : HasToConvert(v, d)}
  BY DEF LetsDocumentsGo
<1> QED
  BY <1>1, HeldToConvert DEF DocumentQueue!LetGo

LEMMA DocumentsMarked ==
    ASSUME NEW S, QueueKept(S), NEW new, \A d \in Documents \cap S : QueuedAs(d)' = new
    PROVE  DocumentQueue!Mark(S, new)
<1>1. \A d \in Documents : QueuedAs(d)' = IF d \in S THEN new ELSE QueuedAs(d)
  BY DEF QueueKept
<1> QED
  BY <1>1, StatesQueued DEF DocumentQueue!Mark

LEMMA DocumentsDropped ==
    ASSUME QueueKept({}), NEW w \in Workers, NEW S \in SUBSET Documents, LetsDocumentsGo(w, S)
    PROVE  DocumentQueue!Next
<1>1. DocumentStates' = DocumentStates
  BY StatesQueued DEF QueueKept
<1>2. DocumentQueue!Drop(w, S)
  BY <1>1, DocumentsShrink DEF DocumentQueue!Drop
<1> QED
  BY <1>2 DEF DocumentQueue!Next

LEMMA DocumentsStutter ==
    ASSUME QueueKept({}), SameDocumentHands
    PROVE  UNCHANGED DocumentQueue!vars
<1>1. DocumentStates' = DocumentStates
  BY StatesQueued DEF QueueKept
<1> QED
  BY <1>1, DocumentsStay DEF DocumentQueue!vars

LEMMA DocumentEnqueued ==
    ASSUME NEW d \in Documents, QueueKept({d}), SameDocumentHands,
           QueuedAs(d) \in {"absent", "finished"}, QueuedAs(d)' = "waiting"
    PROVE  DocumentQueue!Next
<1>1. DocumentStates[d] \in {"absent", "finished"}
  BY StatesQueued
<1>2. DocumentQueue!Mark({d}, "waiting")
  BY DocumentsMarked
<1>3. DocumentQueue!Enqueue({d})
  BY <1>1, <1>2, DocumentsStay DEF DocumentQueue!Enqueue
<1> QED
  BY <1>3 DEF DocumentQueue!Next

LEMMA DocumentFinished ==
    ASSUME NEW w \in Workers, NEW d \in Documents, HasToConvert(w, d), QueueKept({d}),
           QueuedAs(d)' = "finished", LetsDocumentsGo(w, {d})
    PROVE  DocumentQueue!Next
<1>1. d \in DocumentsHeld[w]
  BY HeldToConvert
<1>2. DocumentQueue!Mark({d}, "finished")
  BY DocumentsMarked
<1>3. DocumentQueue!Finish(w, d)
  BY <1>1, <1>2, DocumentsShrink DEF DocumentQueue!Finish
<1> QED
  BY <1>3 DEF DocumentQueue!Next

-----------------------------------------------------------------------------
(* The refinement of ClaimQueue by documents: the steps.                   *)

\* Where no document is given pages, one without pages is queued by its status.
PagesStay == \A d \in Documents : PagesOf(d)' = PagesOf(d)

LEMMA PagesStayUnlessConverted ==
    ASSUME Sound, Sound', [Next]_vars, \A w \in Workers : ~ConvertSucceeds(w)
    PROVE  PagesStay
  BY PagesOfStays DEF PagesStay, Converts

LEMMA StatusesKeepQueue ==
    ASSUME PagesStay, NEW S,
           \A d \in Documents \ S : PagesOf(d) = {} => documents'[d].status = documents[d].status
    PROVE  QueueKept(S)
<1>1. ASSUME NEW d \in Documents \ S, PagesOf(d) = {}
      PROVE  QueuedAs(d)' = QueuedAs(d)
  <2>1. PagesOf(d)' = {} /\ documents'[d].status = documents[d].status
    BY <1>1 DEF PagesStay
  <2> QED
    BY <1>1, <2>1 DEF QueuedAs, DocumentStates, InQueue
<1>2. ASSUME NEW d \in Documents \ S, PagesOf(d) # {}
      PROVE  QueuedAs(d)' = QueuedAs(d)
  <2>1. PagesOf(d)' # {}
    BY <1>2 DEF PagesStay
  <2> QED
    BY <1>2, <2>1 DEF QueuedAs, DocumentStates
<1> QED
  BY <1>1, <1>2 DEF QueueKept

LEMMA HandsKeepQueue ==
    ASSUME PagesStay,
           \A w \in Workers, d \in Documents : HoldsDocument(w, d)' <=> HoldsDocument(w, d)
    PROVE  SameDocumentHands
  BY DEF PagesStay, SameDocumentHands, HasToConvert

LEMMA ReleaseReleasesDocuments ==
    ASSUME TypeOK, EmptyHanded, DocumentHands, OnTime, PagesStay,
           NEW w \in Workers, ReleaseAbandonedClaims(w)
    PROVE  DocumentQueue!Next
<1>1. PICK S \in SUBSET Documents : S = {d \in AbandonedDocuments : PagesOf(d) = {}}
  BY DEF AbandonedDocuments
<1>2. \A d \in S : /\ documents[d].status = "converting" /\ documents[d].claimed_at = "stale"
                   /\ documents'[d].status = "pending"
  BY <1>1 DEF ReleaseAbandonedClaims, AbandonedDocuments, Abandoned, Released, TypeOK, TablesTypeOK,
              DocumentRow
<1>3. QueueKept(S)
  <2>1. \A d \in Documents \ S : PagesOf(d) = {} => documents'[d] = documents[d]
    BY <1>1 DEF ReleaseAbandonedClaims
  <2> QED
    BY <2>1, StatusesKeepQueue
<1>4. SameDocumentHands
  BY HandsKeepQueue DEF ReleaseAbandonedClaims, HoldsDocument, Converting
<1>5. ASSUME NEW v \in Workers, NEW d \in S
      PROVE  ~HoldsDocument(v, d)
  <2>1. CASE ~SlowSteps
    BY <1>1, <1>2, <2>1 DEF DocumentHands, DocumentsInHand
  <2>2. CASE SlowSteps
    <3>1. v = w /\ phase[w] = "sleep"
      BY <2>2 DEF OnTime, ReleaseAbandonedClaims
    <3> QED
      BY <3>1 DEF EmptyHanded, HoldsDocument, Converting, NoStep
  <2> QED
    BY <2>1, <2>2
<1>6. \A d \in S : d \in Documents /\ PagesOf(d) = {} /\ PagesOf(d)' = {}
  BY <1>1 DEF PagesStay
<1>7. \A d \in S : QueuedAs(d) = "claimed" /\ QueuedAs(d)' = "waiting"
  BY <1>2, <1>6 DEF QueuedAs, DocumentStates, InQueue
<1>8. \A d \in S : DocumentStates[d] = "claimed" /\ \A v \in Workers : d \notin DocumentsHeld[v]
  BY <1>5, <1>6, <1>7, StatesQueued DEF DocumentsHeld
<1>9. DocumentQueue!Mark(S, "waiting")
  BY <1>3, <1>7, DocumentsMarked
<1>10. DocumentQueue!Release(S)
  BY <1>4, <1>8, <1>9, DocumentsStay DEF DocumentQueue!Release
<1> QED
  BY <1>1, <1>10 DEF DocumentQueue!Next

LEMMA ClaimTakesDocuments ==
    ASSUME TypeOK, EmptyHanded, PagesStay, NEW w \in Workers, ClaimDocuments(w)
    PROVE  DocumentQueue!Next
<1>1. PICK T \in SUBSET {d \in Documents : documents[d].status = "pending"} :
        /\ documents' = [d \in Documents |->
                            IF d \in T THEN ClaimedDocument(documents[d]) ELSE documents[d]]
        /\ document_ids' = [document_ids EXCEPT ![w] = T]
  BY DEF ClaimDocuments, Batches
<1>2. document_ids \in [Workers -> SUBSET Documents] /\ documents \in [Documents -> DocumentRow]
  BY DEF TypeOK, WorkerTypeOK, TablesTypeOK
<1>3. UNCHANGED step /\ document_ids[w] = {}
  BY DEF ClaimDocuments, EmptyHanded
<1>4. PICK S \in SUBSET Documents : S = {d \in T : PagesOf(d) = {}}
  OBVIOUS
<1>5. \A d \in S : documents[d].status = "pending" /\ documents'[d].status = "converting"
  BY <1>1, <1>2, <1>4 DEF ClaimedDocument, DocumentRow
<1>6. \A d \in S : d \in Documents /\ PagesOf(d) = {} /\ PagesOf(d)' = {}
  BY <1>4 DEF PagesStay
<1>7. QueueKept(S)
  <2>1. \A d \in Documents \ S : PagesOf(d) = {} => documents'[d] = documents[d]
    BY <1>1, <1>4
  <2> QED
    BY <2>1, StatusesKeepQueue
<1>8. \A v \in Workers, d \in Documents :
        HasToConvert(v, d)' <=> HasToConvert(v, d) \/ (v = w /\ d \in S)
  BY <1>1, <1>2, <1>3, <1>4 DEF PagesStay, HasToConvert, HoldsDocument, Converting
<1>9. \A d \in S : QueuedAs(d) = "waiting" /\ QueuedAs(d)' = "claimed"
  BY <1>5, <1>6 DEF QueuedAs, DocumentStates, InQueue
<1>10. DocumentQueue!Mark(S, "claimed") /\ \A d \in S : DocumentStates[d] = "waiting"
  BY <1>7, <1>9, DocumentsMarked, StatesQueued
<1>11. \A v \in Workers : {d \in Documents : HasToConvert(v, d)'} =
            IF v = w THEN {d \in Documents : HasToConvert(v, d)} \cup S
            ELSE {d \in Documents : HasToConvert(v, d)}
  BY <1>8
<1>12. DocumentsHeld' = [DocumentsHeld EXCEPT ![w] = @ \cup S]
  BY <1>11, HeldToConvert
<1>13. DocumentQueue!Claim(w, S)
  BY <1>10, <1>12 DEF DocumentQueue!Claim
<1> QED
  BY <1>13 DEF DocumentQueue!Next

\* The end of a step lets go of its document, which is in no list any more.
LEMMA EndLetsDocumentGo ==
    ASSUME TypeOK, DocumentHands, PagesStay, NEW w \in Workers, EndStep(w)
    PROVE  LetsDocumentsGo(w, {d \in Documents : Converting(w, d)})
<1>1. UNCHANGED document_ids /\ step' = [step EXCEPT ![w] = NoStep] /\ DOMAIN step = Workers
  BY DEF EndStep, TypeOK, WorkerTypeOK
<1>2. step'[w].kind = "none" /\ \A v \in Workers \ {w} : step'[v] = step[v]
  BY <1>1 DEF NoStep
<1> QED
  BY <1>1, <1>2 DEF DocumentHands, ConvertOnce, PagesStay, LetsDocumentsGo, HasToConvert,
                    HoldsDocument, Converting

\* A conversion that fails finishes its document, unless another has given it pages.
LEMMA FailureFinishes ==
    ASSUME TypeOK, DocumentHands, PagesStay, NEW w \in Workers, ConvertFails(w)
    PROVE  DocumentQueue!Next
<1>1. EndStep(w) /\ step[w].kind = "convert"
  BY DEF ConvertFails
<1>2. PICK d \in Documents : d = step[w].document
  BY <1>1, StepShapes DEF TypeOK, ConvertStep
<1>3. Converting(w, d) /\ {e \in Documents : Converting(w, e)} = {d}
  BY <1>1, <1>2 DEF Converting
<1>4. LetsDocumentsGo(w, {d})
  BY <1>1, <1>3, EndLetsDocumentGo
<1>5. documents \in [Documents -> DocumentRow]
  BY DEF TypeOK, TablesTypeOK
<1>6. \A e \in Documents \ {d} : documents'[e] = documents[e]
  BY <1>2, <1>5 DEF ConvertFails
<1>7. QueueKept({d})
  BY <1>6, StatusesKeepQueue
<1>8. CASE PagesOf(d) # {}
  <2>1. QueueKept({})
    BY <1>6, <1>8, StatusesKeepQueue
  <2> QED
    BY <1>2, <1>4, <2>1, DocumentsDropped
<1>9. CASE PagesOf(d) = {}
  <2>1. step[w].loaded.status = "converting"
    BY <1>3, <1>9 DEF DocumentHands, ConvertLoaded, ConvertsAsClaimed
  <2>2. documents'[d].status = "failed" /\ PagesOf(d)' = {}
    BY <1>2, <1>5, <1>9, <2>1 DEF ConvertFails, Flushed, DocumentRow, PagesStay
  <2>3. QueuedAs(d)' = "finished"
    BY <2>2 DEF QueuedAs, DocumentStates, InQueue
  <2>4. HasToConvert(w, d)
    BY <1>3, <1>9 DEF HasToConvert, HoldsDocument
  <2> QED
    BY <1>4, <1>7, <2>3, <2>4, DocumentFinished
<1> QED
  BY <1>8, <1>9

\* One that succeeds gives its document pages, or collides with those of another.
LEMMA ConvertFinishes ==
    ASSUME Sound, Sound', DocumentHands, NEW w \in Workers, ConvertSucceeds(w)
    PROVE  DocumentQueue!Next
<1>1. EndStep(w) /\ step[w].kind = "convert"
  BY DEF ConvertSucceeds
<1>2. PICK d \in Documents : d = step[w].document
  BY <1>1, StepShapes DEF Sound, TypeOK, ConvertStep
<1>3. Converting(w, d) /\ {e \in Documents : Converting(w, e)} = {d}
  BY <1>1, <1>2 DEF Converting
<1>4. CASE PagesOf(d) # {}
  <2>1. UNCHANGED <<documents, pages>>
    BY <1>2, <1>4 DEF ConvertSucceeds, PagesCollide
  <2>2. PagesStay
    BY <2>1 DEF PagesStay, PagesOf
  <2>3. QueueKept({})
    BY <2>1, <2>2, StatusesKeepQueue
  <2>4. LetsDocumentsGo(w, {d})
    BY <1>1, <1>3, <2>2, EndLetsDocumentGo DEF Sound
  <2> QED
    BY <1>2, <2>3, <2>4, DocumentsDropped
<1>5. CASE PagesOf(d) = {}
  <2>1. PICK n \in PageNos :
          documents' = [documents EXCEPT ![d].page_count = n,
                          ![d].status = Flushed(step[w].loaded.status, "extracting", @),
                          ![d].claimed_at = Flushed(step[w].loaded.claimed_at, "null", @)]
    <3>1. step[w].document = d /\ ~PagesCollide(d)
      BY <1>2, <1>5 DEF PagesCollide
    <3> QED
      BY <3>1 DEF ConvertSucceeds
  <2>2. documents \in [Documents -> DocumentRow]
    BY DEF Sound, TypeOK, TablesTypeOK
  <2>3. documents'[d].page_count = n /\ \A e \in Documents \ {d} : documents'[e] = documents[e]
    BY <2>1, <2>2 DEF DocumentRow
  <2>4. \A e \in Documents : /\ PagesOf(e) = {e} \X (1..documents[e].page_count)
                             /\ PagesOf(e)' = {e} \X (1..documents'[e].page_count)
    BY DEF Sound, PagesInvariant, PagesMatchCount
  <2>5. PagesOf(d)' # {}
    <3>1. 1 \in 1..documents'[d].page_count
      BY <2>3 DEF PageNos
    <3>2. <<d, 1>> \in {d} \X (1..documents'[d].page_count)
      BY <3>1
    <3> QED
      BY <2>4, <3>2
  <2>6. \A e \in Documents \ {d} : PagesOf(e)' = PagesOf(e)
    BY <2>3, <2>4
  <2>7. QueuedAs(d)' = "finished"
    BY <2>5 DEF QueuedAs, DocumentStates
  <2>8. QueueKept({d})
    BY <2>3, <2>6 DEF QueueKept, QueuedAs, DocumentStates
  <2>9. UNCHANGED document_ids /\ \A v \in Workers \ {w} : step'[v] = step[v]
    BY <1>1 DEF EndStep, Sound, TypeOK, WorkerTypeOK
  <2>10. step'[w].kind = "none"
    BY <1>1 DEF EndStep, NoStep, Sound, TypeOK, WorkerTypeOK
  <2>11. \A v \in Workers : HasToConvert(v, d) => v = w
    BY <1>3 DEF DocumentHands, DocumentsHeldOnce, HasToConvert, HoldsDocument
  <2>12. \A v \in Workers : ~HasToConvert(v, d)'
    BY <2>5 DEF HasToConvert
  <2>13. \A v \in Workers, e \in Documents \ {d} : HasToConvert(v, e)' <=> HasToConvert(v, e)
    BY <1>1, <1>2, <2>6, <2>9, <2>10 DEF HasToConvert, HoldsDocument, Converting
  <2>14. LetsDocumentsGo(w, {d})
    BY <2>11, <2>12, <2>13 DEF LetsDocumentsGo
  <2>15. HasToConvert(w, d)
    BY <1>3, <1>5 DEF HasToConvert, HoldsDocument
  <2> QED
    BY <2>7, <2>8, <2>14, <2>15, DocumentFinished
<1> QED
  BY <1>4, <1>5

\* A page that is finished is a page of a document that was converted.
LEMMA CommitKeepsQueue ==
    ASSUME Sound, DocumentHands, PagesStay, NEW w \in Workers, CommitAttempt(w)
    PROVE  DocumentQueue!Next
<1>1. EndStep(w) /\ step[w].kind = "extract"
  BY DEF CommitAttempt, AtStage
<1>2. PICK D \in Documents : D = step[w].page[1] /\ PagesOf(D) # {}
  BY <1>1, RunsPage
<1>3. documents \in [Documents -> DocumentRow]
  BY DEF Sound, TypeOK, TablesTypeOK
<1>4. \A d \in Documents : d # D => documents'[d] = documents[d]
  BY <1>2, <1>3 DEF CommitAttempt
<1>5. QueueKept({})
  BY <1>2, <1>4, StatusesKeepQueue
<1> QED
  BY <1>1, <1>5, EndLetsDocumentGo, DocumentsDropped DEF Sound

\* The other steps of a worker leave the status of the documents alone.
LEMMA WorkerKeepsQueue ==
    ASSUME TypeOK, DocumentHands, PagesStay, NEW w \in Workers,
           \/ ClaimPages(w) \/ EndTick(w) \/ BeginConvert(w) \/ BeginExtract(w)
           \/ VendorAnswers(w) \/ RecordAttempt(w) \/ AttemptCollides(w) \/ DeriveStatus(w)
           \/ WorkerFault(w)
    PROVE  [DocumentQueue!Next]_DocumentQueue!vars
<1>1. QueueKept({})
  BY StatusesKeepQueue
     DEF ClaimPages, EndTick, BeginConvert, BeginExtract, VendorAnswers, RecordAttempt,
         AttemptCollides, DeriveStatus, WorkerFault, StepRaises, Crash, tableVars
<1>2. DOMAIN step = Workers /\ document_ids \in [Workers -> SUBSET Documents]
  BY DEF TypeOK, WorkerTypeOK
<1>3. CASE EndStep(w)
  BY <1>1, <1>3, EndLetsDocumentGo, DocumentsDropped
<1>4. CASE Crash(w)
  <2>1. document_ids'[w] = {} /\ \A v \in Workers \ {w} : document_ids'[v] = document_ids[v]
    BY <1>2, <1>4 DEF Crash
  <2>2. step'[w].kind = "none" /\ \A v \in Workers \ {w} : step'[v] = step[v]
    BY <1>2, <1>4 DEF Crash, NoStep
  <2>3. LetsDocumentsGo(w, Documents)
    BY <2>1, <2>2 DEF PagesStay, LetsDocumentsGo, HasToConvert, HoldsDocument, Converting
  <2> QED
    BY <1>1, <2>3, DocumentsDropped
<1>5. CASE ClaimPages(w) \/ EndTick(w)
  BY <1>1, <1>5, HandsKeepQueue, DocumentsStutter
     DEF ClaimPages, EndTick, HoldsDocument, Converting
<1>6. CASE BeginConvert(w)
  <2>1. step[w].kind = "none"
    BY <1>6 DEF BeginConvert, NoStep
  <2>2. PICK d \in document_ids[w] :
          /\ document_ids' = [document_ids EXCEPT ![w] = @ \ {d}]
          /\ \E new : new.kind = "convert" /\ new.document = d /\ step' = [step EXCEPT ![w] = new]
    BY <1>6 DEF BeginConvert
  <2>3. step'[w].kind = "convert" /\ step'[w].document = d
        /\ \A v \in Workers \ {w} : step'[v] = step[v]
    BY <1>2, <2>2
  <2>4. SameDocumentHands
    BY <1>2, <2>1, <2>2, <2>3, HandsKeepQueue DEF HoldsDocument, Converting
  <2> QED
    BY <1>1, <2>4, DocumentsStutter
<1>7. CASE BeginExtract(w) \/ VendorAnswers(w) \/ RecordAttempt(w) \/ DeriveStatus(w)
  <2>1. UNCHANGED document_ids /\ \A v \in Workers \ {w} : step'[v] = step[v]
    BY <1>2, <1>7 DEF BeginExtract, VendorAnswers, RecordAttempt, DeriveStatus
  <2>2. step[w].kind # "convert" /\ step'[w].kind # "convert"
    <3>1. CASE BeginExtract(w)
      <4>1. step[w].kind = "none"
        BY <3>1 DEF BeginExtract, NoStep
      <4>2. step' = step \/ \E new : new.kind = "extract" /\ step' = [step EXCEPT ![w] = new]
        BY <3>1 DEF BeginExtract
      <4> QED
        BY <1>2, <4>1, <4>2
    <3>2. CASE VendorAnswers(w) \/ RecordAttempt(w) \/ DeriveStatus(w)
      <4>1. step[w] \in ExtractStep
        BY <3>2, StepShapes DEF VendorAnswers, RecordAttempt, DeriveStatus, AtStage, TypeOK
      <4>2. step[w].kind = "extract"
        BY <4>1 DEF ExtractStep
      <4>3. CASE VendorAnswers(w)
        <5>1. PICK o, n : step' = [step EXCEPT ![w].stage = "insert", ![w].outcome = o,
                                               ![w].attempt_no = n]
          BY <4>3 DEF VendorAnswers
        <5> QED
          BY <1>2, <4>1, <5>1 DEF ExtractStep
      <4>4. CASE RecordAttempt(w)
        <5>1. PICK s : step' = [step EXCEPT ![w].stage = "derive", ![w].document_status = s]
          BY <4>4 DEF RecordAttempt
        <5> QED
          BY <1>2, <4>1, <5>1 DEF ExtractStep
      <4>5. CASE DeriveStatus(w)
        <5>1. PICK s : step' = [step EXCEPT ![w].stage = "commit", ![w].derived = s]
          BY <4>5 DEF DeriveStatus
        <5> QED
          BY <1>2, <4>1, <5>1 DEF ExtractStep
      <4> QED
        BY <3>2, <4>2, <4>3, <4>4, <4>5
    <3> QED
      BY <1>7, <3>1, <3>2
  <2>3. SameDocumentHands
    BY <2>1, <2>2, HandsKeepQueue DEF HoldsDocument, Converting
  <2> QED
    BY <1>1, <2>3, DocumentsStutter
<1> QED
  BY <1>3, <1>4, <1>5, <1>6, <1>7 DEF AttemptCollides, WorkerFault, StepRaises

\* A retry puts a document whose conversion failed back in the queue, and queues
\* pages only of documents that were converted.
LEMMA RetryKeepsQueue ==
    ASSUME Sound, TargetsRest, TargetsChosen, FailedAsLoaded, PagesStay,
           NEW r \in Requests, RequestNext(r)
    PROVE  [DocumentQueue!Next]_DocumentQueue!vars
<1>1. SameDocumentHands
  BY HandsKeepQueue
     DEF HoldsDocument, Converting, RequestNext, RetryArrives, RetryLoads, RetryProgress,
         RetrySelectsFailed, RetrySelectsPage, RetryRequeues, RetryRestarts, workerVars
<1>2. documents \in [Documents -> DocumentRow]
  BY DEF Sound, TypeOK, TablesTypeOK
<1>3. CASE RetryRequeues(r)
  <2>1. request[r].document \in Documents
    BY <1>3, RequeueShape DEF RetryRequeues, RequeueRequest, Sound
  <2>2. PICK D \in Documents : D = request[r].document /\ PagesOf(D) # {}
    BY <1>3, <2>1, RequeuesSome
  <2>3. \A d \in Documents \ {D} : documents'[d] = documents[d]
    BY <1>2, <1>3, <2>2 DEF RetryRequeues
  <2>4. QueueKept({})
    BY <2>2, <2>3, StatusesKeepQueue
  <2> QED
    BY <1>1, <2>4, DocumentsStutter
<1>4. CASE RetryRestarts(r)
  <2>1. request[r].document \in Documents /\ LoadedFailed(r)
    BY <1>4, RequestShapes DEF RetryRestarts, LoadedRequest, LoadedFailed, Sound, TypeOK
  <2>2. PICK D \in Documents : D = request[r].document
    BY <2>1
  <2>3. PICK m, c : documents' = [documents EXCEPT
          ![D].status = "pending", ![D].error_message = m, ![D].claimed_at = c]
    BY <1>4, <2>2 DEF RetryRestarts
  <2>4. documents'[D].status = "pending" /\ \A d \in Documents \ {D} : documents'[d] = documents[d]
    BY <1>2, <2>3 DEF DocumentRow
  <2>5. QueueKept({D})
    BY <2>4, StatusesKeepQueue
  <2>6. CASE PagesOf(D) # {}
    <3>1. QueueKept({})
      BY <2>4, <2>6, StatusesKeepQueue
    <3> QED
      BY <1>1, <3>1, DocumentsStutter
  <2>7. CASE PagesOf(D) = {}
    <3>1. documents[D].status = "failed" /\ PagesOf(D)' = {}
      BY <2>1, <2>2, <2>7 DEF FailedAsLoaded, PagesStay
    <3>2. QueuedAs(D) = "finished" /\ QueuedAs(D)' = "waiting"
      BY <2>4, <2>7, <3>1 DEF QueuedAs, DocumentStates, InQueue
    <3> QED
      BY <1>1, <2>5, <3>2, DocumentEnqueued
  <2> QED
    BY <2>6, <2>7
<1>5. CASE UNCHANGED documents
  BY <1>1, <1>5, StatusesKeepQueue, DocumentsStutter
<1> QED
  BY <1>3, <1>4, <1>5
     DEF RequestNext, RetryArrives, RetryLoads, RetryProgress, RetrySelectsFailed,
         RetrySelectsPage, tableVars

LEMMA EnvironmentKeepsQueue ==
    ASSUME Sound, PagesStay, Environment
    PROVE  [DocumentQueue!Next]_DocumentQueue!vars
<1>1. SameDocumentHands
  BY HandsKeepQueue
     DEF HoldsDocument, Converting, Environment, DocumentArrives, AdministratorSwitchesEngines,
         ClaimsAge, DocumentClaimAges, PageClaimAges, workerVars
<1>2. documents \in [Documents -> DocumentRow]
  BY DEF Sound, TypeOK, TablesTypeOK
<1>3. ASSUME NEW d \in Documents, DocumentArrives(d)
      PROVE  DocumentQueue!Next
  <2>1. documents'[d].status = "pending" /\ \A e \in Documents \ {d} : documents'[e] = documents[e]
    BY <1>2, <1>3 DEF DocumentArrives, NewDocument, AbsentDocument
  <2>2. documents[d].status = "absent" /\ PagesOf(d) = {d} \X (1..documents[d].page_count)
    BY <1>3 DEF DocumentArrives, Sound, PagesInvariant, PagesMatchCount
  <2>3. PagesOf(d) = {} /\ PagesOf(d)' = {}
    BY <2>2 DEF Sound, PagesInvariant, AbsentHaveNoPages, PagesStay
  <2>4. QueuedAs(d) = "absent" /\ QueuedAs(d)' = "waiting"
    BY <2>1, <2>2, <2>3 DEF QueuedAs, DocumentStates, InQueue
  <2>5. QueueKept({d})
    BY <2>1, StatusesKeepQueue
  <2> QED
    BY <1>1, <2>4, <2>5, DocumentEnqueued
<1>4. ASSUME NEW d \in Documents, DocumentClaimAges(d)
      PROVE  QueueKept({})
  <2>1. \A e \in Documents : documents'[e].status = documents[e].status
    BY <1>2, <1>4 DEF DocumentClaimAges, DocumentRow
  <2> QED
    BY <2>1, StatusesKeepQueue
<1>5. CASE UNCHANGED documents
  BY <1>1, <1>5, StatusesKeepQueue, DocumentsStutter
<1> QED
  BY <1>1, <1>3, <1>4, <1>5, DocumentsStutter
     DEF Environment, AdministratorSwitchesEngines, ClaimsAge, PageClaimAges

LEMMA DocumentsClaimedStep ==
    ASSUME Sound, Sound', Timely, ConversionsTimely, OnTime, [Next]_vars
    PROVE  [DocumentQueue!Next]_DocumentQueue!vars
<1>1. TypeOK /\ EmptyHanded /\ TargetsRest /\ TargetsChosen /\ DocumentHands /\ FailedAsLoaded
  BY DEF Sound, Timely, ConversionsTimely
<1>2. CASE \E w \in Workers : ConvertSucceeds(w)
  BY <1>1, <1>2, ConvertFinishes
<1>3. CASE \A w \in Workers : ~ConvertSucceeds(w)
  <2>1. PagesStay
    BY <1>3, PagesStayUnlessConverted
  <2>2. CASE UNCHANGED vars
    <3>1. QueueKept({})
      BY <2>1, <2>2, StatusesKeepQueue DEF vars, tableVars
    <3>2. SameDocumentHands
      BY <2>1, <2>2, HandsKeepQueue DEF vars, workerVars, HoldsDocument, Converting
    <3> QED
      BY <3>1, <3>2, DocumentsStutter
  <2>3. ASSUME NEW w \in Workers, WorkerNext(w)
        PROVE  [DocumentQueue!Next]_DocumentQueue!vars
    BY <1>1, <1>3, <2>1, <2>3, ReleaseReleasesDocuments, ClaimTakesDocuments, FailureFinishes,
       CommitKeepsQueue, WorkerKeepsQueue
       DEF WorkerNext, WorkerProgress
  <2> QED
    BY <1>1, <2>1, <2>2, <2>3, RetryKeepsQueue, EnvironmentKeepsQueue DEF Next
<1> QED
  BY <1>2, <1>3

\* Until they have their pages, documents are handed out as ClaimQueue promises: one
\* worker at a time converts a document, it stays with that worker until it is
\* converted, has failed or is let go, and it waits again only when nobody has it.
\* It holds for any retries, as long as no two are under way on one document.
THEOREM DocumentsAlwaysClaimed ==
    ASSUME OnTime
    PROVE  Spec /\ []OneAtATime => DocumentsClaimed
<1>1. Init => DocumentQueue!Init
  <2>1. SUFFICES ASSUME Init PROVE DocumentQueue!Init
    OBVIOUS
  <2>2. \A d \in Documents : PagesOf(d) = {} /\ documents[d].status = "absent"
    BY <2>1 DEF Init, TablesInit, AbsentDocument, AbsentPage, PagesOf
  <2>3. \A w \in Workers, d \in Documents : ~HoldsDocument(w, d)
    BY <2>1 DEF Init, WorkerInit, NoStep, HoldsDocument, Converting
  <2> QED
    BY <2>2, <2>3 DEF DocumentQueue!Init, DocumentStates, DocumentsHeld, InQueue
<1>2. /\ Sound /\ Sound' /\ Timely /\ ConversionsTimely /\ [Next]_vars
      => [DocumentQueue!Next]_DocumentQueue!vars
  BY DocumentsClaimedStep
<1> QED
  BY <1>1, <1>2, AlwaysSound, ConversionsTimelyAlways, PTL
     DEF Spec, DocumentsClaimed, DocumentQueue!Spec

=============================================================================
