---------------------------- MODULE TimelyProofs -----------------------------
(***************************************************************************)
(* What holds of pages for any number of workers, pages, retries and       *)
(* faults, when nobody works on a claim that another may release, and no   *)
(* two retries are under way on one document: "no two of them take the     *)
(* same row", a page that succeeded is left alone, and a requested engine  *)
(* is the one that is used.  A running page is taken back by no retry with *)
(* slow steps too.                                                         *)
(***************************************************************************)
EXTENDS PipelineProofs

\* Nobody works on a claim that another may release: work in hand is done within
\* the claim timeout, or there is nobody else.
OnTime == ~SlowSteps \/ \A v, w \in Workers : v = w

-----------------------------------------------------------------------------
(* The invariant.                                                          *)

\* A worker has rows in hand only where its tick has come to them.
EmptyHanded ==
    \A w \in Workers :
        /\ phase[w] # "run" => step[w] = NoStep /\ page_ids[w] = {}
        /\ phase[w] \in {"sleep", "claim_documents"} => document_ids[w] = {}

\* A page in hand reads processing under a claim, which only slow steps let go
\* stale: nobody else claims or releases it, and no retry accepts it.
InHand ==
    \A w \in Workers, p \in Pages : HoldsPage(w, p) =>
        /\ pages[p].status = "processing" /\ pages[p].claimed_at # "null"
        /\ SlowSteps \/ pages[p].claimed_at = "fresh"

\* A worker does not run a page that it still has in its list.
RunOnce == \A w \in Workers, p \in Pages : Extracting(w, p) => p \notin page_ids[w]

\* A page is run as it was loaded, on the engine that was asked for.
LoadedStands ==
    \A w \in Workers : step[w].kind = "extract" =>
        /\ step[w].loaded.status = "processing" /\ step[w].loaded.claimed_at # "null"
        /\ step[w].loaded.requested_engine_key = pages[step[w].page].requested_engine_key
        /\ pages[step[w].page].requested_engine_key \in {NoEngine, step[w].engine}

\* The pages that a request is about to queue are finished ones of its document;
\* and they are the page it names, or pages that failed.
TargetsRest ==
    \A r \in Requests : request[r].stage = "requeue" =>
        \A p \in DOMAIN request[r].targets :
            p[1] = request[r].document /\ pages[p].status \in ExtractionStatus
TargetsChosen ==
    \A r \in Requests : request[r].stage = "requeue" =>
        /\ DOMAIN request[r].targets # {}
        /\ \A p \in DOMAIN request[r].targets :
            IF request[r].page_no = AllFailed THEN pages[p].status = "failed"
            ELSE p = <<request[r].document, request[r].page_no>>

Hands == InHand /\ HeldOnce /\ RunOnce /\ LoadedStands
Timely == EmptyHanded /\ Hands /\ TargetsRest /\ TargetsChosen

-----------------------------------------------------------------------------
(* Where the tick has come to.                                             *)

LEMMA EmptyHandedStep ==
    ASSUME TypeOK, EmptyHanded, [Next]_vars
    PROVE  EmptyHanded'
<1>1. /\ phase \in [Workers -> Phases] /\ DOMAIN step = Workers
      /\ document_ids \in [Workers -> SUBSET Documents] /\ page_ids \in [Workers -> SUBSET Pages]
  BY DEF TypeOK, WorkerTypeOK
<1>2. CASE UNCHANGED <<phase, step, document_ids, page_ids>>
  BY <1>2 DEF EmptyHanded
<1>3. ASSUME NEW w \in Workers, WorkerNext(w)
      PROVE  EmptyHanded'
  <2>1. /\ \A v \in Workers \ {w} : /\ phase'[v] = phase[v] /\ step'[v] = step[v]
                                    /\ document_ids'[v] = document_ids[v]
                                    /\ page_ids'[v] = page_ids[v]
        /\ phase'[w] # "run" => step'[w] = NoStep /\ page_ids'[w] = {}
        /\ phase'[w] \in {"sleep", "claim_documents"} => document_ids'[w] = {}
    <3>1. CASE ReleaseAbandonedClaims(w) \/ ClaimDocuments(w) \/ ClaimPages(w) \/ EndTick(w)
      BY <1>1, <3>1 DEF ReleaseAbandonedClaims, ClaimDocuments, ClaimPages, EndTick, EmptyHanded
    <3>2. CASE BeginConvert(w) \/ BeginExtract(w)
      <4>1. phase[w] = "run" /\ UNCHANGED phase
        BY <3>2 DEF BeginConvert, BeginExtract
      <4>2. \A v \in Workers \ {w} : /\ step'[v] = step[v]
                                     /\ document_ids'[v] = document_ids[v]
                                     /\ page_ids'[v] = page_ids[v]
        BY <1>1, <3>2 DEF BeginConvert, BeginExtract
      <4> QED
        BY <4>1, <4>2
    <3>3. CASE EndStep(w) /\ UNCHANGED phase
      BY <1>1, <3>3 DEF EndStep, EmptyHanded
    <3>4. CASE VendorAnswers(w) \/ RecordAttempt(w) \/ DeriveStatus(w)
      <4>1. UNCHANGED <<phase, document_ids, page_ids>> /\ step[w].kind = "extract"
        BY <3>4 DEF VendorAnswers, RecordAttempt, DeriveStatus, AtStage
      <4>3. NoStep.kind = "none"
        BY DEF NoStep
      <4>2. \A v \in Workers \ {w} : step'[v] = step[v]
        BY <1>1, <3>4 DEF VendorAnswers, RecordAttempt, DeriveStatus
      <4> QED
        BY <4>1, <4>2, <4>3 DEF EmptyHanded
    <3>5. CASE Crash(w)
      BY <1>1, <3>5 DEF Crash
    <3> QED
      BY <1>3, <3>1, <3>2, <3>3, <3>4, <3>5
         DEF WorkerNext, WorkerProgress, WorkerFault, ConvertSucceeds, ConvertFails,
             AttemptCollides, CommitAttempt, StepRaises, EndStep
  <2> QED
    BY <2>1 DEF EmptyHanded
<1> QED
  BY <1>2, <1>3
     DEF Next, RequestNext, RetryArrives, RetryLoads, RetryProgress, RetrySelectsFailed,
         RetrySelectsPage, RetryRequeues, RetryRestarts, Environment, DocumentArrives,
         AdministratorSwitchesEngines, ClaimsAge, DocumentClaimAges, PageClaimAges, vars, workerVars

-----------------------------------------------------------------------------
(* Steps that take nothing in hand.                                        *)

\* The row of a page in hand is left alone, but for the age of its claim.
SameInHand(p) ==
    /\ pages'[p].status = pages[p].status
    /\ pages'[p].requested_engine_key = pages[p].requested_engine_key
    /\ \/ pages'[p].claimed_at = pages[p].claimed_at
       \/ SlowSteps /\ pages'[p].claimed_at = "stale"

\* The worker goes on with the page it runs.
SameRun(w) ==
    /\ step[w].kind = "extract" /\ step'[w].page = step[w].page
    /\ step'[w].loaded = step[w].loaded /\ step'[w].engine = step[w].engine

\* No page is added to a list, and none is begun.
NothingTaken ==
    /\ \A w \in Workers : page_ids'[w] \subseteq page_ids[w]
    /\ \A w \in Workers : step'[w].kind = "extract" => SameRun(w)

LEMMA HandsKept ==
    ASSUME TypeOK, Hands, NothingTaken,
           \A w \in Workers, p \in Pages : HoldsPage(w, p) /\ HoldsPage(w, p)' => SameInHand(p)
    PROVE  Hands'
<1>1. \A w \in Workers, p \in Pages : HoldsPage(w, p)' => HoldsPage(w, p) /\ SameInHand(p)
  BY DEF NothingTaken, SameRun, HoldsPage, Extracting
<1>2. InHand'
  BY <1>1 DEF Hands, InHand, SameInHand
<1>3. HeldOnce'
  BY <1>1 DEF Hands, HeldOnce
<1>4. RunOnce'
  BY DEF Hands, RunOnce, NothingTaken, SameRun, Extracting
<1>5. LoadedStands'
  <2>1. SUFFICES ASSUME NEW w \in Workers, step'[w].kind = "extract"
                 PROVE  LoadedStands!(w)'
    BY DEF LoadedStands
  <2>2. SameRun(w)
    BY <2>1 DEF NothingTaken
  <2>3. PICK p \in Pages : p = step[w].page
    BY <2>2, StepShapes DEF SameRun, TypeOK, ExtractStep
  <2>4. SameInHand(p)
    BY <1>1, <2>1, <2>2, <2>3 DEF HoldsPage, Extracting, SameRun
  <2> QED
    BY <2>2, <2>3, <2>4 DEF Hands, LoadedStands, SameInHand, SameRun
<1> QED
  BY <1>2, <1>3, <1>4, <1>5 DEF Hands

\* Of the steps of a worker, only a claim of pages and the beginning of one take any.
LEMMA WorkerTakesNothing ==
    ASSUME TypeOK, NEW w \in Workers,
           \/ ReleaseAbandonedClaims(w) \/ ClaimDocuments(w) \/ EndTick(w) \/ BeginConvert(w)
           \/ ConvertSucceeds(w) \/ ConvertFails(w) \/ VendorAnswers(w) \/ RecordAttempt(w)
           \/ AttemptCollides(w) \/ DeriveStatus(w) \/ CommitAttempt(w) \/ WorkerFault(w)
    PROVE  NothingTaken
<1>1. page_ids \in [Workers -> SUBSET Pages] /\ DOMAIN step = Workers
  BY DEF TypeOK, WorkerTypeOK
<1>2. \A v \in Workers : page_ids'[v] \subseteq page_ids[v]
  BY <1>1 DEF WorkerFault, ReleaseAbandonedClaims, ClaimDocuments, EndTick, BeginConvert,
              ConvertSucceeds, ConvertFails, VendorAnswers, RecordAttempt, AttemptCollides,
              DeriveStatus, CommitAttempt, StepRaises, Crash, EndStep
<1>3. ASSUME NEW v \in Workers, step'[v].kind = "extract"
      PROVE  SameRun(v)
  <2>1. CASE UNCHANGED step
    BY <1>3, <2>1 DEF SameRun
  <2>2. CASE BeginConvert(w)
    <3>1. PICK new : new.kind = "convert" /\ step' = [step EXCEPT ![w] = new]
      BY <2>2 DEF BeginConvert
    <3> QED
      BY <1>1, <1>3, <3>1 DEF SameRun
  <2>3. CASE step' = [step EXCEPT ![w] = NoStep]
    BY <1>1, <1>3, <2>3 DEF SameRun, NoStep
  <2>4. CASE VendorAnswers(w) \/ RecordAttempt(w) \/ DeriveStatus(w)
    <3>1. step[w] \in ExtractStep /\ step[w].kind = "extract"
      BY <2>4, StepShapes DEF VendorAnswers, RecordAttempt, DeriveStatus, AtStage, TypeOK
    <3>2. CASE VendorAnswers(w)
      <4>1. PICK o, n : step' = [step EXCEPT ![w].stage = "insert", ![w].outcome = o,
                                             ![w].attempt_no = n]
        BY <3>2 DEF VendorAnswers
      <4> QED
        BY <1>1, <1>3, <3>1, <4>1 DEF ExtractStep, SameRun
    <3>3. CASE RecordAttempt(w)
      <4>1. PICK s : step' = [step EXCEPT ![w].stage = "derive", ![w].document_status = s]
        BY <3>3 DEF RecordAttempt
      <4> QED
        BY <1>1, <1>3, <3>1, <4>1 DEF ExtractStep, SameRun
    <3>4. CASE DeriveStatus(w)
      <4>1. PICK s : step' = [step EXCEPT ![w].stage = "commit", ![w].derived = s]
        BY <3>4 DEF DeriveStatus
      <4> QED
        BY <1>1, <1>3, <3>1, <4>1 DEF ExtractStep, SameRun
    <3> QED
      BY <2>4, <3>2, <3>3, <3>4
  <2> QED
    BY <2>1, <2>2, <2>3, <2>4
       DEF WorkerFault, ReleaseAbandonedClaims, ClaimDocuments, EndTick, ConvertSucceeds,
           ConvertFails, AttemptCollides, CommitAttempt, StepRaises, Crash, EndStep
<1> QED
  BY <1>2, <1>3 DEF NothingTaken

-----------------------------------------------------------------------------
(* Steps of a worker and the pages in hand.                                *)

\* A release takes back pages whose claim is stale.  None of these is in hand:
\* with slow steps there is one worker, and it sleeps.
LEMMA ReleaseHands ==
    ASSUME TypeOK, EmptyHanded, Hands, OnTime, NEW w \in Workers,
           ReleaseAbandonedClaims(w), UNCHANGED retryVars
    PROVE  Hands'
<1>1. \A p \in Pages : pages'[p] # pages[p] =>
        pages[p].status = "processing" /\ pages[p].claimed_at = "stale"
  BY DEF ReleaseAbandonedClaims, AbandonedPages, Abandoned, TypeOK, TablesTypeOK
<1>2. ASSUME NEW v \in Workers, NEW p \in Pages, HoldsPage(v, p)
      PROVE  pages'[p] = pages[p]
  <2>1. CASE ~SlowSteps
    BY <1>1, <1>2, <2>1 DEF Hands, InHand
  <2>2. CASE SlowSteps
    <3>1. v = w /\ phase[w] = "sleep"
      BY <2>2 DEF OnTime, ReleaseAbandonedClaims
    <3> QED
      BY <1>2, <3>1 DEF EmptyHanded, HoldsPage, Extracting, NoStep
  <2> QED
    BY <2>1, <2>2
<1>3. NothingTaken
  BY DEF ReleaseAbandonedClaims, NothingTaken, SameRun
<1> QED
  BY <1>2, <1>3, HandsKept DEF SameInHand

\* A claim takes pages that wait, which nobody has in hand, and dates them.
LEMMA ClaimHands ==
    ASSUME TypeOK, EmptyHanded, Hands, NEW w \in Workers, ClaimPages(w)
    PROVE  Hands'
<1>1. PICK S \in SUBSET ClaimablePages :
        /\ pages' = [p \in Pages |-> IF p \in S THEN ClaimedPage(pages[p]) ELSE pages[p]]
        /\ page_ids' = [page_ids EXCEPT ![w] = S]
  BY DEF ClaimPages, Batches
<1>2. page_ids \in [Workers -> SUBSET Pages] /\ pages \in [Pages -> PageRow]
  BY DEF TypeOK, WorkerTypeOK, TablesTypeOK
<1>3. UNCHANGED step
  BY DEF ClaimPages
<1>4. S \subseteq Pages /\ \A p \in S : pages[p].status = "pending"
  BY <1>1 DEF ClaimablePages
<1>5. \A p \in S : pages'[p].status = "processing" /\ pages'[p].claimed_at = "fresh"
  BY <1>1, <1>2, <1>4 DEF ClaimedPage, PageRow
<1>6. \A p \in Pages : p \notin S => pages'[p] = pages[p]
  BY <1>1, <1>2
<1>7. \A v \in Workers, p \in Pages : HoldsPage(v, p) => p \notin S
  BY <1>4 DEF Hands, InHand
<1>8. page_ids'[w] = S /\ \A v \in Workers \ {w} : page_ids'[v] = page_ids[v]
  BY <1>1, <1>2
<1>9. \A v \in Workers, p \in Pages : HoldsPage(v, p)' => HoldsPage(v, p) \/ (v = w /\ p \in S)
  BY <1>3, <1>8 DEF HoldsPage, Extracting
<1>10. InHand'
  BY <1>5, <1>6, <1>7, <1>9 DEF Hands, InHand
<1>11. HeldOnce'
  BY <1>7, <1>9 DEF Hands, HeldOnce
<1>12. RunOnce'
  BY <1>3, <1>7, <1>8 DEF Hands, RunOnce, HoldsPage, Extracting
<1>13. LoadedStands'
  <2>1. \A v \in Workers : step[v].kind = "extract" =>
          step[v].page \in Pages /\ step[v].page \notin S
    BY <1>7, StepShapes DEF TypeOK, ExtractStep, HoldsPage, Extracting
  <2> QED
    BY <1>3, <1>6, <2>1 DEF Hands, LoadedStands
<1> QED
  BY <1>10, <1>11, <1>12, <1>13 DEF Hands

\* A conversion inserts pages of a document that had none.
LEMMA ConvertLeavesPages ==
    ASSUME TypeOK, NEW w \in Workers, ConvertSucceeds(w)
    PROVE  \A p \in Pages : pages[p].status # "absent" => pages'[p] = pages[p]
<1>1. PICK d : d = step[w].document
  OBVIOUS
<1>2. CASE PagesCollide(d)
  BY <1>1, <1>2 DEF ConvertSucceeds
<1>3. CASE ~PagesCollide(d)
  <2>1. ~PagesCollide(step[w].document)
    BY <1>1, <1>3
  <2>2. \E n \in PageNos : pages' = [p \in Pages |->
            IF p[1] = step[w].document /\ p[2] <= n THEN NewPage ELSE pages[p]]
    BY <2>1 DEF ConvertSucceeds
  <2>3. \A p \in Pages : p[1] = step[w].document => pages[p].status = "absent"
    BY <2>1 DEF PagesCollide, PagesOf
  <2> QED
    BY <2>2, <2>3
<1> QED
  BY <1>2, <1>3

\* The pages that a conversion inserts were not there to be held.
LEMMA ConvertHands ==
    ASSUME TypeOK, Hands, NEW w \in Workers, ConvertSucceeds(w)
    PROVE  Hands'
<1>1. \A p \in Pages : pages[p].status # "absent" => pages'[p] = pages[p]
  BY ConvertLeavesPages
<1>2. NothingTaken
  BY WorkerTakesNothing
<1> QED
  BY <1>1, <1>2, HandsKept DEF Hands, InHand, SameInHand

\* A page that is begun leaves the list of its worker, and runs as it is then.
LEMMA BeginHands ==
    ASSUME TypeOK, Hands, NEW w \in Workers, BeginExtract(w)
    PROVE  Hands'
<1>1. UNCHANGED pages /\ step[w] = NoStep
  BY DEF BeginExtract, tableVars
<1>2. page_ids \in [Workers -> SUBSET Pages] /\ DOMAIN step = Workers
  BY DEF TypeOK, WorkerTypeOK
<1>3. PICK p \in page_ids[w] :
        /\ page_ids' = [page_ids EXCEPT ![w] = @ \ {p}]
        /\ \/ step' = step
           \/ \E new : /\ new.kind = "extract" /\ new.page = p /\ new.loaded = pages[p]
                       /\ new.engine = EngineFor(pages[p])
                       /\ step' = [step EXCEPT ![w] = new]
  BY DEF BeginExtract
<1>4. \A v \in Workers : page_ids'[v] \subseteq page_ids[v]
  BY <1>2, <1>3
<1>5. p \in Pages /\ HoldsPage(w, p)
  BY <1>2, <1>3 DEF HoldsPage
<1>6. CASE step' = step
  BY <1>1, <1>4, <1>6, HandsKept DEF NothingTaken, SameRun, SameInHand
<1>7. CASE step' # step
  <2>1. PICK new : /\ new.kind = "extract" /\ new.page = p /\ new.loaded = pages[p]
                   /\ new.engine = EngineFor(pages[p]) /\ step' = [step EXCEPT ![w] = new]
    BY <1>3, <1>7
  <2>2. step'[w] = new /\ \A v \in Workers \ {w} : step'[v] = step[v]
    BY <1>2, <2>1
  <2>3. \A v \in Workers, q \in Pages : HoldsPage(v, q)' => HoldsPage(v, q)
    BY <1>4, <1>5, <2>1, <2>2 DEF HoldsPage, Extracting
  <2>4. InHand' /\ HeldOnce'
    BY <1>1, <2>3 DEF Hands, InHand, HeldOnce
  <2>5. RunOnce'
    BY <1>2, <1>3, <1>4, <2>1, <2>2 DEF Hands, RunOnce, Extracting
  <2>6. LoadedStands'
    <3>1. pages[p].status = "processing" /\ pages[p].claimed_at # "null"
      BY <1>5 DEF Hands, InHand
    <3>2. pages[p].requested_engine_key \in {NoEngine, EngineFor(pages[p])}
      BY DEF EngineFor
    <3> QED
      BY <1>1, <2>1, <2>2, <3>1, <3>2 DEF Hands, LoadedStands
  <2> QED
    BY <2>4, <2>5, <2>6 DEF Hands
<1> QED
  BY <1>6, <1>7

\* A commit writes the page it has in hand, which it then lets go.
LEMMA CommitHands ==
    ASSUME TypeOK, Hands, NEW w \in Workers, CommitAttempt(w)
    PROVE  Hands'
<1>1. UNCHANGED page_ids /\ step' = [step EXCEPT ![w] = NoStep] /\ step[w].kind = "extract"
  BY DEF CommitAttempt, EndStep, AtStage
<1>2. pages \in [Pages -> PageRow] /\ DOMAIN step = Workers
  BY DEF TypeOK, WorkerTypeOK, TablesTypeOK
<1>3. PICK P \in Pages : P = step[w].page
  BY <1>1, StepShapes DEF TypeOK, ExtractStep
<1>4. \A p \in Pages : p # P => pages'[p] = pages[p]
  BY <1>2, <1>3 DEF CommitAttempt
<1>5. \A v \in Workers, p \in Pages : HoldsPage(v, p) /\ HoldsPage(v, p)' => p # P
  <2>1. ASSUME NEW v \in Workers, v # w, NEW p \in Pages, HoldsPage(v, p)
        PROVE  p # P
    BY <1>1, <1>3, <2>1 DEF Hands, HeldOnce, HoldsPage, Extracting
  <2>2. P \notin page_ids[w]
    BY <1>1, <1>3 DEF Hands, RunOnce, Extracting
  <2>3. step'[w].kind = "none"
    BY <1>1, <1>2 DEF NoStep
  <2> QED
    BY <1>1, <2>1, <2>2, <2>3 DEF HoldsPage, Extracting
<1>6. NothingTaken
  BY WorkerTakesNothing
<1> QED
  BY <1>4, <1>5, <1>6, HandsKept DEF SameInHand

LEMMA WorkerHands ==
    ASSUME TypeOK, EmptyHanded, Hands, OnTime, NEW w \in Workers, WorkerNext(w)
    PROVE  Hands'
<1>1. CASE \/ ClaimDocuments(w) \/ EndTick(w) \/ BeginConvert(w) \/ ConvertFails(w)
           \/ VendorAnswers(w) \/ RecordAttempt(w) \/ AttemptCollides(w) \/ DeriveStatus(w)
           \/ WorkerFault(w)
  <2>1. UNCHANGED pages
    BY <1>1 DEF ClaimDocuments, EndTick, BeginConvert, ConvertFails, VendorAnswers, RecordAttempt,
                AttemptCollides, DeriveStatus, WorkerFault, StepRaises, Crash, tableVars
  <2>2. NothingTaken
    BY <1>1, WorkerTakesNothing
  <2> QED
    BY <2>1, <2>2, HandsKept DEF SameInHand
<1> QED
  BY <1>1, ReleaseHands, ClaimHands, ConvertHands, BeginHands, CommitHands
     DEF WorkerNext, WorkerProgress

-----------------------------------------------------------------------------
(* Requests, the environment, and the pages in hand.                       *)

LEMMA OthersTakeNothing ==
    ASSUME (\E r \in Requests : RequestNext(r)) \/ Environment
    PROVE  NothingTaken
  BY DEF NothingTaken, SameRun, RequestNext, RetryArrives, RetryLoads, RetryProgress,
         RetrySelectsFailed, RetrySelectsPage, RetryRequeues, RetryRestarts, Environment,
         DocumentArrives, AdministratorSwitchesEngines, ClaimsAge, DocumentClaimAges,
         PageClaimAges, workerVars

\* A retry writes the pages it has selected, and no others.
LEMMA RetryWrites ==
    ASSUME TypeOK, NEW r \in Requests, RequestNext(r), NEW p \in Pages, pages'[p] # pages[p]
    PROVE  RetryRequeues(r) /\ p \in DOMAIN request[r].targets
<1>1. RetryRequeues(r)
  BY DEF RequestNext, RetryArrives, RetryLoads, RetryProgress, RetrySelectsFailed,
         RetrySelectsPage, RetryRestarts, tableVars
<1> QED
  BY <1>1 DEF RetryRequeues, TypeOK, TablesTypeOK

\* A retry queues pages that are finished, so that no worker has them in hand.
LEMMA RetryHands ==
    ASSUME TypeOK, Hands, TargetsRest, NEW r \in Requests, RequestNext(r)
    PROVE  Hands'
<1>1. ASSUME NEW w \in Workers, NEW p \in Pages, HoldsPage(w, p)
      PROVE  pages'[p] = pages[p]
  <2>1. pages[p].status = "processing"
    BY <1>1 DEF Hands, InHand
  <2> QED
    BY <2>1, RetryWrites DEF RetryRequeues, TargetsRest, ExtractionStatus
<1> QED
  BY <1>1, OthersTakeNothing, HandsKept DEF SameInHand

\* Claims of pages in hand age only with slow steps.
LEMMA EnvironmentHands ==
    ASSUME TypeOK, Hands, Environment
    PROVE  Hands'
<1>1. ASSUME NEW w \in Workers, NEW p \in Pages, HoldsPage(w, p)
      PROVE  SameInHand(p)
  <2>1. CASE UNCHANGED pages
    BY <2>1 DEF SameInHand
  <2>2. CASE \E q \in Pages : PageClaimAges(q)
    <3>1. PICK q \in Pages : PageClaimAges(q)
      BY <2>2
    <3>2. pages' = [pages EXCEPT ![q].claimed_at = "stale"] /\ (q = p => SlowSteps)
      BY <1>1, <3>1 DEF PageClaimAges
    <3>3. pages[p] \in PageRow
      BY DEF TypeOK, TablesTypeOK
    <3> QED
      BY <3>2, <3>3 DEF SameInHand, PageRow, TypeOK, TablesTypeOK
  <2> QED
    BY <2>1, <2>2 DEF Environment, DocumentArrives, AdministratorSwitchesEngines, ClaimsAge,
                      DocumentClaimAges
<1> QED
  BY <1>1, OthersTakeNothing, HandsKept

-----------------------------------------------------------------------------
(* What a step of a worker, or of the environment, does to the status of a *)
(* page, also when steps outlast the timeout.                              *)

PageMoves(p) ==
    \/ pages'[p].status \in ExtractionStatus \cup {pages[p].status}
    \/ pages[p].status \in {"absent", "pending"}
    \/ pages[p].status = "processing" /\ pages[p].claimed_at = "stale"

LEMMA WorkerMoves ==
    ASSUME TypeOK, Numbering, NEW w \in Workers, WorkerNext(w), NEW p \in Pages
    PROVE  PageMoves(p)
<1>1. pages \in [Pages -> PageRow] /\ WorkerTypeOK
  BY DEF TypeOK, TablesTypeOK
<1>2. CASE ReleaseAbandonedClaims(w)
  BY <1>2 DEF ReleaseAbandonedClaims, AbandonedPages, Abandoned, PageMoves
<1>3. CASE ClaimPages(w)
  <2>1. PICK S \in SUBSET ClaimablePages :
          pages' = [q \in Pages |-> IF q \in S THEN ClaimedPage(pages[q]) ELSE pages[q]]
    BY <1>3 DEF ClaimPages, Batches
  <2> QED
    BY <2>1 DEF ClaimablePages, PageMoves
<1>4. CASE ConvertSucceeds(w)
  BY <1>4, ConvertLeavesPages DEF PageMoves
<1>5. CASE CommitAttempt(w)
  <2>1. step[w].outcome \in ExtractionStatus
    BY <1>5 DEF CommitAttempt, AtStage, Numbering, AttemptsFollow, Recording
  <2>2. PICK P, row : P = step[w].page /\ row = Finished(step[w], pages[P])
    OBVIOUS
  <2>3. pages' = [pages EXCEPT ![P] = row]
    BY <1>5, <2>2 DEF CommitAttempt
  <2>4. row.status \in {step[w].outcome, pages[P].status}
    BY <2>2 DEF Finished, Flushed
  <2> QED
    BY <1>1, <2>1, <2>3, <2>4 DEF PageMoves
<1>6. CASE UNCHANGED pages
  BY <1>6 DEF PageMoves
<1> QED
  BY <1>2, <1>3, <1>4, <1>5, <1>6
     DEF WorkerNext, WorkerProgress, WorkerFault, ClaimDocuments, EndTick, BeginConvert,
         ConvertFails, BeginExtract, VendorAnswers, RecordAttempt, AttemptCollides, DeriveStatus,
         StepRaises, Crash, tableVars

LEMMA EnvironmentMoves ==
    ASSUME TypeOK, Environment, NEW p \in Pages
    PROVE  pages'[p].status = pages[p].status
<1>1. pages \in [Pages -> PageRow]
  BY DEF TypeOK, TablesTypeOK
<1>2. CASE \E q \in Pages : PageClaimAges(q)
  BY <1>1, <1>2 DEF PageClaimAges, PageRow
<1>3. CASE UNCHANGED pages
  BY <1>3
<1> QED
  BY <1>2, <1>3 DEF Environment, DocumentArrives, AdministratorSwitchesEngines, ClaimsAge,
                    DocumentClaimAges

\* With the pages in hand undisturbed, no worker writes a page that is finished.
LEMMA FinishedStays ==
    ASSUME TypeOK, Hands, NEW w \in Workers, WorkerNext(w),
           NEW p \in Pages, pages[p].status \in ExtractionStatus
    PROVE  pages'[p] = pages[p]
<1>1. pages[p].status \notin {"absent", "pending", "processing"}
  BY DEF ExtractionStatus
<1>2. pages \in [Pages -> PageRow]
  BY DEF TypeOK, TablesTypeOK
<1>3. CASE ReleaseAbandonedClaims(w)
  BY <1>1, <1>2, <1>3 DEF ReleaseAbandonedClaims, AbandonedPages, Abandoned
<1>4. CASE ClaimPages(w)
  <2>1. PICK S \in SUBSET ClaimablePages :
          pages' = [q \in Pages |-> IF q \in S THEN ClaimedPage(pages[q]) ELSE pages[q]]
    BY <1>4 DEF ClaimPages, Batches
  <2> QED
    BY <1>1, <2>1 DEF ClaimablePages
<1>5. CASE ConvertSucceeds(w)
  BY <1>1, <1>5, ConvertLeavesPages
<1>6. CASE CommitAttempt(w)
  <2>1. step[w].kind = "extract"
    BY <1>6 DEF CommitAttempt, AtStage
  <2>2. step[w].page # p
    BY <1>1, <2>1 DEF Hands, InHand, HoldsPage, Extracting
  <2> QED
    BY <1>2, <1>6, <2>2 DEF CommitAttempt
<1>7. CASE UNCHANGED pages
  BY <1>7
<1> QED
  BY <1>3, <1>4, <1>5, <1>6, <1>7
     DEF WorkerNext, WorkerProgress, WorkerFault, ClaimDocuments, EndTick, BeginConvert,
         ConvertFails, BeginExtract, VendorAnswers, RecordAttempt, AttemptCollides, DeriveStatus,
         StepRaises, Crash, tableVars

-----------------------------------------------------------------------------
(* The pages a request is about to queue.                                  *)

LEMMA RequeueShape ==
    ASSUME TypeOK, NEW r \in Requests, request[r].stage = "requeue"
    PROVE  request[r] \in RequeueRequest /\ DOMAIN request[r].targets \subseteq Pages
<1>1. request[r] \in RequeueRequest
  BY RequestShapes DEF TypeOK
<1> QED
  BY <1>1 DEF RequeueRequest

\* How a request comes to have pages to queue: it selects finished ones of its
\* document, the page it names or the pages that failed.
LEMMA RetrySelects ==
    ASSUME TypeOK, NEW r \in Requests, RequestNext(r), request'[r].stage = "requeue"
    PROVE  /\ UNCHANGED pages
           /\ DOMAIN request'[r].targets # {}
           /\ \A p \in DOMAIN request'[r].targets :
                /\ p[1] = request'[r].document /\ pages[p].status \in ExtractionStatus
                /\ IF request'[r].page_no = AllFailed THEN pages[p].status = "failed"
                   ELSE p = <<request'[r].document, request'[r].page_no>>
<1>1. DOMAIN request = Requests /\ pages \in [Pages -> PageRow]
  BY DEF TypeOK, RetryTypeOK, TablesTypeOK
<1>2. RetrySelectsFailed(r) \/ RetrySelectsPage(r)
  BY <1>1 DEF RequestNext, RetryArrives, RetryLoads, RetryProgress, RetryRequeues,
              RetryRestarts, Close, ClosedRequest
<1>3. UNCHANGED pages
  BY <1>2 DEF RetrySelectsFailed, RetrySelectsPage, tableVars
<1>4. ASSUME NEW T, Requeue(r, T)
      PROVE  /\ DOMAIN request'[r].targets = T
             /\ request'[r].document = request[r].document
             /\ request'[r].page_no = request[r].page_no
  BY <1>1, <1>4 DEF Requeue
<1>5. CASE RetrySelectsFailed(r)
  <2>1. PICK T : T = Targets(request[r].document)
    OBVIOUS
  <2>2. Requeue(r, T) /\ T # {}
    <3>1. CASE request' = [request EXCEPT ![r].stage = "restart"]
      <4>1. request[r] \in LoadedRequest \cup RequeueRequest
        BY <1>5 DEF RetrySelectsFailed, TypeOK, RetryTypeOK, NewRequest, ClosedRequest
      <4>2. request'[r].stage = "restart"
        BY <1>1, <3>1, <4>1 DEF LoadedRequest, RequeueRequest
      <4> QED
        BY <4>2
    <3>2. ~Close(r)
      BY <1>1 DEF Close, ClosedRequest
    <3> QED
      BY <1>5, <2>1, <3>1, <3>2 DEF RetrySelectsFailed
  <2>3. \A p \in T : p[1] = request[r].document /\ pages[p].status = "failed"
    BY <2>1 DEF Targets, FailedPages, PagesOf
  <2> QED
    BY <1>3, <1>4, <1>5, <2>2, <2>3 DEF RetrySelectsFailed, ExtractionStatus
<1>6. CASE RetrySelectsPage(r)
  <2>1. PICK P : P = <<request[r].document, request[r].page_no>>
    OBVIOUS
  <2>2. Requeue(r, {P}) /\ pages[P].status \notin {"absent", "pending", "processing"}
    BY <1>1, <1>6, <2>1 DEF RetrySelectsPage, Close, ClosedRequest, Busy
  <2>3. request[r] \in LoadedRequest /\ request[r].page_no # 0
    BY <1>6, RequestShapes DEF RetrySelectsPage, TypeOK, AllFailed
  <2>4. P \in Pages /\ P[1] = request[r].document
    BY <2>1, <2>3, TablesAssumption DEF LoadedRequest, Pages, PageNos
  <2>5. pages[P].status \in ExtractionStatus
    BY <1>1, <2>2, <2>4 DEF PageRow, PageStatus, ExtractionStatus
  <2> QED
    BY <1>3, <1>4, <2>1, <2>2, <2>3, <2>4, <2>5 DEF AllFailed
<1> QED
  BY <1>2, <1>5, <1>6

\* While a request goes on, no other one writes the pages that a third has
\* selected: those are pages of another document.
LEMMA OtherTargetsStay ==
    ASSUME TypeOK, TargetsRest, OneAtATime, NEW r \in Requests, RequestNext(r),
           NEW q \in Requests \ {r}, request[q].stage = "requeue"
    PROVE  \A p \in DOMAIN request[q].targets : pages'[p] = pages[p]
<1>1. SUFFICES ASSUME NEW p \in DOMAIN request[q].targets, pages'[p] # pages[p]
               PROVE  FALSE
  OBVIOUS
<1>2. p \in Pages /\ p[1] = request[q].document
  BY <1>1, RequeueShape DEF TargetsRest
<1>3. RetryRequeues(r) /\ p \in DOMAIN request[r].targets
  BY <1>1, <1>2, RetryWrites
<1>4. p[1] = request[r].document
  BY <1>3 DEF RetryRequeues, TargetsRest
<1> QED
  BY <1>2, <1>3, <1>4 DEF OneAtATime, UnderWay, RetryRequeues

\* What the other requests have selected is what they had.
LEMMA RequestAlone ==
    ASSUME TypeOK, NEW r \in Requests, RequestNext(r)
    PROVE  \A q \in Requests \ {r} : request'[q] = request[q]
  BY DEF RequestNext, RetryArrives, RetryProgress, RetryLoads, RetrySelectsFailed,
         RetrySelectsPage, RetryRequeues, RetryRestarts, Close, Requeue, TypeOK, RetryTypeOK

LEMMA TargetsRestStep ==
    ASSUME TypeOK, Numbering, TargetsRest, OneAtATime, [Next]_vars
    PROVE  TargetsRest'
<1>1. ASSUME NEW r \in Requests, RequestNext(r)
      PROVE  TargetsRest'
  <2>1. ASSUME NEW q \in Requests, request'[q].stage = "requeue", NEW p \in DOMAIN request'[q].targets
        PROVE  p[1] = request'[q].document /\ pages'[p].status \in ExtractionStatus
    <3>1. CASE q = r
      BY <1>1, <2>1, <3>1, RetrySelects
    <3>2. CASE q # r
      <4>1. request'[q] = request[q]
        BY <1>1, <2>1, <3>2, RequestAlone
      <4>2. pages'[p] = pages[p]
        BY <1>1, <2>1, <3>2, <4>1, OtherTargetsStay
      <4> QED
        BY <2>1, <4>1, <4>2 DEF TargetsRest
    <3> QED
      BY <3>1, <3>2
  <2> QED
    BY <2>1 DEF TargetsRest
<1>2. CASE UNCHANGED vars
  BY <1>2 DEF vars, tableVars, retryVars, TargetsRest
<1>3. CASE (\E w \in Workers : WorkerNext(w)) \/ Environment
  <2>1. UNCHANGED request
    BY <1>3 DEF WorkerNext, Environment, DocumentArrives, AdministratorSwitchesEngines, retryVars
  <2>2. \A p \in Pages : PageMoves(p)
    BY <1>3, WorkerMoves, EnvironmentMoves DEF PageMoves
  <2>3. \A p \in Pages : pages[p].status \in ExtractionStatus =>
          pages'[p].status \in ExtractionStatus
    BY <2>2 DEF PageMoves, ExtractionStatus
  <2> QED
    BY <2>1, <2>3, RequeueShape DEF TargetsRest
<1> QED
  BY <1>1, <1>2, <1>3 DEF Next

LEMMA TargetsChosenStep ==
    ASSUME TypeOK, Hands, TargetsRest, TargetsChosen, OneAtATime, [Next]_vars
    PROVE  TargetsChosen'
<1>1. ASSUME NEW q \in Requests, request[q].stage = "requeue", request'[q] = request[q],
             \A p \in DOMAIN request[q].targets : pages'[p].status = pages[p].status
      PROVE  TargetsChosen!(q)'
  BY <1>1 DEF TargetsChosen
<1>2. ASSUME NEW r \in Requests, RequestNext(r)
      PROVE  TargetsChosen'
  <2>1. ASSUME NEW q \in Requests, q # r, request'[q].stage = "requeue"
        PROVE  TargetsChosen!(q)'
    BY <1>1, <1>2, <2>1, RequestAlone, OtherTargetsStay
  <2>2. ASSUME request'[r].stage = "requeue"
        PROVE  TargetsChosen!(r)'
    BY <1>2, <2>2, RetrySelects
  <2> QED
    BY <2>1, <2>2 DEF TargetsChosen
<1>3. CASE UNCHANGED vars
  BY <1>3 DEF vars, tableVars, retryVars, TargetsChosen
<1>4. CASE (\E w \in Workers : WorkerNext(w)) \/ Environment
  <2>1. UNCHANGED request
    BY <1>4 DEF WorkerNext, Environment, DocumentArrives, AdministratorSwitchesEngines, retryVars
  <2>2. ASSUME NEW q \in Requests, request[q].stage = "requeue"
        PROVE  \A p \in DOMAIN request[q].targets : pages'[p].status = pages[p].status
    <3>1. \A p \in DOMAIN request[q].targets : p \in Pages /\ pages[p].status \in ExtractionStatus
      BY <2>2, RequeueShape DEF TargetsRest
    <3> QED
      BY <1>4, <3>1, FinishedStays, EnvironmentMoves
  <2> QED
    BY <1>1, <2>1, <2>2 DEF TargetsChosen
<1> QED
  BY <1>2, <1>3, <1>4 DEF Next

-----------------------------------------------------------------------------
(* The theorems.                                                           *)

LEMMA TimelyInit == Init => Timely
  BY DEF Init, TablesInit, WorkerInit, RetryInit, NewRequest, NoStep, Timely, EmptyHanded, Hands,
         InHand, HeldOnce, RunOnce, LoadedStands, TargetsRest, TargetsChosen, HoldsPage, Extracting

LEMMA HandsStep ==
    ASSUME TypeOK, EmptyHanded, Hands, TargetsRest, OnTime, [Next]_vars
    PROVE  Hands'
<1>1. CASE UNCHANGED vars
  BY <1>1, HandsKept DEF vars, tableVars, workerVars, NothingTaken, SameRun, SameInHand
<1> QED
  BY <1>1, WorkerHands, RetryHands, EnvironmentHands DEF Next, WorkerNext

LEMMA TimelyStep ==
    ASSUME TypeOK, Numbering, Timely, OnTime, OneAtATime, [Next]_vars
    PROVE  Timely'
  BY EmptyHandedStep, HandsStep, TargetsRestStep, TargetsChosenStep DEF Timely

LEMMA TimelyAlways ==
    ASSUME OnTime
    PROVE  Spec /\ []OneAtATime => []Timely
<1>1. TypeOK /\ Numbering /\ OneAtATime /\ Timely /\ [Next]_vars => Timely'
  BY TimelyStep
<1> QED
  BY <1>1, TimelyInit, TypedNumbering, PTL DEF Spec

\* No page is in the hands of two workers, however many workers, pages, retries
\* and faults there are, as long as claims outlive the work and no two retries of
\* one document are under way at once.  Without the first the run outlived_claim
\* has two workers on one page.
THEOREM PagesHeldOnce ==
    ASSUME OnTime
    PROVE  Spec /\ []OneAtATime => []HeldOnce
<1>1. Timely => HeldOnce
  BY DEF Timely, Hands
<1> QED
  BY <1>1, TimelyAlways, PTL

\* The attempt recorded for a page that carries a requested engine is an attempt
\* of that engine: the engine was chosen from the page as it was loaded, and no
\* retry has asked for another one while the vendor worked.
THEOREM RequestedEngineAlwaysUsed ==
    ASSUME OnTime
    PROVE  Spec /\ []OneAtATime => RequestedEngineUsed
<1> DEFINE Used ==
      \A x \in extractions' \ extractions :
        pages[x.page].requested_engine_key \in {NoEngine, x.engine_key}
<1>1. TypeOK /\ Timely /\ [Next]_vars => [Used]_vars
  <2>1. SUFFICES ASSUME TypeOK, Timely, Next, NEW x \in extractions' \ extractions
                 PROVE  pages[x.page].requested_engine_key \in {NoEngine, x.engine_key}
    OBVIOUS
  <2>2. PICK w \in Workers : CommitAttempt(w)
    BY <2>1 DEF Next, WorkerNext, WorkerProgress, WorkerFault, ReleaseAbandonedClaims,
       ClaimDocuments, ClaimPages, EndTick, BeginConvert, ConvertSucceeds, ConvertFails,
       BeginExtract, VendorAnswers, RecordAttempt, AttemptCollides, DeriveStatus, StepRaises,
       Crash, RequestNext, RetryArrives, RetryLoads, RetryProgress, RetrySelectsFailed,
       RetrySelectsPage, RetryRequeues, RetryRestarts, Environment, DocumentArrives,
       AdministratorSwitchesEngines, ClaimsAge, DocumentClaimAges, PageClaimAges, tableVars
  <2>3. x = Inserted(w) /\ step[w].kind = "extract"
    BY <2>1, <2>2 DEF CommitAttempt, AtStage
  <2> QED
    BY <2>1, <2>3 DEF Inserted, Timely, Hands, LoadedStands
<1> QED
  BY <1>1, TimelyAlways, TypeCorrect, PTL DEF Spec, RequestedEngineUsed, Used

\* A page that succeeded is queued again only by a request that names it: a
\* request without a page number queues pages that failed, and still have.
THEOREM SucceededAlwaysLeftAlone ==
    ASSUME OnTime
    PROVE  Spec /\ []OneAtATime => SucceededLeftAlone
<1> DEFINE LeftAlone ==
      \A p \in Pages : pages[p].status = "succeeded" /\ pages'[p].status = "pending"
        => \E r \in Requests : /\ request[r].stage = "requeue"
                               /\ p = <<request[r].document, request[r].page_no>>
<1>1. TypeOK /\ Timely /\ [Next]_vars => [LeftAlone]_vars
  <2>1. SUFFICES ASSUME TypeOK, Timely, Next, NEW p \in Pages,
                        pages[p].status = "succeeded", pages'[p].status = "pending"
                 PROVE  \E r \in Requests : /\ request[r].stage = "requeue"
                                            /\ p = <<request[r].document, request[r].page_no>>
    OBVIOUS
  <2>2. PICK r \in Requests : RequestNext(r)
    BY <2>1, FinishedStays, EnvironmentMoves DEF Next, Timely, ExtractionStatus
  <2>3. RetryRequeues(r) /\ p \in DOMAIN request[r].targets
    BY <2>1, <2>2, RetryWrites
  <2> QED
    BY <2>1, <2>3 DEF RetryRequeues, Timely, TargetsChosen
<1> QED
  BY <1>1, TimelyAlways, TypeCorrect, PTL DEF Spec, SucceededLeftAlone, LeftAlone

\* A retry never takes a page back from the worker that runs it, however slow the
\* worker is: only a release does, of a claim that has gone stale.  Of two retries
\* under way at once the second may queue a page again that already runs.
THEOREM RunningPageNeverReset == Spec /\ []OneAtATime => RunningPageNotReset
<1> DEFINE NotReset ==
      \A p \in Pages : pages[p].status = "processing" /\ pages'[p].status = "pending"
        => pages[p].claimed_at = "stale"
<1>1. TypeOK /\ Numbering /\ TargetsRest /\ [Next]_vars => [NotReset]_vars
  <2>1. SUFFICES ASSUME TypeOK, Numbering, TargetsRest, Next, NEW p \in Pages,
                        pages[p].status = "processing", pages'[p].status = "pending"
                 PROVE  pages[p].claimed_at = "stale"
    OBVIOUS
  <2>2. CASE (\E w \in Workers : WorkerNext(w)) \/ Environment
    BY <2>1, <2>2, WorkerMoves, EnvironmentMoves DEF PageMoves, ExtractionStatus
  <2>3. CASE \E r \in Requests : RequestNext(r)
    BY <2>1, <2>3, RetryWrites DEF RetryRequeues, TargetsRest, ExtractionStatus
  <2> QED
    BY <2>1, <2>2, <2>3 DEF Next
<1>2. Init => TargetsRest
  BY DEF Init, RetryInit, NewRequest, TargetsRest
<1>3. TypeOK /\ Numbering /\ TargetsRest /\ OneAtATime /\ [Next]_vars => TargetsRest'
  BY TargetsRestStep
<1> QED
  BY <1>1, <1>2, <1>3, TypedNumbering, PTL DEF Spec, RunningPageNotReset, NotReset

-----------------------------------------------------------------------------
(* The refinement of ClaimQueue: the actions of the queue.                 *)

\* How a step may leave the status of the pages outside S, and what is in hand.
StatusKept(S) == \A p \in Pages \ S : pages'[p].status = pages[p].status
SameHands == \A w \in Workers, p \in Pages : HoldsPage(w, p)' <=> HoldsPage(w, p)
LetsGo(w, S) ==
    \A v \in Workers, p \in Pages : HoldsPage(v, p)' <=> HoldsPage(v, p) /\ ~(v = w /\ p \in S)

LEMMA HeldStays ==
    ASSUME SameHands
    PROVE  PagesHeld' = PagesHeld
  BY DEF SameHands, PagesHeld

LEMMA HeldShrinks ==
    ASSUME NEW w \in Workers, NEW S, LetsGo(w, S)
    PROVE  PageQueue!LetGo(w, S)
<1>1. \A v \in Workers : {p \in Pages : HoldsPage(v, p)'} =
            IF v = w THEN {p \in Pages : HoldsPage(v, p)} \ S ELSE {p \in Pages : HoldsPage(v, p)}
  BY DEF LetsGo
<1> QED
  BY <1>1 DEF PageQueue!LetGo, PagesHeld

LEMMA PagesMarked ==
    ASSUME NEW S, StatusKept(S), NEW new,
           \A p \in Pages \cap S : InQueue(pages'[p].status, "processing") = new
    PROVE  PageQueue!Mark(S, new)
<1>1. \A p \in Pages : InQueue(pages'[p].status, "processing") =
            IF p \in S THEN new ELSE InQueue(pages[p].status, "processing")
  BY DEF StatusKept
<1> QED
  BY <1>1 DEF PageQueue!Mark, PageStates

LEMMA PagesDropped ==
    ASSUME StatusKept({}), NEW w \in Workers, NEW S \in SUBSET Pages, LetsGo(w, S)
    PROVE  PageQueue!Next
<1>1. PageStates' = PageStates
  BY DEF StatusKept, PageStates
<1>2. PageQueue!Drop(w, S)
  BY <1>1, HeldShrinks DEF PageQueue!Drop
<1> QED
  BY <1>2 DEF PageQueue!Next

LEMMA PagesStutter ==
    ASSUME StatusKept({}), SameHands
    PROVE  UNCHANGED PageQueue!vars
<1>1. PageStates' = PageStates
  BY DEF StatusKept, PageStates
<1> QED
  BY <1>1, HeldStays DEF PageQueue!vars

LEMMA PagesEnqueued ==
    ASSUME NEW S \in SUBSET Pages, StatusKept(S), SameHands,
           \A p \in S : /\ pages[p].status \in {"absent"} \cup ExtractionStatus
                        /\ pages'[p].status = "pending"
    PROVE  PageQueue!Next
<1>1. \A p \in S : PageStates[p] \in {"absent", "finished"}
  BY DEF PageStates, InQueue, ExtractionStatus
<1>2. PageQueue!Mark(S, "waiting")
  BY PagesMarked DEF InQueue
<1>3. PageQueue!Enqueue(S)
  BY <1>1, <1>2, HeldStays DEF PageQueue!Enqueue
<1> QED
  BY <1>3 DEF PageQueue!Next

LEMMA PagesReleased ==
    ASSUME NEW S \in SUBSET Pages, StatusKept(S), SameHands,
           \A p \in S : /\ pages[p].status = "processing" /\ pages'[p].status = "pending"
                        /\ \A w \in Workers : ~HoldsPage(w, p)
    PROVE  PageQueue!Next
<1>1. \A p \in S : PageStates[p] = "claimed" /\ \A w \in Workers : p \notin PagesHeld[w]
  BY DEF PageStates, InQueue, PagesHeld
<1>2. PageQueue!Mark(S, "waiting")
  BY PagesMarked DEF InQueue
<1>3. PageQueue!Release(S)
  BY <1>1, <1>2, HeldStays DEF PageQueue!Release
<1> QED
  BY <1>3 DEF PageQueue!Next

LEMMA PagesTaken ==
    ASSUME NEW w \in Workers, NEW S \in SUBSET Pages, StatusKept(S),
           \A p \in S : pages[p].status = "pending" /\ pages'[p].status = "processing",
           \A v \in Workers, p \in Pages :
                HoldsPage(v, p)' <=> HoldsPage(v, p) \/ (v = w /\ p \in S)
    PROVE  PageQueue!Next
<1>1. \A p \in S : PageStates[p] = "waiting"
  BY DEF PageStates, InQueue
<1>2. PageQueue!Mark(S, "claimed")
  BY PagesMarked DEF InQueue
<1>3. \A v \in Workers : {p \in Pages : HoldsPage(v, p)'} =
            IF v = w THEN {p \in Pages : HoldsPage(v, p)} \cup S ELSE {p \in Pages : HoldsPage(v, p)}
  OBVIOUS
<1>4. PagesHeld' = [PagesHeld EXCEPT ![w] = @ \cup S]
  BY <1>3 DEF PagesHeld
<1>5. PageQueue!Claim(w, S)
  BY <1>1, <1>2, <1>4 DEF PageQueue!Claim
<1> QED
  BY <1>5 DEF PageQueue!Next

LEMMA PageFinished ==
    ASSUME NEW w \in Workers, NEW p \in Pages, HoldsPage(w, p), StatusKept({p}),
           pages'[p].status \in ExtractionStatus, LetsGo(w, {p})
    PROVE  PageQueue!Next
<1>1. p \in PagesHeld[w]
  BY DEF PagesHeld
<1>2. PageQueue!Mark({p}, "finished")
  BY PagesMarked DEF InQueue, ExtractionStatus
<1>3. PageQueue!Finish(w, p)
  BY <1>1, <1>2, HeldShrinks DEF PageQueue!Finish
<1> QED
  BY <1>3 DEF PageQueue!Next

-----------------------------------------------------------------------------
(* The refinement of ClaimQueue: the steps.                                *)

\* The end of a step lets go of its page, which is in no list any more.
LEMMA EndLetsGo ==
    ASSUME TypeOK, Hands, NEW w \in Workers, EndStep(w)
    PROVE  LetsGo(w, {p \in Pages : Extracting(w, p)})
<1>1. UNCHANGED page_ids /\ step' = [step EXCEPT ![w] = NoStep] /\ DOMAIN step = Workers
  BY DEF EndStep, TypeOK, WorkerTypeOK
<1>2. step'[w].kind = "none" /\ \A v \in Workers \ {w} : step'[v] = step[v]
  BY <1>1 DEF NoStep
<1> QED
  BY <1>1, <1>2 DEF Hands, RunOnce, LetsGo, HoldsPage, Extracting

LEMMA CommitFinishes ==
    ASSUME TypeOK, Numbering, Hands, NEW w \in Workers, CommitAttempt(w)
    PROVE  PageQueue!Next
<1>1. EndStep(w) /\ step[w].kind = "extract" /\ step[w].outcome \in ExtractionStatus
  BY DEF CommitAttempt, AtStage, Numbering, AttemptsFollow, Recording
<1>2. PICK P \in Pages : P = step[w].page
  BY <1>1, StepShapes DEF TypeOK, ExtractStep
<1>3. Extracting(w, P) /\ {p \in Pages : Extracting(w, p)} = {P}
  BY <1>1, <1>2 DEF Extracting
<1>4. step[w].loaded.status = "processing"
  BY <1>1 DEF Hands, LoadedStands
<1>5. Finished(step[w], pages[P]).status = step[w].outcome
  BY <1>1, <1>4 DEF Finished, Flushed, ExtractionStatus
<1>6. PICK row : row.status = step[w].outcome /\ pages' = [pages EXCEPT ![P] = row]
  BY <1>2, <1>5 DEF CommitAttempt
<1>7. StatusKept({P}) /\ pages'[P].status = step[w].outcome
  BY <1>6 DEF StatusKept, TypeOK, TablesTypeOK
<1>8. LetsGo(w, {P})
  BY <1>1, <1>3, EndLetsGo
<1> QED
  BY <1>1, <1>3, <1>7, <1>8, PageFinished DEF HoldsPage

LEMMA ConvertEnqueues ==
    ASSUME TypeOK, Hands, NEW w \in Workers, ConvertSucceeds(w)
    PROVE  [PageQueue!Next]_PageQueue!vars
<1>1. EndStep(w) /\ step[w].kind = "convert"
  BY DEF ConvertSucceeds
<1>2. SameHands
  BY <1>1, EndLetsGo DEF LetsGo, SameHands, Extracting
<1>3. DEFINE S == {p \in Pages : pages'[p] # pages[p]}
<1>4. \A p \in S : pages[p].status = "absent" /\ pages'[p].status = "pending"
  <2>1. \A p \in S : pages[p].status = "absent"
    BY ConvertLeavesPages
  <2>2. \A p \in S : pages'[p] = NewPage
    <3>1. PICK d : d = step[w].document
      OBVIOUS
    <3>2. CASE PagesCollide(d)
      BY <3>1, <3>2 DEF ConvertSucceeds
    <3>3. CASE ~PagesCollide(d)
      <4>1. ~PagesCollide(step[w].document)
        BY <3>1, <3>3
      <4>2. \E n \in PageNos : pages' = [p \in Pages |->
                IF p[1] = step[w].document /\ p[2] <= n THEN NewPage ELSE pages[p]]
        BY <4>1 DEF ConvertSucceeds
      <4> QED
        BY <4>2
    <3> QED
      BY <3>2, <3>3
  <2> QED
    BY <2>1, <2>2 DEF NewPage, AbsentPage
<1>5. StatusKept(S)
  BY DEF StatusKept
<1> HIDE DEF S
<1> QED
  <2>1. S \in SUBSET Pages
    BY DEF S
  <2> QED
    BY <1>2, <1>4, <1>5, <2>1, PagesEnqueued

LEMMA ReleaseReleases ==
    ASSUME TypeOK, EmptyHanded, Hands, OnTime, NEW w \in Workers, ReleaseAbandonedClaims(w)
    PROVE  PageQueue!Next
<1>1. \A p \in AbandonedPages : /\ pages[p].status = "processing" /\ pages[p].claimed_at = "stale"
                                /\ pages'[p].status = "pending"
  BY DEF ReleaseAbandonedClaims, AbandonedPages, Abandoned, Released, TypeOK, TablesTypeOK, PageRow
<1>2. StatusKept(AbandonedPages)
  BY DEF ReleaseAbandonedClaims, StatusKept
<1>3. SameHands
  BY DEF ReleaseAbandonedClaims, SameHands, HoldsPage, Extracting
<1>4. ASSUME NEW v \in Workers, NEW p \in AbandonedPages
      PROVE  ~HoldsPage(v, p)
  <2>1. CASE ~SlowSteps
    BY <1>1, <2>1 DEF Hands, InHand, AbandonedPages
  <2>2. CASE SlowSteps
    <3>1. v = w /\ phase[w] = "sleep"
      BY <2>2 DEF OnTime, ReleaseAbandonedClaims
    <3> QED
      BY <3>1 DEF EmptyHanded, HoldsPage, Extracting, NoStep
  <2> QED
    BY <2>1, <2>2
<1>5. AbandonedPages \in SUBSET Pages
  BY DEF AbandonedPages
<1> QED
  BY <1>1, <1>2, <1>3, <1>4, <1>5, PagesReleased

LEMMA ClaimTakes ==
    ASSUME TypeOK, EmptyHanded, NEW w \in Workers, ClaimPages(w)
    PROVE  PageQueue!Next
<1>1. PICK S \in SUBSET ClaimablePages :
        /\ pages' = [p \in Pages |-> IF p \in S THEN ClaimedPage(pages[p]) ELSE pages[p]]
        /\ page_ids' = [page_ids EXCEPT ![w] = S]
  BY DEF ClaimPages, Batches
<1>2. page_ids \in [Workers -> SUBSET Pages] /\ pages \in [Pages -> PageRow]
  BY DEF TypeOK, WorkerTypeOK, TablesTypeOK
<1>3. UNCHANGED step /\ page_ids[w] = {}
  BY DEF ClaimPages, EmptyHanded
<1>4. S \in SUBSET Pages /\ \A p \in S : pages[p].status = "pending"
  BY <1>1 DEF ClaimablePages
<1>5. \A p \in S : pages'[p].status = "processing"
  BY <1>1, <1>2, <1>4 DEF ClaimedPage, PageRow
<1>6. StatusKept(S)
  BY <1>1, <1>2 DEF StatusKept
<1>7. \A v \in Workers, p \in Pages : HoldsPage(v, p)' <=> HoldsPage(v, p) \/ (v = w /\ p \in S)
  BY <1>1, <1>2, <1>3 DEF HoldsPage, Extracting
<1> QED
  BY <1>4, <1>5, <1>6, <1>7, PagesTaken

\* A page that is begun stays in hand, and is let go where there is no engine.
LEMMA BeginKeeps ==
    ASSUME TypeOK, Hands, NEW w \in Workers, BeginExtract(w)
    PROVE  [PageQueue!Next]_PageQueue!vars
<1>1. StatusKept({})
  BY DEF BeginExtract, tableVars, StatusKept
<1>2. page_ids \in [Workers -> SUBSET Pages] /\ DOMAIN step = Workers /\ step[w].kind = "none"
  BY DEF BeginExtract, NoStep, TypeOK, WorkerTypeOK
<1>3. PICK p \in page_ids[w] :
        /\ page_ids' = [page_ids EXCEPT ![w] = @ \ {p}]
        /\ \/ step' = step
           \/ \E new : new.kind = "extract" /\ new.page = p /\ step' = [step EXCEPT ![w] = new]
  BY DEF BeginExtract
<1>4. page_ids'[w] = page_ids[w] \ {p} /\ \A v \in Workers \ {w} : page_ids'[v] = page_ids[v]
  BY <1>2, <1>3
<1>5. CASE step' = step
  <2>1. LetsGo(w, {p})
    BY <1>2, <1>4, <1>5 DEF LetsGo, HoldsPage, Extracting
  <2>2. {p} \in SUBSET Pages
    BY <1>2, <1>3
  <2> QED
    BY <1>1, <2>1, <2>2, PagesDropped
<1>6. ASSUME NEW new, new.kind = "extract", new.page = p, step' = [step EXCEPT ![w] = new]
      PROVE  [PageQueue!Next]_PageQueue!vars
  <2>1. step'[w] = new /\ \A v \in Workers \ {w} : step'[v] = step[v]
    BY <1>2, <1>6
  <2>2. SameHands
    BY <1>2, <1>3, <1>4, <1>6, <2>1 DEF SameHands, HoldsPage, Extracting
  <2> QED
    BY <1>1, <2>2, PagesStutter
<1> QED
  BY <1>3, <1>5, <1>6

\* The other steps of a worker leave the status of the pages alone.
LEMMA WorkerKeeps ==
    ASSUME TypeOK, Hands, NEW w \in Workers,
           \/ ClaimDocuments(w) \/ EndTick(w) \/ BeginConvert(w) \/ ConvertFails(w)
           \/ VendorAnswers(w) \/ RecordAttempt(w) \/ AttemptCollides(w) \/ DeriveStatus(w)
           \/ WorkerFault(w)
    PROVE  [PageQueue!Next]_PageQueue!vars
<1>1. StatusKept({})
  BY DEF ClaimDocuments, EndTick, BeginConvert, ConvertFails, VendorAnswers, RecordAttempt,
         AttemptCollides, DeriveStatus, WorkerFault, StepRaises, Crash, tableVars, StatusKept
<1>2. DOMAIN step = Workers /\ page_ids \in [Workers -> SUBSET Pages]
  BY DEF TypeOK, WorkerTypeOK
<1>3. CASE EndStep(w)
  BY <1>1, <1>3, EndLetsGo, PagesDropped
<1>4. CASE Crash(w)
  <2>1. page_ids'[w] = {} /\ \A v \in Workers \ {w} : page_ids'[v] = page_ids[v]
    BY <1>2, <1>4 DEF Crash
  <2>2. step'[w].kind = "none" /\ \A v \in Workers \ {w} : step'[v] = step[v]
    BY <1>2, <1>4 DEF Crash, NoStep
  <2>3. LetsGo(w, Pages)
    BY <2>1, <2>2 DEF LetsGo, HoldsPage, Extracting
  <2> QED
    BY <1>1, <2>3, PagesDropped
<1>5. CASE ClaimDocuments(w) \/ EndTick(w)
  BY <1>1, <1>5, PagesStutter DEF ClaimDocuments, EndTick, SameHands, HoldsPage, Extracting
<1>6. CASE BeginConvert(w)
  <2>1. step[w].kind = "none"
    BY <1>6 DEF BeginConvert, NoStep
  <2>2. PICK new : new.kind = "convert" /\ step' = [step EXCEPT ![w] = new]
    BY <1>6 DEF BeginConvert
  <2>3. UNCHANGED page_ids
    BY <1>6 DEF BeginConvert
  <2>4. SameHands
    BY <1>2, <2>1, <2>2, <2>3 DEF SameHands, HoldsPage, Extracting
  <2> QED
    BY <1>1, <2>4, PagesStutter
<1>7. CASE VendorAnswers(w) \/ RecordAttempt(w) \/ DeriveStatus(w)
  <2>1. UNCHANGED page_ids /\ \A v \in Workers \ {w} : step'[v] = step[v]
    BY <1>2, <1>7 DEF VendorAnswers, RecordAttempt, DeriveStatus
  <2>2. step[w].kind = "extract" /\ step'[w].kind = "extract" /\ step'[w].page = step[w].page
    <3>1. step[w] \in ExtractStep
      BY <1>7, StepShapes DEF VendorAnswers, RecordAttempt, DeriveStatus, AtStage, TypeOK
    <3>2. step[w].kind = "extract"
      BY <3>1 DEF ExtractStep
    <3>3. CASE VendorAnswers(w)
      <4>1. PICK o, n : step' = [step EXCEPT ![w].stage = "insert", ![w].outcome = o,
                                             ![w].attempt_no = n]
        BY <3>3 DEF VendorAnswers
      <4> QED
        BY <1>2, <3>1, <4>1 DEF ExtractStep
    <3>4. CASE RecordAttempt(w)
      <4>1. PICK s : step' = [step EXCEPT ![w].stage = "derive", ![w].document_status = s]
        BY <3>4 DEF RecordAttempt
      <4> QED
        BY <1>2, <3>1, <4>1 DEF ExtractStep
    <3>5. CASE DeriveStatus(w)
      <4>1. PICK s : step' = [step EXCEPT ![w].stage = "commit", ![w].derived = s]
        BY <3>5 DEF DeriveStatus
      <4> QED
        BY <1>2, <3>1, <4>1 DEF ExtractStep
    <3> QED
      BY <1>7, <3>2, <3>3, <3>4, <3>5
  <2>3. SameHands
    BY <2>1, <2>2 DEF SameHands, HoldsPage, Extracting
  <2> QED
    BY <1>1, <2>3, PagesStutter
<1> QED
  BY <1>3, <1>4, <1>5, <1>6, <1>7 DEF ConvertFails, AttemptCollides, WorkerFault, StepRaises

LEMMA RetryEnqueues ==
    ASSUME TypeOK, TargetsRest, NEW r \in Requests, RequestNext(r)
    PROVE  [PageQueue!Next]_PageQueue!vars
<1>1. SameHands
  BY DEF SameHands, HoldsPage, Extracting, RequestNext, RetryArrives, RetryLoads, RetryProgress,
         RetrySelectsFailed, RetrySelectsPage, RetryRequeues, RetryRestarts, workerVars
<1>2. CASE RetryRequeues(r)
  <2>1. PICK T : T = DOMAIN request[r].targets
    OBVIOUS
  <2>2. pages' = [p \in Pages |-> IF p \in T THEN Requeued(r, p) ELSE pages[p]]
    BY <1>2, <2>1 DEF RetryRequeues
  <2>3. T \in SUBSET Pages
    BY <1>2, <2>1, RequeueShape DEF RetryRequeues
  <2>4. \A p \in T : pages[p].status \in ExtractionStatus
    BY <1>2, <2>1 DEF RetryRequeues, TargetsRest
  <2>5. \A p \in T : pages'[p].status = "pending"
    BY <2>2, <2>3 DEF Requeued, TypeOK, TablesTypeOK, PageRow
  <2>6. StatusKept(T)
    BY <2>2 DEF StatusKept
  <2> QED
    BY <1>1, <2>3, <2>4, <2>5, <2>6, PagesEnqueued
<1>3. CASE ~RetryRequeues(r)
  <2>1. StatusKept({})
    BY <1>3, RetryWrites DEF StatusKept
  <2> QED
    BY <1>1, <2>1, PagesStutter
<1> QED
  BY <1>2, <1>3

LEMMA EnvironmentKeeps ==
    ASSUME TypeOK, Environment
    PROVE  UNCHANGED PageQueue!vars
<1>1. SameHands
  BY DEF SameHands, HoldsPage, Extracting, Environment, DocumentArrives,
         AdministratorSwitchesEngines, ClaimsAge, DocumentClaimAges, PageClaimAges, workerVars
<1>2. StatusKept({})
  BY EnvironmentMoves DEF StatusKept
<1> QED
  BY <1>1, <1>2, PagesStutter

LEMMA PagesClaimedStep ==
    ASSUME TypeOK, Numbering, Timely, OnTime, [Next]_vars
    PROVE  [PageQueue!Next]_PageQueue!vars
<1>1. EmptyHanded /\ Hands /\ TargetsRest
  BY DEF Timely
<1>2. CASE UNCHANGED vars
  <2>1. StatusKept({}) /\ SameHands
    BY <1>2 DEF vars, tableVars, workerVars, StatusKept, SameHands, HoldsPage, Extracting
  <2> QED
    BY <2>1, PagesStutter
<1>3. ASSUME NEW w \in Workers, WorkerNext(w)
      PROVE  [PageQueue!Next]_PageQueue!vars
  BY <1>1, <1>3, ReleaseReleases, ClaimTakes, ConvertEnqueues, BeginKeeps, CommitFinishes, WorkerKeeps
     DEF WorkerNext, WorkerProgress
<1> QED
  BY <1>1, <1>2, <1>3, RetryEnqueues, EnvironmentKeeps DEF Next

\* Pages are handed out as ClaimQueue promises, for any number of workers and
\* pages: a page is taken while it waits, by one worker, stays with it until it is
\* finished or let go, and is released or queued again when nobody has it.
THEOREM PagesAlwaysClaimed ==
    ASSUME OnTime
    PROVE  Spec /\ []OneAtATime => PagesClaimed
<1>1. Init => PageQueue!Init
  BY DEF Init, TablesInit, WorkerInit, AbsentPage, NoStep, PageQueue!Init, PageStates, PagesHeld,
         InQueue, HoldsPage, Extracting
<1>2. TypeOK /\ Numbering /\ Timely /\ [Next]_vars => [PageQueue!Next]_PageQueue!vars
  BY PagesClaimedStep
<1> QED
  BY <1>1, <1>2, TypedNumbering, TimelyAlways, PTL DEF Spec, PagesClaimed, PageQueue!Spec

=============================================================================
