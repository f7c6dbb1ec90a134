------------------------------- MODULE Worker -------------------------------
(***************************************************************************)
(* PipelineWorker and the two steps of ExtractionService it runs.          *)
(*                                                                         *)
(* A worker's tick releases stale claims, claims documents, claims pages   *)
(* (three transactions of their own) and then runs what it claimed, one    *)
(* row at a time, each in a session that is opened before the vendor call  *)
(* and committed after the result is written.  The interleaving is that of *)
(* SQL statements under READ COMMITTED:                                    *)
(*                                                                         *)
(*   convert   SELECT document ; vendor call ; INSERT pages, UPDATE        *)
(*             document, COMMIT                                            *)
(*   extract   SELECT page, engine ; vendor call, SELECT max(attempt_no) ; *)
(*             INSERT extraction, UPDATE page, SELECT document ;           *)
(*             SELECT statuses ; UPDATE document, COMMIT                   *)
(*                                                                         *)
(* Statements between two semicolons are one step: what they write is      *)
(* locked and invisible until COMMIT, so nobody can tell them apart.       *)
(***************************************************************************)
EXTENDS Tables

CONSTANTS
    Workers,     \* processes running a PipelineWorker
    BatchSize,   \* worker_batch_size
    SlowSteps,   \* whether work in hand may outlast worker_claim_timeout_seconds
    MaxFaults    \* bound on crashes and on steps that raise, for finiteness

ASSUME WorkerAssumption ==
    /\ BatchSize \in Nat \ {0}
    /\ SlowSteps \in BOOLEAN
    /\ MaxFaults \in Nat

VARIABLES
    phase,         \* where the worker is in tick()
    document_ids,  \* claimed documents it has not started
    page_ids,      \* claimed pages it has not started
    step,          \* the transaction of the row it is running
    faults         \* crashes and raised steps so far

workerVars == <<phase, document_ids, page_ids, step, faults>>

Phases == {"sleep", "claim_documents", "claim_pages", "run"}
NoStatus == "none"

NoStep == [kind |-> "none"]
ConvertStep == [kind : {"convert"}, document : Documents, loaded : DocumentRow]
ExtractStep ==
    [kind : {"extract"}, stage : {"vendor", "insert", "derive", "commit"},
     page : Pages, loaded : PageRow, engine : Engines,
     outcome : ExtractionStatus \cup {NoStatus}, attempt_no : Nat,
     document_status : DocumentStatus \cup {"absent", NoStatus},
     derived : DocumentStatus \cup {NoStatus}]

WorkerTypeOK ==
    /\ phase \in [Workers -> Phases]
    /\ document_ids \in [Workers -> SUBSET Documents]
    /\ page_ids \in [Workers -> SUBSET Pages]
    /\ step \in [Workers -> {NoStep} \cup ConvertStep \cup ExtractStep]
    /\ faults \in 0..MaxFaults

WorkerInit ==
    /\ phase = [w \in Workers |-> "sleep"]
    /\ document_ids = [w \in Workers |-> {}]
    /\ page_ids = [w \in Workers |-> {}]
    /\ step = [w \in Workers |-> NoStep]
    /\ faults = 0

-----------------------------------------------------------------------------
(* The uncommitted writes of the workers, as other transactions meet them. *)

Converting(w, d) == step[w].kind = "convert" /\ step[w].document = d
Extracting(w, p) == step[w].kind = "extract" /\ step[w].page = p
AtStage(w, stages) == step[w].kind = "extract" /\ step[w].stage \in stages

\* The extraction row that the step of w inserts.
Inserted(w) == [page |-> step[w].page, engine_key |-> step[w].engine,
                attempt_no |-> step[w].attempt_no, status |-> step[w].outcome]
SameKey(x, y) ==
    x.page = y.page /\ x.engine_key = y.engine_key /\ x.attempt_no = y.attempt_no

\* Mutant: the failure path marks the page as succeeded.
FinishedSucceeded(s, row) ==
    [status |-> "succeeded", claimed_at |-> "null", requested_engine_key |-> NoEngine]

\* The page row once _finish_page has flushed: status, claimed_at and
\* requested_engine_key were assigned on the row as this step loaded it.
Finished(s, row) ==
    [status |-> Flushed(s.loaded.status, s.outcome, row.status),
     claimed_at |-> Flushed(s.loaded.claimed_at, "null", row.claimed_at),
     requested_engine_key |->
        Flushed(s.loaded.requested_engine_key, NoEngine, row.requested_engine_key)]

\* Whether the flush emitted an UPDATE at all.
Updates(s) ==
    \/ s.outcome # s.loaded.status
    \/ s.loaded.claimed_at # "null"
    \/ s.loaded.requested_engine_key # NoEngine

PageLocked(p) ==
    \E w \in Workers : AtStage(w, {"derive", "commit"}) /\ step[w].page = p /\ Updates(step[w])

\* The foreign key of an inserted attempt locks its page against FOR UPDATE,
\* whether or not the page is updated too.
PageReferenced(p) == \E w \in Workers : AtStage(w, {"derive", "commit"}) /\ step[w].page = p

-----------------------------------------------------------------------------
(* tick(): release, claim documents, claim pages.                          *)

\* Mutant: a claim of any age is taken for abandoned.
AbandonedAtAnyAge(row, running) == row.status = running

\* Mutant: no claim is ever taken for abandoned.
NeverAbandoned(row, running) == FALSE

Abandoned(row, running) == row.status = running /\ row.claimed_at = "stale"

AbandonedPages == {p \in Pages : Abandoned(pages[p], "processing")}
AbandonedDocuments == {d \in Documents : Abandoned(documents[d], "converting")}

Released(row) == [row EXCEPT !.status = "pending", !.claimed_at = "null"]

\* The UPDATE waits for a row that another transaction has locked.
ReleaseAbandonedClaims(w) ==
    /\ phase[w] = "sleep"
    /\ \A p \in AbandonedPages : ~PageLocked(p)
    /\ pages' = [p \in Pages |->
                    IF p \in AbandonedPages THEN Released(pages[p]) ELSE pages[p]]
    /\ documents' = [d \in Documents |->
                    IF d \in AbandonedDocuments THEN Released(documents[d]) ELSE documents[d]]
    /\ phase' = [phase EXCEPT ![w] = "claim_documents"]
    /\ UNCHANGED <<extractions, active, document_ids, page_ids, step, faults>>

\* What a query with LIMIT batch_size may return of the rows it matches.
Batches(matching) ==
    {S \in SUBSET matching : \/ Cardinality(S) = BatchSize
                             \/ S = matching /\ Cardinality(S) < BatchSize}

\* A row as the UPDATE of a claim leaves it.
ClaimedDocument(row) == [row EXCEPT !.status = "converting", !.claimed_at = "fresh"]

\* Mutant: the claim of a page is not dated.
ClaimedPageUndated(row) == [row EXCEPT !.status = "processing"]

ClaimedPage(row) == [row EXCEPT !.status = "processing", !.claimed_at = "fresh"]

ClaimDocuments(w) ==
    /\ phase[w] = "claim_documents"
    /\ \E S \in Batches({d \in Documents : documents[d].status = "pending"}) :
        /\ documents' = [d \in Documents |->
                IF d \in S THEN ClaimedDocument(documents[d]) ELSE documents[d]]
        /\ document_ids' = [document_ids EXCEPT ![w] = S]
    /\ phase' = [phase EXCEPT ![w] = "claim_pages"]
    /\ UNCHANGED <<pages, extractions, active, page_ids, step, faults>>

\* Mutant: the claim selects running pages as well as waiting ones.
ClaimablePagesRunning ==
    {p \in Pages : pages[p].status \in {"pending", "processing"} /\ ~PageReferenced(p)}

\* Pages whose committed row is pending; SKIP LOCKED passes over locked ones.
ClaimablePages == {p \in Pages : pages[p].status = "pending" /\ ~PageReferenced(p)}

ClaimPages(w) ==
    /\ phase[w] = "claim_pages"
    /\ \E S \in Batches(ClaimablePages) :
        /\ pages' = [p \in Pages |-> IF p \in S THEN ClaimedPage(pages[p]) ELSE pages[p]]
        /\ page_ids' = [page_ids EXCEPT ![w] = S]
    /\ phase' = [phase EXCEPT ![w] = "run"]
    /\ UNCHANGED <<documents, extractions, active, document_ids, step, faults>>

EndTick(w) ==
    /\ phase[w] = "run" /\ step[w] = NoStep
    /\ document_ids[w] = {} /\ page_ids[w] = {}
    /\ phase' = [phase EXCEPT ![w] = "sleep"]
    /\ UNCHANGED <<tableVars, document_ids, page_ids, step, faults>>

-----------------------------------------------------------------------------
(* convert_document().                                                     *)

BeginConvert(w) ==
    /\ phase[w] = "run" /\ step[w] = NoStep
    /\ \E d \in document_ids[w] :
        /\ step' = [step EXCEPT ![w] =
                [kind |-> "convert", document |-> d, loaded |-> documents[d]]]
        /\ document_ids' = [document_ids EXCEPT ![w] = @ \ {d}]
    /\ UNCHANGED <<tableVars, phase, page_ids, faults>>

EndStep(w) ==
    /\ step' = [step EXCEPT ![w] = NoStep]
    /\ UNCHANGED <<phase, document_ids, page_ids>>

\* The vendor returned n images.  INSERT collides on (document_id, page_no)
\* when another conversion of the document has committed; _run rolls back.
\* Mutant: the rows are inserted without uq_pages_document_id_page_no.
NeverCollides(d) == FALSE

PagesCollide(d) == PagesOf(d) # {}

ConvertSucceeds(w) ==
    /\ step[w].kind = "convert"
    /\ LET d == step[w].document
           old == step[w].loaded
       IN  IF PagesCollide(d) THEN UNCHANGED <<documents, pages>>
           ELSE \E n \in PageNos :
                /\ pages' = [p \in Pages |-> IF p[1] = d /\ p[2] <= n THEN NewPage ELSE pages[p]]
                /\ documents' = [documents EXCEPT ![d].page_count = n,
                        ![d].status = Flushed(old.status, "extracting", @),
                        ![d].claimed_at = Flushed(old.claimed_at, "null", @)]
    /\ EndStep(w)
    /\ UNCHANGED <<extractions, active, faults>>

\* No stored file, an unreadable one, or a vendor error: _fail_document.
ConvertFails(w) ==
    /\ step[w].kind = "convert"
    /\ LET d == step[w].document
           old == step[w].loaded
       IN  documents' = [documents EXCEPT ![d].error_message = "set",
                ![d].status = Flushed(old.status, "failed", @),
                ![d].claimed_at = Flushed(old.claimed_at, "null", @)]
    /\ EndStep(w)
    /\ UNCHANGED <<pages, extractions, active, faults>>

-----------------------------------------------------------------------------
(* extract_page().  Pages are run once the claimed documents are done.     *)

BeginExtract(w) ==
    /\ phase[w] = "run" /\ step[w] = NoStep /\ document_ids[w] = {}
    /\ \E p \in page_ids[w] :
        /\ page_ids' = [page_ids EXCEPT ![w] = @ \ {p}]
        /\ step' = IF EngineFor(pages[p]) = NoEngine
                   THEN step           \* NoEngineAvailable: rolled back, still claimed
                   ELSE [step EXCEPT ![w] =
                            [kind |-> "extract", stage |-> "vendor", page |-> p,
                             loaded |-> pages[p], engine |-> EngineFor(pages[p]),
                             outcome |-> NoStatus, attempt_no |-> 0,
                             document_status |-> NoStatus, derived |-> NoStatus]]
    /\ UNCHANGED <<tableVars, phase, document_ids, faults>>

\* The vendor answered or failed, or the image is missing on disk; then
\* _new_extraction reads the next attempt number.
VendorAnswers(w) ==
    /\ AtStage(w, {"vendor"})
    /\ \E o \in ExtractionStatus :
        step' = [step EXCEPT ![w].stage = "insert", ![w].outcome = o,
                             ![w].attempt_no = NextAttemptNo(step[w].page, step[w].engine)]
    /\ UNCHANGED <<tableVars, phase, document_ids, page_ids, faults>>

\* Mutant: attempts are inserted without uq_extractions_page_engine_attempt.
NeverStored(w) == FALSE

KeyStored(w) == \E x \in extractions : SameKey(x, Inserted(w))

\* Another transaction has inserted the key, or updated the page, and not
\* committed: this one waits.
MustWait(w) ==
    \/ \E v \in Workers \ {w} :
        AtStage(v, {"derive", "commit"}) /\ SameKey(Inserted(v), Inserted(w))
    \/ PageLocked(step[w].page) /\ Updates(step[w])

\* INSERT extraction, UPDATE page, and the SELECT of the document.
RecordAttempt(w) ==
    /\ AtStage(w, {"insert"})
    /\ ~MustWait(w) /\ ~KeyStored(w)
    /\ step' = [step EXCEPT ![w].stage = "derive",
                            ![w].document_status = documents[step[w].page[1]].status]
    /\ UNCHANGED <<tableVars, phase, document_ids, page_ids, faults>>

\* uq_extractions_page_engine_attempt is violated: _run rolls back.
AttemptCollides(w) ==
    /\ AtStage(w, {"insert"})
    /\ KeyStored(w)
    /\ EndStep(w)
    /\ UNCHANGED <<tableVars, faults>>

\* Mutant: _finish_page does not flush before the statuses are read.
StatusesUnflushed(w) == {pages[q].status : q \in PagesOf(step[w].page[1])}

\* list_statuses: this transaction's own write over what others committed.
StatusesSeenBy(w) ==
    LET p == step[w].page
    IN  {IF q = p THEN Finished(step[w], pages[q]).status ELSE pages[q].status :
            q \in PagesOf(p[1])}

\* Mutant: a page that waits in the queue is not counted as work to do.
DeriveIgnoringPending(statuses) ==
    IF "processing" \in statuses THEN NoStatus
    ELSE IF statuses = {"succeeded"} THEN "completed"
    ELSE IF statuses = {"failed"} THEN "failed"
    ELSE "partial_failed"

Derive(statuses) ==
    IF statuses \cap {"pending", "processing"} # {} THEN NoStatus
    ELSE IF statuses = {"succeeded"} THEN "completed"
    ELSE IF statuses = {"failed"} THEN "failed"
    ELSE "partial_failed"

DeriveStatus(w) ==
    /\ AtStage(w, {"derive"})
    /\ step' = [step EXCEPT ![w].stage = "commit", ![w].derived = Derive(StatusesSeenBy(w))]
    /\ UNCHANGED <<tableVars, phase, document_ids, page_ids, faults>>

CommitAttempt(w) ==
    /\ AtStage(w, {"commit"})
    /\ LET s == step[w]
           d == s.page[1]
       IN  /\ extractions' = extractions \cup {Inserted(w)}
           /\ pages' = [pages EXCEPT ![s.page] = Finished(s, @)]
           /\ documents' = IF s.derived = NoStatus THEN documents
                ELSE [documents EXCEPT ![d].status = Flushed(s.document_status, s.derived, @)]
    /\ EndStep(w)
    /\ UNCHANGED <<active, faults>>

-----------------------------------------------------------------------------
(* Failures, and the passing of time.                                      *)

\* An exception that is not the vendor's (the database, the disk, the
\* client factory): _run rolls the step back and the row keeps its claim.
StepRaises(w) ==
    /\ step[w] # NoStep
    /\ faults < MaxFaults /\ faults' = faults + 1
    /\ EndStep(w)
    /\ UNCHANGED tableVars

\* The process dies, or tick() raises between its claims: open transactions
\* are rolled back and the lists of claimed ids, kept in memory, are lost.
Crash(w) ==
    /\ phase[w] # "sleep"
    /\ faults < MaxFaults /\ faults' = faults + 1
    /\ phase' = [phase EXCEPT ![w] = "sleep"]
    /\ document_ids' = [document_ids EXCEPT ![w] = {}]
    /\ page_ids' = [page_ids EXCEPT ![w] = {}]
    /\ step' = [step EXCEPT ![w] = NoStep]
    /\ UNCHANGED tableVars

HoldsDocument(w, d) == d \in document_ids[w] \/ Converting(w, d)
HoldsPage(w, p) == p \in page_ids[w] \/ Extracting(w, p)

\* A claim outlives the timeout.
DocumentClaimAges(d) ==
    /\ documents[d].claimed_at = "fresh"
    /\ SlowSteps \/ \A w \in Workers : ~HoldsDocument(w, d)
    /\ documents' = [documents EXCEPT ![d].claimed_at = "stale"]
    /\ UNCHANGED <<pages, extractions, active, workerVars>>

PageClaimAges(p) ==
    /\ pages[p].claimed_at = "fresh"
    /\ SlowSteps \/ \A w \in Workers : ~HoldsPage(w, p)
    /\ pages' = [pages EXCEPT ![p].claimed_at = "stale"]
    /\ UNCHANGED <<documents, extractions, active, workerVars>>

WorkerProgress(w) ==
    \/ ReleaseAbandonedClaims(w) \/ ClaimDocuments(w) \/ ClaimPages(w) \/ EndTick(w)
    \/ BeginConvert(w) \/ ConvertSucceeds(w) \/ ConvertFails(w)
    \/ BeginExtract(w) \/ VendorAnswers(w) \/ RecordAttempt(w) \/ AttemptCollides(w)
    \/ DeriveStatus(w) \/ CommitAttempt(w)

WorkerFault(w) == StepRaises(w) \/ Crash(w)

ClaimsAge ==
    \/ \E d \in Documents : DocumentClaimAges(d)
    \/ \E p \in Pages : PageClaimAges(p)

=============================================================================
