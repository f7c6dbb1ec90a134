------------------------------ MODULE Pipeline ------------------------------
(***************************************************************************)
(* The OCR pipeline as deployed: workers and retry requests over the       *)
(* shared tables, with uploads, the administrator's switch of the active   *)
(* engine, and time.                                                       *)
(***************************************************************************)
EXTENDS Retry

vars == <<tableVars, workerVars, retryVars>>

\* upload() commits a pending document (module Upload has its steps).
DocumentArrives(d) ==
    /\ documents[d].status = "absent"
    /\ documents' = [documents EXCEPT ![d] = NewDocument]
    /\ UNCHANGED <<pages, extractions, active, workerVars, retryVars>>

\* The registry is edited with SQL; the application only reads it.
AdministratorSwitchesEngines ==
    /\ active' \in ActiveSets
    /\ UNCHANGED <<documents, pages, extractions, workerVars, retryVars>>

Init == TablesInit /\ WorkerInit /\ RetryInit

WorkerNext(w) == (WorkerProgress(w) \/ WorkerFault(w)) /\ UNCHANGED retryVars
RequestNext(r) == RetryArrives(r) \/ RetryProgress(r)
Environment ==
    \/ \E d \in Documents : DocumentArrives(d)
    \/ AdministratorSwitchesEngines
    \/ ClaimsAge /\ UNCHANGED retryVars

Next ==
    \/ \E w \in Workers : WorkerNext(w)
    \/ \E r \in Requests : RequestNext(r)
    \/ Environment

Spec == Init /\ [][Next]_vars

\* The worker's loop never stops by itself and a vendor call ends by its
\* timeout; a request that was received is answered; time passes.  Uploads,
\* requests, administrators and faults owe nothing.
Fairness ==
    /\ \A w \in Workers : WF_vars(WorkerProgress(w) /\ UNCHANGED retryVars)
    /\ \A r \in Requests : WF_vars(RetryProgress(r))
    /\ WF_vars(ClaimsAge /\ UNCHANGED retryVars)

FairSpec == Spec /\ Fairness

-----------------------------------------------------------------------------
(* Safety.                                                                 *)

TypeOK == TablesTypeOK /\ WorkerTypeOK /\ RetryTypeOK

\* A document has exactly the pages 1..page_count, and none until its
\* conversion commits: however many conversions of it run or die, the pages of
\* one of them are there, whole.
PagesMatchCount ==
    \A d \in Documents : PagesOf(d) = {d} \X (1..documents[d].page_count)

\* The attempts of a page on an engine are numbered 1, 2, 3, ... without a gap
\* or a repetition, although next_attempt_no reads the last number before the
\* attempt is inserted and several steps of the page may be under way.
AttemptsNumbered ==
    /\ \A x \in extractions : 1..x.attempt_no \subseteq AttemptNos(x.page, x.engine_key)
    /\ \A x, y \in extractions : SameKey(x, y) => x = y

\* The attempts of a page on an engine, in the order of their numbers.
History(p, e) ==
    [n \in AttemptNos(p, e) |-> (CHOOSE x \in Attempts(p, e) : x.attempt_no = n).status]

Logs == [k \in Pages \X Engines |-> History(k[1], k[2])]

\* Refinement: the extractions table is one append-only log per page and
\* engine.  A retry, a crash or a step run twice adds an outcome at the end of a
\* log or nothing, and no outcome recorded is lost or rewritten.
Log == INSTANCE AttemptLog WITH
    Subjects <- Pages \X Engines, Outcomes <- ExtractionStatus,
    log <- Logs
AppendsOnly == Log!Spec

\* A page reads succeeded, or failed, only when an attempt that ended so is on
\* record for it: status and attempt are written by one step or by neither,
\* also when another step or a request has written the page in between.
OutcomesOnRecord ==
    \A p \in Pages : pages[p].status \in ExtractionStatus =>
        \E x \in extractions : x.page = p /\ x.status = pages[p].status

\* "No two of them take the same row" (README): no page is in the hands of two
\* workers, the pages a worker has claimed and not started included.
HeldOnce ==
    \A p \in Pages, v, w \in Workers : HoldsPage(v, p) /\ HoldsPage(w, p) => v = w

\* A row as the queue of its kind has it.
InQueue(status, running) ==
    CASE status = "absent" -> "absent"
      [] status = "pending" -> "waiting"
      [] status = running -> "claimed"
      [] OTHER -> "finished"

PageStates == [p \in Pages |-> InQueue(pages[p].status, "processing")]
PagesHeld == [w \in Workers |-> {p \in Pages : HoldsPage(w, p)}]

\* Refinement: pages are handed out as ClaimQueue promises.  A page is claimed
\* while it waits, finished by the worker that has it, and released, although a
\* release sees only the age of the claim, when nobody has it.
PageQueue == INSTANCE ClaimQueue WITH
    Rows <- Pages, status <- PageStates, held <- PagesHeld
PagesClaimed == PageQueue!Spec

DocumentStates ==
    [d \in Documents |-> IF PagesOf(d) # {} THEN "finished"
                         ELSE InQueue(documents[d].status, "converting")]
DocumentsHeld ==
    [w \in Workers |-> {d \in Documents : PagesOf(d) = {} /\ HoldsDocument(w, d)}]

\* Refinement: and so are documents, until they have their pages; a retry puts one
\* back in the queue whose conversion failed.
DocumentQueue == INSTANCE ClaimQueue WITH
    Rows <- Documents, status <- DocumentStates, held <- DocumentsHeld
DocumentsClaimed == DocumentQueue!Spec

\* "A crash strands nothing" (README): a page marked as being worked on, and a
\* document that is being converted into its first pages, carries a claim that can
\* age, so it comes back to the queue if its worker never does.
ClaimsCanAge ==
    /\ \A d \in Documents :
        documents[d].status = "converting" /\ PagesOf(d) = {} => documents[d].claimed_at # "null"
    /\ \A p \in Pages : pages[p].status = "processing" => pages[p].claimed_at # "null"

\* "conversion failed, or every page failed" (DocumentStatus.FAILED): when a
\* failed document has pages, so that its conversion did not fail, all failed.
FailedMeansFailed ==
    \A d \in Documents : documents[d].status = "failed" =>
        \A p \in PagesOf(d) : pages[p].status = "failed"

\* The statuses where there is nothing left to wait for (TERMINAL, web/routes.py).
Resting == {"completed", "partial_failed", "failed"}

\* A document at rest has nothing left to run: no page of it waits or is run.
RestingHasNoWork ==
    \A d \in Documents : documents[d].status \in Resting =>
        \A p \in PagesOf(d) : pages[p].status \in ExtractionStatus

\* A row of the history screen: one statement.
Summary(d) ==
    [status |-> documents[d].status, page_count |-> documents[d].page_count,
     pages_succeeded |-> Cardinality({p \in PagesOf(d) : pages[p].status = "succeeded"}),
     pages_failed |-> Cardinality(FailedPages(d))]

\* As long as nobody has asked for a retry, the history screen adds up: a
\* document at rest shows the counts that its status stands for, and so no page
\* of it waits or runs.  Whoever derives the status sees the pages that others
\* have in hand, or that a crash left behind, as work to do.
SummaryAddsUp ==
    (\A r \in Requests : request[r] = NewRequest) =>
        \A d \in Documents :
            LET s == Summary(d)
            IN  /\ s.status = "completed" => s.pages_succeeded = s.page_count /\ s.page_count > 0
                /\ s.status = "failed" => s.pages_failed = s.page_count
                /\ s.status = "partial_failed" =>
                    /\ s.pages_succeeded > 0 /\ s.pages_failed > 0
                    /\ s.pages_succeeded + s.pages_failed = s.page_count

\* Nobody is working on the document, or about to: it is converted and no other
\* conversion of it is due or has failed, its pages are finished, and no worker or
\* request holds it.
Quiet(d) ==
    /\ PagesOf(d) # {}
    /\ documents[d].status \notin {"pending", "converting"} /\ documents[d].error_message = "null"
    /\ \A p \in PagesOf(d) : pages[p].status \in ExtractionStatus
    /\ \A w \in Workers : ~HoldsDocument(w, d) /\ \A p \in PagesOf(d) : ~HoldsPage(w, p)
    /\ \A r \in Requests :
        request[r].stage \in {"loaded", "requeue", "restart"} => request[r].document # d

\* "Derived rather than incremented so that a retry, a crash, or two workers
\* finishing at once" cannot leave it wrong (_refresh_document_status): a
\* document that nobody is working on has the status its pages imply.
QuietStatusDerived ==
    \A d \in Documents : Quiet(d) =>
        LET ended == {pages[p].status : p \in PagesOf(d)}
        IN  documents[d].status = IF ended = {"succeeded"} THEN "completed"
                                  ELSE IF ended = {"failed"} THEN "failed"
                                  ELSE "partial_failed"

\* A retry never takes a page back from the worker that runs it (PageBusy): a
\* page goes from processing to pending only when its claim has gone stale.
RunningPageNotReset ==
    [][\A p \in Pages : pages[p].status = "processing" /\ pages'[p].status = "pending"
            => pages[p].claimed_at = "stale"]_vars

\* "Pages that already succeeded are left alone" (retry_document): a page that
\* succeeded is queued again only by a request that names it.
SucceededLeftAlone ==
    [][\A p \in Pages : pages[p].status = "succeeded" /\ pages'[p].status = "pending"
            => \E r \in Requests : /\ request[r].stage = "requeue"
                                   /\ p = <<request[r].document, request[r].page_no>>]_vars

\* "engine_key pins the next run" (queue_retry): the attempt recorded for a page
\* that carries a requested engine is an attempt of that engine.
RequestedEngineUsed ==
    [][\A x \in extractions' \ extractions :
            pages[x.page].requested_engine_key \in {NoEngine, x.engine_key}]_vars

-----------------------------------------------------------------------------
(* The inductive invariant behind PagesMatchCount and AttemptsNumbered.    *)

\* What is in hand exists: nothing claimed, under way or selected for a retry is
\* a row that was never inserted.
InHandExists ==
    /\ \A w \in Workers :
        /\ \A d \in Documents : HoldsDocument(w, d) => documents[d].status # "absent"
        /\ \A p \in Pages : HoldsPage(w, p) => pages[p].status # "absent"
    /\ \A r \in Requests :
        /\ request[r].stage \in {"loaded", "requeue", "restart"} =>
            documents[request[r].document].status # "absent"
        /\ request[r].stage = "requeue" =>
            \A p \in DOMAIN request[r].targets : pages[p].status # "absent"

AbsentHaveNoPages ==
    \A d \in Documents : documents[d].status = "absent" => documents[d].page_count = 0

\* A step that has its answer carries an attempt that may come next: it is the
\* first, or the one before it is stored.  It may be stored already.
Recording(w) == AtStage(w, {"insert", "derive", "commit"})
AttemptsFollow ==
    \A w \in Workers : Recording(w) =>
        /\ step[w].outcome \in ExtractionStatus
        /\ step[w].attempt_no \in Nat \ {0}
        /\ \/ step[w].attempt_no = 1
           \/ step[w].attempt_no - 1 \in AttemptNos(step[w].page, step[w].engine)

\* An attempt that is inserted and not committed is the only one of its key.
Holding(w) == AtStage(w, {"derive", "commit"})
KeysHeldOnce ==
    \A w \in Workers : Holding(w) =>
        /\ ~KeyStored(w)
        /\ \A v \in Workers \ {w} : Holding(v) => ~SameKey(Inserted(v), Inserted(w))

PagesInvariant == InHandExists /\ AbsentHaveNoPages /\ PagesMatchCount
AttemptsInvariant == AttemptsFollow /\ KeysHeldOnce /\ AttemptsNumbered

\* The rows in hand exist, documents have their pages whole, and an attempt under
\* way carries a number that is free or will be refused: what a step of _run may
\* rely on although it holds no lock while the vendor works.
InductiveInvariant == TypeOK /\ PagesInvariant /\ AttemptsInvariant

-----------------------------------------------------------------------------
(* A premise of the theorems.                                              *)

\* No two retries of one document are between their first read and their commit at
\* once.  Nothing in the code sees to it: lost_conversion shows two that are.
UnderWay(r) == request[r].stage \in {"loaded", "requeue", "restart"}
OneAtATime ==
    \A r, q \in Requests :
        UnderWay(r) /\ UnderWay(q) /\ request[r].document = request[q].document => r = q

-----------------------------------------------------------------------------
(* Liveness.                                                               *)

\* From some time on some engine is active: "picked up again once an engine
\* exists" (extract_page).
EngineReturns == <>[](active # {})

\* Every document that is accepted comes to rest, once there is an engine: a page
\* that found none keeps its claim, ages, and is run again.
DocumentsComeToRest ==
    EngineReturns =>
        \A d \in Documents : documents[d].status # "absent" ~> documents[d].status \in Resting

\* Every page that waits for OCR, or whose worker is gone, is finished, once
\* there is an engine.
PagesFinish ==
    EngineReturns =>
        \A p \in Pages : pages[p].status \in {"pending", "processing"} ~>
            pages[p].status \in ExtractionStatus

=============================================================================
