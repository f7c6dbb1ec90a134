-------------------------------- MODULE Retry -------------------------------
(***************************************************************************)
(* DocumentService.queue_retry(), behind the JSON endpoints and the web    *)
(* form: a request loads the document, selects the pages to re-run, and    *)
(* writes what it decided.  Each request runs once, in its own session,    *)
(*                                                                         *)
(*   SELECT document, engine ; SELECT pages ; UPDATE pages, UPDATE         *)
(*   document, COMMIT                                                      *)
(*                                                                         *)
(* and decides on the rows as it loaded them: nothing is locked between    *)
(* its reads and its writes.  A request that is refused before it selects  *)
(* pages (404, 410) changes nothing and is left out.                       *)
(***************************************************************************)
EXTENDS Worker

CONSTANT Requests      \* the retry requests of a behaviour

VARIABLE request

retryVars == <<request>>

AllFailed == 0         \* page_no omitted

NewRequest == [stage |-> "new"]
ClosedRequest == [stage |-> "closed"]     \* answered: accepted, 404 or 409
LoadedRequest ==
    [stage : {"loaded", "restart"}, document : Documents, loaded : DocumentRow,
     page_no : 0..MaxPages, engine_key : Engines \cup {NoEngine}]

\* targets holds, per page to re-run, the engine key it was loaded with.
RequeueRequest ==
    [stage : {"requeue"}, document : Documents, loaded : DocumentRow,
     page_no : 0..MaxPages, engine_key : Engines \cup {NoEngine},
     targets : UNION {[S -> Engines \cup {NoEngine}] : S \in SUBSET Pages}]

RetryTypeOK ==
    request \in [Requests -> {NewRequest, ClosedRequest} \cup LoadedRequest \cup RequeueRequest]

RetryInit == request = [r \in Requests |-> NewRequest]

-----------------------------------------------------------------------------

Close(r) == request' = [request EXCEPT ![r] = ClosedRequest]

RetryLoads(r, d, n, e) ==
    /\ request[r] = NewRequest
    /\ documents[d].status # "absent"
    /\ request' = [request EXCEPT ![r] =
            [stage |-> "loaded", document |-> d, loaded |-> documents[d],
             page_no |-> n, engine_key |-> e]]
    /\ UNCHANGED <<tableVars, workerVars>>

Requeue(r, targets) ==
    request' = [request EXCEPT ![r] =
        [stage |-> "requeue", document |-> request[r].document, loaded |-> request[r].loaded,
         page_no |-> request[r].page_no, engine_key |-> request[r].engine_key,
         targets |-> [p \in targets |-> pages[p].requested_engine_key]]]

\* Mutant: every finished page of the document is re-run.
TargetsFinished(d) == {p \in PagesOf(d) : pages[p].status \in {"succeeded", "failed"}}

Targets(d) == FailedPages(d)

\* page_no omitted: the failed pages, or else the conversion if it failed.
RetrySelectsFailed(r) ==
    /\ request[r].stage = "loaded" /\ request[r].page_no = AllFailed
    /\ LET targets == Targets(request[r].document)
       IN  IF targets # {} THEN Requeue(r, targets)
           ELSE IF request[r].loaded.status = "failed"
                THEN request' = [request EXCEPT ![r].stage = "restart"]
                ELSE Close(r)
    /\ UNCHANGED <<tableVars, workerVars>>

\* Mutant: a page that is being processed is not refused.
NeverBusy(page) == FALSE

Busy(page) == page.status = "processing"

RetrySelectsPage(r) ==
    /\ request[r].stage = "loaded" /\ request[r].page_no # AllFailed
    /\ LET p == <<request[r].document, request[r].page_no>>
       IN  IF pages[p].status \in {"absent", "pending"} \/ Busy(pages[p])
           THEN Close(r)                  \* PageNotFound, queued already, PageBusy
           ELSE Requeue(r, {p})
    /\ UNCHANGED <<tableVars, workerVars>>

\* A page row set back to pending: its status was loaded as failed or
\* succeeded, so the column is always written.
Requeued(r, p) ==
    [pages[p] EXCEPT !.status = "pending",
        !.requested_engine_key = Flushed(request[r].targets[p], request[r].engine_key, @)]

RetryRequeues(r) ==
    /\ request[r].stage = "requeue"
    /\ LET d == request[r].document
           targets == DOMAIN request[r].targets
       IN  /\ \A p \in targets : ~PageLocked(p)
           /\ pages' = [p \in Pages |-> IF p \in targets THEN Requeued(r, p) ELSE pages[p]]
           /\ documents' = [documents EXCEPT
                ![d].status = Flushed(request[r].loaded.status, "extracting", @)]
    /\ Close(r)
    /\ UNCHANGED <<extractions, active, workerVars>>

RetryRestarts(r) ==
    /\ request[r].stage = "restart"
    /\ LET d == request[r].document
           old == request[r].loaded
       IN  documents' = [documents EXCEPT
                ![d].status = "pending",
                ![d].error_message = Flushed(old.error_message, "null", @),
                ![d].claimed_at = Flushed(old.claimed_at, "null", @)]
    /\ Close(r)
    /\ UNCHANGED <<pages, extractions, active, workerVars>>

RetryProgress(r) ==
    RetrySelectsFailed(r) \/ RetrySelectsPage(r) \/ RetryRequeues(r) \/ RetryRestarts(r)

RetryArrives(r) ==
    \E d \in Documents, n \in 0..MaxPages, e \in Engines \cup {NoEngine} : RetryLoads(r, d, n, e)

=============================================================================
