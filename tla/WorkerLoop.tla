----------------------------- MODULE WorkerLoop -----------------------------
(***************************************************************************)
(* One process: the server's lifespan, run_forever() with its stop and its *)
(* timed sleep, the ticks, and the client that _run opens for each row.    *)
(* Worker has the tables and several workers; here a row is what the queue *)
(* holds of it, the queue has its order, and the vendor answers with HTTP  *)
(* exchanges.  Claims and releases are those of this process.              *)
(***************************************************************************)
EXTENDS VendorClient, FiniteSets, FiniteSetsExt

CONSTANTS
    Rows,           \* <<kind, n, created_at>>; pages of a document share created_at
    Broken,         \* rows whose vendor answer always makes the step raise
    Images,         \* the lists of images in answers of the convert API
    Payloads,       \* the receipt payloads in answers of the receipt API
    WorkerEnabled,  \* worker_enabled
    BatchSize,      \* worker_batch_size
    MaxFaults       \* bound on raised ticks and on other raised steps, for finiteness

ASSUME SettingsAssumption ==
    /\ Rows \subseteq {"document", "page"} \X Nat \X Nat /\ IsFiniteSet(Rows)
    /\ Broken \subseteq Rows
    /\ \A payload \in Payloads : DOMAIN payload.values \subseteq Fields
    /\ WorkerEnabled \in BOOLEAN
    /\ BatchSize \in Nat \ {0}
    /\ MaxFaults \in Nat

VARIABLES
    server,      \* the server in its lifespan
    stopping,    \* the event _stopping
    loop,        \* where run_forever() is
    did_work,    \* whether this tick has claimed anything
    batch,       \* claimed rows it has not started, in order
    step,        \* the row it runs and the exchange the vendor ended, if it has
    rows,        \* the queue
    calls_late,  \* rows begun since the stop
    faults       \* raised ticks, and raised steps of rows that are not broken

vars == <<server, stopping, loop, did_work, batch, step, rows, calls_late, faults>>

Loop == {"none", "check", "claim_documents", "claim_pages", "run", "sleep", "ended"}

\* A claimed row is "stale" once its claim is older than the claim timeout, be
\* it still in hand: nothing bounds a tick by that timeout.
Row == {"absent", "waiting", "claimed", "stale", "finished"}

NoStep == [row |-> "none"]
NoExchange == [came |-> "nothing"]

ExchangesOf(kind) ==
    Exchanges(IF kind = "document" THEN Conversions(Images) ELSE Receipts(Payloads))

MaxLate == 2 * BatchSize

TypeOK ==
    /\ server \in {"serving", "stopping", "down"} /\ stopping \in BOOLEAN
    /\ loop \in Loop /\ did_work \in BOOLEAN
    /\ batch \in Seq(Rows) /\ Len(batch) <= 2 * BatchSize /\ IsInjective(batch)
    /\ step # NoStep => /\ step.row \in Rows
                        /\ step.exchange \in ExchangesOf(step.row[1]) \cup {NoExchange}
    /\ rows \in [Rows -> Row]
    /\ calls_late \in 0..MaxLate + 1 /\ faults \in 0..MaxFaults

FirstState == IF WorkerEnabled THEN "check" ELSE "none"

Init ==
    /\ server = "serving" /\ stopping = FALSE /\ loop = FirstState
    /\ did_work = FALSE /\ batch = <<>> /\ step = NoStep
    /\ rows = [r \in Rows |-> "absent"]
    /\ calls_late = 0 /\ faults = 0

Fault == faults < MaxFaults /\ faults' = faults + 1

-----------------------------------------------------------------------------
(* run_forever() and tick().                                               *)

\* Mutant: a tick that found work is followed by another without a look at the event.
MayTickAlways == ~stopping \/ did_work

MayTick == ~stopping

\* Mutant: stale claims are not released.
AfterReleaseNever(status) == status

\* The release goes by the age of a claim alone.
AfterRelease(status) == IF status = "stale" THEN "waiting" ELSE status

BeginTick ==
    /\ loop = "check" /\ MayTick
    /\ loop' = "claim_documents" /\ did_work' = FALSE
    /\ rows' = [r \in Rows |-> AfterRelease(rows[r])]
    /\ UNCHANGED <<server, stopping, batch, step, calls_late, faults>>

LoopEnds ==
    /\ loop = "check" /\ ~MayTick
    /\ loop' = "ended"
    /\ UNCHANGED <<server, stopping, did_work, batch, step, rows, calls_late, faults>>

Older(q, r) == q[3] < r[3]
Waiting(kind) == {r \in Rows : r[1] = kind /\ rows[r] = "waiting"}

\* ORDER BY created_at LIMIT batch_size.
Batches(kind) ==
    {S \in SUBSET Waiting(kind) :
        /\ S = Waiting(kind) \/ Cardinality(S) = BatchSize
        /\ Cardinality(S) <= BatchSize
        /\ \A r \in S, q \in Waiting(kind) \ S : ~Older(q, r)}

Claim(kind, next) ==
    /\ \E taken \in Batches(kind) : \E ids \in SetToSeqs(taken) :
        /\ \A i, j \in DOMAIN ids : Older(ids[i], ids[j]) => i < j
        /\ batch' = batch \o ids
        /\ rows' = [r \in Rows |-> IF r \in taken THEN "claimed" ELSE rows[r]]
        /\ did_work' = (did_work \/ taken # {})
    /\ loop' = next
    /\ UNCHANGED <<server, stopping, step, calls_late, faults>>

ClaimDocuments == loop = "claim_documents" /\ Claim("document", "claim_pages")
ClaimPages == loop = "claim_pages" /\ Claim("page", "run")

\* Mutant: the ids claimed are kept by the worker.
IdsLeftKept == batch

\* The ids claimed are local to tick().
IdsLeft == <<>>

\* The release or a claim raises: the loop sleeps, and ids claimed are lost.
TickRaises ==
    /\ loop \in {"check", "claim_documents", "claim_pages"} /\ (loop = "check" => MayTick)
    /\ Fault
    /\ loop' = "sleep" /\ did_work' = FALSE /\ batch' = IdsLeft
    /\ UNCHANGED <<server, stopping, step, rows, calls_late>>

EndTick ==
    /\ loop = "run" /\ step = NoStep /\ batch = <<>>
    /\ loop' = IF did_work THEN "check" ELSE "sleep"
    /\ UNCHANGED <<server, stopping, did_work, batch, step, rows, calls_late, faults>>

PollTimeout ==
    /\ loop = "sleep"
    /\ loop' = "check"
    /\ UNCHANGED <<server, stopping, did_work, batch, step, rows, calls_late, faults>>

\* Mutant: the sleep does not wait on the event.
NeverWakes == FALSE

Wakes == stopping

StopWakes == Wakes /\ PollTimeout

-----------------------------------------------------------------------------
(* _run(): a session and a client per row.                                 *)

BeginRow ==
    /\ loop = "run" /\ step = NoStep /\ batch # <<>>
    /\ step' = [row |-> Head(batch), exchange |-> NoExchange]
    /\ batch' = Tail(batch)
    /\ calls_late' = IF stopping /\ calls_late <= MaxLate THEN calls_late + 1 ELSE calls_late
    /\ UNCHANGED <<server, stopping, loop, did_work, rows, faults>>

\* Within fa_timeout_seconds.  A broken row gets an answer that nothing is
\* stored of; one that is not gets such an answer as a fault.
VendorAnswers ==
    /\ step # NoStep /\ step.exchange = NoExchange
    /\ \E x \in ExchangesOf(step.row[1]) :
        /\ step' = [step EXCEPT !.exchange = x]
        /\ IF Stores(step.row[1], x) # "nothing" THEN step.row \notin Broken /\ UNCHANGED faults
           ELSE IF step.row \in Broken THEN UNCHANGED faults
           ELSE Fault
    /\ UNCHANGED <<server, stopping, loop, did_work, batch, rows, calls_late>>

\* Mutant: a raised row goes back to the queue at once.
LeftWaiting(row, stored) == IF stored = "nothing" THEN "waiting" ELSE "finished"

\* The row after its step: rolled back, it keeps its claim.
Left(row, stored) == IF stored = "nothing" THEN rows[row] ELSE "finished"

EndRow(stored) ==
    /\ rows' = [rows EXCEPT ![step.row] = Left(step.row, stored)]
    /\ step' = NoStep
    /\ UNCHANGED <<server, stopping, loop, did_work, batch, calls_late>>

RowEnds ==
    /\ step # NoStep /\ step.exchange # NoExchange
    /\ EndRow(Stores(step.row[1], step.exchange))
    /\ UNCHANGED faults

\* A missing file or page image is recorded as a failure without a call.
RowEndsUncalled ==
    /\ step # NoStep /\ step.exchange = NoExchange /\ step.row \notin Broken
    /\ EndRow("failed")
    /\ UNCHANGED faults

\* No engine, a disk error, the database: before the call or after it.
RowRaises ==
    /\ step # NoStep
    /\ Fault
    /\ EndRow("nothing")

-----------------------------------------------------------------------------
(* lifespan(), and the rest of the world.                                  *)

\* Mutant: the lifespan does not await the task.
TaskEndedNotAwaited == TRUE

TaskEnded == loop \in {"none", "ended"}

ServerStops ==
    /\ server = "serving"
    /\ server' = "stopping" /\ stopping' = WorkerEnabled
    /\ UNCHANGED <<loop, did_work, batch, step, rows, calls_late, faults>>

LifespanEnds ==
    /\ server = "stopping" /\ TaskEnded
    /\ server' = "down"
    /\ UNCHANGED <<stopping, loop, did_work, batch, step, rows, calls_late, faults>>

\* A new process with a new worker.
Restart ==
    /\ server = "down"
    /\ server' = "serving" /\ stopping' = FALSE /\ loop' = FirstState
    /\ did_work' = FALSE /\ calls_late' = 0
    /\ UNCHANGED <<batch, step, rows, faults>>

\* The pages of a document are inserted together.
RowArrives(r) ==
    /\ rows[r] = "absent"
    /\ rows' = [q \in Rows |->
            IF rows[q] = "absent" /\ q[1] = r[1] /\ q[3] = r[3] THEN "waiting" ELSE rows[q]]
    /\ UNCHANGED <<server, stopping, loop, did_work, batch, step, calls_late, faults>>

ClaimAges(r) ==
    /\ rows[r] = "claimed"
    /\ rows' = [rows EXCEPT ![r] = "stale"]
    /\ UNCHANGED <<server, stopping, loop, did_work, batch, step, calls_late, faults>>

LoopProgress ==
    \/ BeginTick \/ LoopEnds \/ ClaimDocuments \/ ClaimPages \/ EndTick
    \/ BeginRow \/ VendorAnswers \/ RowEnds

Next ==
    \/ LoopProgress \/ StopWakes \/ PollTimeout \/ TickRaises
    \/ RowEndsUncalled \/ RowRaises
    \/ ServerStops \/ LifespanEnds \/ Restart
    \/ \E r \in Rows : RowArrives(r) \/ ClaimAges(r)

Spec == Init /\ [][Next]_vars

\* The loop goes on and a vendor call ends; the event wakes the sleep; the
\* lifespan goes on when the task has ended; time passes.  Not that a sleep
\* ends by itself: the settings bound the interval from below only.
FairSpec ==
    /\ Spec
    /\ WF_vars(LoopProgress) /\ WF_vars(StopWakes) /\ WF_vars(LifespanEnds)
    /\ \A r \in Rows : WF_vars(ClaimAges(r))

-----------------------------------------------------------------------------
(* Properties.                                                             *)

Called == step # NoStep /\ step.exchange # NoExchange

RowStates ==
    [r \in Rows |-> IF rows[r] \in {"claimed", "stale"} THEN "claimed" ELSE rows[r]]
InHand == {batch[i] : i \in DOMAIN batch} \cup (IF step = NoStep THEN {} ELSE {step.row})

\* Refinement: rows are handed out as ClaimQueue promises, to the one worker
\* there is: none that it still has in hand is claimed again or released, and
\* what a raised tick or step leaves is claimed and in no hand.
RowQueue == INSTANCE ClaimQueue WITH
    Workers <- {"process"}, status <- RowStates, held <- [w \in {"process"} |-> InHand]
RowsClaimed == RowQueue!Spec

\* Once the lifespan has ended no row is in hand: nothing is claimed that the
\* process does not run, and nothing is written after the server is gone.
DownMeansDone == server = "down" => batch = <<>> /\ step = NoStep

\* A stop takes effect after the tick under way: at most the rows of one batch
\* of documents and one of pages are begun after it, however long the queue is.
StopIsPrompt == calls_late <= MaxLate

\* A server asked to stop goes down, wherever its worker is: also when the
\* worker sleeps, and without waiting for the poll interval ("wake immediately
\* on shutdown", run_forever).
StopEnds == server = "stopping" ~> server = "down"

\* Rows that raise each time they are run, fewer of a kind than a batch holds, do
\* not starve the rows queued behind them, although each of them may be the oldest
\* of every batch: as long as the worker polls, each other row is finished, also
\* one that a raised tick or step left claimed, or the server stops.
HealthyRowsRun ==
    /\ \A kind \in {"document", "page"} :
        Cardinality({r \in Broken : r[1] = kind}) < BatchSize
    /\ []<>(loop # "sleep")
    =>
        \A r \in Rows \ Broken : rows[r] = "waiting" ~> rows[r] = "finished" \/ server # "serving"

\* A refusal that carries a code is an error with that code, whatever the
\* status it came with: "the code below comes from the payload" (_post).
Coded(x) == /\ x.came = "response" /\ x.body.form = "refusal" /\ x.body.data = "object"
            /\ x.body.code \in {"int4", "wide"}
RefusalsKeepTheirCode ==
    Called /\ Coded(step.exchange) =>
        LET result == ResultOf(step.row[1], step.exchange)
        IN  result.kind = "error" /\ result.code = step.exchange.body.code

\* What the vendor may answer by its documentation, and no answer at all: data
\* and images of the documented types, codes of four bytes, text PostgreSQL takes.
Expected(x) ==
    \/ x.came # "response"
    \/ x.body.form \in {"not_json", "not_object"}
    \/ /\ x.body.form = "refusal" /\ x.body.storable
       /\ x.body.data = "object" => x.body.code \in {"none", "int4"}
       /\ x.body.data # "other"
    \/ /\ x.body.form = "conversion" /\ x.body.data # "other"
       /\ \A i \in DOMAIN ImagesOf(x.body) : ImagesOf(x.body)[i] # "not_text"
    \/ x.body.form = "receipt" /\ x.body.storable

\* A call that fails in a way the vendor may fail is recorded, and so is one
\* that succeeds: unless the database or the disk fails, its row is finished.
ExpectedAnswersRecorded ==
    [][Called /\ step' = NoStep /\ Expected(step.exchange) /\ UNCHANGED faults
            => rows'[step.row] = "finished"]_vars

\* "Each call -- success or failure -- is appended to extractions" (main.py): a
\* page that was sent to the vendor does not end its step without a record.
EveryCallRecorded ==
    [][Called /\ step.row[1] = "page" /\ step' = NoStep => rows'[step.row] = "finished"]_vars

\* What is shown of a stored success: the fields the payload carries, and every
\* score the engine gave one of them, none that it did not.  A zero is no score.
ScoredAs(key, name) == key = name \/ (key = "issuer_name" /\ name = "issuer")
ShowsWhatWasFound ==
    Called /\ step.row[1] = "page" /\ Stores("page", step.exchange) = "succeeded" =>
        LET payload == step.exchange.body.payload
            shown == normalize_receipt(payload)
            Scores(key, score) == key \in DOMAIN payload.scores /\ payload.scores[key] = score
        IN  NormalizeRaises(payload) \/
            /\ {shown[i].name : i \in DOMAIN shown} = DOMAIN payload.values
            /\ \A i \in DOMAIN shown, key \in DOMAIN payload.scores \ {"issuer"} :
                ScoredAs(key, shown[i].name) =>
                    (shown[i].confidence = "score" <=> Scores(key, "score"))

=============================================================================
