# A formal model of the Extract-PDF-AI pipeline

The program takes PDFs of receipts, has a vendor cut them into page images and
read each page, and keeps every reading as an attempt. Several processes share one
PostgreSQL database. Each may run the HTTP application, the pipeline worker, or both.
They coordinate only through rows, claims and unique keys. This directory holds a TLA+
model of that coordination, the TLC runs that check it on small instances, and TLAPS
proofs of the parts that hold for every instance.

Paths such as `extraction_service.py:239` are relative to the package under `src/app`.

## 1. Inventory

| Part | State it keeps | Operations | Interacts with |
|---|---|---|---|
| Pipeline worker, `workers/pipeline_worker.py` | ids claimed by this tick, in memory; the stop event | `tick` = `_release_abandoned_claims`, `_claim_documents`, `_claim_pages`, then `_run` per row; `run_forever`, `stop` | tables (three transactions of its own), extraction service |
| Extraction service, `services/extraction_service.py` | none of its own; one session per step | `convert_document`, `extract_page`, `_record_*`, `_refresh_document_status`, `_fail_document` | tables, vendor client, files |
| Document service, `services/document_service.py` | none of its own; one session per request | `upload`, `queue_retry`, reads | tables, files |
| Repositories, `repositories/*.py` | none | the queries; `release_lapsed_hash` is the only UPDATE | tables |
| Schema, `db/models/*.py`, `migrations/` | `documents`, `pages`, `extractions`, `extraction_engines`; unique keys, foreign keys, a partial unique index | — | everything |
| Sessions, `db/session.py` | a transaction per session; no autoflush, nothing expires on commit | `get_session` commits or rolls back at the end of a request | everything |
| File storage, `services/storage.py` | PDFs and page images, named by ids | `save_pdf`, `save_page_image`, `read`, `exists` | upload, both steps |
| Vendor client, `clients/fastaccounting` | an HTTP connection pool | `convert_to_jpg`, `extract_receipt`, classification of answers | extraction service |
| Engine registry, table `extraction_engines` | engines, `is_active`, price | edited with SQL; read by slug, by key, first active one | extraction service, retry |
| JSON API and web UI, `api/`, `web/` | none | upload, retry of a document or page, reads, polling | document service |
| Start and stop, `main.py` | the worker task | `lifespan` starts it, stops it and awaits it | worker, client |
| Schemas, configuration, logging | settings, read once | validation, formatting | — |

What makes each part correct, and what makes it hard:

* **Worker.** A row that waits is claimed. No two workers hold a row. A row whose
  worker is gone returns to the queue. Hard: replicas, a claim that ages while its
  row is in hand, and a crash anywhere.
* **Extraction service.** The pages of a document are those of one conversion, whole.
  Attempts are numbered without gap or repetition and never rewritten. A status is
  backed by an attempt. The document's status is the one its pages imply. Hard: each
  step reads before the vendor call and writes after it with no lock between, so it
  may be the second of two that run the same row.
* **Retry.** A page that runs, or that succeeded, is not reset by a retry of failed
  pages. A failed document can be recovered. Hard: it decides on rows it read without
  a lock, while workers and other retries write them.
* **Upload.** One live document per content hash for the length of its window; no
  committed row without its file. Hard: concurrent uploads of one file, the release
  of a lapsed holder, rollback at any statement.
* **Registry.** A run uses the engine a retry pinned, or else the active one, and is
  stored with its price and a cost, or NULL where either is unknown. Hard: engines are
  switched and repriced with SQL while the vendor works.
* **Vendor client.** Every answer is a result, a vendor error or an exception. Documented
  answers, refusals and failures are recorded, with their code. Hard: an answer is
  classified by its status, its shape and its content, in an order that matters, and
  what is neither result nor vendor error ends the step without a record.
* **Reads.** A finished page is shown with the attempt that finished it, and a screen
  that has stopped polling shows what is final. Hard: three statements per screen, and
  an order by the start of transactions that finish in another.
* **Start and stop.** A stopped worker ends after the tick it is in, also when it
  sleeps, and leaves nothing claimed in hand. A row that always fails does not starve
  the others, unless as many of them as a batch holds do.

`PROJECT.json` lists the hazards by line with the properties that cover them. A
hazard that no property covers has a note saying why.

## 2. Modules

| Module | Models |
|---|---|
| `Tables` | the committed rows, the status vocabularies, the queries, the columns an ORM flush writes |
| `Worker` (extends `Tables`) | `PipelineWorker.tick` and `_run`, with the two steps of `ExtractionService`; crashes; the age of claims |
| `Retry` (extends `Worker`) | `DocumentService.queue_retry` behind its three endpoints |
| `Pipeline` (extends `Retry`) | the composition: arrivals of documents, switches of the active engine, fairness; the summary of the history screen; the properties |
| `History` (extends `Pipeline`) | versions, prices and the cost snapshot of an attempt; `created_at`; the three statements of the detail screen. It implements `Pipeline` (`HistoryImplementsPipeline`) |
| `AttemptLog` | abstract: an append-only log of outcomes per page and engine. `Pipeline` implements it (`AppendsOnly`) |
| `ClaimQueue` | abstract: rows that one worker at a time has in hand. The pages and the documents of `Pipeline` implement it (`PagesClaimed`, `DocumentsClaimed`), and so do the rows of `WorkerLoop` (`RowsClaimed`) |
| `Upload` | the transaction of `DocumentService.upload`, the partial unique index, the file, the retention window |
| `HashSlot` | abstract: a content hash as a slot that is kept for a window. `Upload` implements it (`KeptForItsWindow`) |
| `Receipt` | `normalize_receipt`: a stored payload as it is shown |
| `VendorClient` (extends `Receipt`) | `FastAccountingClient`: what becomes of an HTTP exchange, and whether its outcome can be stored |
| `WorkerLoop` (extends `VendorClient`) | one process: `lifespan`, `run_forever`, `stop`, the timed sleep, ordered batches, a client per row, rows that always raise |
| `MCPipeline`, `MCHistory`, `MCUpload`, `MCWorkerLoop` | the instances for TLC, and their symmetry |
| `PipelineProofs` (extends `Pipeline`, `TLAPS`) | the theorems about `Pipeline` and their proofs |
| `OutcomeProofs` (extends `PipelineProofs`) | statuses backed by attempts, and the refinement of `AttemptLog` |
| `TimelyProofs` (extends `PipelineProofs`) | pages: what holds when claims outlive the work and retries of a document do not overlap, with the refinement of `ClaimQueue` by pages |
| `StatusProofs` (extends `TimelyProofs`, `OutcomeProofs`) | documents: their claims, their status, and the refinement of `ClaimQueue` by documents |
| `HistoryProofs` (extends `History`, `OutcomeProofs`) | the theorems about `History` that need no condition |
| `ScreenProofs` (extends `HistoryProofs`, `StatusProofs`) | the types of the record, the order of the attempts, the screen that has stopped polling |
| `WorkerLoopProofs` (extends `WorkerLoop`, `TLAPS`) | the theorems about `WorkerLoop` and the client, with the refinement of `ClaimQueue` by rows |
| `UploadProofs` (extends `Upload`, `TLAPS`) | the theorems about `Upload`, with the refinement of `HashSlot` |

### How the state corresponds to the code

*Tables.* `documents`, `pages` and `extractions` are the committed rows with the
columns that a query or a decision reads; `"absent"` is a row not inserted yet.
`claimed_at` is kept as what the code can tell of it: null, younger than
`worker_claim_timeout_seconds` (`"fresh"`) or older (`"stale"`). `active` is the set
of active engines; engines are numbers in the order of their slugs, because
`get_active` takes the first.

*Transactions.* Sessions run at PostgreSQL's default, READ COMMITTED, and with
`autoflush=False`. The interleaving is that of SQL statements: a statement sees what
is committed when it starts, plus what its own transaction wrote. What a transaction
has written and not committed is not in the tables. It is kept in `step[w]`,
`request[r]` or `upload[u]` and applied at the commit; a rollback drops it. A run of
statements is one action when nothing another transaction could do in between can be
told apart. The header of each module shows where the cuts are.

*Locks and keys.* A transaction that wants to update a row another one has updated
waits (`PageLocked`, `MustWait`). The claim's `FOR UPDATE SKIP LOCKED` passes over
such rows, and over pages locked by the foreign key of an inserted attempt
(`PageReferenced`). An insert waits for an uncommitted row of the same unique key
(`MustWait`, `IndexWaits`) and collides with a committed one (`KeyStored`,
`PagesCollide`, `IndexHeld`).

*The object mapper.* An UPDATE carries only the columns whose value differs from the
one loaded. `Flushed(loaded, assigned, current)` is that rule. It matters: a column
assigned the value it was loaded with keeps whatever was committed meanwhile.

*Worker.* `phase` is the place in `tick()`. `document_ids` and `page_ids` are the
claimed rows not started. `step` is the row being run, with the row as loaded. A tick
runs documents before pages, one row at a time. `VendorAnswers`, `ConvertSucceeds`
and `ConvertFails` choose the outcome; a missing file is a failure like any other.
`StepRaises` is an exception that `_run` swallows after a rollback: the row keeps its
claim. `Crash` is the death of the process, and also `tick()` raising between two
claims; in both the ids in memory are lost. A batch is any set of at most
`BatchSize` matching rows: the code orders by `created_at`, which the model leaves
out, so it allows more behaviours than the code.

*Retry.* A request loads the document and the engine, selects pages, then writes.
`targets` keeps the pinned engine each page was loaded with, for `Flushed`. Refusals
before the pages are selected (404, 410) change nothing and are left out.

*Upload.* `rows`, `files` and `lapsed` say which documents are committed, have their
PDF on disk and are past `expires_at`. `upload[u]` is a request's transaction: the
rows it has released, and the id its document will have. A refused upload is rolled
back by the JSON endpoint and committed by the web form, which catches the exception
(`Refuse` is either).

*History.* Every step of `Pipeline` is a step of `History` with the columns it writes
besides (`RecordedStep`). `opened[w]` is the engine's row as `extract_page` loaded it and
the time its transaction began: `created_at` is the server default `now()`, which
PostgreSQL evaluates to the start of the transaction, and `session.get` has begun it
before the vendor call. `view` is a reader of the detail screen, between
`SELECT document`, `SELECT pages` and `SELECT extractions`.

*Vendor client.* An exchange is kept as what the code can tell of it: a timeout, a
transport error, or an answer with the class of its status (`Statuses`) and the shape of
its body. The shapes are those of any JSON, because nothing checks the answer against the
API reference. `Post` has the conditions in the order of `_post`. `Stores` says what the
step leaves on record: an outcome, or nothing when the client raises something else than
`FastAccountingError` or PostgreSQL refuses the value (NUL, NaN, a code beyond four bytes).

*WorkerLoop.* The tables of `Worker` are reduced to a queue with an order, and the
worker gains what `Worker` leaves out. `loop` is the place in `run_forever` and `tick`,
`batch` the claimed rows in the order they are run, `step` the row with the exchange the
vendor ended. `rows[r]` is `"stale"` once its claim is older than the claim timeout. It may
become so at any time after the claim, while the row is in hand too, so a row that raised
may be back in the queue at the very next tick: nothing bounds a tick by the timeout (with
`config/dev.env` ten calls of 60 s against 300 s).
`Broken` rows always get an answer that nothing is stored of. `calls_late` counts
the rows begun since the stop and decides nothing. `TickRaises` is the `except` of
`run_forever`: a release or a claim failed, and the ids claimed before are lost.

## 3. Runs

`tlc -config <run>.cfg MCPipeline`, with `MCHistory` for `timely_replicas` and
`overlapping_runs`, `MCUpload` for `uploads`, and `MCWorkerLoop` for `worker_process` and
`unrecorded_call`. One document is enough for each run of `Pipeline`: no query or
constraint of the write paths relates the rows of two documents, except the batch limit,
which only delays as long as broken rows do not fill it, and which `worker_process` has. `Workers` and `Requests` are symmetric, and symmetry is used in the
runs without liveness properties. State counts are distinct states.

| Run | Instance | Shows | States |
|---|---|---|---|
| `single_worker` | 1 worker, batch 2, 2 pages, 1 retry, 1 fault, slow steps, an engine that may be switched off | types; every final page status has an attempt that ended so; every claim can age; the status of a quiet document is the one its pages imply; a retry resets neither a running page nor a succeeded one it did not name; once an engine is there to stay, documents come to rest and pages finish | 71 564 |
| `timely_replicas` | 2 workers, batch 1, 2 pages, 2 engines, 1 retry, 1 fault, steps within the timeout; one edit of the registry; a reader | no page held twice, crash included; pages and documents handed out as `ClaimQueue` promises (refinement); a running page is reset only when its claim is stale and keeps the engine it was pinned to; until a retry is asked for, the history screen adds up and a screen that stopped polling is final; finished pages are shown with their attempt; costs are known or NULL | 423 305 |
| `slow_replicas` | 2 workers, 2 pages, steps that may outlast the timeout | two conversions of a document, which may disagree on the number of pages, leave the pages of one of them, whole; the inductive invariant of section 5; attempts numbered without gap or repetition; outcomes on record; the attempts are an append-only log (refinement of `AttemptLog`) | 186 070 |
| `worker_process` | 1 process with restarts, batch 2, a document and 3 pages of which 1 is broken, ticks that may outlast the timeout, 1 fault, every shape of answer | a stop is prompt, ends everywhere and leaves nothing in hand; rows are handed out as `ClaimQueue` promises (refinement); documented answers are recorded, refusals with their code; what is shown is what was found; healthy rows run although one always raises | 210 702 |
| `uploads` | 3 uploads of one file, 4 documents | one live document per hash; every committed row has its file; a hash changes hands only after the window (refinement of `HashSlot`); uploads never wait in a circle; every upload is answered | 32 632 |

Seven runs show disagreements between the code and what it says of itself. Each checks
one property that a doc or comment of the repository states, and TLC finds it
violated; `findings` in `PROJECT.json` quotes the line.

| Run | What happens |
|---|---|
| `write_skew` | Two workers finish the last two pages of a document at once. Each reads the other's page as `processing`, so neither derives a status, and the document stays `extracting` for ever. |
| `outlived_claim` | A batch is dated when it is claimed and run one row after another. A row that waits behind slow ones is released and claimed by a second worker while the first still holds it. |
| `overlapping_runs` | A page is run twice at once under a slow step. The run that began first commits last: the page has its status, and the attempt shown as the latest, by the start of its transaction, is the other's, against "a page's status follows its most recent attempt" (`main.py:32-33`). |
| `late_failure` | A conversion that was given up fails after a second one has committed. The document reads `failed` while its pages run or succeed. |
| `lost_conversion` | Two retries of one failed document: the first re-queues its page, the second finds no failed page and sends the document back to conversion, which collides with the existing pages for ever. |
| `work_at_rest` | A retry that loaded the document in `extracting` does not write that status again. The last page derives a resting status meanwhile, and the document rests with a page in the queue. |
| `unrecorded_call` | The vendor answers a page with a body that the client or the database cannot take (a `FAILED` envelope whose `data` has no `get()`, a code beyond four bytes, a NUL in a payload). The step raises and is rolled back: the call was made and no attempt is on record, although `main.py:32` says each one is appended. |

The same causes have other effects, which the model reaches and no run repeats:

* With two retries, also with `SlowSteps = FALSE`, `RunningPageNotReset` fails: the
  second retry has read the page before the first re-queued it, and re-queues it again
  after a worker has claimed it (`document_service.py:157-171`). `SucceededLeftAlone` and
  `DocumentsClaimed` fail the same way. That is why the passing runs have one retry. The
  proofs need less: any number of retries, no two of them under way on one document
  (`OneAtATime`).
* With slow steps and a retry, `ClaimsCanAge` fails with two workers: a conversion that
  was given up clears `claimed_at` under a newer claim (`extraction_service.py:254`), and
  the document stays `converting` with no claim that could age.
* With slow steps, `StoppedScreenIsFinal` fails by the cause of `late_failure`.
* With as many rows of a kind that always raise as a batch holds, and ticks that outlast
  the claim timeout, each tick finds them released and the oldest: the rows behind them
  are never run. `HealthyRowsRun` has fewer of them as its premise; without it TLC finds
  the starvation with two broken pages and a batch of two.

### Bounds

* `MaxPages` is 2 where pages of a document meet and 1 where the races are about one
  page. Two are enough for each race the code has, since it always involves the page
  of one step and the rest.
* `MaxFaults` bounds crashes and raised steps; one is enough to leave any row claimed
  at any point. Without the bound liveness would be false for a trivial reason.
* Each request in `Requests` runs once. Two of them meet only in `lost_conversion`.
* `SlowSteps` says whether a claim may age while its row is in hand. The runs with
  `FALSE` are the deployment the settings intend, the runs with `TRUE` are what the
  settings permit: five rows per batch at up to 60 s each against a claim of 300 s,
  with documents and pages claimed in the same tick.
* `attempt_no` needs no bound: an attempt needs a claim of a pending page, and the
  retries and the aged claims that make one pending again are limited by `Requests`
  and by the workers that hold the page.
* `Listings` and `MaxReprices`: one edit is enough to fall before, during or after a
  call, and the two listings have a price with a known quantity and one without.
* `OneVisitor` keeps `timely_replicas` small: the edit, the reader and the retry meet the
  workers in every order, but no two of them are there in one state, and a retry pins the
  engine that is not active, or none (to pin the active one is to pin none, as long as it
  stays active). The edit writes what the other two do not read. What a reader shows is claimed final only without a retry, and
  that it shows finished pages with their attempt, a retry included, is a theorem.
* `Broken` has one row of a kind, one fewer than a batch holds.
* `MCRows` has a document, two pages with the same `created_at` (pages of one document
  are inserted in one transaction, so `ORDER BY created_at` does not order them) and one
  that is younger. `MCImages` has lists of up to two images that decode, do not, or are
  not text, in the orders that decide, `MCPayloads` every kind of score, on two fields of which one is
  scored under another name, every kind of value, and the shapes where the documentation
  has an object.
* `MaxIds` bounds the documents of one hash in `uploads`: a first holder, its
  successor and two competitors. When all are drawn and lapsed nothing more happens,
  which is the one place where deadlock is not checked.

### Fairness

`FairSpec` of `Pipeline` has weak fairness on the progress of each worker, of each
request under way, and on time (`ClaimsAge`). The loop of `run_forever` catches what
a tick raises and never ends by itself, every wait on the vendor is bounded by
`fa_timeout_seconds`, and a request is a single pass. (The timeout is httpx's, per read:
a vendor that keeps a response trickling for ever is not considered.) Nobody owes an
upload, a retry, a switch of engines or a fault; the liveness properties therefore assume
`EngineReturns`, that from some time on an engine is active.

`FairSpec` of `WorkerLoop` has weak fairness on the loop, on the wake-up of the sleep by
the event, on the end of the lifespan and on the age of claims. There is none on
`PollTimeout`, because the settings bound the poll interval from below only: `StopEnds`
holds without it, which is the point of waiting on the event, and `HealthyRowsRun` has the
premise that the worker does not sleep for ever. In `Upload` each upload under way goes on
(`Progress`). An insert that waits for another transaction can be overtaken by any number
of others that take the slot and are then rolled back, so `UploadsEnd` also assumes that
such failures end (`FailuresEnd`).

## 4. What the properties leave open

What holds without any condition is what a unique key or a single transaction carries:
`PagesMatchCount`, `AttemptsNumbered`, `AppendsOnly`, `OneLivePerHash`, `WaitedForGoesOn`,
and `OutcomesOnRecord` and `ShownOutcomeBacked`, which rest on an attempt and its status
being committed together and read in that order. The other properties of `Pipeline` and `History` need a condition, and the proofs say which:

| Condition | Meaning | Properties |
|---|---|---|
| `OneAtATime` | no two retries are under way on a document | `RunningPageNotReset` |
| `OnTime`, `OneAtATime` | besides, a claim outlives the work (`~SlowSteps`), or there is one worker | `HeldOnce`, `PagesClaimed`, `RequestedEngineUsed`, `SucceededLeftAlone`, `HistoryInOrder`, `ClaimsCanAge`, `DocumentsClaimed` |
| `OnTime`, no retry asked for yet | stated in the properties themselves | `SummaryAddsUp`, `StoppedScreenIsFinal` |
| `OneWorker` | one worker, as slow as it may be, and any retries | `QuietStatusDerived` |

The violations of section 3 show what each condition is for: `outlived_claim` and
`overlapping_runs` what `OnTime` is for, `lost_conversion` what `OneAtATime` is for,
`write_skew` what `OneWorker` is for. That the system is safe exactly where a key or a
commit decides, and not where a read does, is the main result of the model.

Some properties say of a document only what no pair of retries can undo, and leave the rest
to the violations. `ClaimsCanAge` and `DocumentsClaimed` speak of a document until it has
its pages: `lost_conversion` sends one back to conversion with them.
`QuietStatusDerived` leaves out a document that a conversion is due of, or failed for:
`late_failure` shows one of those that is `failed` over succeeded pages.

## 5. Proofs

`tlapm PipelineProofs.tla` proves, for every number of documents, pages, engines,
workers, requests and faults:

* `TypeCorrect` — `Spec => []TypeOK`;
* `AttemptsAlwaysNumbered` — `Spec => []AttemptsNumbered`;
* `PagesAlwaysMatchCount` — `Spec => []PagesMatchCount`;
* `InductiveInvariantHolds` — `Spec => []InductiveInvariant`, which carries them.

The assumptions are those of the modules. `TablesAssumption`: there is room for a
page, engines are positive numbers and a set of them has a first. `WorkerAssumption`:
the constants have their types, and a batch has room for a row. Nothing is assumed of
`SlowSteps` or `MaxFaults`, so the theorems cover claims that are released while their
row is in hand.

*Attempts.* That no two stored attempts share a key is not inductive. A step has
chosen its number before others commit theirs, so the invariant must speak of steps
under way. `AttemptsFollow`: a step that has its answer carries the number 1, or one
whose predecessor is stored, so storing it makes no gap. `KeysHeldOnce`: an attempt
inserted and not committed has a key that is neither stored nor inserted by another.
The proof works with `Contiguous`, the numbers of a page and engine are `1..k`, which
is what `next_attempt_no` needs to return the next one; it implies the two parts of
`AttemptsNumbered`. Each action has a lemma for the conjuncts it can disturb, and
`NumberingCommitAttempt` is where the log grows.

*Pages.* `PagesMatchCount` needs that a conversion that finds no pages is of a
document that exists and whose `page_count` is 0, and that nobody writes a page that
was never inserted. `InHandExists` says that everything claimed, under way or
selected by a retry is an inserted row, `AbsentHaveNoPages` that a document not
inserted has none.

`tlapm UploadProofs.tla` proves, for every number of hashes, uploads and documents:

* `AlwaysOneLivePerHash` — `Spec => []OneLivePerHash`;
* `CommittedAlwaysHasFile` — `Spec => []CommittedHasFile`;
* `UploadsNeverDeadlock` — `Spec => []WaitedForGoesOn`;
* `UploadsKeepTheWindow` — `Spec => KeptForItsWindow`, the refinement of `HashSlot`;
* `SlotInvariantHolds` — `Spec => []SlotInvariant`, which carries them.

*Uploads.* Committed rows say nothing of the transactions under way, so
`SlotInvariant` adds what those exclude. `ReleasesOwned`: what a request has released
is live, lapsed, of its own hash, and released by nobody else (the UPDATE waits).
`InsertedAlone`: a request that has inserted sees no live row but its own and is the
only one with its hash (the unique index). `IdsOwned`: its id is not a row yet and
nobody else's. `FilesFirst`: the file is there before the commit. Every step of a
request arrives, releases, goes on, rolls back or commits (`ProgressShapes`), with a
lemma for each. In the refinement only a commit changes the slot: with an insert it
is `Take` of a slot that is open, because what the request released had lapsed;
without one it is `Release` or nothing.

*Waiting.* An upload waits in two places: its UPDATE for a row that another is releasing
(`RowWaits`), its INSERT for another's uncommitted change under the key of its hash
(`IndexWaits`). Whoever is waited for is past both: it holds a released row or has
inserted, and by `InsertedAlone` and `ReleasesOwned` nobody else does with that hash
(`NobodyElseChanging`), so it waits for nobody itself.

`tlapm OutcomeProofs.tla` proves, from the same assumptions,

* `OutcomesAlwaysOnRecord` — `Spec => []OutcomesOnRecord`;
* `RecordAppendsOnly` — `Spec => AppendsOnly`, the refinement of `AttemptLog`.

*Outcomes.* `OutcomesOnRecord` is inductive beside the numbering: `OutcomesFrame` says
that a step that loses no attempt and gives no page an outcome it did not have keeps it,
and of the steps that write pages only `CommitAttempt` gives one, in the commit that
stores the attempt. The refinement needs the numbers `1..k`: the log of a page and engine
is then a sequence (`HistoryType`), and the one step that stores an attempt appends to one
log (`CommitAppends`), because the new number is `k + 1` on its own engine and the key is
stored nowhere else.

`tlapm TimelyProofs.tla` proves what needs a condition on the settings, stated as an ASSUME
of the theorem (`OnTime`), or on the retries, stated as a premise (`[]OneAtATime`):

* `PagesHeldOnce` — `OnTime` gives `Spec /\ []OneAtATime => []HeldOnce`;
* `RequestedEngineAlwaysUsed`, `SucceededAlwaysLeftAlone` — the same for
  `RequestedEngineUsed` and `SucceededLeftAlone`;
* `PagesAlwaysClaimed` — the same for `PagesClaimed`, the refinement of `ClaimQueue`;
* `RunningPageNeverReset` — `Spec /\ []OneAtATime => RunningPageNotReset`, with slow
  steps too.

*In time.* The invariant `Timely` says that a page in hand reads `processing` under a
claim that nobody else may release (`InHand`), so that neither a claim, nor a release, nor
a retry takes it; that a worker's list no longer has the page it runs (`RunOnce`); that a
page under way is still asked for on the engine its step has chosen (`LoadedStands`); and
that the pages a retry is about to queue are finished and stay so (`TargetsRest`), which
is what a retry under way beside it breaks. `OneAtATime` is a premise and not a guard: the
model has requests that overlap, and the theorems speak of the behaviours in which none do
on one document.

*Claims.* `ClaimQueue` has no ages: a row may be released when no worker has it, and at no
other time. The code sees only the age of the claim, so each release has to be shown to
meet rows in nobody's hand (`InHand` again), each commit of an outcome to be of a page its
worker still has, and each crash or raised step to be a `Drop`, which leaves the row
claimed. The tick of one process (`RowsClaimed`) meets the same promise by another
argument: it releases only at its beginning, when nothing is in hand.

`tlapm StatusProofs.tla` proves

* `ClaimsAlwaysCanAge` — `OnTime` gives `Spec /\ []OneAtATime => []ClaimsCanAge`;
* `DocumentsAlwaysClaimed` — the same for `DocumentsClaimed`;
* `SummaryAlwaysAddsUp` — `OnTime` gives `Spec => []SummaryAddsUp`;
* `OneWorkerDerives` — `OneWorker` gives `Spec => []QuietStatusDerived`.

Each is for any number of retries; `OneWorkerDerives` lets them overlap.

*Conversions.* `ConversionsTimely` is about claims of documents what `Timely` is about
claims of pages (`DocumentHands`), as long as the document has no pages. With pages, its
row is written by every step of them as well, and two retries may send it back to
conversion; without, only the conversion in hand and the claims write it, and a retry whose
request has loaded it as `failed`. That it is failed still (`FailedAsLoaded`) is what
`OneAtATime` is needed for: of two requests that load it failed, one may send it to
conversion and the other send it again while it is converted.

*Summary.* As long as no request has selected anything, a resting document has the pages
its status stands for, and a step that has derived a status would derive it again
(`RestingStands`, `DerivedStands`): finished pages stay finished, so what was read before
the commit is still so at the commit. This holds of any number of workers.

*One worker.* With two workers somebody may derive nothing at all (`write_skew`). With one,
`Alone` says that no page in hand is finished, although a retry may have reset it, that a
page under way is not in the list as well, and that what a request is about to queue is
some of its document. `StatusFollows` carries the status:
a converted document has the status its pages imply once they are finished
(`FinishedAdds`), the step about to commit the last of them has derived it (`CommitAdds`),
and the status it loaded is the one it replaces (`SnapshotStands`), unless a retry has
sent the document back to conversion. So the flush writes what it should, and what `work_at_rest` leaves
wrong is right again when the queued page ends.

`tlapm HistoryProofs.tla` proves, for every set of listings and edits:

* `HistoryImplementsPipeline` — `HistorySpec => Spec`, so the theorems above hold of it;
* `ShownOutcomeAlwaysBacked` — `HistorySpec => []ShownOutcomeBacked`.

*History.* `ViewBacked` carries the screen: what it read of the pages was backed when read, and the record only grows.

`tlapm ScreenProofs.tla` proves

* `HistoryTypeCorrect` — `HistorySpec => []HistoryTypeOK`;
* `HistoryAlwaysInOrder` — `OnTime` gives `HistorySpec /\ []OneAtATime => []HistoryInOrder`;
* `StoppedScreenAlwaysFinal` — `OnTime` gives `HistorySpec => []StoppedScreenIsFinal`.

*The screen.* That every attempt has its columns needs the listing that the step under way
has loaded (`ListingsStand`, `EntriesStand`), and that only one worker can be about to store
a given key (`StoredByOne`, from `KeysHeldOnce`). The order rests on `HeldOnce`: a page that is
run has only attempts older than the run (`RunBeganLast`), so the commit adds the youngest
one, which is the one its status follows (`LatestIsStatus`), and the numbers grow with the
dates (`NumbersFollow`). `overlapping_runs` is what happens without `HeldOnce`. `ViewFinal` carries the screen that stopped: a document that was
read at rest stays at rest until a retry is asked for, so the later statements read what
is final. It rests on `RestingStands`.

`tlapm WorkerLoopProofs.tla` proves, for every queue, batch size and set of answers, from
`SettingsAssumption`:

* `NothingInHandWhenDown` — `Spec => []DownMeansDone`;
* `StopAlwaysPrompt` — `Spec => []StopIsPrompt`;
* `RefusalsAlwaysKeepTheirCode` — `Spec => []RefusalsKeepTheirCode`;
* `ExpectedAlwaysRecorded` — `Spec => ExpectedAnswersRecorded`;
* `AlwaysShowsWhatWasFound` — `Spec => []ShowsWhatWasFound`;
* `LoopTypeCorrect` — `Spec => []TypeOK`;
* `RowsAlwaysClaimed` — `Spec => RowsClaimed`, the refinement of `ClaimQueue`.

*The loop.* `InHandInTick`: only a tick has rows in hand. `Budget`: the rows begun since
the stop, those in the batch and those the tick may still claim are two batches at most;
a tick begins only before the stop, when nothing is counted yet. `ClaimedOnce`: a row in
hand was claimed by this tick and is in hand once, in the list or under way; so what a
step ends is let go of, and a release never meets it. *The client.*
`ExpectedIsStored` goes through the shapes of an exchange; a documented one ends in an
outcome that PostgreSQL takes. *What is shown.* `normalize_receipt` is a recursive
function over the four fields, as the loop of the source is; there is no induction over
data here, but four steps can be unrolled (`NormalizeUnrolled`), each of which shows the
field if the payload carries it (`ViewGrows`). `SettingsAssumption` says that a payload is
kept by the known fields only, which are all that the loop asks for.

Every safety property of a passing run is a theorem. Only model-checked:

* the liveness properties `DocumentsComeToRest`, `PagesFinish`, `UploadsEnd`, `StopEnds`,
  `HealthyRowsRun`: fairness and ENABLED are beyond the prover;
* that no run deadlocks, which is ENABLED too.

## 6. Not modelled

* Paging, totals and filters of the history screen, the download of images, the list of
  engines, health: reads of one statement, which change nothing.
* Latency, currency, raw answers as such, the bytes of PDFs and page images. The images of
  a conversion that collides have replaced those of the one that committed; nothing here
  can tell the two apart.
* The merging of `convert_document` and `extract_page` into one statement-level model with
  HTTP answers: `Worker` has the statements, `WorkerLoop` the answers, and they share what
  a step may leave behind (an outcome, or the row as it was, still claimed). Both are shown
  to implement `ClaimQueue`, which says that much and no more.
* Retention in `Pipeline`: the 410 gate of a retry. A document and its successor under the
  same hash share no row, key or file, so a retry accepted at the last moment only means
  that a file is read twice.
* Deadlocks of the pipeline that PostgreSQL breaks by aborting a transaction (uploads have
  none: `UploadsNeverDeadlock`). A retry of several pages and a release lock their rows in
  one step, where the database locks them in turn;
  two that met in opposite orders would end with one rolled back, as if it had failed.
* Cancellation of the worker's task by the server: the lifespan awaits it without a limit.
* Check constraints, defaults, the downgrade, most response schemas, the loading of
  settings, the assembly of the application, error bodies, templates, logs.
* The connection pool. A session does stay in its transaction during the vendor call,
  against the docstring of `extraction_service.py:8-9`, which costs a connection and
  changes no outcome under READ COMMITTED.
* A stored payload that cannot be shown. `NormalizeRaises` says when `normalize_receipt`
  raises (`options` or `confidences` without `get()`, a score beyond a float); each read
  of the document then fails. `ShowsWhatWasFound` leaves those payloads out.

## 7. Plan

Done, in this order: `Tables`, `Worker`, `Retry`, `Pipeline` with `AttemptLog`;
`Upload` with `HashSlot`; `PipelineProofs`; `UploadProofs`; `Receipt`, `VendorClient` and
`WorkerLoop`; `History`; `OutcomeProofs`, `WorkerLoopProofs`, `HistoryProofs`,
`TimelyProofs`; `StatusProofs`; `ScreenProofs`; `ClaimQueue` with its three refinements.

What could follow:

1. `Upload` composed with `Pipeline`: retention, the 410 gate of a retry, and a new
   holder of the hash while the old document still runs.
2. Retries that overlap: what holds of the pages and claims of a document then, which the
   proofs leave to the premise `OneAtATime`.
3. `WorkerLoop` shown to implement `Worker` itself for one worker, statement by statement.
