-------------------------- MODULE WorkerLoopProofs --------------------------
(***************************************************************************)
(* Theorems about WorkerLoop, for every queue, batch size and sets of      *)
(* answers: what a stop leaves behind and how many rows are begun after    *)
(* it, what becomes of the answers of the vendor and what is shown of them.*)
(***************************************************************************)
EXTENDS WorkerLoop, FiniteSetTheorems, TLAPS

\* Only a tick has rows in hand, and only its run part runs one; the server is
\* down only when its worker has ended.
InHandInTick ==
    /\ loop \in Loop
    /\ loop # "run" => step = NoStep
    /\ loop \notin {"claim_pages", "run"} => batch = <<>>
    /\ server = "down" => loop \in {"none", "ended"}

LEMMA InHandStep ==
    ASSUME InHandInTick, [Next]_vars
    PROVE  InHandInTick'
<1> USE DEF InHandInTick, Loop
<1>1. CASE UNCHANGED vars
  BY <1>1 DEF vars
<1>2. CASE BeginTick \/ LoopEnds \/ EndTick \/ PollTimeout \/ StopWakes
  BY <1>2 DEF BeginTick, LoopEnds, EndTick, PollTimeout, StopWakes
<1>3. CASE ClaimDocuments \/ ClaimPages
  BY <1>3 DEF ClaimDocuments, ClaimPages, Claim
<1>4. CASE TickRaises
  BY <1>4 DEF TickRaises, IdsLeft
<1>5. CASE BeginRow
  BY <1>5 DEF BeginRow
<1>6. CASE VendorAnswers
  BY <1>6 DEF VendorAnswers
<1>7. CASE RowEnds \/ RowEndsUncalled \/ RowRaises
  BY <1>7 DEF RowEnds, RowEndsUncalled, RowRaises, EndRow
<1>8. CASE ServerStops \/ LifespanEnds
  BY <1>8 DEF ServerStops, LifespanEnds, TaskEnded
<1>9. CASE Restart
  BY <1>9 DEF Restart, FirstState
<1>10. CASE \E r \in Rows : RowArrives(r) \/ ClaimAges(r)
  BY <1>10 DEF RowArrives, ClaimAges
<1> QED
  BY <1>1, <1>2, <1>3, <1>4, <1>5, <1>6, <1>7, <1>8, <1>9, <1>10 DEF Next, LoopProgress

LEMMA InHandAlways == Spec => []InHandInTick
<1>1. Init => InHandInTick
  BY DEF Init, InHandInTick, Loop, FirstState
<1> QED
  BY <1>1, InHandStep, PTL DEF Spec

\* When the lifespan has ended the worker has nothing in hand: no row is claimed
\* without being run by a server that stops, and none is written after it.
THEOREM NothingInHandWhenDown == Spec => []DownMeansDone
<1>1. InHandInTick => DownMeansDone
  BY DEF InHandInTick, DownMeansDone
<1> QED
  BY <1>1, InHandAlways, PTL

-----------------------------------------------------------------------------
(* The rows that may still be begun after a stop.                          *)

\* How many rows the tick under way may still claim.
Claimable ==
    IF loop = "claim_documents" THEN 2 * BatchSize
    ELSE IF loop = "claim_pages" THEN BatchSize
    ELSE 0

\* The rows begun since the stop, those in hand and those the tick may still
\* claim are two batches at most.
Budget ==
    /\ batch \in Seq(Rows)
    /\ calls_late \in Nat
    /\ server = "serving" => ~stopping
    /\ ~stopping => calls_late = 0
    /\ calls_late + Len(batch) + Claimable <= 2 * BatchSize

LEMMA BatchSizeType == BatchSize \in Nat \ {0}
  BY SettingsAssumption

LEMMA ClaimableType == Claimable \in Nat
  BY BatchSizeType DEF Claimable

LEMMA BatchLength == ASSUME Budget PROVE Len(batch) \in Nat
  BY DEF Budget

\* A claim takes a batch at most, and puts each row of it in the list once.
LEMMA ClaimBounded ==
    ASSUME NEW kind, NEW taken \in Batches(kind), NEW ids \in SetToSeqs(taken)
    PROVE  ids \in Seq(Rows) /\ Len(ids) <= BatchSize
<1>1. taken \subseteq Rows /\ Cardinality(taken) <= BatchSize
  BY DEF Batches, Waiting
<1>2. Cardinality(taken) \in Nat
  BY <1>1, SettingsAssumption, FS_Subset, FS_CardinalityType
<1>3. ids \in [1..Cardinality(taken) -> taken]
  BY DEF SetToSeqs
<1> QED
  BY <1>1, <1>2, <1>3

LEMMA ClaimBudget ==
    ASSUME Budget, InHandInTick, ClaimDocuments \/ ClaimPages
    PROVE  Budget'
<1>1. PICK kind \in {"document", "page"}, next \in {"claim_pages", "run"} :
        /\ Claim(kind, next)
        /\ \/ loop = "claim_documents" /\ next = "claim_pages"
           \/ loop = "claim_pages" /\ next = "run"
  BY DEF ClaimDocuments, ClaimPages
<1>2. PICK taken \in Batches(kind) : \E ids \in SetToSeqs(taken) : batch' = batch \o ids
  BY <1>1 DEF Claim
<1>3. PICK ids \in SetToSeqs(taken) : batch' = batch \o ids
  BY <1>2
<1>4. ids \in Seq(Rows) /\ Len(ids) <= BatchSize
  BY ClaimBounded
<1>5. batch' \in Seq(Rows) /\ Len(batch') = Len(batch) + Len(ids) /\ Len(ids) \in Nat
  <2>1. batch \in Seq(Rows) /\ ids \in Seq(Rows) /\ batch' = batch \o ids
    BY <1>3, <1>4 DEF Budget
  <2> HIDE <1>3, <1>4
  <2> QED
    BY <2>1
<1>6. loop' = next /\ UNCHANGED <<server, stopping, calls_late>>
  BY <1>1 DEF Claim
<1>7. calls_late + Len(batch) + Claimable <= 2 * BatchSize
      /\ calls_late \in Nat /\ (~stopping => calls_late = 0)
      /\ (server = "serving" => ~stopping)
  BY DEF Budget
<1>8. Claimable' + Len(ids) <= Claimable
  BY <1>1, <1>4, <1>5, <1>6, BatchSizeType DEF Claimable
<1>9. calls_late' + Len(batch') + Claimable' <= 2 * BatchSize
  <2>1. Claimable' \in Nat
    BY <1>6, BatchSizeType DEF Claimable
  <2> QED
    BY <1>5, <1>6, <1>7, <1>8, <2>1, BatchLength, BatchSizeType, ClaimableType
<1> QED
  BY <1>5, <1>6, <1>7, <1>9 DEF Budget

\* A step that neither claims nor begins a row, nor starts a tick.
LEMMA BudgetKept ==
    ASSUME Budget,
           UNCHANGED <<stopping, calls_late>> \/ (calls_late' = 0 /\ stopping' = FALSE),
           server' = "serving" => server = "serving" \/ stopping' = FALSE,
           batch' \in {batch, <<>>},
           loop' = loop \/ loop' \notin {"claim_documents", "claim_pages"}
    PROVE  Budget'
<1>1. Claimable' \in Nat /\ Claimable' <= Claimable
  BY BatchSizeType DEF Claimable
<1>2. batch' \in Seq(Rows) /\ Len(batch') \in Nat /\ Len(batch') <= Len(batch)
  <2>1. batch \in Seq(Rows)
    BY DEF Budget
  <2>2. CASE batch' = batch
    BY <2>1, <2>2
  <2>3. CASE batch' = <<>>
    BY <2>1, <2>3
  <2> QED
    BY <2>2, <2>3
<1>3. calls_late' \in Nat /\ calls_late' <= calls_late
  BY DEF Budget
<1>4. calls_late + Len(batch) + Claimable <= 2 * BatchSize /\ calls_late \in Nat
  BY DEF Budget
<1>5. calls_late' + Len(batch') + Claimable' <= 2 * BatchSize
  BY <1>1, <1>2, <1>3, <1>4, BatchLength, ClaimableType, BatchSizeType
<1>6. (~stopping' => calls_late' = 0) /\ (server' = "serving" => ~stopping')
  BY DEF Budget
<1> QED
  BY <1>2, <1>3, <1>5, <1>6 DEF Budget

LEMMA BudgetStep ==
    ASSUME Budget, InHandInTick, [Next]_vars
    PROVE  Budget'
<1>1. CASE UNCHANGED vars
  BY <1>1, BudgetKept DEF vars
<1>2. CASE BeginTick
  <2>1. batch' = <<>> /\ calls_late' = 0 /\ ~stopping'
    BY <1>2 DEF BeginTick, MayTick, InHandInTick, Budget
  <2>2. Claimable' = 2 * BatchSize
    BY <1>2 DEF BeginTick, Claimable
  <2> QED
    BY <2>1, <2>2, BatchSizeType DEF Budget
<1>3. CASE LoopEnds \/ EndTick \/ PollTimeout \/ StopWakes
  BY <1>3, BudgetKept DEF LoopEnds, EndTick, PollTimeout, StopWakes
<1>4. CASE ClaimDocuments \/ ClaimPages
  BY <1>4, ClaimBudget
<1>5. CASE TickRaises
  BY <1>5, BudgetKept DEF TickRaises, IdsLeft
<1>6. CASE BeginRow
  <2>1. batch \in Seq(Rows) /\ batch # <<>> /\ batch' = Tail(batch)
    BY <1>6 DEF BeginRow, Budget
  <2>2. batch' \in Seq(Rows) /\ Len(batch') = Len(batch) - 1
    BY <2>1
  <2>3. UNCHANGED <<server, loop, stopping>> /\ (server = "serving" => ~stopping)
    BY <1>6 DEF BeginRow, Budget
  <2>4. /\ calls_late \in Nat /\ calls_late' \in {calls_late, calls_late + 1}
        /\ ~stopping => calls_late' = calls_late /\ calls_late = 0
    BY <1>6 DEF BeginRow, Budget
  <2>5. Claimable' = Claimable
    BY <2>3 DEF Claimable
  <2>6. calls_late + Len(batch) + Claimable <= 2 * BatchSize
    BY DEF Budget
  <2>7. calls_late' + Len(batch') + Claimable' <= 2 * BatchSize
    BY <2>2, <2>4, <2>5, <2>6, BatchLength, ClaimableType, BatchSizeType
  <2>8. calls_late' \in Nat /\ (~stopping' => calls_late' = 0)
    BY <2>3, <2>4
  <2> QED
    BY <2>2, <2>3, <2>7, <2>8 DEF Budget
<1>7. CASE VendorAnswers
  BY <1>7, BudgetKept DEF VendorAnswers
<1>8. CASE RowEnds \/ RowEndsUncalled \/ RowRaises
  BY <1>8, BudgetKept DEF RowEnds, RowEndsUncalled, RowRaises, EndRow
<1>9. CASE ServerStops
  <2>1. UNCHANGED <<batch, loop, calls_late>> /\ server' = "stopping"
    BY <1>9 DEF ServerStops
  <2>2. calls_late = 0
    BY <1>9 DEF ServerStops, Budget
  <2> QED
    BY <2>1, <2>2 DEF Budget, Claimable
<1>10. CASE LifespanEnds
  BY <1>10, BudgetKept DEF LifespanEnds
<1>11. CASE Restart
  BY <1>11, BudgetKept DEF Restart, FirstState
<1>12. CASE \E r \in Rows : RowArrives(r) \/ ClaimAges(r)
  BY <1>12, BudgetKept DEF RowArrives, ClaimAges
<1> QED
  BY <1>1, <1>2, <1>3, <1>4, <1>5, <1>6, <1>7, <1>8, <1>9, <1>10, <1>11, <1>12
     DEF Next, LoopProgress

LEMMA BudgetAlways == Spec => []Budget
<1>1. Init => Budget
  BY BatchSizeType DEF Init, FirstState, Budget, Claimable
<1> QED
  BY <1>1, BudgetStep, InHandAlways, PTL DEF Spec

\* A stop takes effect after the tick under way: however long the queue is, at
\* most two batches are begun after it.
THEOREM StopAlwaysPrompt == Spec => []StopIsPrompt
<1>1. Budget => StopIsPrompt
  <2>1. SUFFICES ASSUME Budget PROVE calls_late <= 2 * BatchSize
    BY DEF StopIsPrompt, MaxLate
  <2>2. calls_late + Len(batch) + Claimable <= 2 * BatchSize /\ calls_late \in Nat
    BY <2>1 DEF Budget
  <2> QED
    BY <2>1, <2>2, BatchLength, ClaimableType, BatchSizeType
<1> QED
  BY <1>1, BudgetAlways, PTL

-----------------------------------------------------------------------------
(* What becomes of the answers of the vendor.                              *)

\* Whatever HTTP status a refusal comes with, on either API, the code it carries
\* is the code of the error that the client raises.
THEOREM RefusalsAlwaysKeepTheirCode == Spec => []RefusalsKeepTheirCode
<1>1. ASSUME NEW x, Coded(x)
      PROVE  Post(x) = VendorError(FALSE, x.body.code)
  BY <1>1 DEF Coded, Post, Refusal
<1>2. ASSUME NEW x, NEW kind, Coded(x)
      PROVE  ResultOf(kind, x) = VendorError(FALSE, x.body.code)
  <2>1. Post(x) = VendorError(FALSE, x.body.code)
    BY <1>1, <1>2
  <2> QED
    BY <2>1 DEF ResultOf, convert_to_jpg, extract_receipt, VendorError
<1>3. RefusalsKeepTheirCode
  BY <1>2 DEF RefusalsKeepTheirCode, VendorError
<1> QED
  BY <1>3, PTL

\* A row that is run is a row of the queue, and its answer one of its API.
RunsRows ==
    /\ DOMAIN rows = Rows /\ faults \in Nat
    /\ step # NoStep =>
        /\ step.row \in Rows /\ "exchange" \in DOMAIN step
        /\ step.exchange # NoExchange => step.exchange \in ExchangesOf(step.row[1])

LEMMA RunsRowsStep ==
    ASSUME RunsRows, batch \in Seq(Rows), [Next]_vars
    PROVE  RunsRows'
<1> USE DEF RunsRows, Fault
<1>1. CASE UNCHANGED vars
  BY <1>1 DEF vars
<1>2. CASE BeginTick \/ LoopEnds \/ EndTick \/ PollTimeout \/ StopWakes
  BY <1>2 DEF BeginTick, LoopEnds, EndTick, PollTimeout, StopWakes
<1>3. CASE ClaimDocuments \/ ClaimPages
  BY <1>3 DEF ClaimDocuments, ClaimPages, Claim
<1>4. CASE TickRaises
  BY <1>4 DEF TickRaises
<1>5. CASE BeginRow
  <2>1. Head(batch) \in Rows
    BY <1>5 DEF BeginRow
  <2> QED
    BY <1>5, <2>1 DEF BeginRow
<1>6. CASE VendorAnswers
  <2>1. PICK x \in ExchangesOf(step.row[1]) : step' = [step EXCEPT !.exchange = x]
    BY <1>6 DEF VendorAnswers
  <2>2. step # NoStep /\ UNCHANGED rows /\ faults' \in Nat
    BY <1>6 DEF VendorAnswers
  <2>3. /\ step'.row = step.row /\ step'.exchange = x
        /\ DOMAIN step' = DOMAIN step
    BY <2>1, <2>2
  <2> QED
    BY <2>1, <2>2, <2>3
<1>7. CASE RowEnds \/ RowEndsUncalled \/ RowRaises
  BY <1>7 DEF RowEnds, RowEndsUncalled, RowRaises, EndRow
<1>8. CASE ServerStops \/ LifespanEnds \/ Restart
  BY <1>8 DEF ServerStops, LifespanEnds, Restart
<1>9. CASE \E r \in Rows : RowArrives(r) \/ ClaimAges(r)
  BY <1>9 DEF RowArrives, ClaimAges
<1> QED
  BY <1>1, <1>2, <1>3, <1>4, <1>5, <1>6, <1>7, <1>8, <1>9 DEF Next, LoopProgress

\* An expected answer is one the client returns or raises as its own error, and
\* PostgreSQL takes what is stored of it.
LEMMA ExpectedIsStored ==
    ASSUME NEW kind \in {"document", "page"}, NEW x \in ExchangesOf(kind), Expected(x)
    PROVE  Stores(kind, x) # "nothing"
<1>1. x.came \in {"timeout", "transport_error", "response"}
  BY DEF ExchangesOf, Exchanges, Unanswered, Answered
<1>2. CASE x.came # "response"
  BY <1>2 DEF Stores, ResultOf, convert_to_jpg, extract_receipt, Post, VendorError,
              DatabaseRefuses, Unstorable
<1>3. CASE x.came = "response"
  <2>1. PICK body : body = x.body
    OBVIOUS
  <2>2. /\ body.form \in {"refusal", "not_json", "not_object", "conversion", "receipt"}
        /\ body.form = "refusal" => body.data \in {"none", "other", "object"}
        /\ body.form = "conversion" => kind = "document"
        /\ body.form = "receipt" => kind = "page"
    BY <1>3, <2>1 DEF ExchangesOf, Exchanges, Unanswered, Answered, Refusals, Malformed,
                      Conversions, Receipts
  <2>3. CASE body.form \in {"not_json", "not_object"}
    <3>1. \E again \in BOOLEAN : Post(x) = VendorError(again, "none")
      BY <1>3, <2>1, <2>3 DEF Post, Retryable
    <3>2. ResultOf(kind, x).kind = "error" /\ ResultOf(kind, x).code = "none"
      BY <3>1 DEF ResultOf, convert_to_jpg, extract_receipt, VendorError
    <3> QED
      BY <2>1, <2>3, <3>2 DEF Stores, DatabaseRefuses
  <2>4. CASE body.form = "refusal"
    <3>1. PICK code \in {"none", "int4"} : Post(x) = VendorError(FALSE, code)
      BY <1>3, <2>1, <2>2, <2>4 DEF Post, Refusal, Expected
    <3>2. ResultOf(kind, x).kind = "error" /\ ResultOf(kind, x).code = code
      BY <3>1 DEF ResultOf, convert_to_jpg, extract_receipt, VendorError
    <3>3. ~Unstorable(x)
      BY <1>3, <2>1, <2>4 DEF Unstorable, Expected
    <3> QED
      BY <3>2, <3>3 DEF Stores, DatabaseRefuses
  <2>5. CASE body.form = "conversion"
    <3>1. \/ Post(x) = [kind |-> "payload", body |-> body]
          \/ \E again \in BOOLEAN : Post(x) = VendorError(again, "none")
      BY <1>3, <2>1, <2>5 DEF Post, Retryable
    <3>2. body.data # "other" /\ \A i \in DOMAIN ImagesOf(body) : ImagesOf(body)[i] # "not_text"
      BY <1>3, <2>1, <2>5 DEF Expected
    <3>3. Decode(ImagesOf(body)).kind \in {"images", "error"}
      BY <3>2 DEF Decode, VendorError
    <3>4. convert_to_jpg(x).kind \in {"images", "error"}
      BY <3>1, <3>2, <3>3 DEF convert_to_jpg, VendorError
    <3> QED
      BY <2>1, <2>2, <2>5, <3>4 DEF Stores, ResultOf, DatabaseRefuses
  <2>6. CASE body.form = "receipt"
    <3>1. \/ Post(x) = [kind |-> "payload", body |-> body]
          \/ \E again \in BOOLEAN : Post(x) = VendorError(again, "none")
      BY <1>3, <2>1, <2>6 DEF Post, Retryable
    <3>2. ~Unstorable(x)
      BY <1>3, <2>1, <2>6 DEF Unstorable, Expected
    <3>3. ResultOf(kind, x) = Post(x)
      BY <2>2, <2>6 DEF ResultOf, extract_receipt
    <3> QED
      BY <3>1, <3>2, <3>3 DEF Stores, DatabaseRefuses, VendorError
  <2> QED
    BY <2>2, <2>3, <2>4, <2>5, <2>6
<1> QED
  BY <1>2, <1>3

\* Every answer that the vendor may give, and no answer at all, is recorded: its
\* row is finished by the step that got it, unless the database or the disk fails.
THEOREM ExpectedAlwaysRecorded == Spec => ExpectedAnswersRecorded
<1> DEFINE Recorded ==
      Called /\ step' = NoStep /\ Expected(step.exchange) /\ UNCHANGED faults
        => rows'[step.row] = "finished"
<1>1. Init => RunsRows
  BY DEF Init, RunsRows
<1>2. RunsRows /\ Budget /\ [Next]_vars => RunsRows'
  BY RunsRowsStep DEF Budget
<1>3. RunsRows /\ [Next]_vars => [Recorded]_vars
  <2>1. SUFFICES ASSUME RunsRows, Next, Called, step' = NoStep, Expected(step.exchange),
                        faults' = faults
                 PROVE  rows'[step.row] = "finished"
    OBVIOUS
  <2>2. step # NoStep /\ step.exchange # NoExchange /\ step' # step
    BY <2>1 DEF Called
  <2>3. RowEnds
    <3>1. RowEnds \/ RowEndsUncalled \/ RowRaises \/ Restart \/ VendorAnswers
      BY <2>1, <2>2 DEF Next, LoopProgress, BeginTick, LoopEnds, EndTick, PollTimeout, StopWakes,
            ClaimDocuments, ClaimPages, Claim, TickRaises, BeginRow, ServerStops,
            LifespanEnds, RowArrives, ClaimAges
    <3>2. ~RowEndsUncalled /\ ~VendorAnswers
      BY <2>2 DEF RowEndsUncalled, VendorAnswers
    <3>3. ~Restart
      BY <2>2 DEF Restart
    <3>4. ~RowRaises
      BY <2>1 DEF RowRaises, Fault, RunsRows
    <3> QED
      BY <3>1, <3>2, <3>3, <3>4
  <2>4. Stores(step.row[1], step.exchange) # "nothing"
    <3>1. step.row[1] \in {"document", "page"}
      BY <2>1, <2>2, SettingsAssumption DEF RunsRows
    <3> QED
      BY <2>1, <2>2, <3>1, ExpectedIsStored DEF RunsRows
  <2> QED
    BY <2>1, <2>2, <2>3, <2>4 DEF RowEnds, EndRow, Left, RunsRows
<1>4. Spec => []Budget
  BY BudgetAlways
<1> QED
  BY <1>1, <1>2, <1>3, <1>4, PTL DEF Spec, ExpectedAnswersRecorded, Recorded

-----------------------------------------------------------------------------
(* The types, and the rows in hand.                                        *)

Typed ==
    /\ server \in {"serving", "stopping", "down"} /\ stopping \in BOOLEAN
    /\ did_work \in BOOLEAN
    /\ rows \in [Rows -> Row]
    /\ faults \in 0..MaxFaults

\* A row in hand was claimed by this tick, however old the claim is by now, and
\* is in hand once: in the list or under way.
Taken == {"claimed", "stale"}
ClaimedOnce ==
    /\ IsInjective(batch)
    /\ \A i \in DOMAIN batch : rows[batch[i]] \in Taken
    /\ step # NoStep =>
        rows[step.row] \in Taken /\ \A i \in DOMAIN batch : batch[i] # step.row

LEMMA TypedStep ==
    ASSUME Typed, [Next]_vars
    PROVE  Typed'
<1> USE SettingsAssumption DEF Typed, Fault, Row
<1>1. CASE UNCHANGED vars
  BY <1>1 DEF vars
<1>2. CASE BeginTick
  <2>1. \A s \in Row : AfterRelease(s) \in Row
    BY DEF AfterRelease
  <2> QED
    BY <1>2, <2>1 DEF BeginTick
<1>3. CASE LoopEnds \/ EndTick \/ PollTimeout \/ StopWakes
  BY <1>3 DEF LoopEnds, EndTick, PollTimeout, StopWakes
<1>4. CASE ClaimDocuments \/ ClaimPages
  <2>1. PICK taken : /\ rows' = [r \in Rows |-> IF r \in taken THEN "claimed" ELSE rows[r]]
                     /\ did_work' = (did_work \/ taken # {})
    BY <1>4 DEF ClaimDocuments, ClaimPages, Claim
  <2>2. UNCHANGED <<server, stopping, faults>>
    BY <1>4 DEF ClaimDocuments, ClaimPages, Claim
  <2>3. did_work' \in BOOLEAN
    BY <2>1
  <2>4. rows' \in [Rows -> Row]
    BY <2>1
  <2> QED
    BY <2>2, <2>3, <2>4
<1>5. CASE TickRaises \/ VendorAnswers
  <2>1. UNCHANGED <<server, stopping, rows>>
    BY <1>5 DEF TickRaises, VendorAnswers
  <2>2. faults' \in 0..MaxFaults
    <3>1. UNCHANGED faults \/ Fault
      BY <1>5 DEF TickRaises, VendorAnswers
    <3> QED
      BY <3>1
  <2>3. did_work' = did_work \/ did_work' = FALSE
    BY <1>5 DEF TickRaises, VendorAnswers
  <2>4. did_work' \in BOOLEAN
    BY <2>3
  <2> QED
    BY <2>1, <2>2, <2>4
<1>6. CASE BeginRow
  BY <1>6 DEF BeginRow
<1>7. ASSUME NEW stored, EndRow(stored)
      PROVE  rows' \in [Rows -> Row] /\ UNCHANGED <<server, stopping, did_work>>
  BY <1>7 DEF EndRow, Left
<1>8. CASE RowEnds \/ RowEndsUncalled \/ RowRaises
  BY <1>7, <1>8 DEF RowEnds, RowEndsUncalled, RowRaises
<1>9. CASE ServerStops \/ LifespanEnds \/ Restart
  BY <1>9 DEF ServerStops, LifespanEnds, Restart
<1>10. CASE \E r \in Rows : RowArrives(r) \/ ClaimAges(r)
  BY <1>10 DEF RowArrives, ClaimAges
<1> QED
  BY <1>1, <1>2, <1>3, <1>4, <1>5, <1>6, <1>8, <1>9, <1>10 DEF Next, LoopProgress

\* A list keeps its rows apart when its tail is taken, or rows are added that it
\* does not have.
LEMMA TailApart ==
    ASSUME batch \in Seq(Rows), batch # <<>>, IsInjective(batch)
    PROVE  /\ IsInjective(Tail(batch))
           /\ \A i \in DOMAIN Tail(batch) :
                i + 1 \in DOMAIN batch /\ Tail(batch)[i] = batch[i + 1] /\ Tail(batch)[i] # Head(batch)
<1>1. \A i \in DOMAIN Tail(batch) :
        i \in Nat \ {0} /\ i + 1 \in DOMAIN batch /\ Tail(batch)[i] = batch[i + 1]
  OBVIOUS
<1>2. Head(batch) = batch[1] /\ 1 \in DOMAIN batch
  OBVIOUS
<1> QED
  BY <1>1, <1>2 DEF IsInjective

LEMMA AddedApart ==
    ASSUME batch \in Seq(Rows), NEW ids \in Seq(Rows), IsInjective(batch), IsInjective(ids),
           \A i \in DOMAIN batch, j \in DOMAIN ids : batch[i] # ids[j]
    PROVE  /\ IsInjective(batch \o ids)
           /\ \A k \in DOMAIN (batch \o ids) :
                \/ k \in DOMAIN batch /\ (batch \o ids)[k] = batch[k]
                \/ k - Len(batch) \in DOMAIN ids /\ (batch \o ids)[k] = ids[k - Len(batch)]
<1>1. \A k \in DOMAIN (batch \o ids) :
        /\ k \in Nat
        /\ \/ k \in DOMAIN batch /\ (batch \o ids)[k] = batch[k]
           \/ k - Len(batch) \in DOMAIN ids /\ (batch \o ids)[k] = ids[k - Len(batch)]
  OBVIOUS
<1>2. Len(batch) \in Nat
  OBVIOUS
<1>3. ASSUME NEW k \in DOMAIN (batch \o ids), NEW m \in DOMAIN (batch \o ids),
             (batch \o ids)[k] = (batch \o ids)[m]
      PROVE  k = m
  <2>1. k \in Nat /\ m \in Nat
    BY <1>1
  <2>2. CASE k \in DOMAIN batch /\ m \in DOMAIN batch /\ batch[k] = batch[m]
    BY <2>2 DEF IsInjective
  <2>3. CASE /\ k - Len(batch) \in DOMAIN ids /\ m - Len(batch) \in DOMAIN ids
             /\ ids[k - Len(batch)] = ids[m - Len(batch)]
    <3>1. k - Len(batch) = m - Len(batch)
      BY <2>3 DEF IsInjective
    <3> QED
      BY <1>2, <2>1, <3>1
  <2> QED
    BY <1>1, <1>3, <2>2, <2>3
<1> QED
  BY <1>1, <1>3 DEF IsInjective

LEMMA ClaimedOnceClaim ==
    ASSUME Typed, InHandInTick, batch \in Seq(Rows), ClaimedOnce, ClaimDocuments \/ ClaimPages
    PROVE  ClaimedOnce'
<1>1. PICK kind, next : Claim(kind, next) /\ loop \in {"claim_documents", "claim_pages"}
  BY DEF ClaimDocuments, ClaimPages
<1>2. PICK taken \in Batches(kind) :
        /\ \E ids \in SetToSeqs(taken) : batch' = batch \o ids
        /\ rows' = [r \in Rows |-> IF r \in taken THEN "claimed" ELSE rows[r]]
  BY <1>1 DEF Claim
<1>3. PICK ids \in SetToSeqs(taken) : batch' = batch \o ids
  BY <1>2
<1>4. step = NoStep /\ UNCHANGED step
  BY <1>1 DEF InHandInTick, Claim
<1>5. ids \in Seq(Rows)
  BY ClaimBounded
<1>6. ids \in [1..Cardinality(taken) -> taken] /\ IsInjective(ids)
  BY DEF SetToSeqs, IsInjective
<1>7. \A r \in taken : r \in Rows /\ rows[r] = "waiting"
  BY DEF Batches, Waiting
<1>8. \A j \in DOMAIN ids : ids[j] \in taken
  BY <1>6
<1>9. \A i \in DOMAIN batch, j \in DOMAIN ids : batch[i] # ids[j]
  BY <1>7, <1>8 DEF ClaimedOnce, Taken
<1>10. /\ IsInjective(batch')
      /\ \A k \in DOMAIN batch' :
            \/ k \in DOMAIN batch /\ batch'[k] = batch[k]
            \/ \E j \in DOMAIN ids : batch'[k] = ids[j]
  BY <1>3, <1>5, <1>6, <1>9, AddedApart DEF ClaimedOnce
<1>11. ASSUME NEW k \in DOMAIN batch'
       PROVE  rows'[batch'[k]] \in Taken
  <2>1. CASE k \in DOMAIN batch /\ batch'[k] = batch[k]
    <3>1. batch[k] \in Rows /\ rows[batch[k]] \in Taken
      BY <2>1 DEF ClaimedOnce
    <3> QED
      BY <1>2, <2>1, <3>1 DEF Taken
  <2>2. CASE \E j \in DOMAIN ids : batch'[k] = ids[j]
    BY <1>2, <1>7, <1>8, <2>2 DEF Taken
  <2> QED
    BY <1>10, <1>11, <2>1, <2>2
<1> QED
  BY <1>4, <1>10, <1>11 DEF ClaimedOnce

LEMMA ClaimedOnceStep ==
    ASSUME Typed, InHandInTick, RunsRows, batch \in Seq(Rows), ClaimedOnce, [Next]_vars
    PROVE  ClaimedOnce'
<1>1. CASE UNCHANGED <<batch, step, rows>>
  BY <1>1 DEF ClaimedOnce
<1>2. CASE batch' = <<>> /\ step' = NoStep
  BY <1>2 DEF ClaimedOnce, IsInjective
<1>3. CASE BeginTick \/ TickRaises
  BY <1>2, <1>3 DEF BeginTick, TickRaises, IdsLeft, InHandInTick
<1>4. CASE ClaimDocuments \/ ClaimPages
  BY <1>4, ClaimedOnceClaim
<1>5. CASE BeginRow
  <2>1. PICK new : new = [row |-> Head(batch), exchange |-> NoExchange]
    OBVIOUS
  <2>2. /\ batch # <<>> /\ batch' = Tail(batch) /\ step' = new /\ new.row = Head(batch)
        /\ UNCHANGED rows
    BY <1>5, <2>1 DEF BeginRow
  <2>3. Head(batch) = batch[1] /\ 1 \in DOMAIN batch
    BY <2>2
  <2>4. rows[Head(batch)] \in Taken
    BY <2>3 DEF ClaimedOnce
  <2>5. IsInjective(batch)
    BY DEF ClaimedOnce
  <2> QED
    BY <2>2, <2>4, <2>5, TailApart DEF ClaimedOnce
<1>6. CASE VendorAnswers
  <2>1. PICK x : step' = [step EXCEPT !.exchange = x]
    BY <1>6 DEF VendorAnswers
  <2>2. step'.row = step.row /\ step # NoStep /\ UNCHANGED <<batch, rows>>
    BY <1>6, <2>1 DEF VendorAnswers
  <2> QED
    BY <2>2 DEF ClaimedOnce
<1>7. CASE RowEnds \/ RowEndsUncalled \/ RowRaises
  <2>1. PICK left : step # NoStep /\ rows' = [rows EXCEPT ![step.row] = left]
    BY <1>7 DEF RowEnds, RowEndsUncalled, RowRaises, EndRow
  <2>2. step' = NoStep /\ UNCHANGED batch
    BY <1>7 DEF RowEnds, RowEndsUncalled, RowRaises, EndRow
  <2>3. \A i \in DOMAIN batch : rows'[batch[i]] = rows[batch[i]]
    BY <2>1 DEF ClaimedOnce, Typed
  <2> QED
    BY <2>2, <2>3 DEF ClaimedOnce
<1>8. CASE \E r \in Rows : RowArrives(r) \/ ClaimAges(r)
  <2>1. UNCHANGED <<batch, step>>
    BY <1>8 DEF RowArrives, ClaimAges
  <2>2. \A q \in Rows : rows[q] \in Taken => rows'[q] \in Taken
    BY <1>8 DEF RowArrives, ClaimAges, Taken, Typed
  <2>3. /\ \A i \in DOMAIN batch : batch[i] \in Rows
        /\ step # NoStep => step.row \in Rows
    BY DEF RunsRows
  <2> QED
    BY <2>1, <2>2, <2>3 DEF ClaimedOnce
<1> QED
  BY <1>1, <1>3, <1>4, <1>5, <1>6, <1>7, <1>8
     DEF Next, LoopProgress, vars, LoopEnds, EndTick, PollTimeout, StopWakes, ServerStops,
         LifespanEnds, Restart

LEMMA InHandClaimedOnce ==
    Spec => [](InHandInTick /\ Budget /\ Typed /\ RunsRows /\ ClaimedOnce)
<1>1. ASSUME Init
      PROVE  Typed
  <2>1. server = "serving" /\ stopping = FALSE /\ did_work = FALSE
    BY <1>1 DEF Init
  <2>2. rows \in [Rows -> Row] /\ faults \in 0..MaxFaults
    BY <1>1, SettingsAssumption DEF Init, Row
  <2> QED
    BY <2>1, <2>2 DEF Typed
<1>2. Init => RunsRows /\ ClaimedOnce
  BY DEF Init, RunsRows, ClaimedOnce, IsInjective
<1>3. Budget => batch \in Seq(Rows)
  BY DEF Budget
<1> QED
  BY <1>1, <1>2, <1>3, TypedStep, RunsRowsStep, ClaimedOnceStep, InHandAlways, BudgetAlways, PTL DEF Spec

\* Every reachable state of the process is well typed: in particular its list never
\* exceeds two batches and never has a row twice, since it is claimed from rows that
\* wait and nothing in hand waits.
THEOREM LoopTypeCorrect == Spec => []TypeOK
<1>1. ASSUME InHandInTick, Budget, Typed, RunsRows, ClaimedOnce
      PROVE  TypeOK
  <2>1. calls_late \in 0..MaxLate + 1 /\ Len(batch) <= 2 * BatchSize
    <3>1. calls_late + Len(batch) + Claimable <= 2 * BatchSize /\ calls_late \in Nat
      BY <1>1 DEF Budget
    <3> QED
      BY <1>1, <3>1, BatchLength, ClaimableType, BatchSizeType DEF MaxLate
  <2>2. batch \in Seq(Rows) /\ IsInjective(batch) /\ loop \in Loop
    BY <1>1 DEF Budget, ClaimedOnce, InHandInTick
  <2>3. step # NoStep => /\ step.row \in Rows
                         /\ step.exchange \in ExchangesOf(step.row[1]) \cup {NoExchange}
    BY <1>1 DEF RunsRows
  <2> QED
    BY <1>1, <2>1, <2>2, <2>3 DEF Typed, TypeOK
<1> QED
  BY <1>1, InHandClaimedOnce, PTL

-----------------------------------------------------------------------------
(* The refinement of ClaimQueue.                                           *)

LEMMA RowsMarked ==
    ASSUME NEW S \in SUBSET Rows, NEW new,
           \A r \in Rows : RowStates'[r] = IF r \in S THEN new ELSE RowStates[r]
    PROVE  RowQueue!Mark(S, new)
<1>1. RowStates' = [r \in Rows |-> IF r \in S THEN new ELSE RowStates[r]]
  BY DEF RowStates
<1> QED
  BY <1>1 DEF RowQueue!Mark

LEMMA RowsLetGo ==
    ASSUME NEW S, InHand' = InHand \ S
    PROVE  RowQueue!LetGo("process", S)
  BY DEF RowQueue!LetGo

LEMMA RowsStutter ==
    ASSUME UNCHANGED <<RowStates, InHand>>
    PROVE  UNCHANGED RowQueue!vars
  BY DEF RowQueue!vars

\* A release meets no row in hand: a tick begins with nothing in hand.
LEMMA TickReleases ==
    ASSUME Typed, InHandInTick, BeginTick
    PROVE  RowQueue!Next
<1>1. PICK S \in SUBSET Rows : S = {r \in Rows : rows[r] = "stale"}
  OBVIOUS
<1>2. batch = <<>> /\ step = NoStep /\ UNCHANGED <<batch, step>>
  BY DEF BeginTick, InHandInTick
<1>3. InHand = {} /\ InHand' = {}
  BY <1>2 DEF InHand
<1>4. \A r \in S : RowStates[r] = "claimed"
  BY <1>1 DEF RowStates
<1>5. \A r \in Rows : RowStates'[r] = IF r \in S THEN "waiting" ELSE RowStates[r]
  BY <1>1 DEF BeginTick, AfterRelease, RowStates
<1>6. RowQueue!Release(S)
  BY <1>3, <1>4, <1>5, RowsMarked DEF RowQueue!Release
<1> QED
  BY <1>6 DEF RowQueue!Next

\* An order of the taken rows has each of them: it is as long as they are many.
LEMMA OrderTakesAll ==
    ASSUME NEW kind, NEW taken \in Batches(kind), NEW ids \in SetToSeqs(taken)
    PROVE  {ids[j] : j \in DOMAIN ids} = taken
<1>1. IsFiniteSet(taken) /\ Cardinality(taken) \in Nat
  <2>1. taken \subseteq Rows
    BY DEF Batches, Waiting
  <2> QED
    BY <2>1, SettingsAssumption, FS_Subset, FS_CardinalityType
<1>2. PICK n \in Nat : n = Cardinality(taken)
  BY <1>1
<1>3. ids \in [1..n -> taken] /\ \A i, j \in 1..n : i # j => ids[i] # ids[j]
  BY <1>2 DEF SetToSeqs
<1>4. ids \in Injection(1..n, taken)
  BY <1>3 DEF Injection, IsInjective
<1>5. Cardinality(1..n) = n
  BY FS_Interval
<1>6. ids \in Surjection(1..n, taken)
  BY <1>1, <1>2, <1>4, <1>5, FS_Injection
<1> QED
  BY <1>3, <1>6 DEF Surjection

LEMMA ClaimTakesRows ==
    ASSUME Typed, InHandInTick, batch \in Seq(Rows), ClaimDocuments \/ ClaimPages
    PROVE  RowQueue!Next
<1>1. PICK kind, next : Claim(kind, next) /\ loop \in {"claim_documents", "claim_pages"}
  BY DEF ClaimDocuments, ClaimPages
<1>2. PICK taken \in Batches(kind) :
        /\ \E ids \in SetToSeqs(taken) : batch' = batch \o ids
        /\ rows' = [r \in Rows |-> IF r \in taken THEN "claimed" ELSE rows[r]]
  BY <1>1 DEF Claim
<1>3. PICK ids \in SetToSeqs(taken) : batch' = batch \o ids
  BY <1>2
<1>4. step = NoStep /\ UNCHANGED step
  BY <1>1 DEF InHandInTick, Claim
<1>5. ids \in Seq(Rows)
  BY ClaimBounded
<1>6. {ids[j] : j \in DOMAIN ids} = taken
  BY OrderTakesAll
<1>7. taken \in SUBSET Rows /\ \A r \in taken : rows[r] = "waiting"
  BY DEF Batches, Waiting
<1>8. {batch'[k] : k \in DOMAIN batch'} = {batch[i] : i \in DOMAIN batch} \cup taken
  <2>1. \A k \in DOMAIN batch' : \/ k \in DOMAIN batch /\ batch'[k] = batch[k]
                                 \/ \E j \in DOMAIN ids : batch'[k] = ids[j]
    BY <1>3, <1>5
  <2>2. \A i \in DOMAIN batch : i \in DOMAIN batch' /\ batch'[i] = batch[i]
    BY <1>3, <1>5
  <2>3. \A j \in DOMAIN ids :
          Len(batch) + j \in DOMAIN batch' /\ batch'[Len(batch) + j] = ids[j]
    BY <1>3, <1>5
  <2> QED
    BY <1>6, <2>1, <2>2, <2>3
<1>9. InHand' = InHand \cup taken
  BY <1>4, <1>8 DEF InHand
<1>10. \A r \in taken : RowStates[r] = "waiting"
  BY <1>7 DEF RowStates
<1>11. \A r \in Rows : RowStates'[r] = IF r \in taken THEN "claimed" ELSE RowStates[r]
  BY <1>2, <1>7 DEF RowStates
<1>12. RowQueue!Claim("process", taken)
  BY <1>7, <1>9, <1>10, <1>11, RowsMarked DEF RowQueue!Claim
<1> QED
  BY <1>7, <1>12 DEF RowQueue!Next

\* A row that is begun stays in hand.
LEMMA BeginKeepsRow ==
    ASSUME batch \in Seq(Rows), BeginRow
    PROVE  UNCHANGED RowQueue!vars
<1>1. PICK new : new = [row |-> Head(batch), exchange |-> NoExchange]
  OBVIOUS
<1>2. /\ batch # <<>> /\ batch' = Tail(batch) /\ step = NoStep /\ step' = new
      /\ new.row = Head(batch) /\ UNCHANGED rows
  BY <1>1 DEF BeginRow
<1>3. step' # NoStep
  <2>1. "exchange" \in DOMAIN new /\ "exchange" \notin DOMAIN NoStep
    BY <1>1 DEF NoStep
  <2> QED
    BY <1>2, <2>1
<1>4. {batch[i] : i \in DOMAIN batch} = {Head(batch)} \cup {Tail(batch)[i] : i \in DOMAIN Tail(batch)}
  <2>1. Head(batch) = batch[1] /\ 1 \in DOMAIN batch
    BY <1>2
  <2>2. PICK rest : rest = Tail(batch)
    OBVIOUS
  <2>3. \A i \in DOMAIN rest : i + 1 \in DOMAIN batch /\ rest[i] = batch[i + 1]
    BY <1>2, <2>2
  <2>4. \A i \in DOMAIN batch :
          i = 1 \/ (i - 1 \in DOMAIN rest /\ batch[i] = rest[i - 1])
    BY <1>2, <2>2
  <2>5. {batch[i] : i \in DOMAIN batch} \subseteq {batch[1]} \cup {rest[i] : i \in DOMAIN rest}
    BY <2>4
  <2>6. {batch[1]} \cup {rest[i] : i \in DOMAIN rest} \subseteq {batch[i] : i \in DOMAIN batch}
    BY <2>1, <2>3
  <2> QED
    BY <2>1, <2>2, <2>5, <2>6
<1>5. InHand' = InHand
  BY <1>2, <1>3, <1>4 DEF InHand
<1> QED
  BY <1>2, <1>5, RowsStutter DEF RowStates

\* A row that ends is finished by the process that has it, or let go as it is.
LEMMA EndsOrDrops ==
    ASSUME Typed, RunsRows, batch \in Seq(Rows), ClaimedOnce, step # NoStep, NEW stored, EndRow(stored)
    PROVE  RowQueue!Next
<1>1. PICK R \in Rows : R = step.row /\ R \in InHand
  BY DEF RunsRows, InHand
<1>2. rows' = [rows EXCEPT ![R] = Left(R, stored)] /\ step' = NoStep /\ UNCHANGED batch
  BY <1>1 DEF EndRow
<1>3. InHand' = InHand \ {R}
  BY <1>1, <1>2 DEF InHand, ClaimedOnce
<1>4. CASE stored = "nothing"
  <2>1. RowStates' = RowStates
    BY <1>2, <1>4 DEF Left, RowStates, Typed
  <2>2. RowQueue!Drop("process", {R})
    BY <1>3, <2>1, RowsLetGo DEF RowQueue!Drop
  <2> QED
    BY <1>1, <2>2 DEF RowQueue!Next
<1>5. CASE stored # "nothing"
  <2>1. \A r \in Rows : RowStates'[r] = IF r \in {R} THEN "finished" ELSE RowStates[r]
    BY <1>2, <1>5 DEF Left, RowStates, Typed
  <2>2. RowQueue!Finish("process", R)
    BY <1>1, <1>3, <2>1, RowsMarked, RowsLetGo DEF RowQueue!Finish
  <2> QED
    BY <1>1, <2>2 DEF RowQueue!Next
<1> QED
  BY <1>4, <1>5

LEMMA RowsClaimedStep ==
    ASSUME Typed, InHandInTick, RunsRows, batch \in Seq(Rows), ClaimedOnce, [Next]_vars
    PROVE  [RowQueue!Next]_RowQueue!vars
<1>1. CASE UNCHANGED <<batch, step, rows>>
  BY <1>1, RowsStutter DEF RowStates, InHand
<1>2. CASE TickRaises
  <2>1. PICK S \in SUBSET Rows : S = {batch[i] : i \in DOMAIN batch}
    <3>1. {batch[i] : i \in DOMAIN batch} \in SUBSET Rows
      OBVIOUS
    <3> QED
      BY <3>1
  <2>2. step = NoStep /\ batch' = <<>> /\ UNCHANGED <<step, rows>>
    BY <1>2 DEF TickRaises, IdsLeft, InHandInTick
  <2>3. InHand' = InHand \ S
    BY <2>1, <2>2 DEF InHand
  <2>4. RowQueue!Drop("process", S)
    BY <2>2, <2>3, RowsLetGo DEF RowQueue!Drop, RowStates
  <2> QED
    BY <2>4 DEF RowQueue!Next
<1>3. CASE VendorAnswers
  <2>1. PICK x : step' = [step EXCEPT !.exchange = x]
    BY <1>3 DEF VendorAnswers
  <2>2. step # NoStep /\ UNCHANGED <<batch, rows>>
    BY <1>3 DEF VendorAnswers
  <2>3. step'.row = step.row /\ step' # NoStep
    <3>1. "exchange" \in DOMAIN step /\ "exchange" \notin DOMAIN NoStep
      BY <2>2 DEF RunsRows, NoStep
    <3> QED
      BY <2>1, <3>1
  <2> QED
    BY <2>2, <2>3, RowsStutter DEF RowStates, InHand
<1>4. CASE RowEnds \/ RowEndsUncalled \/ RowRaises
  BY <1>4, EndsOrDrops DEF RowEnds, RowEndsUncalled, RowRaises
<1>5. ASSUME NEW r \in Rows, RowArrives(r)
      PROVE  RowQueue!Next
  <2>1. PICK S \in SUBSET Rows :
          S = {q \in Rows : rows[q] = "absent" /\ q[1] = r[1] /\ q[3] = r[3]}
    OBVIOUS
  <2>2. InHand' = InHand /\ \A q \in S : RowStates[q] = "absent"
    BY <1>5, <2>1 DEF RowArrives, RowStates, InHand
  <2>3. \A q \in Rows : RowStates'[q] = IF q \in S THEN "waiting" ELSE RowStates[q]
    BY <1>5, <2>1 DEF RowArrives, RowStates
  <2>4. RowQueue!Enqueue(S)
    BY <2>2, <2>3, RowsMarked DEF RowQueue!Enqueue
  <2> QED
    BY <2>4 DEF RowQueue!Next
<1>6. CASE \E r \in Rows : ClaimAges(r)
  <2>1. UNCHANGED <<RowStates, InHand>>
    BY <1>6 DEF ClaimAges, RowStates, InHand, Typed
  <2> QED
    BY <2>1, RowsStutter
<1> QED
  BY <1>1, <1>2, <1>3, <1>4, <1>5, <1>6, TickReleases, ClaimTakesRows, BeginKeepsRow
     DEF Next, LoopProgress, vars, LoopEnds, EndTick, PollTimeout, StopWakes, ServerStops,
         LifespanEnds, Restart

\* The process hands out its rows as ClaimQueue promises, wherever it is stopped,
\* restarted or a tick or step raises: what it has in hand is never claimed again
\* or released, and a row is finished only while it has it.
THEOREM RowsAlwaysClaimed == Spec => RowsClaimed
<1>1. Init => RowQueue!Init
  BY DEF Init, RowQueue!Init, RowStates, InHand
<1>2. InHandInTick /\ Budget /\ Typed /\ RunsRows /\ ClaimedOnce /\ [Next]_vars
        => [RowQueue!Next]_RowQueue!vars
  BY RowsClaimedStep DEF Budget
<1> QED
  BY <1>1, <1>2, InHandClaimedOnce, PTL DEF Spec, RowsClaimed, RowQueue!Spec

-----------------------------------------------------------------------------
(* What is shown of a stored success.                                      *)

After(fields, payload, name) ==
    IF Carries(payload, name) THEN Append(fields, Present(payload, name)) ELSE fields

\* normalize_receipt looks at its four fields one after the other.
LEMMA NormalizeUnrolled ==
    ASSUME NEW payload
    PROVE  normalize_receipt(payload) =
             After(After(After(After(<<>>, payload, "date"), payload, "amount"), payload, "tel"),
                   payload, "issuer")
<1> DEFINE a == After(<<>>, payload, "date")
           b == After(a, payload, "amount")
           c == After(b, payload, "tel")
           d == After(c, payload, "issuer")
           g == [n \in 0..4 |-> IF n = 0 THEN <<>> ELSE IF n = 1 THEN a ELSE IF n = 2 THEN b
                                ELSE IF n = 3 THEN c ELSE d]
           E(f, n) == IF n = 0 THEN <<>>
                ELSE IF Carries(payload, RECEIPT_FIELDS[n])
                THEN Append(f[n - 1], Present(payload, RECEIPT_FIELDS[n]))
                ELSE f[n - 1]
           Is(f) == f = [n \in 0..Len(RECEIPT_FIELDS) |-> E(f, n)]
<1>1. /\ Len(RECEIPT_FIELDS) = 4
      /\ RECEIPT_FIELDS[1] = "date" /\ RECEIPT_FIELDS[2] = "amount"
      /\ RECEIPT_FIELDS[3] = "tel" /\ RECEIPT_FIELDS[4] = "issuer"
  BY DEF RECEIPT_FIELDS
<1>2. ASSUME NEW f
      PROVE  /\ E(f, 0) = <<>> /\ E(f, 1) = After(f[0], payload, "date")
             /\ E(f, 2) = After(f[1], payload, "amount")
             /\ E(f, 3) = After(f[2], payload, "tel")
             /\ E(f, 4) = After(f[3], payload, "issuer")
  BY <1>1 DEF After
<1>3. \A n \in 0..4 : n = 0 \/ n = 1 \/ n = 2 \/ n = 3 \/ n = 4
  OBVIOUS
<1>4. g[0] = <<>> /\ g[1] = a /\ g[2] = b /\ g[3] = c /\ g[4] = d
  <2> HIDE DEF a, b, c, d
  <2> QED
    OBVIOUS
<1> HIDE DEF E
<1>5. Is(g)
  <2>1. \A n \in 0..4 : g[n] = E(g, n)
    <3> HIDE DEF g
    <3> QED
      BY <1>2, <1>3, <1>4
  <2>2. g = [n \in 0..4 |-> g[n]]
    <3> HIDE DEF a, b, c, d
    <3> QED
      OBVIOUS
  <2>3. g = [n \in 0..4 |-> E(g, n)]
    <3> HIDE DEF g
    <3> QED
      BY <2>1, <2>2
  <2> QED
    <3> HIDE DEF g
    <3> QED
      BY <1>1, <2>3
<1>6. ASSUME NEW f, Is(f) PROVE f[4] = d
  <2>1. \A n \in 0..4 : f[n] = E(f, n)
    BY <1>1, <1>6
  <2>2. f[0] = <<>> /\ f[1] = After(f[0], payload, "date")
    BY <1>2, <2>1
  <2>3. f[2] = After(f[1], payload, "amount")
    BY <1>2, <2>1
  <2>4. f[3] = After(f[2], payload, "tel")
    BY <1>2, <2>1
  <2>5. f[4] = After(f[3], payload, "issuer")
    BY <1>2, <2>1
  <2> QED
    BY <2>2, <2>3, <2>4, <2>5
<1>7. normalize_receipt(payload) = (CHOOSE f : Is(f))[4]
  BY <1>1 DEF normalize_receipt, E
<1> HIDE DEF Is, g, d
<1>8. Is(CHOOSE f : Is(f))
  BY <1>5
<1> QED
  BY <1>6, <1>7, <1>8 DEF d

\* A view of some of the fields: each of them that is carried, as it is presented.
View(fields, payload, names) ==
    /\ fields \in Seq({Present(payload, name) : name \in names})
    /\ \A i \in DOMAIN fields : \E name \in names :
        Carries(payload, name) /\ fields[i] = Present(payload, name)
    /\ \A name \in names : Carries(payload, name) =>
        \E i \in DOMAIN fields : fields[i] = Present(payload, name)

LEMMA ViewGrows ==
    ASSUME NEW payload, NEW fields, NEW names, NEW name, View(fields, payload, names)
    PROVE  View(After(fields, payload, name), payload, names \cup {name})
<1> DEFINE T == {Present(payload, n) : n \in names \cup {name}}
           new == Present(payload, name)
<1>1. fields \in Seq(T)
  BY DEF View
<1>2. CASE ~Carries(payload, name)
  BY <1>1, <1>2 DEF View, After
<1>3. CASE Carries(payload, name)
  <2>1. After(fields, payload, name) = Append(fields, new)
    BY <1>3 DEF After
  <2>2. new \in T
    OBVIOUS
  <2> HIDE DEF T
  <2> DEFINE more == Append(fields, new)
  <2>3. /\ more \in Seq(T)
        /\ Len(fields) \in Nat /\ DOMAIN fields = 1..Len(fields)
        /\ DOMAIN more = 1..(Len(fields) + 1)
        /\ \A i \in 1..Len(fields) : more[i] = fields[i]
        /\ more[Len(fields) + 1] = new
    <3> HIDE DEF new
    <3> QED
      BY <1>1, <2>2
  <2>4. \A i \in DOMAIN more : i \in DOMAIN fields \/ i = Len(fields) + 1
    <3> HIDE DEF more
    <3> QED
      BY <2>3
  <2>5. \A i \in DOMAIN fields : i \in DOMAIN more
    <3> HIDE DEF more
    <3> QED
      BY <2>3
  <2>6. Len(fields) + 1 \in DOMAIN more
    <3> HIDE DEF more
    <3> QED
      BY <2>3
  <2> HIDE DEF more
  <2>7. \A i \in DOMAIN more : \E n \in names \cup {name} :
          Carries(payload, n) /\ more[i] = Present(payload, n)
    BY <1>3, <2>3, <2>4 DEF View
  <2>8. \A n \in names \cup {name} : Carries(payload, n) =>
          \E i \in DOMAIN more : more[i] = Present(payload, n)
    BY <2>3, <2>5, <2>6 DEF View
  <2> QED
    BY <2>1, <2>3, <2>7, <2>8 DEF View, more, T
<1> QED
  BY <1>2, <1>3

\* What normalize_receipt returns: the fields that are carried, each as presented.
LEMMA NormalizeView ==
    ASSUME NEW payload
    PROVE  View(normalize_receipt(payload), payload, Fields)
<1> DEFINE a == After(<<>>, payload, "date")
           b == After(a, payload, "amount")
           c == After(b, payload, "tel")
           d == After(c, payload, "issuer")
<1>1. View(<<>>, payload, {})
  BY DEF View
<1>2. View(a, payload, {} \cup {"date"})
  BY <1>1, ViewGrows
<1>3. View(b, payload, ({} \cup {"date"}) \cup {"amount"})
  BY <1>2, ViewGrows
<1>4. View(c, payload, (({} \cup {"date"}) \cup {"amount"}) \cup {"tel"})
  BY <1>3, ViewGrows
<1>5. View(d, payload, ((({} \cup {"date"}) \cup {"amount"}) \cup {"tel"}) \cup {"issuer"})
  BY <1>4, ViewGrows
<1>6. Fields = ((({} \cup {"date"}) \cup {"amount"}) \cup {"tel"}) \cup {"issuer"}
  BY DEF Fields, RECEIPT_FIELDS
<1>7. normalize_receipt(payload) = d
  BY NormalizeUnrolled
<1> HIDE DEF d
<1> QED
  BY <1>5, <1>6, <1>7

\* An error or a refusal is never stored as a success of a page.
LEMMA SuccessIsReceipt ==
    ASSUME NEW x \in ExchangesOf("page"), Stores("page", x) = "succeeded"
    PROVE  x.body.payload \in Payloads
<1>1. x \in Unanswered \cup Answered(Receipts(Payloads) \cup Refusals \cup Malformed)
  BY DEF ExchangesOf, Exchanges
<1>2. x.came = "response"
  BY <1>1 DEF Unanswered, Answered, Stores, ResultOf, extract_receipt, Post, VendorError
<1>3. x \in Answered(Receipts(Payloads) \cup Refusals \cup Malformed)
  BY <1>1, <1>2 DEF Unanswered
<1>4. PICK body \in Receipts(Payloads) \cup Refusals \cup Malformed : x.body = body
  BY <1>3 DEF Answered
<1>5. Post(x).kind \notin {"error", "exception"}
  BY DEF Stores, ResultOf, extract_receipt
<1>6. body.form \notin {"refusal", "not_json", "not_object"}
  BY <1>2, <1>4, <1>5 DEF Post, VendorError, Refusal, Raised
<1>7. body \in Receipts(Payloads)
  BY <1>4, <1>6 DEF Refusals, Malformed
<1> QED
  BY <1>4, <1>7 DEF Receipts

\* Whatever the vendor answered and the worker stored as the success of a page is
\* shown with the fields it carries and the scores it gave them, and no others.
THEOREM AlwaysShowsWhatWasFound == Spec => []ShowsWhatWasFound
<1>1. TypeOK => ShowsWhatWasFound
  <2> SUFFICES ASSUME TypeOK, Called, step.row[1] = "page",
                      Stores("page", step.exchange) = "succeeded"
               PROVE  LET payload == step.exchange.body.payload
                          shown == normalize_receipt(payload)
                          Scores(key, score) ==
                            key \in DOMAIN payload.scores /\ payload.scores[key] = score
                      IN  NormalizeRaises(payload) \/
                          /\ {shown[i].name : i \in DOMAIN shown} = DOMAIN payload.values
                          /\ \A i \in DOMAIN shown, key \in DOMAIN payload.scores \ {"issuer"} :
                              ScoredAs(key, shown[i].name) =>
                                (shown[i].confidence = "score" <=> Scores(key, "score"))
    BY DEF ShowsWhatWasFound
  <2>1. step.exchange \in ExchangesOf("page")
    BY DEF Called, TypeOK
  <2>2. PICK payload : payload = step.exchange.body.payload
    OBVIOUS
  <2>3. payload \in Payloads
    BY <2>1, <2>2, SuccessIsReceipt
  <2>4. DOMAIN payload.values \subseteq Fields
    BY <2>3, SettingsAssumption
  <2>5. PICK shown : shown = normalize_receipt(payload)
    OBVIOUS
  <2>6. View(shown, payload, Fields)
    BY <2>5, NormalizeView
  <2>7. \A name \in Fields : /\ Present(payload, name).name = name
                             /\ Present(payload, name).confidence =
                                  parse_confidence(ScoreOf(payload, name))
    BY DEF Present
  <2>8. {shown[i].name : i \in DOMAIN shown} = DOMAIN payload.values
    BY <2>4, <2>6, <2>7 DEF View, Carries
  <2>9. ASSUME NEW i \in DOMAIN shown, NEW key \in DOMAIN payload.scores \ {"issuer"},
               ScoredAs(key, shown[i].name)
        PROVE  shown[i].confidence = "score" <=> payload.scores[key] = "score"
    <3>1. PICK name \in Fields : shown[i] = Present(payload, name)
      BY <2>6 DEF View
    <3>2. shown[i].name = name /\ shown[i].confidence = parse_confidence(ScoreOf(payload, name))
      BY <2>7, <3>1
    <3>3. key = ConfidenceKey(name)
      BY <2>9, <3>2 DEF ScoredAs, ConfidenceKey
    <3>4. ScoreOf(payload, name) = payload.scores[key]
      BY <3>3 DEF ScoreOf
    <3> QED
      BY <3>2, <3>4 DEF parse_confidence, NoScore
  <2> QED
    BY <2>2, <2>5, <2>8, <2>9
<1> QED
  BY <1>1, LoopTypeCorrect, PTL

=============================================================================
