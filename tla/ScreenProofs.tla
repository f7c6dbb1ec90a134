---------------------------- MODULE ScreenProofs -----------------------------
(***************************************************************************)
(* What the record and the screens show, for any number of documents,      *)
(* pages, workers, engines and edits of the registry: the columns of an    *)
(* attempt are typed; when nobody works on a claim that another may        *)
(* release, the attempt listed first is the one that the status of its     *)
(* page follows, and a screen that has stopped polling shows what is       *)
(* final.                                                                  *)
(***************************************************************************)
EXTENDS HistoryProofs, StatusProofs

\* A step of History is one of the pipeline, which is recorded, or changes neither
\* the pipeline nor the record.
LEMMA HistorySteps ==
    ASSUME [HistoryNext]_historyVars
    PROVE  \/ RecordedStep
           \/ UNCHANGED <<vars, begun, opened, entries>> /\ AdministratorReprices
           \/ UNCHANGED <<vars, registry, begun, opened, entries>>
  BY DEF HistoryNext, AdministratorReprices, Read, historyVars

\* An extract step that does not begin goes on with its page.
LEMMA ExtractGoesOn ==
    ASSUME TypeOK, [Next]_vars, NEW w \in Workers, step'[w].kind = "extract", step[w] # NoStep
    PROVE  step[w].kind = "extract" /\ step'[w].page = step[w].page
<1>1. DOMAIN step = Workers
  BY DEF TypeOK, WorkerTypeOK
<1>2. CASE step'[w] = step[w]
  BY <1>2
<1>3. CASE step'[w] # step[w]
  <2>1. PICK v \in Workers : WorkerProgress(v) \/ WorkerFault(v)
    BY <1>3 DEF Next, WorkerNext, RequestNext, RetryArrives, RetryLoads, RetryProgress,
         RetrySelectsFailed, RetrySelectsPage, RetryRequeues, RetryRestarts, Environment,
         DocumentArrives, AdministratorSwitchesEngines, ClaimsAge, DocumentClaimAges,
         PageClaimAges, vars, workerVars
  <2>2. CASE step' = [step EXCEPT ![v] = NoStep]
    BY <1>1, <1>3, <2>2 DEF NoStep
  <2>3. CASE BeginConvert(v) \/ BeginExtract(v)
    <3>1. step[v] = NoStep /\ \E new : step' \in {step, [step EXCEPT ![v] = new]}
      BY <2>3 DEF BeginConvert, BeginExtract
    <3> QED
      BY <1>1, <1>3, <3>1
  <2>4. CASE VendorAnswers(v)
    <3>1. PICK o, n : step' = [step EXCEPT ![v].stage = "insert", ![v].outcome = o,
                                           ![v].attempt_no = n]
      BY <2>4 DEF VendorAnswers
    <3>2. step[v] \in ExtractStep /\ v = w
      BY <1>1, <1>3, <2>4, <3>1, StepShapes DEF VendorAnswers, AtStage, TypeOK
    <3> QED
      BY <1>1, <3>1, <3>2 DEF ExtractStep
  <2>5. CASE RecordAttempt(v)
    <3>1. v = w
      BY <1>1, <1>3, <2>5 DEF RecordAttempt
    <3> QED
      BY <2>5, <3>1, RecordWrites DEF RecordAttempt, AtStage
  <2>6. CASE DeriveStatus(v)
    <3>1. v = w
      BY <1>1, <1>3, <2>6 DEF DeriveStatus
    <3> QED
      BY <2>6, <3>1, DeriveWrites DEF DeriveStatus, AtStage
  <2> QED
    BY <1>3, <2>1, <2>2, <2>3, <2>4, <2>5, <2>6
       DEF WorkerProgress, WorkerFault, ReleaseAbandonedClaims, ClaimDocuments, ClaimPages, EndTick,
           ConvertSucceeds, ConvertFails, AttemptCollides, CommitAttempt, StepRaises, Crash, EndStep
<1> QED
  BY <1>2, <1>3

-----------------------------------------------------------------------------
(* The types of the record.                                                *)

\* An extract step has a time at which it began, and the listing it has loaded.
ListingsStand ==
    /\ begun \in Nat
    /\ registry \in [Engines -> Listings \cup {Seeded}]
    /\ \A w \in Workers : step[w].kind = "extract" =>
        /\ opened[w].created_at \in 1..begun
        /\ opened[w].listing \in Listings \cup {Seeded}
EntriesStand == DOMAIN entries = extractions /\ \A x \in extractions : entries[x] \in EntryRow

LEMMA EntryTyped ==
    ASSUME ListingsStand, NEW w \in Workers, Stores(w)
    PROVE  Entry(w) \in EntryRow /\ Entry(w).created_at = opened[w].created_at
<1>1. step[w].kind = "extract"
  BY DEF Stores, AtStage
<1>2. PICK l : l = opened[w].listing
  OBVIOUS
<1>3. l \in Listings \cup {Seeded} /\ opened[w].created_at \in Nat \ {0}
  BY <1>1, <1>2 DEF ListingsStand
<1>4. l.version \in Nat /\ l.unit_cost \in Nat \cup {NoPrice}
  BY <1>3, ListingAssumption DEF EngineRow, Seeded, NoPrice
<1>5. UsageQty(l) \in {1, NoPrice}
  BY DEF UsageQty
<1>6. Cost(l) \in Nat \cup {NoPrice}
  BY <1>4, <1>5 DEF Cost
<1> QED
  BY <1>2, <1>3, <1>4, <1>5, <1>6 DEF Entry, ListingUsed, EntryRow

\* What is stored keeps its columns, and what a commit stores has those of its own
\* step.
LEMMA EntriesWritten ==
    ASSUME Sound, RecordedStep, NEW x \in extractions'
    PROVE  \/ x \in extractions /\ entries'[x] = entries[x]
           \/ /\ x \notin extractions
              /\ \E w \in Workers :
                    CommitAttempt(w) /\ Stores(w) /\ x = Inserted(w) /\ entries'[x] = Entry(w)
<1>1. CASE x \in extractions
  BY <1>1 DEF RecordedStep
<1>2. CASE x \notin extractions
  <2>1. PICK w \in Workers : CommitAttempt(w)
    BY <1>2, OnlyCommitsRecord DEF RecordedStep
  <2>2. x = Inserted(w) /\ Stores(w)
    BY <1>2, <2>1 DEF CommitAttempt, Stores
  <2>3. PICK v : v = CHOOSE u \in Workers : Stores(u) /\ Inserted(u) = x
    OBVIOUS
  <2>4. v \in Workers /\ Stores(v) /\ Inserted(v) = x
    BY <2>2, <2>3
  <2>5. v = w
    BY <2>2, <2>4, StoredByOne DEF Sound
  <2>6. entries'[x] = Entry(v)
    BY <1>2, <2>3 DEF RecordedStep
  <2> QED
    BY <1>2, <2>1, <2>2, <2>5, <2>6
<1> QED
  BY <1>1, <1>2

LEMMA ListingsStandStep ==
    ASSUME Sound, Sound', ListingsStand, [HistoryNext]_historyVars
    PROVE  ListingsStand'
<1>1. CASE RecordedStep
  <2>1. /\ UNCHANGED registry /\ begun' \in Nat /\ begun <= begun'
        /\ \A w \in Workers : Opens(w) => begun' = begun + 1
    BY <1>1 DEF RecordedStep, ListingsStand
  <2>2. ASSUME NEW w \in Workers, step'[w].kind = "extract"
        PROVE  /\ opened'[w].created_at \in 1..begun'
               /\ opened'[w].listing \in Listings \cup {Seeded}
    <3>1. step'[w] # NoStep
      BY <2>2 DEF NoStep
    <3>2. CASE Opens(w)
      <4>1. step'[w].engine \in Engines
        BY <2>2 DEF Sound, TypeOK, WorkerTypeOK, NoStep, ConvertStep, ExtractStep
      <4>2. opened'[w] = [created_at |-> begun', listing |-> registry[step'[w].engine]]
        BY <1>1, <3>2 DEF RecordedStep
      <4> QED
        BY <2>1, <3>2, <4>1, <4>2 DEF ListingsStand
    <3>3. CASE ~Opens(w)
      <4>1. opened'[w] = opened[w]
        BY <1>1, <3>1, <3>3 DEF RecordedStep
      <4>2. step[w].kind = "extract"
        BY <1>1, <2>2, <3>3, ExtractGoesOn DEF Opens, RecordedStep, Sound
      <4> QED
        BY <2>1, <4>1, <4>2 DEF ListingsStand
    <3> QED
      BY <3>2, <3>3
  <2> QED
    BY <2>1, <2>2 DEF ListingsStand
<1>2. CASE UNCHANGED <<vars, begun, opened, entries>> /\ AdministratorReprices
  BY <1>2 DEF AdministratorReprices, ListingsStand, vars, workerVars
<1>3. CASE UNCHANGED <<vars, registry, begun, opened, entries>>
  BY <1>3 DEF ListingsStand, vars, workerVars
<1> QED
  BY <1>1, <1>2, <1>3, HistorySteps

LEMMA EntriesStandStep ==
    ASSUME Sound, ListingsStand, EntriesStand, [HistoryNext]_historyVars
    PROVE  EntriesStand'
<1>1. CASE RecordedStep
  <2>1. DOMAIN entries' = extractions'
    BY <1>1 DEF RecordedStep
  <2> QED
    BY <1>1, <2>1, EntriesWritten, EntryTyped DEF EntriesStand
<1>2. CASE UNCHANGED <<vars, entries>>
  BY <1>2 DEF EntriesStand, vars, tableVars
<1> QED
  BY <1>1, <1>2, HistorySteps

LEMMA RecordStands == HistorySpec => [](Sound /\ ListingsStand /\ EntriesStand)
<1>1. HistoryInit => ListingsStand /\ EntriesStand
  BY DEF HistoryInit, Init, TablesInit, WorkerInit, NoStep, ListingsStand, EntriesStand
<1>2. HistorySpec => []Sound
  BY HistoryImplementsPipeline, AlwaysSound, PTL
<1> QED
  BY <1>1, <1>2, ListingsStandStep, EntriesStandStep, PTL DEF HistorySpec

\* Every attempt has its columns, of their types, and an attempt under way has the
\* time at which it began, for any listings, edits and interleaving: no price is
\* ever computed of what the registry leaves open.
THEOREM HistoryTypeCorrect == HistorySpec => []HistoryTypeOK
<1>1. Sound /\ ListingsStand /\ EntriesStand => HistoryTypeOK
  BY DEF Sound, ListingsStand, EntriesStand, HistoryTypeOK
<1> QED
  BY <1>1, RecordStands, PTL

-----------------------------------------------------------------------------
(* The order of the attempts.                                              *)

\* Attempts are dated when their steps begin; a page that is run has only older
\* ones.
EntriesBegun == \A x \in extractions : entries[x].created_at <= begun
RunBeganLast ==
    \A w \in Workers : step[w].kind = "extract" =>
        \A x \in AttemptsOn(step[w].page) : entries[x].created_at < opened[w].created_at

\* The latest attempt of a finished page is the one that finished it, and none is
\* as late; attempts are dated in the order of their numbers.
LatestIsStatus ==
    \A p \in Pages : pages[p].status \in ExtractionStatus =>
        \E x \in AttemptsOn(p) :
            /\ x.status = pages[p].status
            /\ \A y \in AttemptsOn(p) \ {x} : entries[y].created_at < entries[x].created_at
NumbersFollow ==
    \A x, y \in extractions :
        x.page = y.page /\ x.engine_key = y.engine_key /\ x.attempt_no < y.attempt_no =>
            entries[x].created_at < entries[y].created_at

InOrder == EntriesBegun /\ RunBeganLast /\ LatestIsStatus /\ NumbersFollow

\* A step that stores no attempt.
LEMMA InOrderKept ==
    ASSUME Sound, ListingsStand, EntriesStand, InOrder, RecordedStep, UNCHANGED extractions,
           \A w \in Workers : ~CommitAttempt(w)
    PROVE  InOrder'
<1>1. [Next]_vars /\ TypeOK
  BY DEF RecordedStep, Sound
<1>2. \A x \in extractions : entries'[x] = entries[x] /\ entries[x].created_at \in Nat
  BY DEF RecordedStep, EntriesStand, EntryRow
<1>3. \A p \in Pages : AttemptsOn(p)' = AttemptsOn(p) /\ AttemptsOn(p) \subseteq extractions
  BY DEF AttemptsOn
<1>4. /\ begun \in Nat /\ begun' \in Nat /\ begun <= begun'
      /\ \A w \in Workers : Opens(w) => begun' = begun + 1
  BY DEF RecordedStep, ListingsStand
<1>5. EntriesBegun'
  BY <1>2, <1>4 DEF InOrder, EntriesBegun
<1>6. ASSUME NEW w \in Workers, step'[w].kind = "extract", NEW p, p = step'[w].page,
             NEW x \in AttemptsOn(p)'
      PROVE  entries'[x].created_at < opened'[w].created_at
  <2>1. x \in extractions /\ x.page = p
    BY <1>6 DEF AttemptsOn
  <2>2. CASE Opens(w)
    <3>1. opened'[w].created_at = begun'
      BY <2>2 DEF RecordedStep
    <3>2. entries[x].created_at <= begun
      BY <2>1 DEF InOrder, EntriesBegun
    <3> QED
      BY <1>2, <1>4, <2>1, <2>2, <3>1, <3>2
  <2>3. CASE ~Opens(w)
    <3>1. step'[w] # NoStep
      BY <1>6 DEF NoStep
    <3>2. opened'[w] = opened[w]
      BY <2>3, <3>1 DEF RecordedStep
    <3>3. step[w].kind = "extract" /\ p = step[w].page
      BY <1>1, <1>6, <2>3, ExtractGoesOn DEF Opens
    <3>4. entries[x].created_at < opened[w].created_at
      BY <2>1, <3>3 DEF InOrder, RunBeganLast, AttemptsOn
    <3> QED
      BY <1>2, <2>1, <3>2, <3>4
  <2> QED
    BY <2>2, <2>3
<1>7. RunBeganLast'
  BY <1>6 DEF RunBeganLast
<1>8. LatestIsStatus'
  <2>1. SUFFICES ASSUME NEW p \in Pages, pages'[p].status \in ExtractionStatus
                 PROVE  \E x \in AttemptsOn(p) :
                          /\ x.status = pages'[p].status
                          /\ \A y \in AttemptsOn(p) \ {x} :
                                entries'[y].created_at < entries'[x].created_at
    BY <1>3 DEF LatestIsStatus
  <2>2. pages'[p].status = pages[p].status
    BY <1>1, <2>1, OnlyCommitsFinish
  <2>3. PICK x \in AttemptsOn(p) :
          /\ x.status = pages[p].status
          /\ \A y \in AttemptsOn(p) \ {x} : entries[y].created_at < entries[x].created_at
    BY <2>1, <2>2 DEF InOrder, LatestIsStatus
  <2> QED
    BY <1>2, <1>3, <2>2, <2>3
<1>9. NumbersFollow'
  BY <1>2 DEF InOrder, NumbersFollow
<1> QED
  BY <1>5, <1>7, <1>8, <1>9 DEF InOrder

\* The attempt that a step commits is the last of its page on its engine.
LEMMA CommitsLast ==
    ASSUME Sound, NEW w \in Workers, CommitAttempt(w), NEW y \in extractions,
           y.page = step[w].page, y.engine_key = step[w].engine
    PROVE  /\ ~KeyStored(w) /\ step[w].attempt_no \in Nat /\ y.attempt_no \in Nat
           /\ y.attempt_no < step[w].attempt_no
<1>1. Holding(w) /\ Recording(w) /\ step[w] \in ExtractStep
  BY StepShapes DEF CommitAttempt, Holding, Recording, AtStage, Sound, TypeOK
<1>2. ~KeyStored(w) /\ step[w].attempt_no \in Nat \ {0}
  BY <1>1 DEF Sound, Numbering, KeysHeldOnce, AttemptsFollow
<1>3. step[w].page \in Pages /\ step[w].engine \in Engines
  BY <1>1 DEF ExtractStep
<1>4. PICK k \in Nat : AttemptNos(step[w].page, step[w].engine) = 1..k
  BY <1>3 DEF Sound, Numbering, Contiguous
<1>5. y.attempt_no \in 1..k
  BY <1>4 DEF AttemptNos, Attempts
<1>6. step[w].attempt_no \notin 1..k
  <2>1. SUFFICES ASSUME step[w].attempt_no \in AttemptNos(step[w].page, step[w].engine)
                 PROVE  FALSE
    BY <1>4
  <2>2. PICK x \in extractions : /\ x.page = step[w].page /\ x.engine_key = step[w].engine
                                 /\ x.attempt_no = step[w].attempt_no
    BY <2>1 DEF AttemptNos, Attempts
  <2> QED
    BY <1>2, <2>2 DEF KeyStored, SameKey, Inserted
<1> QED
  BY <1>2, <1>5, <1>6

LEMMA InOrderCommit ==
    ASSUME Sound, Sound', Hands, ListingsStand, EntriesStand, InOrder, RecordedStep,
           NEW w \in Workers, CommitAttempt(w)
    PROVE  InOrder'
<1>1. PICK new : new = Inserted(w)
  OBVIOUS
<1>2. PICK q, o, date : q = step[w].page /\ o = step[w].outcome /\ date = opened[w].created_at
  OBVIOUS
<1>3. /\ Recording(w) /\ step[w].kind = "extract" /\ step[w] \in ExtractStep
      /\ DOMAIN step = Workers
  BY StepShapes DEF CommitAttempt, Recording, AtStage, Sound, TypeOK, WorkerTypeOK
<1>4. q \in Pages
  BY <1>2, <1>3 DEF ExtractStep
<1>5. /\ new.page = q /\ new.engine_key = step[w].engine /\ new.attempt_no = step[w].attempt_no
      /\ new.status = o /\ extractions' = extractions \cup {new}
  BY <1>1, <1>2 DEF Inserted, CommitAttempt
<1>6. new \notin extractions
  <2>1. Holding(w)
    BY DEF CommitAttempt, Holding, AtStage
  <2>2. ~KeyStored(w)
    BY <2>1 DEF Sound, Numbering, KeysHeldOnce
  <2> QED
    BY <1>1, <2>2 DEF KeyStored, SameKey
<1>7. \A x \in extractions : entries'[x] = entries[x] /\ entries[x].created_at \in Nat
  BY <1>5 DEF RecordedStep, EntriesStand, EntryRow
<1>8. entries'[new].created_at = date
  <2>1. PICK v \in Workers :
          CommitAttempt(v) /\ Stores(v) /\ new = Inserted(v) /\ entries'[new] = Entry(v)
    BY <1>5, <1>6, EntriesWritten
  <2>2. Stores(w)
    BY <1>1, <1>5, <1>6 DEF Stores, CommitAttempt
  <2>3. v = w
    BY <1>1, <2>1, <2>2, StoredByOne DEF Sound
  <2> QED
    BY <1>2, <2>1, <2>2, <2>3, EntryTyped
<1>9. date \in Nat /\ begun \in Nat /\ date <= begun /\ begun' \in Nat /\ begun <= begun'
  BY <1>2, <1>3 DEF RecordedStep, ListingsStand
<1>10. \A p \in Pages \ {q} : AttemptsOn(p)' = AttemptsOn(p)
  BY <1>5 DEF AttemptsOn
<1>11. AttemptsOn(q)' = AttemptsOn(q) \cup {new}
  BY <1>5 DEF AttemptsOn
<1>12. \A x \in AttemptsOn(q) : x \in extractions /\ entries[x].created_at < date
  BY <1>2, <1>3 DEF InOrder, RunBeganLast, AttemptsOn
<1>13. EntriesBegun'
  BY <1>5, <1>7, <1>8, <1>9 DEF InOrder, EntriesBegun
<1>14. RunBeganLast'
  <2>1. SUFFICES ASSUME NEW v \in Workers, step'[v].kind = "extract",
                        NEW p, p = step'[v].page, NEW x \in AttemptsOn(p)'
                 PROVE  entries'[x].created_at < opened'[v].created_at
    BY DEF RunBeganLast
  <2>2. step' = [step EXCEPT ![w] = NoStep]
    BY DEF CommitAttempt, EndStep
  <2>3. NoStep.kind = "none"
    BY DEF NoStep
  <2>4. v # w /\ step'[v] = step[v] /\ step[v] # NoStep /\ step'[v] # NoStep
    BY <1>3, <2>1, <2>2, <2>3
  <2>5. p \in Pages /\ Extracting(v, p) /\ Extracting(w, q)
    BY <1>2, <1>3, <2>1, <2>4, StepShapes DEF Extracting, Sound, TypeOK, ExtractStep
  <2>6. p # q
    BY <1>4, <2>4, <2>5 DEF Hands, HeldOnce, HoldsPage
  <2>7. x \in AttemptsOn(p) /\ x \in extractions
    BY <1>10, <2>1, <2>5, <2>6 DEF AttemptsOn
  <2>8. opened'[v] = opened[v]
    BY <2>4 DEF RecordedStep, Opens
  <2>9. entries[x].created_at < opened[v].created_at
    BY <2>1, <2>4, <2>7 DEF InOrder, RunBeganLast
  <2> QED
    BY <1>7, <2>7, <2>8, <2>9
<1>15. LatestIsStatus'
  <2>1. SUFFICES ASSUME NEW p \in Pages, pages'[p].status \in ExtractionStatus
                 PROVE  \E x \in AttemptsOn(p)' :
                          /\ x.status = pages'[p].status
                          /\ \A y \in AttemptsOn(p)' \ {x} :
                                entries'[y].created_at < entries'[x].created_at
    BY DEF LatestIsStatus
  <2>2. pages' = [pages EXCEPT ![q] = Finished(step[w], @)] /\ DOMAIN pages = Pages
    BY <1>2 DEF CommitAttempt, Sound, TypeOK, TablesTypeOK
  <2>3. CASE p = q
    <3>1. pages'[q].status = o
      BY <1>2, <1>3, <1>4, <2>2, OutcomeWritten, HandsUnfinished
    <3> QED
      BY <1>5, <1>7, <1>8, <1>11, <1>12, <2>3, <3>1
  <2>4. CASE p # q
    <3>1. pages'[p] = pages[p]
      BY <2>2, <2>4
    <3>2. PICK x \in AttemptsOn(p) :
            /\ x.status = pages[p].status
            /\ \A y \in AttemptsOn(p) \ {x} : entries[y].created_at < entries[x].created_at
      BY <2>1, <3>1 DEF InOrder, LatestIsStatus
    <3>3. \A y \in AttemptsOn(p) : entries'[y] = entries[y]
      BY <1>7 DEF AttemptsOn
    <3> QED
      BY <1>10, <2>4, <3>1, <3>2, <3>3
  <2> QED
    BY <2>3, <2>4
<1>16. NumbersFollow'
  <2>1. SUFFICES ASSUME NEW x \in extractions', NEW y \in extractions', x.page = y.page,
                        x.engine_key = y.engine_key, x.attempt_no < y.attempt_no
                 PROVE  entries'[x].created_at < entries'[y].created_at
    BY DEF NumbersFollow
  <2>2. CASE x \in extractions /\ y \in extractions
    BY <1>7, <2>1, <2>2 DEF InOrder, NumbersFollow
  <2>3. CASE x \in extractions /\ y = new
    BY <1>5, <1>7, <1>8, <1>12, <2>1, <2>3 DEF AttemptsOn
  <2>4. CASE x = new /\ y \in extractions
    BY <1>2, <1>5, <2>1, <2>4, CommitsLast
  <2>5. CASE x = new /\ y = new
    <3>1. new.attempt_no \in Nat
      BY <1>3, <1>5 DEF ExtractStep
    <3> QED
      BY <2>1, <2>5, <3>1
  <2> QED
    BY <1>5, <2>2, <2>3, <2>4, <2>5
<1> QED
  BY <1>13, <1>14, <1>15, <1>16 DEF InOrder

LEMMA InOrderStep ==
    ASSUME Sound, Sound', Hands, ListingsStand, EntriesStand, InOrder, [HistoryNext]_historyVars
    PROVE  InOrder'
<1>1. CASE RecordedStep /\ \E w \in Workers : CommitAttempt(w)
  BY <1>1, InOrderCommit
<1>2. CASE RecordedStep /\ \A w \in Workers : ~CommitAttempt(w)
  <2>1. UNCHANGED extractions
    BY <1>2, OnlyCommitsRecord DEF RecordedStep
  <2> QED
    BY <1>2, <2>1, InOrderKept
<1>3. CASE UNCHANGED <<vars, begun, opened, entries>>
  BY <1>3 DEF InOrder, EntriesBegun, RunBeganLast, LatestIsStatus, NumbersFollow, AttemptsOn, vars,
              tableVars, workerVars
<1> QED
  BY <1>1, <1>2, <1>3, HistorySteps

\* The attempt shown first of a finished page is the one whose outcome the page
\* has, and attempts are dated in the order of their numbers: with one worker on a
\* page at a time the steps of a page begin in the order in which they commit.
\* Where two may run a page at once it fails (overlapping_runs).
THEOREM HistoryAlwaysInOrder ==
    ASSUME OnTime
    PROVE  HistorySpec /\ []OneAtATime => []HistoryInOrder
<1>1. EntriesStand /\ InOrder => HistoryInOrder
  <2>1. SUFFICES ASSUME EntriesStand, InOrder, NEW p \in Pages, pages[p].status \in ExtractionStatus
                 PROVE  FirstShown(AttemptsOn(p)).status = pages[p].status
    BY DEF InOrder, NumbersFollow, HistoryInOrder, StatusFollowsNewest, ListedByNumber
  <2>2. PICK x \in AttemptsOn(p) :
          /\ x.status = pages[p].status
          /\ \A y \in AttemptsOn(p) \ {x} : entries[y].created_at < entries[x].created_at
    BY <2>1 DEF InOrder, LatestIsStatus
  <2>3. \A y \in AttemptsOn(p) : entries[y].created_at \in Nat
    BY <2>1 DEF EntriesStand, EntryRow, AttemptsOn
  <2>4. PICK first : first = FirstShown(AttemptsOn(p))
    OBVIOUS
  <2>5. /\ first \in AttemptsOn(p)
        /\ \A y \in AttemptsOn(p) : entries[y].created_at <= entries[first].created_at
    <3>1. \A y \in AttemptsOn(p) : entries[y].created_at <= entries[x].created_at
      BY <2>2, <2>3
    <3> QED
      BY <2>2, <2>4, <3>1 DEF FirstShown
  <2>6. first = x
    BY <2>2, <2>3, <2>5
  <2> QED
    BY <2>2, <2>4, <2>6
<1>2. HistoryInit => InOrder
  <2>1. AbsentPage.status \notin ExtractionStatus
    BY DEF AbsentPage, ExtractionStatus
  <2> QED
    BY <2>1 DEF HistoryInit, Init, TablesInit, WorkerInit, NoStep, InOrder, EntriesBegun,
                RunBeganLast, LatestIsStatus, NumbersFollow, AttemptsOn
<1>3. HistorySpec /\ []OneAtATime => []Hands
  <2>1. Timely => Hands
    BY DEF Timely
  <2> QED
    BY <2>1, HistoryImplementsPipeline, TimelyAlways, PTL
<1> QED
  BY <1>1, <1>2, <1>3, InOrderStep, RecordStands, PTL DEF HistorySpec

-----------------------------------------------------------------------------
(* The screen that has stopped polling.                                    *)

ViewTyped ==
    /\ view.stage \in {"none", "document", "pages", "shown"}
    /\ view.stage # "none" => view.document \in Documents

\* As long as nobody asks for a retry, a document that was read at rest is at rest,
\* and what was read of it since is all there is.
ViewFinal ==
    NoneAsked /\ view.stage # "none" /\ view.status \in Resting =>
        /\ documents[view.document].status \in Resting
        /\ view.stage \in {"pages", "shown"} =>
            /\ DOMAIN view.pages = PagesOf(view.document)
            /\ \A p \in PagesOf(view.document) : view.pages[p] = pages[p].status
        /\ view.stage = "shown" =>
            \A p \in PagesOf(view.document) : AttemptsOn(p) \subseteq view.attempts

\* A document at rest has only finished pages, and nothing of it changes until a
\* retry is asked for.
LEMMA RestIsFinished ==
    ASSUME DocumentsTimely, NEW d \in Documents, documents[d].status \in Resting
    PROVE  \A p \in PagesOf(d) : pages[p].status \in ExtractionStatus
<1>1. Statuses(d) \subseteq ExtractionStatus
  BY DEF DocumentsTimely, RestingStands, RestsAsSaid, Resting, ExtractionStatus
<1> QED
  BY <1>1 DEF Statuses

LEMMA RestStays ==
    ASSUME Sound, Sound', Timely, DocumentsTimely, NoneAsked, [Next]_vars,
           NEW d \in Documents, documents[d].status \in Resting
    PROVE  /\ documents'[d].status = documents[d].status
           /\ PagesOf(d)' = PagesOf(d)
           /\ \A p \in PagesOf(d) :
                pages'[p].status = pages[p].status /\ AttemptsOn(p)' = AttemptsOn(p)
<1>1. \A p \in PagesOf(d) : p \in Pages /\ p[1] = d /\ pages[p].status \in ExtractionStatus
  BY RestIsFinished DEF PagesOf
<1>2. documents[d].status \notin {"absent", "pending", "converting"}
  BY DEF Resting
<1>3. \A r \in Requests : request[r].stage = "new"
  BY DEF NoneAsked, NewRequest
<1>4. \A r \in Requests : ~RetryRequeues(r) /\ ~RetryRestarts(r)
  BY <1>3 DEF RetryRequeues, RetryRestarts
<1>5. \A w \in Workers : ~Converting(w, d)
  BY <1>2 DEF DocumentsTimely, ConversionsTimely, DocumentHands, DocumentsInHand, HeldHaveNoPages,
              HoldsDocument
<1>6. PagesOf(d)' = PagesOf(d)
  BY <1>2, PagesOfStays, OnlyHeldConvert DEF DocumentsTimely, ConversionsTimely
<1>7. \A w \in Workers : CommitAttempt(w) => step[w].page[1] # d
  <2>1. SUFFICES ASSUME NEW w \in Workers, CommitAttempt(w), step[w].page[1] = d
                 PROVE  FALSE
    OBVIOUS
  <2>2. step[w].page \in PagesOf(d) /\ pages[step[w].page].status = "processing"
    BY <2>1, CommitsRunningPage DEF CommitAttempt, AtStage, Timely
  <2> QED
    BY <1>1, <2>2 DEF ExtractionStatus
<1>8. documents'[d].status = documents[d].status
  <2>1. DocumentMoves(d)
    BY DocumentsMove, AllConvertAsClaimed DEF Sound, DocumentsTimely, ConversionsTimely
  <2> QED
    BY <1>2, <1>4, <1>5, <1>7, <2>1 DEF DocumentMoves
<1>9. ASSUME NEW p \in PagesOf(d)
      PROVE  pages'[p].status = pages[p].status
  BY <1>1, <1>4, FinishedUnlessRequeued DEF Requeueing, Timely
<1>10. ASSUME NEW p \in PagesOf(d)
       PROVE  AttemptsOn(p)' = AttemptsOn(p)
  <2>1. CASE UNCHANGED extractions
    BY <2>1 DEF AttemptsOn
  <2>2. ASSUME NEW w \in Workers, CommitAttempt(w)
        PROVE  AttemptsOn(p)' = AttemptsOn(p)
    <3>1. PICK new : new = Inserted(w)
      OBVIOUS
    <3>2. extractions' = extractions \cup {new} /\ new.page = step[w].page
      BY <2>2, <3>1 DEF CommitAttempt, Inserted
    <3>3. new.page # p
      BY <1>1, <1>7, <2>2, <3>2
    <3> QED
      BY <3>2, <3>3 DEF AttemptsOn
  <2> QED
    BY <2>1, <2>2, OnlyCommitsRecord
<1> QED
  BY <1>6, <1>8, <1>9, <1>10

LEMMA ViewTypedStep ==
    ASSUME ViewTyped, [HistoryNext]_historyVars
    PROVE  ViewTyped'
<1>1. CASE UNCHANGED view
  BY <1>1 DEF ViewTyped
<1>2. ASSUME NEW d \in Documents, ReadDocument(d)
      PROVE  ViewTyped'
  BY <1>2 DEF ReadDocument, ViewTyped
<1>3. CASE ReadPages
  <2>1. view.stage # "none"
    BY <1>3 DEF ReadPages
  <2>2. view'.stage \in {"pages", "shown"} /\ view'.document = view.document
    BY <1>3 DEF ReadPages
  <2> QED
    BY <2>1, <2>2 DEF ViewTyped
<1>4. CASE ScreenCloses
  BY <1>4 DEF ScreenCloses, NoView, ViewTyped
<1> QED
  BY <1>1, <1>2, <1>3, <1>4
     DEF HistoryNext, RecordedStep, AdministratorReprices, Read, historyVars

LEMMA ViewFinalStep ==
    ASSUME Sound, Sound', NoneAsked => Timely /\ DocumentsTimely, ViewTyped, ViewFinal,
           [HistoryNext]_historyVars
    PROVE  ViewFinal'
<1>1. [Next]_vars
  BY HistoryStepIsPipelineStep
<1>2. SUFFICES ASSUME NoneAsked'
               PROVE  ViewFinal'
  BY DEF ViewFinal
<1>3. NoneAsked
  BY <1>1, <1>2, NoneAskedBefore
<1>4. CASE UNCHANGED view
  <2>1. SUFFICES ASSUME view.stage # "none", view.status \in Resting,
                        NEW d, d = view.document
                 PROVE  ViewFinal'
    BY <1>4 DEF ViewFinal
  <2>2. d \in Documents /\ documents[d].status \in Resting
    BY <1>3, <2>1 DEF ViewTyped, ViewFinal
  <2>3. /\ documents'[d].status = documents[d].status
        /\ PagesOf(d)' = PagesOf(d)
        /\ \A p \in PagesOf(d) :
             pages'[p].status = pages[p].status /\ AttemptsOn(p)' = AttemptsOn(p)
    BY <1>1, <1>3, <2>2, RestStays
  <2>4. view' = view /\ view'.document = d
    BY <1>4, <2>1
  <2> QED
    BY <1>3, <2>1, <2>2, <2>3, <2>4 DEF ViewFinal
<1>5. CASE Read
  <2>1. UNCHANGED <<documents, pages, extractions>>
    BY <1>5 DEF Read, vars, tableVars
  <2>2. \A d \in Documents : PagesOf(d)' = PagesOf(d)
    BY <2>1 DEF PagesOf
  <2>3. ASSUME NEW d \in Documents, ReadDocument(d)
        PROVE  ViewFinal'
    <3>1. /\ view'.stage = "document" /\ view'.document = d
          /\ view'.status = documents[d].status
      BY <2>3 DEF ReadDocument
    <3> QED
      BY <2>1, <3>1 DEF ViewFinal
  <2>4. CASE view.stage = "document" /\ ReadPages
    <3>1. PICK d : d = view.document
      OBVIOUS
    <3>2. PICK read : read = [p \in PagesOf(d) |-> pages[p].status]
      OBVIOUS
    <3>3. /\ view'.stage = "pages" /\ view'.document = d /\ view'.status = view.status
          /\ view'.pages = read
      BY <2>4, <3>1, <3>2 DEF ReadPages
    <3>4. d \in Documents
      BY <2>4, <3>1 DEF ViewTyped
    <3>5. view.status \in Resting => documents[d].status \in Resting
      BY <1>3, <2>4, <3>1 DEF ViewFinal
    <3> QED
      BY <2>1, <2>2, <3>2, <3>3, <3>4, <3>5 DEF ViewFinal
  <2>5. CASE view.stage = "pages" /\ ReadPages
    <3>1. PICK d : d = view.document
      OBVIOUS
    <3>2. PICK found : found = {x \in extractions : x.page \in DOMAIN view.pages}
      OBVIOUS
    <3>3. /\ view'.stage = "shown" /\ view'.document = d /\ view'.status = view.status
          /\ view'.pages = view.pages /\ view'.attempts = found
      BY <2>5, <3>1, <3>2 DEF ReadPages
    <3>4. d \in Documents
      BY <2>5, <3>1 DEF ViewTyped
    <3>5. view.status \in Resting =>
            /\ documents[d].status \in Resting
            /\ DOMAIN view.pages = PagesOf(d)
            /\ \A p \in PagesOf(d) : view.pages[p] = pages[p].status
      BY <1>3, <2>5, <3>1 DEF ViewFinal
    <3>6. \A p : AttemptsOn(p)' = AttemptsOn(p)
      BY <2>1 DEF AttemptsOn
    <3>7. \A p \in DOMAIN view.pages : AttemptsOn(p) \subseteq found
      BY <3>2 DEF AttemptsOn
    <3> QED
      BY <2>1, <2>2, <3>3, <3>4, <3>5, <3>6, <3>7 DEF ViewFinal
  <2>6. CASE ScreenCloses
    BY <2>6 DEF ScreenCloses, NoView, ViewFinal
  <2> QED
    BY <1>5, <2>3, <2>4, <2>5, <2>6 DEF Read, ReadPages
<1> QED
  BY <1>4, <1>5 DEF HistoryNext, RecordedStep, AdministratorReprices, historyVars

\* Until somebody asks for a retry, a screen whose document was read at rest shows
\* every page as it ended, with all its attempts, however much is committed between
\* its three statements: it may stop polling.
THEOREM StoppedScreenAlwaysFinal ==
    ASSUME OnTime
    PROVE  HistorySpec => []StoppedScreenIsFinal
<1>1. ASSUME NoneAsked => DocumentsTimely, OutcomesOnRecord, ViewTyped, ViewFinal
      PROVE  StoppedScreenIsFinal
  <2>1. SUFFICES ASSUME view.stage = "shown", view.status \in Resting, NoneAsked,
                        NEW p \in PagesOf(view.document)
                 PROVE  /\ p \in DOMAIN view.pages /\ view.pages[p] = pages[p].status
                        /\ AttemptsOn(p) \subseteq view.attempts /\ AttemptsOn(p) # {}
    BY DEF StoppedScreenIsFinal, NoneAsked
  <2>2. view.document \in Documents /\ documents[view.document].status \in Resting
    BY <1>1, <2>1 DEF ViewTyped, ViewFinal
  <2>3. pages[p].status \in ExtractionStatus /\ p \in Pages
    BY <1>1, <2>1, <2>2, RestIsFinished DEF PagesOf
  <2>4. AttemptsOn(p) # {}
    BY <1>1, <2>3 DEF OutcomesOnRecord, AttemptsOn
  <2> QED
    BY <1>1, <2>1, <2>4 DEF ViewFinal
<1>2. HistoryInit => ViewTyped /\ ViewFinal
  BY DEF HistoryInit, NoView, ViewTyped, ViewFinal
<1>3. HistorySpec => [](NoneAsked => Timely /\ DocumentsTimely)
  BY HistoryImplementsPipeline, TimelyBeforeRetries, PTL
<1>4. HistorySpec => []Sound /\ []OutcomesOnRecord
  BY HistoryImplementsPipeline, AlwaysSound, OutcomesAlwaysOnRecord, PTL
<1> QED
  BY <1>1, <1>2, <1>3, <1>4, ViewTypedStep, ViewFinalStep, PTL DEF HistorySpec

=============================================================================
