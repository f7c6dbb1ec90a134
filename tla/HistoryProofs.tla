---------------------------- MODULE HistoryProofs ----------------------------
(***************************************************************************)
(* Theorems about History, for any number of workers, requests, engines    *)
(* and edits of the registry, under SlowSteps too: it only adds to         *)
(* Pipeline, and the detail screen shows no finished page without its      *)
(* attempt.                                                                *)
(***************************************************************************)
EXTENDS History, OutcomeProofs

LEMMA HistoryStepIsPipelineStep == [HistoryNext]_historyVars => [Next]_vars
  BY DEF HistoryNext, RecordedStep, AdministratorReprices, Read, historyVars

\* The columns and the reader that History adds take no part in the decisions of
\* the pipeline: what holds of Pipeline holds of it.
THEOREM HistoryImplementsPipeline == HistorySpec => Spec
<1>1. HistoryInit => Init
  BY DEF HistoryInit
<1> QED
  BY <1>1, HistoryStepIsPipelineStep, PTL DEF HistorySpec, Spec

\* No two workers are about to store the same attempt.
LEMMA StoredByOne ==
    ASSUME Numbering, NEW v \in Workers, NEW w \in Workers, Stores(v), Stores(w),
           Inserted(v) = Inserted(w)
    PROVE  v = w
<1>1. Holding(v) /\ Holding(w)
  BY DEF Stores, Holding, AtStage
<1>2. SameKey(Inserted(v), Inserted(w))
  BY DEF SameKey
<1> QED
  BY <1>1, <1>2 DEF Numbering, KeysHeldOnce

-----------------------------------------------------------------------------
(* The detail screen.                                                      *)

\* The pages that were read as finished have an attempt that ended so: on
\* record as long as the attempts are not read, and among those read after that.
BackedBy(attempts) ==
    \A p \in DOMAIN view.pages : view.pages[p] \in ExtractionStatus =>
        \E x \in attempts : x.page = p /\ x.status = view.pages[p]
ViewBacked ==
    /\ view.stage = "pages" => BackedBy(extractions)
    /\ view.stage = "shown" => BackedBy(view.attempts)

LEMMA RecordGrows == [Next]_vars => extractions \subseteq extractions'
<1>1. ASSUME NEW w \in Workers, CommitAttempt(w)
      PROVE  extractions \subseteq extractions'
  BY <1>1 DEF CommitAttempt
<1> QED
  BY <1>1, OnlyCommitsRecord

LEMMA ViewBackedStep ==
    ASSUME ViewBacked, OutcomesOnRecord, [HistoryNext]_historyVars
    PROVE  ViewBacked'
<1>1. extractions \subseteq extractions'
  BY HistoryStepIsPipelineStep, RecordGrows
<1>2. CASE UNCHANGED view
  BY <1>1, <1>2 DEF ViewBacked, BackedBy
<1>3. CASE view'.stage \notin {"pages", "shown"}
  BY <1>3 DEF ViewBacked
<1>4. CASE view.stage = "document" /\ ReadPages
  <2>1. PICK read : read = [p \in PagesOf(view.document) |-> pages[p].status]
    OBVIOUS
  <2>2. view'.stage = "pages" /\ view'.pages = read
    BY <1>4, <2>1 DEF ReadPages
  <2>3. \A p \in DOMAIN read : read[p] \in ExtractionStatus =>
          \E x \in extractions : x.page = p /\ x.status = read[p]
    BY <2>1 DEF PagesOf, OutcomesOnRecord
  <2> QED
    BY <1>1, <2>2, <2>3 DEF ViewBacked, BackedBy
<1>5. CASE view.stage = "pages" /\ ReadPages
  <2>1. PICK found : found = {x \in extractions : x.page \in DOMAIN view.pages}
    OBVIOUS
  <2>2. view'.stage = "shown" /\ view'.pages = view.pages /\ view'.attempts = found
    BY <1>5, <2>1 DEF ReadPages
  <2>3. BackedBy(found)
    BY <1>5, <2>1 DEF ViewBacked, BackedBy
  <2> QED
    BY <2>2, <2>3 DEF ViewBacked, BackedBy
<1> QED
  BY <1>2, <1>3, <1>4, <1>5
     DEF HistoryNext, RecordedStep, AdministratorReprices, Read, historyVars, ReadDocument,
         ReadPages, ScreenCloses, NoView

\* A page that the detail screen shows as finished is shown with an attempt that
\* ended so: the attempts are read after the statuses, and are never lost.
THEOREM ShownOutcomeAlwaysBacked == HistorySpec => []ShownOutcomeBacked
<1>1. HistoryInit => ViewBacked
  BY DEF HistoryInit, NoView, ViewBacked
<1>2. ViewBacked => ShownOutcomeBacked
  BY DEF ViewBacked, BackedBy, ShownOutcomeBacked
<1>3. HistorySpec => []OutcomesOnRecord
  BY HistoryImplementsPipeline, OutcomesAlwaysOnRecord, PTL
<1> QED
  BY <1>1, <1>2, <1>3, ViewBackedStep, PTL DEF HistorySpec

=============================================================================
