------------------------------- MODULE Tables -------------------------------
(***************************************************************************)
(* The rows the pipeline shares: documents, pages, extractions and the     *)
(* engine registry, as PostgreSQL has them committed.  A row that has not  *)
(* been inserted has the status "absent".  The columns kept are those some *)
(* query or decision of the code reads.  claimed_at is kept as what the    *)
(* code can tell of it: null, younger than the claim timeout ("fresh"), or *)
(* older ("stale").                                                        *)
(***************************************************************************)
EXTENDS Integers, FiniteSets

CONSTANTS
    Documents,   \* the uploads of a behaviour: ids of documents
    MaxPages,    \* the most images the convert API returns for one PDF
    Engines,     \* keys of the registered engines, ordered like the slugs
    ActiveSets   \* the sets of engines an administrator may leave active

\* Engine keys are ordered: of the engines a query matches there is a first.
ASSUME TablesAssumption ==
    /\ MaxPages \in Nat \ {0}
    /\ Engines \subseteq Nat \ {0}
    /\ \A S \in (SUBSET Engines) \ {{}} : \E e \in S : \A f \in S : e <= f
    /\ ActiveSets \subseteq SUBSET Engines

VARIABLES documents, pages, extractions, active

tableVars == <<documents, pages, extractions, active>>

-----------------------------------------------------------------------------
(* Vocabularies and row types.                                             *)

DocumentStatus ==
    {"pending", "converting", "extracting", "completed", "partial_failed", "failed"}
PageStatus == {"pending", "processing", "succeeded", "failed"}
ExtractionStatus == {"succeeded", "failed"}
Claim == {"null", "fresh", "stale"}

NoEngine == 0            \* a NULL requested_engine_key, or no engine found
PageNos == 1..MaxPages
Pages == Documents \X PageNos

DocumentRow == [status : DocumentStatus \cup {"absent"}, error_message : {"null", "set"},
                claimed_at : Claim, page_count : 0..MaxPages]
PageRow == [status : PageStatus \cup {"absent"}, claimed_at : Claim,
            requested_engine_key : Engines \cup {NoEngine}]
ExtractionRow == [page : Pages, engine_key : Engines, attempt_no : Nat \ {0},
                  status : ExtractionStatus]

AbsentDocument == [status |-> "absent", error_message |-> "null",
                   claimed_at |-> "null", page_count |-> 0]
AbsentPage == [status |-> "absent", claimed_at |-> "null",
               requested_engine_key |-> NoEngine]

\* A row as upload() and convert_document() insert it.
NewDocument == [AbsentDocument EXCEPT !.status = "pending"]
NewPage == [AbsentPage EXCEPT !.status = "pending"]

TablesTypeOK ==
    /\ documents \in [Documents -> DocumentRow]
    /\ pages \in [Pages -> PageRow]
    /\ extractions \subseteq ExtractionRow
    /\ active \in SUBSET Engines

TablesInit ==
    /\ documents = [d \in Documents |-> AbsentDocument]
    /\ pages = [p \in Pages |-> AbsentPage]
    /\ extractions = {}
    /\ active \in ActiveSets

-----------------------------------------------------------------------------
(* Queries.                                                                *)

PagesOf(d) == {p \in Pages : p[1] = d /\ pages[p].status # "absent"}
FailedPages(d) == {p \in PagesOf(d) : pages[p].status = "failed"}

Attempts(p, e) == {x \in extractions : x.page = p /\ x.engine_key = e}
AttemptNos(p, e) == {x.attempt_no : x \in Attempts(p, e)}
Last(nos) == CHOOSE n \in nos : \A m \in nos : m <= n

\* Mutant: attempts are numbered from zero.
NextAttemptNoFromZero(p, e) ==
    IF AttemptNos(p, e) = {} THEN 0 ELSE Last(AttemptNos(p, e)) + 1

NextAttemptNo(p, e) ==
    IF AttemptNos(p, e) = {} THEN 1 ELSE Last(AttemptNos(p, e)) + 1

ActiveEngine ==
    IF active = {} THEN NoEngine
    ELSE CHOOSE e \in active : \A f \in active : e <= f

\* The engine a loaded page runs on: the one a retry asked for, which the
\* foreign key keeps registered, or else the active one of lowest key.
EngineFor(page) ==
    IF page.requested_engine_key # NoEngine THEN page.requested_engine_key
    ELSE ActiveEngine

-----------------------------------------------------------------------------
(* What the object mapper writes at a flush: a column goes into the UPDATE *)
(* only when the value assigned differs from the value that was loaded, so *)
(* the row keeps whatever others have committed there since.               *)

Flushed(loaded, assigned, current) ==
    IF assigned # loaded THEN assigned ELSE current

=============================================================================
