------------------------------- MODULE History ------------------------------
(***************************************************************************)
(* What is kept and shown of the attempts: Pipeline with the registry's    *)
(* prices, the columns of an extraction that no decision of the pipeline   *)
(* reads, and a reader of the detail screen.                               *)
(*                                                                         *)
(* created_at is now(), the start of the transaction that inserts, here    *)
(* the order in which the steps began.  The detail screen is three         *)
(* statements, each of which sees what is committed by then:               *)
(*                                                                         *)
(*   SELECT document ; SELECT pages ; SELECT extractions                   *)
(***************************************************************************)
EXTENDS Pipeline

CONSTANTS
    Listings,     \* what an administrator may make of an engine's version and price
    MaxReprices   \* bound on the edits of the registry, for finiteness

NoPrice == -1            \* a NULL price, quantity or cost
BillingUnit == {"page", "request", "1k_tokens"}

\* The columns of extraction_engines that an attempt snapshots.
EngineRow == [version : Nat, unit : BillingUnit, unit_cost : Nat \cup {NoPrice}]

ASSUME ListingAssumption ==
    /\ Listings \subseteq EngineRow
    /\ MaxReprices \in Nat

VARIABLES
    registry,   \* the current listing of each engine
    reprices,   \* edits so far
    begun,      \* how many extract steps have begun
    opened,     \* per worker: when its extract step began, the engine as loaded
    entries,    \* the columns of each stored attempt that Pipeline leaves out
    view        \* the detail screen being read

historyVars == <<vars, registry, reprices, begun, opened, entries, view>>

NotOpened == [created_at |-> 0]
NoView == [stage |-> "none"]

\* The migration registers an engine billed per page without a price.
Seeded == [version |-> 1, unit |-> "page", unit_cost |-> NoPrice]

HistoryInit ==
    /\ Init
    /\ registry = [e \in Engines |-> Seeded] /\ reprices = 0
    /\ begun = 0
    /\ opened = [w \in Workers |-> NotOpened]
    /\ entries = <<>>
    /\ view = NoView

-----------------------------------------------------------------------------
(* _new_extraction().                                                      *)

\* One page is one unit for an engine billed per page or per request.
UsageQty(listing) == IF listing.unit \in {"page", "request"} THEN 1 ELSE NoPrice

\* Mutant: a price or a quantity that is not known is not looked for.
CostUnchecked(listing) == listing.unit_cost * UsageQty(listing)

Cost(listing) ==
    IF listing.unit_cost # NoPrice /\ UsageQty(listing) # NoPrice
    THEN listing.unit_cost * UsageQty(listing) ELSE NoPrice

\* The engine as the step loaded it.
ListingUsed(w) == opened[w].listing

Entry(w) ==
    [created_at |-> opened[w].created_at, engine_version |-> ListingUsed(w).version,
     usage_qty |-> UsageQty(ListingUsed(w)), unit_cost_snapshot |-> ListingUsed(w).unit_cost,
     cost_amount |-> Cost(ListingUsed(w))]

Opens(w) == step[w] = NoStep /\ step'[w].kind = "extract"
Stores(w) == AtStage(w, {"commit"}) /\ Inserted(w) \in extractions' \ extractions

\* A step of Pipeline, with the columns it writes.
RecordedStep ==
    /\ Next
    /\ begun' = IF \E w \in Workers : Opens(w) THEN begun + 1 ELSE begun
    /\ opened' = [w \in Workers |->
            IF Opens(w) THEN [created_at |-> begun', listing |-> registry[step'[w].engine]]
            ELSE IF step'[w] = NoStep THEN NotOpened ELSE opened[w]]
    /\ entries' = [x \in extractions' |->
            IF x \in extractions THEN entries[x]
            ELSE Entry(CHOOSE w \in Workers : Stores(w) /\ Inserted(w) = x)]
    /\ UNCHANGED <<registry, reprices, view>>

\* The registry is edited with SQL.
AdministratorReprices ==
    /\ reprices < MaxReprices /\ reprices' = reprices + 1
    /\ \E e \in Engines, l \in Listings : registry' = [registry EXCEPT ![e] = l]
    /\ UNCHANGED <<vars, begun, opened, entries, view>>

-----------------------------------------------------------------------------
(* The read path.                                                          *)

\* ORDER BY created_at DESC: page.extractions[0].
FirstShown(attempts) ==
    CHOOSE x \in attempts : \A y \in attempts : entries[y].created_at <= entries[x].created_at

AttemptsOn(p) == {x \in extractions : x.page = p}

ReadDocument(d) ==
    /\ documents[d].status # "absent"
    /\ view = NoView
    /\ view' = [stage |-> "document", document |-> d, status |-> documents[d].status]

\* Mutant: the attempts are fetched before the pages.
ReadPagesLast ==
    \/ /\ view.stage = "document"
       /\ view' = [stage |-> "attempts", document |-> view.document, status |-> view.status,
                   attempts |-> {x \in extractions : x.page \in PagesOf(view.document)}]
    \/ /\ view.stage = "attempts"
       /\ view' = [stage |-> "shown", document |-> view.document, status |-> view.status,
                   pages |-> [p \in PagesOf(view.document) |-> pages[p].status],
                   attempts |-> view.attempts]

\* Mutant: the row of the document is loaded again with the attempts.
ReadPagesRefreshed ==
    \/ /\ view.stage = "document"
       /\ view' = [stage |-> "pages", document |-> view.document, status |-> view.status,
                   pages |-> [p \in PagesOf(view.document) |-> pages[p].status]]
    \/ /\ view.stage = "pages"
       /\ view' = [stage |-> "shown", document |-> view.document,
                   status |-> documents[view.document].status, pages |-> view.pages,
                   attempts |-> {x \in extractions : x.page \in DOMAIN view.pages}]

\* selectinload: the pages of the document, then the attempts of those pages.
ReadPages ==
    \/ /\ view.stage = "document"
       /\ view' = [stage |-> "pages", document |-> view.document, status |-> view.status,
                   pages |-> [p \in PagesOf(view.document) |-> pages[p].status]]
    \/ /\ view.stage = "pages"
       /\ view' = [stage |-> "shown", document |-> view.document, status |-> view.status,
                   pages |-> view.pages,
                   attempts |-> {x \in extractions : x.page \in DOMAIN view.pages}]

ScreenCloses == view.stage = "shown" /\ view' = NoView

Read ==
    /\ (\E d \in Documents : ReadDocument(d)) \/ ReadPages \/ ScreenCloses
    /\ UNCHANGED <<vars, registry, reprices, begun, opened, entries>>

HistoryNext == RecordedStep \/ AdministratorReprices \/ Read

HistorySpec == HistoryInit /\ [][HistoryNext]_historyVars

-----------------------------------------------------------------------------
(* Properties.                                                             *)

EntryRow == [created_at : Nat \ {0}, engine_version : Nat, usage_qty : {1, NoPrice},
             unit_cost_snapshot : Nat \cup {NoPrice}, cost_amount : Nat \cup {NoPrice}]

HistoryTypeOK ==
    /\ TypeOK
    /\ registry \in [Engines -> Listings \cup {Seeded}]
    /\ DOMAIN entries = extractions /\ \A x \in extractions : entries[x] \in EntryRow
    /\ \A w \in Workers : step[w].kind = "extract" => opened[w].created_at \in 1..begun

\* "A page's status follows its most recent attempt" (main.py): the attempt shown
\* as the latest of a finished page, by the start of its transaction, is the one
\* that wrote the status of the page, which is the last to commit.
StatusFollowsNewest ==
    \A p \in Pages : pages[p].status \in ExtractionStatus =>
        FirstShown(AttemptsOn(p)).status = pages[p].status

\* Attempts listed newest first are listed by attempt_no on each engine.
ListedByNumber ==
    \A x, y \in extractions :
        x.page = y.page /\ x.engine_key = y.engine_key /\ x.attempt_no < y.attempt_no =>
            entries[x].created_at < entries[y].created_at

\* Neither holds when two runs of a page overlap: the first to begin may be the
\* last to commit.
HistoryInOrder == StatusFollowsNewest /\ ListedByNumber

\* A page that the detail screen shows as finished is shown with an attempt that
\* ended so, although its status and its attempts are read one after the other.
ShownOutcomeBacked ==
    view.stage = "shown" => \A p \in DOMAIN view.pages :
        view.pages[p] \in ExtractionStatus =>
            \E x \in view.attempts : x.page = p /\ x.status = view.pages[p]

\* The screen polls until its document rests (TERMINAL, web/routes.py).  As long
\* as nobody asks for a retry, what it shows then is final: every page finished,
\* with the attempt that finished it.
StoppedScreenIsFinal ==
    view.stage = "shown" /\ view.status \in Resting
    /\ (\A r \in Requests : request[r] = NewRequest) =>
        \A p \in PagesOf(view.document) :
            /\ p \in DOMAIN view.pages /\ view.pages[p] = pages[p].status
            /\ AttemptsOn(p) \subseteq view.attempts /\ AttemptsOn(p) # {}

=============================================================================
