------------------------------- MODULE Upload -------------------------------
(***************************************************************************)
(* DocumentService.upload(): one live document per content hash, for the   *)
(* length of the retention window.                                         *)
(*                                                                         *)
(* Each request is one transaction, committed or rolled back by the        *)
(* session dependency when the request ends:                               *)
(*                                                                         *)
(*   UPDATE the lapsed holder ; SELECT the live one ; INSERT, in a         *)
(*   savepoint ; (SELECT the winner) ; write the file ; COMMIT             *)
(*                                                                         *)
(* Under READ COMMITTED every statement sees what others have committed    *)
(* and what its own transaction wrote.  The uncommitted writes of an       *)
(* upload are kept with it and applied when it commits.  An id carries the *)
(* hash of its document; ids are random and no two documents share one.    *)
(***************************************************************************)
EXTENDS Integers, FiniteSets

CONSTANTS
    Hashes,    \* content hashes
    Uploads,   \* upload requests that may be under way together
    MaxIds     \* bound on the documents of one hash, for finiteness

ASSUME UploadAssumption == MaxIds \in Nat

Ids == Hashes \X (1..MaxIds)
Nobody == <<>>

VARIABLES
    rows,      \* the committed documents: "absent", "live" or "released"
    lapsed,    \* the documents whose expires_at has passed
    files,     \* the documents whose PDF is on disk
    upload     \* the transaction of each upload request

vars == <<rows, lapsed, files, upload>>

Idle == [stage |-> "idle", released |-> {}, id |-> Nobody]

Running == {"release", "lookup", "insert", "winner", "save", "commit"}

TypeOK ==
    /\ rows \in [Ids -> {"absent", "live", "released"}]
    /\ lapsed \in SUBSET Ids
    /\ files \in SUBSET Ids
    /\ upload \in [Uploads -> [stage : Running \cup {"idle"}, released : SUBSET Ids,
                               id : Ids \cup {Nobody}]]

Init ==
    /\ rows = [i \in Ids |-> "absent"]
    /\ lapsed = {}
    /\ files = {}
    /\ upload = [u \in Uploads |-> Idle]

-----------------------------------------------------------------------------

Live(h) == {i \in Ids : i[1] = h /\ rows[i] = "live"}

\* The rows a live-by-hash query of u matches: expired_at IS NULL.
LiveSeenBy(u) == Live(upload[u].id[1]) \ upload[u].released

Inserted(u) == upload[u].stage \in {"save", "commit"}

Goto(u, stage) == upload' = [upload EXCEPT ![u].stage = stage]

\* The transaction of u ends: what it wrote takes effect or is undone.
Commit(u) ==
    /\ rows' = [i \in Ids |->
            IF i \in upload[u].released THEN "released"
            ELSE IF Inserted(u) /\ i = upload[u].id THEN "live" ELSE rows[i]]
    /\ upload' = [upload EXCEPT ![u] = Idle]

Rollback(u) == upload' = [upload EXCEPT ![u] = Idle] /\ UNCHANGED rows

\* DuplicateDocument: the JSON endpoint lets it through and the session is
\* rolled back; the web form catches it and the session is committed.
Refuse(u) == Commit(u) \/ Rollback(u)

Drawn == {upload[u].id : u \in Uploads} \cup {i \in Ids : rows[i] # "absent"} \cup files

\* A PDF is received; the id is the one its document will have.
UploadArrives(u) ==
    /\ upload[u].stage = "idle"
    /\ \E i \in Ids \ Drawn :
        upload' = [upload EXCEPT ![u] = [stage |-> "release", released |-> {}, id |-> i]]
    /\ UNCHANGED <<rows, lapsed, files>>

\* Mutant: the slot is given back whether or not the window has passed.
LapsedAny(i) == TRUE

Lapsed(i) == i \in lapsed

Matching(u) == {i \in LiveSeenBy(u) : Lapsed(i)}

\* The UPDATE of u waits for a row that v is releasing.
RowWaits(u, v) == Matching(u) \cap upload[v].released # {}

ReleaseLapsedHash(u) ==
    /\ upload[u].stage = "release" /\ \A v \in Uploads \ {u} : ~RowWaits(u, v)
    /\ upload' = [upload EXCEPT ![u].stage = "lookup", ![u].released = Matching(u)]
    /\ UNCHANGED <<rows, lapsed, files>>

GetLiveByHash(u) ==
    /\ upload[u].stage = "lookup"
    /\ \/ LiveSeenBy(u) = {} /\ Goto(u, "insert") /\ UNCHANGED rows
       \/ LiveSeenBy(u) # {} /\ Refuse(u)
    /\ UNCHANGED <<lapsed, files>>

\* Mutant: the table has no unique index on the hash.
IndexNeverHeld(u) == FALSE

\* uq_documents_content_hash_live: a committed live row rejects the INSERT; an
\* uncommitted one, or an uncommitted release, makes it wait for the outcome.
IndexHeld(u) == LiveSeenBy(u) # {}

\* The transaction of u has changed what the unique index covers.
Changing(u) == Inserted(u) \/ upload[u].released # {}

IndexWaits(u, v) == Changing(v) /\ upload[v].id[1] = upload[u].id[1]

Insert(u) ==
    /\ upload[u].stage = "insert" /\ \A v \in Uploads \ {u} : ~IndexWaits(u, v)
    /\ Goto(u, IF IndexHeld(u) THEN "winner" ELSE "save")
    /\ UNCHANGED <<rows, lapsed, files>>

\* Mutant: the INSERT is tried again until the slot is free.
ReportWinnerTriesAgain(u) ==
    /\ upload[u].stage = "winner"
    /\ Goto(u, "insert")
    /\ UNCHANGED <<rows, lapsed, files>>

\* IntegrityError: refused with the winner's id, or re-raised without one.
ReportWinner(u) ==
    /\ upload[u].stage = "winner"
    /\ IF LiveSeenBy(u) # {} THEN Refuse(u) ELSE Rollback(u)
    /\ UNCHANGED <<lapsed, files>>

\* Mutant: the request goes on although the file could not be written.
WrittenUnchecked(u) == files

\* Mutant: the file is named after the hash, not after the document.
WrittenByHash(u) == files \cup {upload[u].id[1]}

Written(u) == files \cup {upload[u].id}

SavePdf(u) ==
    /\ upload[u].stage = "save"
    /\ files' = Written(u)
    /\ Goto(u, "commit")
    /\ UNCHANGED <<rows, lapsed>>

CommitUpload(u) ==
    /\ upload[u].stage = "commit"
    /\ Commit(u)
    /\ UNCHANGED <<lapsed, files>>

\* The disk, the database or the process fails: the file, if any, stays.
UploadRaises(u) ==
    /\ upload[u].stage # "idle"
    /\ Rollback(u)
    /\ UNCHANGED <<lapsed, files>>

\* A retention window of whole days never ends within its own upload.
WindowLapses(i) ==
    /\ rows[i] = "live" /\ i \notin lapsed
    /\ lapsed' = lapsed \cup {i}
    /\ UNCHANGED <<rows, files, upload>>

Progress(u) ==
    \/ ReleaseLapsedHash(u) \/ GetLiveByHash(u) \/ Insert(u)
    \/ ReportWinner(u) \/ SavePdf(u) \/ CommitUpload(u)

Next ==
    \/ \E u \in Uploads : UploadArrives(u) \/ Progress(u) \/ UploadRaises(u)
    \/ \E i \in Ids : WindowLapses(i)

Spec == Init /\ [][Next]_vars

\* A request that is under way takes its next step unless it fails; nothing
\* obliges uploads to arrive or to fail, or windows to lapse.
Fairness == \A u \in Uploads : WF_vars(Progress(u))

\* The disk and the database do not fail for ever: an upload can wait behind any
\* number of others that release or take the slot and are then rolled back.
FailuresEnd == <>[][\A u \in Uploads : ~(Changing(u) /\ UploadRaises(u))]_vars

FairSpec == Spec /\ Fairness /\ FailuresEnd

-----------------------------------------------------------------------------

\* "One live document per content hash": however uploads of one file and the
\* release of its previous document interleave, fail or are rolled back.
OneLivePerHash == \A h \in Hashes : \A i, j \in Live(h) : i = j

\* A document that is committed, and so can be claimed, has its file on disk: "a
\* row pointing at a file that was never written" is what upload() avoids.
CommittedHasFile == \A i \in Ids : rows[i] # "absent" => i \in files

\* The document that holds a hash.
Holder(h) == IF Live(h) = {} THEN Nobody ELSE CHOOSE i \in Live(h) : TRUE

\* Refinement: the slot of a hash changes hands only when the window of the
\* document that holds it has passed, in one step, to a document not yet lapsed.
Slot == INSTANCE HashSlot WITH holder <- [h \in Hashes |-> Holder(h)]
KeptForItsWindow == Slot!Spec

\* The statement u is at cannot end before the transaction of v.
WaitsFor(u, v) ==
    \/ upload[u].stage = "release" /\ RowWaits(u, v)
    \/ upload[u].stage = "insert" /\ IndexWaits(u, v)

\* No two transactions wait for one another, in a circle of any length: an upload
\* that another waits for waits for nobody itself, so none is a deadlock's victim.
WaitedForGoesOn ==
    \A u, v, w \in Uploads : u # v /\ v # w => ~(WaitsFor(u, v) /\ WaitsFor(v, w))

\* The inductive invariant behind OneLivePerHash and the refinement.  What a
\* request has released is live, lapsed, of its own hash and released by nobody
\* else; a request that has inserted sees no live row but its own, and is alone
\* with its hash; the id of a request is nobody else's and not yet a row.
ReleasesOwned ==
    \A u \in Uploads :
        /\ \A i \in upload[u].released :
            rows[i] = "live" /\ i \in lapsed /\ i[1] = upload[u].id[1]
        /\ \A v \in Uploads \ {u} : upload[u].released \cap upload[v].released = {}
InsertedAlone ==
    \A u \in Uploads : Inserted(u) =>
        /\ LiveSeenBy(u) = {}
        /\ \A v \in Uploads \ {u} : Inserted(v) => upload[v].id[1] # upload[u].id[1]
IdsOwned ==
    \A u \in Uploads :
        IF upload[u].stage = "idle" THEN upload[u] = Idle
        ELSE /\ upload[u].id \in Ids /\ rows[upload[u].id] = "absent"
             /\ \A v \in Uploads \ {u} : upload[v].id # upload[u].id
FilesFirst == \A u \in Uploads : upload[u].stage = "commit" => upload[u].id \in files
LapsedStored == \A i \in lapsed : rows[i] # "absent"

SlotInvariant ==
    /\ TypeOK /\ IdsOwned /\ ReleasesOwned /\ InsertedAlone /\ FilesFirst /\ LapsedStored
    /\ OneLivePerHash /\ CommittedHasFile

\* No upload waits for ever on another: every request is answered.
UploadsEnd == \A u \in Uploads : upload[u].stage # "idle" ~> upload[u].stage = "idle"

=============================================================================
