---------------------------- MODULE UploadProofs ----------------------------
(***************************************************************************)
(* Theorems about Upload, for every number of hashes, uploads and          *)
(* documents: one live document per hash, each with its file, the          *)
(* refinement of HashSlot, and that uploads do not wait in a circle.       *)
(***************************************************************************)
EXTENDS Upload, TLAPS

\* The transaction of u, as typed.
Transaction == [stage : Running \cup {"idle"}, released : SUBSET Ids, id : Ids \cup {Nobody}]

\* The invariant of one transaction against the others, and of the tables.
TablesInvariant ==
    /\ rows \in [Ids -> {"absent", "live", "released"}]
    /\ lapsed \in SUBSET Ids
    /\ files \in SUBSET Ids
    /\ LapsedStored /\ OneLivePerHash /\ CommittedHasFile

LEMMA InvariantParts ==
    SlotInvariant <=>
        /\ TablesInvariant
        /\ upload \in [Uploads -> Transaction]
        /\ IdsOwned /\ ReleasesOwned /\ InsertedAlone /\ FilesFirst
BY DEF SlotInvariant, TablesInvariant, TypeOK, Transaction

LEMMA SlotInit == Init => SlotInvariant
<1> SUFFICES ASSUME Init PROVE SlotInvariant
  OBVIOUS
<1> USE DEF Init, Idle
<1>1. TypeOK
  BY DEF TypeOK
<1>2. IdsOwned /\ ReleasesOwned /\ InsertedAlone /\ FilesFirst /\ LapsedStored
  BY DEF IdsOwned, ReleasesOwned, InsertedAlone, FilesFirst, LapsedStored, Inserted
<1>3. OneLivePerHash /\ CommittedHasFile
  BY DEF OneLivePerHash, CommittedHasFile, Live
<1> QED
  BY <1>1, <1>2, <1>3 DEF SlotInvariant

-----------------------------------------------------------------------------
(* Steps that leave the tables alone, or only write a file.                *)

\* Tables that only gain files keep their part of the invariant.
LEMMA TablesKept ==
    ASSUME TablesInvariant, UNCHANGED <<rows, lapsed>>, files' \in SUBSET Ids, files \subseteq files'
    PROVE  TablesInvariant'
BY DEF TablesInvariant, LapsedStored, OneLivePerHash, CommittedHasFile, Live

LEMMA ArrivesKeeps ==
    ASSUME SlotInvariant, NEW u \in Uploads, UploadArrives(u)
    PROVE  SlotInvariant'
<1> DEFINE fresh(i) == [stage |-> "release", released |-> {}, id |-> i]
<1>1. PICK i \in Ids \ Drawn : upload' = [upload EXCEPT ![u] = fresh(i)]
  BY DEF UploadArrives
<1>2. UNCHANGED <<rows, lapsed, files>>
  BY DEF UploadArrives
<1>3. TablesInvariant /\ upload \in [Uploads -> Transaction] /\ IdsOwned /\ ReleasesOwned
        /\ InsertedAlone /\ FilesFirst
  BY InvariantParts
<1>4. TablesInvariant'
  BY <1>2, <1>3, TablesKept DEF TablesInvariant
<1>5. upload' \in [Uploads -> Transaction]
  BY <1>1, <1>3 DEF Transaction, Running
<1>6. upload'[u] = fresh(i) /\ \A v \in Uploads \ {u} : upload'[v] = upload[v]
  BY <1>1, <1>3
<1>7. rows[i] = "absent" /\ \A v \in Uploads : upload[v].id # i
  BY <1>1 DEF Drawn
<1>8. IdsOwned'
  BY <1>2, <1>3, <1>6, <1>7 DEF IdsOwned, Idle
<1>9. ReleasesOwned'
  BY <1>2, <1>3, <1>6 DEF ReleasesOwned
<1>10. InsertedAlone'
  BY <1>2, <1>3, <1>6 DEF InsertedAlone, Inserted, LiveSeenBy, Live
<1>11. FilesFirst'
  BY <1>2, <1>3, <1>6 DEF FilesFirst
<1> QED
  BY <1>4, <1>5, <1>8, <1>9, <1>10, <1>11 DEF SlotInvariant, TablesInvariant, TypeOK, Transaction

LEMMA ReleaseKeeps ==
    ASSUME SlotInvariant, NEW u \in Uploads, ReleaseLapsedHash(u)
    PROVE  SlotInvariant'
<1>1. PICK matching :
        /\ matching = {i \in LiveSeenBy(u) : Lapsed(i)}
        /\ \A v \in Uploads \ {u} : matching \cap upload[v].released = {}
        /\ upload' = [upload EXCEPT ![u].stage = "lookup", ![u].released = matching]
  BY DEF ReleaseLapsedHash, Matching, RowWaits
<1>2. upload[u].stage = "release" /\ UNCHANGED <<rows, lapsed, files>>
  BY DEF ReleaseLapsedHash
<1>3. TablesInvariant /\ upload \in [Uploads -> Transaction] /\ IdsOwned /\ ReleasesOwned
        /\ InsertedAlone /\ FilesFirst
  BY InvariantParts
<1>4. TablesInvariant'
  BY <1>2, <1>3, TablesKept DEF TablesInvariant
<1>5. matching \subseteq Ids /\ \A i \in matching :
        rows[i] = "live" /\ i \in lapsed /\ i[1] = upload[u].id[1]
  BY <1>1 DEF LiveSeenBy, Live, Lapsed
<1>6. upload' \in [Uploads -> Transaction]
  <2>1. upload[u] \in Transaction
    BY <1>3
  <2>2. [upload[u] EXCEPT !.stage = "lookup", !.released = matching] \in Transaction
    BY <2>1, <1>5 DEF Transaction, Running
  <2> QED
    BY <1>1, <1>3, <2>2
<1>7. /\ upload'[u].stage = "lookup" /\ upload'[u].released = matching
      /\ upload'[u].id = upload[u].id
      /\ \A v \in Uploads \ {u} : upload'[v] = upload[v]
  BY <1>1, <1>3 DEF Transaction
<1>8. IdsOwned'
  BY <1>2, <1>3, <1>7 DEF IdsOwned
<1>9. ReleasesOwned'
  BY <1>1, <1>2, <1>3, <1>5, <1>7 DEF ReleasesOwned
<1>10. InsertedAlone'
  BY <1>2, <1>3, <1>7 DEF InsertedAlone, Inserted, LiveSeenBy, Live
<1>11. FilesFirst'
  BY <1>2, <1>3, <1>7 DEF FilesFirst
<1> QED
  BY <1>4, <1>6, <1>8, <1>9, <1>10, <1>11 DEF SlotInvariant, TablesInvariant, TypeOK, Transaction

NobodyElseChanging(u) == \A v \in Uploads \ {u} : ~IndexWaits(u, v)

\* A request goes on to another stage: when that is "save", it sees no live row
\* and nobody else has inserted its hash; when it is "commit", it had inserted
\* and its file is there.
LEMMA GoesOnKeeps ==
    ASSUME SlotInvariant, NEW u \in Uploads, NEW stage \in Running,
           upload[u].stage # "idle", Goto(u, stage), UNCHANGED <<rows, lapsed>>,
           files' \in SUBSET Ids, files \subseteq files',
           stage = "save" => LiveSeenBy(u) = {} /\ NobodyElseChanging(u),
           stage = "commit" => Inserted(u) /\ upload[u].id \in files'
    PROVE  SlotInvariant'
<1>3. TablesInvariant /\ upload \in [Uploads -> Transaction] /\ IdsOwned /\ ReleasesOwned
        /\ InsertedAlone /\ FilesFirst
  BY InvariantParts
<1>4. TablesInvariant'
  BY <1>3, TablesKept
<1>6. upload' \in [Uploads -> Transaction]
  BY <1>3 DEF Goto, Transaction
<1>7. /\ upload'[u].stage = stage /\ upload'[u].released = upload[u].released
      /\ upload'[u].id = upload[u].id
      /\ \A v \in Uploads \ {u} : upload'[v] = upload[v]
  BY <1>3 DEF Goto, Transaction
<1>8. IdsOwned'
  BY <1>3, <1>7 DEF IdsOwned, Running
<1>9. ReleasesOwned'
  BY <1>3, <1>7 DEF ReleasesOwned
<1>10. InsertedAlone'
  <2>1. \A v \in Uploads : LiveSeenBy(v)' = LiveSeenBy(v)
    BY <1>7 DEF LiveSeenBy, Live
  <2>2. Inserted(u)' => LiveSeenBy(u) = {} /\ ~\E v \in Uploads \ {u} :
            Inserted(v) /\ upload[v].id[1] = upload[u].id[1]
    BY <1>3, <1>7 DEF InsertedAlone, Inserted, NobodyElseChanging, IndexWaits, Changing
  <2>3. \A v \in Uploads \ {u} : Inserted(v)' <=> Inserted(v)
    BY <1>7 DEF Inserted
  <2> QED
    BY <1>3, <1>7, <2>1, <2>2, <2>3 DEF InsertedAlone
<1>11. FilesFirst'
  BY <1>3, <1>7 DEF FilesFirst
<1> QED
  BY <1>4, <1>6, <1>8, <1>9, <1>10, <1>11 DEF SlotInvariant, TablesInvariant, TypeOK, Transaction

-----------------------------------------------------------------------------
(* Steps that end a transaction, and the end of a window.                  *)

LEMMA RollbackKeeps ==
    ASSUME SlotInvariant, NEW u \in Uploads, Rollback(u), UNCHANGED <<lapsed, files>>
    PROVE  SlotInvariant'
<1>1. TablesInvariant /\ upload \in [Uploads -> Transaction] /\ IdsOwned /\ ReleasesOwned
        /\ InsertedAlone /\ FilesFirst
  BY InvariantParts
<1>2. rows' = rows /\ Idle \in Transaction
  BY DEF Rollback, Idle, Transaction
<1>3. /\ upload' \in [Uploads -> Transaction] /\ upload'[u] = Idle
      /\ \A v \in Uploads \ {u} : upload'[v] = upload[v]
  BY <1>1, <1>2 DEF Rollback
<1>4. Idle.stage = "idle" /\ Idle.released = {} /\ Idle.id = Nobody
  BY DEF Idle
<1>5. TablesInvariant'
  BY <1>1, <1>2, TablesKept DEF TablesInvariant
<1>6. IdsOwned'
  <2>1. \A v \in Uploads \ {u} : upload[v].stage # "idle" =>
            upload[v].id \in Ids /\ rows[upload[v].id] = "absent" /\ upload[v].id # Nobody
    BY <1>1 DEF IdsOwned, Ids, Nobody
  <2> QED
    BY <1>1, <1>2, <1>3, <1>4, <2>1 DEF IdsOwned
<1>7. ReleasesOwned'
  BY <1>1, <1>2, <1>3, <1>4 DEF ReleasesOwned
<1>8. InsertedAlone'
  BY <1>1, <1>2, <1>3, <1>4 DEF InsertedAlone, Inserted, LiveSeenBy, Live
<1>9. FilesFirst'
  BY <1>1, <1>3, <1>4 DEF FilesFirst
<1> QED
  BY <1>3, <1>5, <1>6, <1>7, <1>8, <1>9 DEF SlotInvariant, TablesInvariant, TypeOK, Transaction

\* What a commit does to the rows.
LEMMA CommitRows ==
    ASSUME SlotInvariant, NEW u \in Uploads, upload[u].stage # "idle", Commit(u)
    PROVE  /\ upload[u].id \in Ids /\ rows[upload[u].id] = "absent"
           /\ \A i \in Ids : i \in upload[u].released =>
                rows[i] = "live" /\ i \in lapsed /\ i[1] = upload[u].id[1] /\ rows'[i] = "released"
           /\ Inserted(u) => rows'[upload[u].id] = "live"
           /\ \A i \in Ids : i \notin upload[u].released /\ ~(Inserted(u) /\ i = upload[u].id)
                => rows'[i] = rows[i]
<1>1. upload[u].id \in Ids /\ rows[upload[u].id] = "absent"
  BY DEF SlotInvariant, IdsOwned
<1>2. \A i \in upload[u].released : rows[i] = "live" /\ i \in lapsed /\ i[1] = upload[u].id[1]
  BY DEF SlotInvariant, ReleasesOwned
<1>3. upload[u].id \notin upload[u].released
  BY <1>1, <1>2
<1>4. rows' = [i \in Ids |->
            IF i \in upload[u].released THEN "released"
            ELSE IF Inserted(u) /\ i = upload[u].id THEN "live" ELSE rows[i]]
  BY DEF Commit
<1> QED
  BY <1>1, <1>2, <1>3, <1>4

LEMMA CommitKeeps ==
    ASSUME SlotInvariant, NEW u \in Uploads, upload[u].stage # "idle", Commit(u),
           UNCHANGED <<lapsed, files>>, Inserted(u) => upload[u].id \in files
    PROVE  SlotInvariant'
<1>1. TablesInvariant /\ upload \in [Uploads -> Transaction] /\ IdsOwned /\ ReleasesOwned
        /\ InsertedAlone /\ FilesFirst
  BY InvariantParts
<1>2. Idle \in Transaction /\ Idle.stage = "idle" /\ Idle.released = {} /\ Idle.id = Nobody
  BY DEF Idle, Transaction
<1>3. /\ upload' \in [Uploads -> Transaction] /\ upload'[u] = Idle
      /\ \A v \in Uploads \ {u} : upload'[v] = upload[v]
  BY <1>1, <1>2 DEF Commit
<1>4. Inserted(u) => \A i \in Ids :
        rows[i] = "live" /\ i[1] = upload[u].id[1] => i \in upload[u].released
  BY <1>1 DEF InsertedAlone, LiveSeenBy, Live
<1>5. TablesInvariant'
  <2>1. rows' \in [Ids -> {"absent", "live", "released"}]
    BY <1>1 DEF Commit, TablesInvariant
  <2>2. LapsedStored' /\ CommittedHasFile'
    BY <1>1, CommitRows DEF TablesInvariant, LapsedStored, CommittedHasFile
  <2>3. \A i \in Ids : rows'[i] = "live" => rows[i] = "live" \/ (Inserted(u) /\ i = upload[u].id)
    BY CommitRows
  <2>4. \A i, j \in Ids : rows'[i] = "live" /\ rows'[j] = "live" /\ i[1] = j[1] => i = j
    <3> SUFFICES ASSUME NEW i \in Ids, NEW j \in Ids, rows'[i] = "live", rows'[j] = "live",
                        i[1] = j[1]
                 PROVE  i = j
      OBVIOUS
    <3>1. CASE rows[i] = "live" /\ rows[j] = "live"
      <4>1. i[1] \in Hashes
        BY DEF Ids
      <4> QED
        BY <1>1, <3>1, <4>1 DEF TablesInvariant, OneLivePerHash, Live
    <3>2. CASE Inserted(u) /\ (i = upload[u].id \/ j = upload[u].id)
      <4>1. \A k \in Ids : rows'[k] = "live" /\ k[1] = upload[u].id[1] => k = upload[u].id
        <5> SUFFICES ASSUME NEW k \in Ids, rows'[k] = "live", k[1] = upload[u].id[1],
                            k # upload[u].id
                     PROVE  FALSE
          OBVIOUS
        <5>1. rows[k] = "live"
          BY <2>3
        <5>2. k \in upload[u].released
          BY <1>4, <3>2, <5>1
        <5>3. rows'[k] = "released"
          BY <5>2, CommitRows
        <5> QED
          BY <5>3
      <4> QED
        BY <3>2, <4>1
    <3> QED
      BY <2>3, <3>1, <3>2
  <2>5. OneLivePerHash'
    BY <2>4 DEF OneLivePerHash, Live
  <2> QED
    BY <1>1, <2>1, <2>2, <2>5 DEF TablesInvariant
<1>6. IdsOwned'
  <2>1. \A v \in Uploads \ {u} : upload[v].stage # "idle" =>
            /\ upload[v].id \in Ids /\ rows[upload[v].id] = "absent"
            /\ upload[v].id # Nobody /\ upload[v].id # upload[u].id
    BY <1>1 DEF IdsOwned, Ids, Nobody
  <2>2. \A i \in Ids : rows[i] = "absent" /\ i # upload[u].id => rows'[i] = "absent"
    BY CommitRows
  <2> QED
    BY <1>1, <1>2, <1>3, <2>1, <2>2 DEF IdsOwned
<1>7. ReleasesOwned'
  <2>1. \A v \in Uploads \ {u} : \A i \in upload[v].released :
            rows'[i] = "live" /\ i \in lapsed' /\ i[1] = upload[v].id[1]
    <3> SUFFICES ASSUME NEW v \in Uploads \ {u}, NEW i \in upload[v].released
                 PROVE  rows'[i] = "live" /\ i \in lapsed' /\ i[1] = upload[v].id[1]
      OBVIOUS
    <3>1. rows[i] = "live" /\ i \in lapsed /\ i[1] = upload[v].id[1] /\ i \notin upload[u].released
      BY <1>1 DEF ReleasesOwned
    <3>2. i \in Ids
      BY <1>1, <3>1 DEF TablesInvariant
    <3> QED
      BY <3>1, <3>2, CommitRows
  <2> QED
    BY <1>1, <1>2, <1>3, <2>1 DEF ReleasesOwned
<1>8. InsertedAlone'
  <2> SUFFICES ASSUME NEW v \in Uploads, Inserted(v)'
               PROVE  /\ LiveSeenBy(v)' = {}
                      /\ \A w \in Uploads \ {v} : Inserted(w)' => upload'[w].id[1] # upload'[v].id[1]
    BY DEF InsertedAlone
  <2>1. v # u /\ upload'[v] = upload[v] /\ Inserted(v)
    BY <1>2, <1>3 DEF Inserted
  <2>2. ASSUME NEW w \in Uploads \ {v}, Inserted(w)'
        PROVE  upload'[w].id[1] # upload'[v].id[1]
    <3>1. w # u /\ upload'[w] = upload[w] /\ Inserted(w)
      BY <1>2, <1>3, <2>2 DEF Inserted
    <3> QED
      BY <1>1, <2>1, <3>1 DEF InsertedAlone
  <2>3. ASSUME NEW i \in Ids, i[1] = upload[v].id[1], rows'[i] = "live", i \notin upload[v].released
        PROVE  FALSE
    <3>1. CASE rows[i] = "live"
      BY <1>1, <2>1, <2>3, <3>1 DEF InsertedAlone, LiveSeenBy, Live
    <3>2. CASE Inserted(u) /\ i = upload[u].id
      BY <1>1, <2>1, <2>3, <3>2 DEF InsertedAlone
    <3> QED
      BY <2>3, <3>1, <3>2, CommitRows
  <2>4. LiveSeenBy(v)' = {}
    BY <2>1, <2>3 DEF LiveSeenBy, Live
  <2> QED
    BY <2>2, <2>4
<1>9. FilesFirst'
  BY <1>1, <1>2, <1>3 DEF FilesFirst
<1> QED
  BY <1>3, <1>5, <1>6, <1>7, <1>8, <1>9 DEF SlotInvariant, TablesInvariant, TypeOK, Transaction

LEMMA LapseKeeps ==
    ASSUME SlotInvariant, NEW i \in Ids, WindowLapses(i)
    PROVE  SlotInvariant'
BY DEF SlotInvariant, WindowLapses, TypeOK, IdsOwned, ReleasesOwned, InsertedAlone, FilesFirst,
       LapsedStored, OneLivePerHash, CommittedHasFile, Inserted, LiveSeenBy, Live

-----------------------------------------------------------------------------
(* Every step is one of these.                                             *)

\* What an action of a request does: it arrives, releases, goes on, or ends.
LEMMA ProgressShapes ==
    ASSUME SlotInvariant, NEW u \in Uploads, Progress(u) \/ UploadRaises(u)
    PROVE  \/ ReleaseLapsedHash(u)
           \/ /\ upload[u].stage # "idle" /\ UNCHANGED <<rows, lapsed>>
              /\ files' \in SUBSET Ids /\ files \subseteq files'
              /\ \E stage \in Running :
                    /\ Goto(u, stage)
                    /\ stage = "save" => LiveSeenBy(u) = {} /\ NobodyElseChanging(u)
                    /\ stage = "commit" => Inserted(u) /\ upload[u].id \in files'
           \/ Rollback(u) /\ UNCHANGED <<lapsed, files>>
           \/ /\ upload[u].stage # "idle" /\ Commit(u) /\ UNCHANGED <<lapsed, files>>
              /\ Inserted(u) => upload[u].id \in files
<1>1. /\ files \in SUBSET Ids
      /\ upload[u].stage # "idle" => upload[u].id \in Ids
      /\ upload[u].stage = "commit" => upload[u].id \in files
  BY DEF SlotInvariant, TypeOK, IdsOwned, FilesFirst
<1>2. CASE GetLiveByHash(u)
  BY <1>1, <1>2 DEF GetLiveByHash, Refuse, Rollback, Running, Inserted
<1>3. CASE Insert(u)
  BY <1>1, <1>3 DEF Insert, IndexHeld, Running, NobodyElseChanging
<1>4. CASE ReportWinner(u)
  BY <1>1, <1>4 DEF ReportWinner, Refuse, Rollback, Inserted
<1>5. CASE SavePdf(u)
  BY <1>1, <1>5 DEF SavePdf, Written, Running, Inserted
<1>6. CASE CommitUpload(u)
  BY <1>1, <1>6 DEF CommitUpload
<1>7. CASE UploadRaises(u)
  BY <1>7 DEF UploadRaises
<1> QED
  BY <1>2, <1>3, <1>4, <1>5, <1>6, <1>7 DEF Progress

LEMMA SlotStep == SlotInvariant /\ [Next]_vars => SlotInvariant'
<1> SUFFICES ASSUME SlotInvariant, [Next]_vars PROVE SlotInvariant'
  OBVIOUS
<1>1. ASSUME NEW u \in Uploads, UploadArrives(u) PROVE SlotInvariant'
  BY <1>1, ArrivesKeeps
<1>2. ASSUME NEW u \in Uploads, Progress(u) \/ UploadRaises(u) PROVE SlotInvariant'
  BY <1>2, ProgressShapes, ReleaseKeeps, GoesOnKeeps, RollbackKeeps, CommitKeeps
<1>3. ASSUME NEW i \in Ids, WindowLapses(i) PROVE SlotInvariant'
  BY <1>3, LapseKeeps
<1>4. CASE UNCHANGED vars
  BY <1>4 DEF vars, SlotInvariant, TypeOK, IdsOwned, ReleasesOwned, InsertedAlone, FilesFirst,
       LapsedStored, OneLivePerHash, CommittedHasFile, Inserted, LiveSeenBy, Live
<1> QED
  BY <1>1, <1>2, <1>3, <1>4 DEF Next

\* What uploads may rely on between their statements: releases and inserts that
\* are not committed yet exclude each other, hash by hash.
THEOREM SlotInvariantHolds == Spec => []SlotInvariant
BY SlotInit, SlotStep, PTL DEF Spec

\* The tables and the transactions of uploads have their types.
THEOREM UploadTypeCorrect == Spec => []TypeOK
<1>1. SlotInvariant => TypeOK
  BY DEF SlotInvariant
<1> QED
  BY <1>1, SlotInvariantHolds, PTL

\* However uploads of one file, the release of its previous document and rollbacks
\* interleave, a content hash has at most one live document (upload(), and the
\* partial unique index it relies on).
THEOREM AlwaysOneLivePerHash == Spec => []OneLivePerHash
<1>1. SlotInvariant => OneLivePerHash
  BY DEF SlotInvariant
<1> QED
  BY <1>1, SlotInvariantHolds, PTL

\* A committed document has its file on disk (the order of insert, file and
\* commit in upload()).
THEOREM CommittedAlwaysHasFile == Spec => []CommittedHasFile
<1>1. SlotInvariant => CommittedHasFile
  BY DEF SlotInvariant
<1> QED
  BY <1>1, SlotInvariantHolds, PTL

-----------------------------------------------------------------------------
(* The refinement of HashSlot.                                             *)

\* The choice from a set of one.
LEMMA OnlyChoice ==
    ASSUME NEW S, NEW i \in S, \A j \in S : j = i
    PROVE  (CHOOSE j \in S : TRUE) = i
OBVIOUS

\* With one live document per hash, it is the holder.
LEMMA HolderIsLive ==
    ASSUME SlotInvariant, NEW h \in Hashes, NEW i \in Live(h)
    PROVE  Holder(h) = i
<1>1. \A j \in Live(h) : j = i
  BY DEF SlotInvariant, OneLivePerHash
<1> QED
  BY <1>1, OnlyChoice DEF Holder

LEMMA InitRefines == Init => Slot!Init
BY DEF Init, Slot!Init, Live, Holder

\* A step that keeps the rows keeps the holders.
LEMMA HoldersKept == ASSUME UNCHANGED rows PROVE \A h \in Hashes : Holder(h)' = Holder(h)
BY DEF Holder, Live

LEMMA CommitRefines ==
    ASSUME SlotInvariant, SlotInvariant', NEW u \in Uploads, upload[u].stage # "idle",
           Commit(u), UNCHANGED lapsed
    PROVE  [Slot!Next]_Slot!vars
<1>1. PICK i \in Ids : i = upload[u].id
  BY DEF SlotInvariant, IdsOwned
<1>2. PICK h \in Hashes : h = i[1]
  BY DEF Ids
<1>3. rows[i] = "absent" /\ i \notin lapsed
  BY <1>1 DEF SlotInvariant, IdsOwned, LapsedStored
<1>4. \A k \in Hashes \ {h} : Live(k)' = Live(k)
  BY <1>1, <1>2, CommitRows DEF Live
<1>5. \A k \in Hashes \ {h} : Holder(k)' = Holder(k)
  <2> SUFFICES ASSUME NEW k \in Hashes \ {h} PROVE Holder(k)' = Holder(k)
    OBVIOUS
  <2>1. Live(k)' = Live(k)
    BY <1>4
  <2>2. CASE Live(k) = {}
    BY <2>1, <2>2 DEF Holder
  <2>3. CASE Live(k) # {}
    <3>1. PICK j \in Live(k) : TRUE
      BY <2>3
    <3>2. j \in Live(k)' /\ \A m \in Live(k)' : m = j
      BY <2>1, <3>1 DEF SlotInvariant, OneLivePerHash
    <3>3. Holder(k)' = j
      BY <3>2 DEF Holder
    <3> QED
      BY <3>1, <3>3, HolderIsLive
  <2> QED
    BY <2>2, <2>3
<1>6. CASE Inserted(u)
  <2>1. i \in Live(h)'
    BY <1>1, <1>2, <1>6, CommitRows DEF Live
  <2>2. \A j \in Live(h)' : j = i
    BY <1>2, <2>1 DEF SlotInvariant, OneLivePerHash
  <2>3. Holder(h)' = i
    BY <2>1, <2>2 DEF Holder
  <2>4. Holder(h) = Nobody \/ Holder(h) \in lapsed
    <3>1. Live(h) \subseteq upload[u].released
      BY <1>1, <1>2, <1>6 DEF SlotInvariant, InsertedAlone, LiveSeenBy
    <3>2. Live(h) \subseteq lapsed
      BY <3>1 DEF SlotInvariant, ReleasesOwned
    <3> QED
      BY <3>2 DEF Holder
  <2>5. Slot!Take(h, i)
    BY <1>2, <1>3, <1>5, <2>3, <2>4 DEF Slot!Take, Slot!Open
  <2> QED
    BY <1>1, <1>2, <2>5 DEF Slot!Next
<1>7. CASE ~Inserted(u) /\ upload[u].released = {}
  <2>1. rows \in [Ids -> {"absent", "live", "released"}]
    BY DEF SlotInvariant, TypeOK
  <2>2. rows' = rows
    BY <1>7, <2>1 DEF Commit
  <2> QED
    BY <2>2, HoldersKept DEF Slot!vars
<1>8. CASE ~Inserted(u) /\ upload[u].released # {}
  <2>1. PICK j \in upload[u].released : TRUE
    BY <1>8
  <2>2. j \in lapsed /\ rows[j] = "live" /\ j[1] = h
    BY <1>1, <1>2, <2>1 DEF SlotInvariant, ReleasesOwned
  <2>3. j \in Ids
    BY <2>2 DEF SlotInvariant, TypeOK
  <2>4. j \in Live(h)
    BY <2>2, <2>3 DEF Live
  <2>5. \A k \in Live(h) : k = j
    BY <1>2, <2>4 DEF SlotInvariant, OneLivePerHash
  <2>6. Holder(h) \in lapsed
    BY <1>2, <2>2, <2>4, HolderIsLive
  <2>7. Live(h)' = {}
    <3> SUFFICES ASSUME NEW k \in Ids, k[1] = h, rows'[k] = "live" PROVE FALSE
      BY DEF Live
    <3>1. k \notin upload[u].released
      BY CommitRows
    <3>2. rows[k] = "live"
      BY <1>8, <3>1, CommitRows
    <3> QED
      BY <2>1, <2>5, <3>1, <3>2 DEF Live
  <2>8. Holder(h)' = Nobody
    BY <2>7 DEF Holder
  <2>9. Slot!Release(h)
    BY <1>2, <1>5, <2>6, <2>8 DEF Slot!Release
  <2> QED
    BY <1>2, <2>9 DEF Slot!Next
<1> QED
  BY <1>6, <1>7, <1>8

LEMMA StepRefines ==
    ASSUME SlotInvariant, SlotInvariant', [Next]_vars
    PROVE  [Slot!Next]_Slot!vars
<1>1. ASSUME UNCHANGED <<rows, lapsed>> PROVE UNCHANGED Slot!vars
  BY <1>1, HoldersKept DEF Slot!vars
<1>2. ASSUME NEW u \in Uploads, UploadArrives(u) PROVE UNCHANGED <<rows, lapsed>>
  BY <1>2 DEF UploadArrives
<1>3. ASSUME NEW u \in Uploads, Progress(u) \/ UploadRaises(u)
      PROVE  \/ UNCHANGED <<rows, lapsed>>
             \/ upload[u].stage # "idle" /\ Commit(u) /\ UNCHANGED lapsed
  BY <1>3, ProgressShapes DEF ReleaseLapsedHash, Rollback
<1>4. ASSUME NEW i \in Ids, WindowLapses(i) PROVE Slot!Next
  <2>1. Slot!Lapse(i)
    BY <1>4, HoldersKept DEF WindowLapses, Slot!Lapse
  <2> QED
    BY <2>1 DEF Slot!Next
<1> QED
  BY <1>1, <1>2, <1>3, <1>4, CommitRefines DEF Next, vars

\* The slot of a hash changes hands only when the window of its holder is over,
\* and in one step: upload() implements HashSlot.
THEOREM UploadsKeepTheWindow == Spec => KeptForItsWindow
<1>1. SlotInvariant /\ SlotInvariant' /\ [Next]_vars => [Slot!Next]_Slot!vars
  BY StepRefines
<1> QED
  BY <1>1, InitRefines, SlotInvariantHolds, PTL DEF Spec, KeptForItsWindow, Slot!Spec

-----------------------------------------------------------------------------
(* Who waits for whom.                                                     *)

\* A transaction that has inserted waits for nothing, and one at its release has
\* changed nothing; the one that another waits for to insert or to release has
\* therefore released the live row of the hash.  There is one such row and one
\* such transaction, so whoever that one waits for has done neither.
LEMMA WaitedForHolds ==
    ASSUME SlotInvariant, NEW u \in Uploads, NEW v \in Uploads, NEW w \in Uploads,
           u # v, v # w, WaitsFor(u, v), WaitsFor(v, w)
    PROVE  FALSE
<1>1. upload[v].stage \in {"release", "insert"} /\ ~Inserted(v)
  BY DEF WaitsFor, Inserted
<1>2. upload[v].released # {}
  BY <1>1 DEF WaitsFor, RowWaits, IndexWaits, Changing
<1>3. PICK i \in upload[v].released : rows[i] = "live" /\ i[1] = upload[v].id[1]
  BY <1>2 DEF SlotInvariant, ReleasesOwned
<1>4. i \in Ids
  BY <1>3 DEF SlotInvariant, TypeOK
<1>5. i \in Live(upload[v].id[1]) /\ upload[v].id[1] \in Hashes
  BY <1>3, <1>4 DEF Live, Ids
<1>6. \A j \in Live(upload[v].id[1]) : j = i
  BY <1>5 DEF SlotInvariant, OneLivePerHash
<1>7. i \notin upload[w].released
  BY <1>3 DEF SlotInvariant, ReleasesOwned
<1>8. CASE upload[v].stage = "release"
  <2>1. Matching(v) = {}
    BY <1>3, <1>6 DEF Matching, LiveSeenBy
  <2> QED
    BY <1>8, <2>1 DEF WaitsFor, RowWaits
<1>9. CASE upload[v].stage = "insert"
  <2>1. Changing(w) /\ upload[w].id[1] = upload[v].id[1]
    BY <1>9 DEF WaitsFor, IndexWaits
  <2>2. CASE Inserted(w)
    BY <1>5, <1>7, <2>1, <2>2 DEF SlotInvariant, InsertedAlone, LiveSeenBy
  <2>3. CASE upload[w].released # {}
    <3>1. PICK j \in upload[w].released : rows[j] = "live" /\ j[1] = upload[v].id[1]
      BY <2>1, <2>3 DEF SlotInvariant, ReleasesOwned
    <3>2. j \in Live(upload[v].id[1])
      BY <3>1 DEF SlotInvariant, TypeOK, Live
    <3> QED
      BY <1>6, <1>7, <3>1, <3>2
  <2> QED
    BY <2>1, <2>2, <2>3 DEF Changing
<1> QED
  BY <1>1, <1>8, <1>9

\* Uploads of one file wait for each other's rows and index entries, and never in
\* a circle: PostgreSQL has no deadlock to break by refusing one of them.
THEOREM UploadsNeverDeadlock == Spec => []WaitedForGoesOn
<1>1. SlotInvariant => WaitedForGoesOn
  BY WaitedForHolds DEF WaitedForGoesOn
<1> QED
  BY <1>1, SlotInvariantHolds, PTL

=============================================================================
