------------------------------ MODULE HashSlot ------------------------------
(***************************************************************************)
(* What retention promises: a content hash is one slot.  A document takes  *)
(* it when it is free, keeps it for its retention window, and loses it     *)
(* after that, to the next upload of the same file or for nothing.         *)
(***************************************************************************)
CONSTANTS Hashes, Ids, Nobody

VARIABLES
    holder,   \* the document that holds each hash
    lapsed    \* the documents whose retention window is over

vars == <<holder, lapsed>>

Init == holder = [h \in Hashes |-> Nobody] /\ lapsed = {}

Open(h) == holder[h] = Nobody \/ holder[h] \in lapsed

Take(h, i) ==
    /\ Open(h) /\ i \notin lapsed
    /\ holder' = [holder EXCEPT ![h] = i]
    /\ UNCHANGED lapsed

Release(h) ==
    /\ holder[h] \in lapsed
    /\ holder' = [holder EXCEPT ![h] = Nobody]
    /\ UNCHANGED lapsed

Lapse(i) == lapsed' = lapsed \cup {i} /\ UNCHANGED holder

Next ==
    \/ \E h \in Hashes : Release(h) \/ \E i \in Ids : Take(h, i)
    \/ \E i \in Ids : Lapse(i)

Spec == Init /\ [][Next]_vars

=============================================================================
