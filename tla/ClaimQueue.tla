----------------------------- MODULE ClaimQueue -----------------------------
(***************************************************************************)
(* What a claim promises: a row waits until one worker takes it, stays     *)
(* with that worker until it finishes the row or lets go of it, and        *)
(* returns to the queue only when nobody has it.                           *)
(***************************************************************************)
CONSTANTS Rows, Workers

VARIABLES
    status,   \* absent, waiting, claimed or finished
    held      \* the rows that each worker has in hand

vars == <<status, held>>

Init == status = [r \in Rows |-> "absent"] /\ held = [w \in Workers |-> {}]

Mark(S, new) == status' = [r \in Rows |-> IF r \in S THEN new ELSE status[r]]
LetGo(w, S) == held' = [held EXCEPT ![w] = @ \ S]

\* Rows are inserted, or asked for again.
Enqueue(S) ==
    /\ \A r \in S : status[r] \in {"absent", "finished"}
    /\ Mark(S, "waiting")
    /\ UNCHANGED held

Claim(w, S) ==
    /\ \A r \in S : status[r] = "waiting"
    /\ Mark(S, "claimed")
    /\ held' = [held EXCEPT ![w] = @ \cup S]

Finish(w, r) == r \in held[w] /\ Mark({r}, "finished") /\ LetGo(w, {r})

\* A step fails or its worker dies: the row stays claimed.
Drop(w, S) == LetGo(w, S) /\ UNCHANGED status

Release(S) ==
    /\ \A r \in S : status[r] = "claimed" /\ \A w \in Workers : r \notin held[w]
    /\ Mark(S, "waiting")
    /\ UNCHANGED held

Next ==
    \/ \E S \in SUBSET Rows : Enqueue(S) \/ Release(S)
    \/ \E w \in Workers, S \in SUBSET Rows : Claim(w, S) \/ Drop(w, S)
    \/ \E w \in Workers, r \in Rows : Finish(w, r)

Spec == Init /\ [][Next]_vars

=============================================================================
