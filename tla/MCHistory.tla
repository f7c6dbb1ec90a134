----------------------------- MODULE MCHistory ------------------------------
(* Small instances of History: the administrator prices an engine per      *)
(* page, or has it billed by tokens.                                       *)
EXTENDS History, TLC

Listing(v, unit, cost) == [version |-> v, unit |-> unit, unit_cost |-> cost]
MCListings == {Listing(1, "page", 3), Listing(2, "1k_tokens", 5)}

\* The administrator, the reader and the retry take turns, and a retry pins the
\* engine that is not active, or none, so that the run stays small: each meets
\* everything the workers do, but not the others.
OneVisitor ==
    LET visits == {v \in {"edit", "reader", "retry"} :
            \/ v = "edit" /\ reprices > 0
            \/ v = "reader" /\ view # NoView
            \/ v = "retry" /\ \E r \in Requests : request[r] # NewRequest}
    IN  /\ Cardinality(visits) <= 1
        /\ \A r \in Requests : request[r].stage = "loaded" => request[r].engine_key \notin active

Symmetric == Permutations(Workers)
=============================================================================
