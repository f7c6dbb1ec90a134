----------------------------- MODULE AttemptLog -----------------------------
(***************************************************************************)
(* What the extractions table promises: for every subject, here a page on  *)
(* an engine, a log of outcomes that only ever grows at its end, one       *)
(* outcome at a time.  The position of an outcome is its attempt_no.       *)
(***************************************************************************)
EXTENDS Sequences

CONSTANTS Subjects, Outcomes

VARIABLE log

Init == log = [s \in Subjects |-> <<>>]

Record(s, o) == log' = [log EXCEPT ![s] = Append(@, o)]

Next == \E s \in Subjects, o \in Outcomes : Record(s, o)

Spec == Init /\ [][Next]_log

=============================================================================
