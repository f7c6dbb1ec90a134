------------------------------- MODULE Receipt -------------------------------
(***************************************************************************)
(* normalize_receipt and ExtractionRead: a stored receipt payload as the   *)
(* API and the screens present it.  A payload is kept as the kind of value *)
(* under each field of RECEIPT_FIELDS that it carries (no other is read),  *)
(* the shapes of options and confidences, and the kind of score under each *)
(* key of confidences.                                                     *)
(***************************************************************************)
EXTENDS Integers, Sequences, SequencesExt

\* null, "" or whitespace, a number, a date in one of three formats, other text.
ValueKinds == {"null", "blank", "amount", "date", "words"}

\* A number in (0, 1], 0, another number, a list or text or flag, an integer
\* beyond the range of float.
ScoreKinds == {"score", "zero", "outside", "no_number", "huge"}

RECEIPT_FIELDS == <<"date", "amount", "tel", "issuer">>
Fields == {RECEIPT_FIELDS[n] : n \in DOMAIN RECEIPT_FIELDS}

\* Mutant: each field is scored under its own name.
ConfidenceKeyOwn(name) == name

ConfidenceKey(name) == IF name = "issuer" THEN "issuer_name" ELSE name

NoValue == "none"
NoScore == "none"

Clean(value) == IF value \in {"null", "blank"} THEN NoValue ELSE value

Parse(name, value) ==
    IF name \in {"date", "amount"} /\ value # name THEN NoValue ELSE Clean(value)

parse_confidence(score) == IF score = "score" THEN score ELSE NoScore

Carries(payload, name) == name \in DOMAIN payload.values

\* confidences.get(key), nothing when the payload has no such block.
ScoreOf(payload, name) ==
    IF ConfidenceKey(name) \in DOMAIN payload.scores
    THEN payload.scores[ConfidenceKey(name)] ELSE NoScore

\* options or confidences is a value without get(), or a score overflows float();
\* confidences and scores are looked at only for a field that is there.
NormalizeRaises(payload) ==
    \/ payload.options = "other"
    \/ \E name \in DOMAIN payload.values :
        payload.confidences = "other" \/ ScoreOf(payload, name) = "huge"

Present(payload, name) ==
    [name |-> name, value |-> Parse(name, payload.values[name]),
     confidence |-> parse_confidence(ScoreOf(payload, name))]

\* The fields the payload carries, appended one after the other.
normalize_receipt(payload) ==
    LET fields[n \in 0..Len(RECEIPT_FIELDS)] ==
            IF n = 0 THEN <<>>
            ELSE IF Carries(payload, RECEIPT_FIELDS[n])
            THEN Append(fields[n - 1], Present(payload, RECEIPT_FIELDS[n]))
            ELSE fields[n - 1]
    IN  fields[Len(RECEIPT_FIELDS)]

=============================================================================
