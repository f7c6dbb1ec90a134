---------------------------- MODULE VendorClient ----------------------------
(***************************************************************************)
(* FastAccountingClient: what becomes of one HTTP exchange with the        *)
(* vendor, and what ExtractionService can store of it.  An exchange is     *)
(* kept as what the code can tell of it: how it ended, the class of its    *)
(* status and the shape of its body.  The shapes are those of any JSON,    *)
(* not only of the documented answers.                                     *)
(***************************************************************************)
EXTENDS Receipt, Naturals

\* 2xx and 3xx; 4xx and 5xx outside RETRYABLE_STATUS; RETRYABLE_STATUS.
Statuses == {"ok", "rejected", "unavailable"}

\* Where the API documents an object: a falsy value, an object, or another value.
Shapes == {"none", "object", "other"}

\* error_code: nothing int() reads, an int4, a larger integer, an Infinity.
ErrorCodes == {"none", "int4", "wide", "infinite"}

\* An image of the convert answer: decodable text, other text, no text.
ImageKinds == {"image", "undecodable", "not_text"}

\* Whether PostgreSQL takes the text or jsonb: response.json() accepts NUL
\* characters, NaN and Infinity, and PostgreSQL does not.
Refusals ==
    [form : {"refusal"}, data : {"none", "other"}, storable : {TRUE}]
    \cup [form : {"refusal"}, data : {"object"}, code : ErrorCodes, storable : BOOLEAN]
Malformed == [form : {"not_json", "not_object"}]
Conversions(images) ==
    [form : {"conversion"}, data : {"none", "other"}]
    \cup [form : {"conversion"}, data : {"object"}, images : images]
Receipts(payloads) == [form : {"receipt"}, payload : payloads, storable : BOOLEAN]

Unanswered == [came : {"timeout", "transport_error"}]
Answered(bodies) == [came : {"response"}, status : Statuses, body : bodies]
Exchanges(bodies) == Unanswered \cup Answered(bodies \cup Refusals \cup Malformed)

-----------------------------------------------------------------------------
(* Results of the client: FastAccountingError, any other exception, or the *)
(* value returned.                                                         *)

VendorError(retryable, code) == [kind |-> "error", retryable |-> retryable, code |-> code]
Raised == [kind |-> "exception"]

Retryable(status) == status = "unavailable"

\* Mutant: a refusal without data has nothing to get() from.
RefusalWithoutData(body) ==
    IF body.data # "object" \/ body.code = "infinite" THEN Raised
    ELSE VendorError(FALSE, body.code)

\* The code of a refusal is in its body: detail.get() needs an object, and
\* _as_int catches what int() raises for text and null but not for an Infinity.
Refusal(body) ==
    IF body.data = "none" THEN VendorError(FALSE, "none")
    ELSE IF body.data = "other" \/ body.code = "infinite" THEN Raised
    ELSE VendorError(FALSE, body.code)

\* Mutant: the status is looked at before the body.
PostStatusFirst(x) ==
    IF x.came # "response" THEN VendorError(TRUE, "none")
    ELSE IF x.body.form = "not_json" \/ x.status # "ok" THEN VendorError(Retryable(x.status), "none")
    ELSE IF x.body.form = "refusal" THEN Refusal(x.body)
    ELSE IF x.body.form = "not_object" THEN VendorError(FALSE, "none")
    ELSE [kind |-> "payload", body |-> x.body]

Post(x) ==
    IF x.came # "response" THEN VendorError(TRUE, "none")
    ELSE IF x.body.form = "not_json" THEN VendorError(Retryable(x.status), "none")
    ELSE IF x.body.form = "refusal" THEN Refusal(x.body)
    ELSE IF x.status # "ok" THEN VendorError(Retryable(x.status), "none")
    ELSE IF x.body.form = "not_object" THEN VendorError(FALSE, "none")
    ELSE [kind |-> "payload", body |-> x.body]

ImagesOf(body) == IF body.data = "none" THEN <<>> ELSE body.images

\* The images are decoded in order and the first that is not one decides.
Decode(images) ==
    LET bad == {i \in DOMAIN images : images[i] # "image"}
    IN  IF bad = {} THEN [kind |-> "images", count |-> Len(images)]
        ELSE IF \E i \in bad : images[i] = "not_text" /\ \A j \in bad : i <= j THEN Raised
        ELSE VendorError(FALSE, "none")

convert_to_jpg(x) ==
    LET answer == Post(x)
    IN  IF answer.kind # "payload" THEN answer
        ELSE IF answer.body.data = "other" THEN Raised
        ELSE IF ImagesOf(answer.body) = <<>> THEN VendorError(FALSE, "none")
        ELSE Decode(ImagesOf(answer.body))

extract_receipt(x) == Post(x)

-----------------------------------------------------------------------------
(* What the step of ExtractionService stores: a status, or nothing when    *)
(* the client raises something else or PostgreSQL refuses the row.         *)

Unstorable(x) == x.came = "response" /\ "storable" \in DOMAIN x.body /\ ~x.body.storable

\* The message of a refusal, its code on a page (an INTEGER column), or the
\* payload: what the code hands on as it came.
DatabaseRefuses(kind, x, result) ==
    \/ Unstorable(x) /\ (x.body.form = "refusal" \/ result.kind = "payload")
    \/ kind = "page" /\ result.kind = "error" /\ result.code = "wide"

ResultOf(kind, x) == IF kind = "document" THEN convert_to_jpg(x) ELSE extract_receipt(x)

Stores(kind, x) ==
    LET result == ResultOf(kind, x)
    IN  IF result.kind = "exception" \/ DatabaseRefuses(kind, x, result) THEN "nothing"
        ELSE IF result.kind = "error" THEN "failed"
        ELSE "succeeded"

=============================================================================
