---------------------------- MODULE MCWorkerLoop ----------------------------
(* The answers of the vendor in the instances of WorkerLoop: up to two     *)
(* images of any kind; an amount and an issuer with any two scores, each   *)
(* kind of value, and the shapes where the documentation has an object.    *)
EXTENDS WorkerLoop

MCRows == {<<"document", 1, 1>>, <<"page", 1, 2>>, <<"page", 2, 2>>, <<"page", 3, 3>>}
MCBroken == {<<"page", 1, 2>>}

MCImages ==
    {<<>>, <<"image">>, <<"image", "image">>, <<"image", "not_text">>,
     <<"undecodable", "not_text">>, <<"not_text", "undecodable">>}

Payload(amount, scores, options, confidences) ==
    [values |-> amount, options |-> options, confidences |-> confidences, scores |-> scores]
Found == [amount |-> "amount", issuer |-> "words"]
Scored(s, t) == ("amount" :> s) @@ ("issuer_name" :> t)

MCPayloads ==
    {Payload(Found, Scored(s, "score"), "object", "object") : s \in ScoreKinds}
    \cup {Payload([amount |-> v], Scored("zero", "score"), "none", "object") :
            v \in ValueKinds \ {"amount"}}
    \cup {Payload(Found, <<>>, "other", "none"), Payload(Found, <<>>, "object", "other")}
=============================================================================
