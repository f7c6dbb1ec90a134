----------------------------- MODULE MCPipeline -----------------------------
(* Small instances of Pipeline for the model checker.  The workers are     *)
(* interchangeable, and so are the requests.                               *)
EXTENDS Pipeline, TLC

Symmetric == Permutations(Workers) \cup Permutations(Requests)
=============================================================================
