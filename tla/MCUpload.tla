------------------------------ MODULE MCUpload ------------------------------
(* Small instances of Upload for the model checker.                        *)
EXTENDS Upload, TLC

Symmetric == Permutations(Uploads)
=============================================================================
