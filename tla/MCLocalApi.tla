----------------------------- MODULE MCLocalApi -----------------------------
(* Small instances of LocalApi for TLC.                                    *)
EXTENDS LocalApi, TLC

(* Tokens are interchangeable, and so are the tasks. *)
Interchangeable == Permutations(Tokens) \cup Permutations(Callers)
=============================================================================
