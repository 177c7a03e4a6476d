---------------------------- MODULE MCWebClient ----------------------------
(* Small instances of WebClient for TLC.                                   *)
EXTENDS WebClient, TLC

(* Cookies are interchangeable, and so are the tasks. *)
Interchangeable == Permutations(Sessions) \cup Permutations(Callers)
=============================================================================
