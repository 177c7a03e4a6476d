---------------------------- MODULE BoundedCall ----------------------------
(***************************************************************************)
(* What a client promises about the HTTP traffic of one public call,       *)
(* whatever the retries and re-authentications behind it look like: a call *)
(* makes its first HTTP request as it starts, makes further ones while it  *)
(* is busy, never more than Budget of them in all, and returns.            *)
(***************************************************************************)
EXTENDS Naturals

CONSTANTS
  Callers,  \* the tasks that share one client
  Budget    \* the most HTTP requests one call may cost

VARIABLE used  \* the requests each caller's call has made; 0 when it has none

Init == used = [c \in Callers |-> 0]

(* A call starts and puts its first request on the wire. *)
Start(c) ==
  /\ used[c] = 0
  /\ used' = [used EXCEPT ![c] = 1]

(* A busy call makes one more request. *)
Spend(c) ==
  /\ used[c] \in 1..(Budget - 1)
  /\ used' = [used EXCEPT ![c] = @ + 1]

(* A busy call returns or raises. *)
Return(c) ==
  /\ used[c] > 0
  /\ used' = [used EXCEPT ![c] = 0]

Next == \E c \in Callers : Start(c) \/ Spend(c) \/ Return(c)

Spec == Init /\ [][Next]_used
=============================================================================
