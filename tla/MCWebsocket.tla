---------------------------- MODULE MCWebsocket ----------------------------
(* Small instances of Websocket for TLC.                                   *)
EXTENDS Websocket, TLC

CONSTANTS o, a, b, x, y

(* Connections are interchangeable. *)
Interchangeable == Permutations(Conns)

(* A topic they share, and one of its own that the second leaves again. *)
MixedTopics == {<<o, x>>, <<a, x>>, <<a, y>>}
OwnLeaves == {<<a, y>>}

(* Every subscriber has a topic of its own. *)
OwnTopics == {<<o, x>>, <<a, y>>}

(* Two subscribers of the same topic. *)
SharedTopic == {<<a, x>>, <<b, x>>}
=============================================================================
