---------------------------- MODULE MeterHistory ----------------------------
(***************************************************************************)
(* The arithmetic of the meterhistory command: what the summary and the    *)
(* CSV say of the sessions the charger recorded                            *)
(* (src/src/peblar/cli/__init__.py).                                       *)
(*                                                                         *)
(* A history has its sessions, in any order, flags for some of them, and   *)
(* perhaps what is known of the meter (meta, only needed by the export); a *)
(* session has a token, or None, and the meter's reading in mWh when it    *)
(* began and when it ended, None while it is running.                      *)
(***************************************************************************)
EXTENDS Integers, Sequences, FiniteSetsExt

CONSTANT None   \* Python's None

NoSessions == [sessions |-> <<>>, corrupted |-> <<>>, meta |-> FALSE]

Tokens(s) == {s[i].token : i \in DOMAIN s}
Ended(s) == {i \in DOMAIN s : s[i].end # None}

SessionsOK(s) == s \in Seq([token : Tokens(s), start : Int, end : Int \cup {None}])

(* There may be fewer flags than sessions, or more. *)
HistoryOK(h) ==
  /\ DOMAIN h = {"sessions", "corrupted", "meta"}
  /\ SessionsOK(h.sessions)
  /\ h.corrupted \in Seq(BOOLEAN) /\ h.meta \in BOOLEAN

(* Slip: the sessions are taken to be listed oldest first. *)
TotalInOrder(s) ==
  IF Ended(s) = {} THEN 0 ELSE Max({0, s[Max(Ended(s))].end - s[1].start})

(* The span of the meter: last end minus first start, never below zero.    *)
Total(s) ==
  IF Ended(s) = {} THEN 0
    ELSE Max({0, Max({s[i].end : i \in Ended(s)}) - Min({s[i].start : i \in DOMAIN s})})

(* Per token its sessions and the energy of those that ended.              *)
Aggregate(s) ==
  [t \in Tokens(s) |->
     LET own == {i \in DOMAIN s : s[i].token = t} IN
     [count |-> Cardinality(own),
      energy |-> MapThenSumSet(LAMBDA i : s[i].end - s[i].start, own \cap Ended(s))]]

(* Slip: the flags are looked up by session number, which starts at one. *)
RowOff(h, i) ==
  [energy |-> IF h.sessions[i].end = None THEN None
                ELSE h.sessions[i].end - h.sessions[i].start,
   fail |-> i + 1 <= Len(h.corrupted) /\ h.corrupted[i + 1]]

(* A row of the CSV; a session nobody flagged passes.                      *)
Row(h, i) ==
  [energy |-> IF h.sessions[i].end = None THEN None
                ELSE h.sessions[i].end - h.sessions[i].start,
   fail |-> i <= Len(h.corrupted) /\ h.corrupted[i]]

Summary(h) ==
  [kind |-> "summary", total |-> Total(h.sessions), rows |-> Aggregate(h.sessions)]

Csv(h) ==
  [kind |-> "csv", total |-> Total(h.sessions),
   rows |-> [i \in DOMAIN h.sessions |-> Row(h, i)]]

----------------------------------------------------------------------------
(* What a report must say, for whatever it was computed from.              *)

Sum(s) == MapThenSumSet(LAMBDA i : s[i].end - s[i].start, Ended(s))

(* A meter only counts up, and there is one session at a time, in whatever *)
(* order they are listed.                                                  *)
OneAtATime(s) ==
  /\ \A i \in Ended(s) : s[i].start <= s[i].end
  /\ \A i, j \in Ended(s) : i # j => s[i].end <= s[j].start \/ s[j].end <= s[i].start

(* Nothing was drawn between sessions, and all of them ended. *)
Gapless(s) ==
  /\ Ended(s) = DOMAIN s
  /\ \A i \in DOMAIN s \ {1} : s[i - 1].end = s[i].start
=============================================================================
