-------------------------------- MODULE Scan --------------------------------
(***************************************************************************)
(* The scan command (src/src/peblar/cli/__init__.py): zeroconf calls back  *)
(* for every service announced on the network; each callback starts a task *)
(* that asks the service for its details and lists it, until Ctrl-C.       *)
(***************************************************************************)
EXTENDS Naturals, Sequences, FiniteSets

CONSTANTS
  Services,   \* what may be announced: [host, type, charger, txt]
  MaxTasks    \* bound: announcements of one scan

(* type: "pblr" is Peblar's own, "http" anybody's; charger: the host is    *)
(* called PBLR-; txt: whether the properties can be decoded.               *)
ServiceOK(s) ==
  /\ DOMAIN s = {"host", "type", "charger", "txt"}
  /\ s.type \in {"pblr", "http"} /\ s.charger \in BOOLEAN /\ s.txt \in BOOLEAN
ASSUME ServicesAssumption == \A s \in Services : ServiceOK(s)
ASSUME TasksAssumption == MaxTasks \in Nat

VARIABLES
  stage,    \* where the command is
  made,     \* the service each task was started for, in order
  tasks,    \* background_tasks: those not yet done
  awaited,  \* the tasks gather() waits for
  seen,     \* the hosts listed, or about to be
  rows,     \* the table
  heard,    \* history: services whose details came in
  spoiled   \* history: hosts whose details could not be decoded

vars == <<stage, made, tasks, awaited, seen, rows, heard, spoiled>>

Init ==
  /\ stage = "scanning"
  /\ made = <<>> /\ tasks = {} /\ awaited = {}
  /\ seen = {} /\ rows = <<>>
  /\ heard = {} /\ spoiled = {}

(* A callback: only for services that were added.                          *)
Announce(s) ==
  /\ stage \in {"scanning", "cancelling"}
  /\ Len(made) < MaxTasks
  /\ made' = Append(made, s)
  /\ tasks' = tasks \cup {Len(made) + 1}
  /\ UNCHANGED <<stage, awaited, seen, rows, heard, spoiled>>

(* Slip: any host is taken for a charger. *)
AcceptedAny(s) == TRUE

Accepted(s) == s.type = "pblr" \/ s.charger

(* Slip: a host that was seen before is listed again. *)
DetailsUnchecked(i) ==
  LET s == made[i] IN
  /\ i \in tasks
  /\ tasks' = tasks \ {i}
  /\ heard' = heard \cup {s}
  /\ IF Accepted(s)
       THEN /\ seen' = seen \cup {s.host}
            /\ IF s.txt THEN rows' = Append(rows, s.host) /\ UNCHANGED spoiled
                        ELSE spoiled' = spoiled \cup {s.host} /\ UNCHANGED rows
       ELSE UNCHANGED <<seen, rows, spoiled>>
  /\ UNCHANGED <<stage, made, awaited>>

(* Slip: a host is remembered before it is known to be a charger. *)
DetailsEarly(i) ==
  LET s == made[i] IN
  /\ i \in tasks
  /\ tasks' = tasks \ {i}
  /\ heard' = heard \cup {s}
  /\ seen' = seen \cup {s.host}
  /\ rows' = IF Accepted(s) /\ s.host \notin seen /\ s.txt THEN Append(rows, s.host) ELSE rows
  /\ UNCHANGED <<stage, made, awaited, spoiled>>

(* The details come in: from here to the table there is no await.  The     *)
(* host is remembered before its properties are decoded, which may raise.  *)
Details(i) ==
  LET s == made[i] IN
  /\ i \in tasks
  /\ tasks' = tasks \ {i}
  /\ heard' = heard \cup {s}
  /\ IF Accepted(s) /\ s.host \notin seen
       THEN /\ seen' = seen \cup {s.host}
            /\ IF s.txt THEN rows' = Append(rows, s.host) /\ UNCHANGED spoiled
                        ELSE spoiled' = spoiled \cup {s.host} /\ UNCHANGED rows
       ELSE UNCHANGED <<seen, rows, spoiled>>
  /\ UNCHANGED <<stage, made, awaited>>

(* Nobody answers within three seconds. *)
NoDetails(i) ==
  /\ i \in tasks
  /\ tasks' = tasks \ {i}
  /\ UNCHANGED <<stage, made, awaited, seen, rows, heard, spoiled>>

CtrlC ==
  /\ stage = "scanning"
  /\ stage' = "cancelling"
  /\ UNCHANGED <<made, tasks, awaited, seen, rows, heard, spoiled>>

(* Slip: the tasks are collected before the browser has stopped. *)
StopBrowsingLate ==
  \/ /\ stage = "cancelling" /\ awaited = {} /\ tasks # {}
     /\ awaited' = tasks
     /\ UNCHANGED <<stage, made, tasks, seen, rows, heard, spoiled>>
  \/ /\ stage = "cancelling" /\ stage' = "gathering"
     /\ UNCHANGED <<made, tasks, awaited, seen, rows, heard, spoiled>>

(* The browser has stopped; gather() takes the tasks there are now.        *)
StopBrowsing ==
  /\ stage = "cancelling"
  /\ stage' = "gathering"
  /\ awaited' = tasks
  /\ UNCHANGED <<made, tasks, seen, rows, heard, spoiled>>

(* Slip: what a task raised is raised again, and zeroconf is not closed. *)
GatheredRaises ==
  /\ stage = "gathering" /\ awaited \cap tasks = {} /\ spoiled = {}
  /\ stage' = "closing"
  /\ UNCHANGED <<made, tasks, awaited, seen, rows, heard, spoiled>>

(* gather(): exceptions of the tasks are only returned. *)
Gathered ==
  /\ stage = "gathering" /\ awaited \cap tasks = {}
  /\ stage' = "closing"
  /\ UNCHANGED <<made, tasks, awaited, seen, rows, heard, spoiled>>

Closed ==
  /\ stage = "closing"
  /\ stage' = "ended"
  /\ UNCHANGED <<made, tasks, awaited, seen, rows, heard, spoiled>>

----------------------------------------------------------------------------
TaskStep(i) == Details(i) \/ NoDetails(i)
CommandStep == StopBrowsing \/ Gathered \/ Closed

Next ==
  \/ \E s \in Services : Announce(s)
  \/ \E i \in 1..MaxTasks : TaskStep(i)
  \/ CtrlC \/ CommandStep

(* Every task ends within its timeout, and the loop runs the command.      *)
Spec == Init /\ [][Next]_vars
FairSpec == /\ Spec /\ WF_vars(CommandStep)
            /\ \A i \in 1..MaxTasks : WF_vars(TaskStep(i))
----------------------------------------------------------------------------
(* Properties.                                                             *)

Hosts == {s.host : s \in Services}

(* Types of every variable. *)
TypeOK ==
  /\ stage \in {"scanning", "cancelling", "gathering", "closing", "ended"}
  /\ made \in Seq(Services) /\ Len(made) <= MaxTasks
  /\ tasks \subseteq 1..Len(made) /\ awaited \subseteq 1..Len(made)
  /\ seen \subseteq Hosts /\ rows \in Seq(Hosts)
  /\ heard \subseteq Services /\ spoiled \subseteq Hosts

(* A charger that is announced twice, under both services or again, is     *)
(* listed once.                                                            *)
ListedOnce == \A i, j \in DOMAIN rows : rows[i] = rows[j] => i = j

(* What is listed is a charger, and every charger whose details came in is *)
(* listed, unless an earlier answer of that host could not be decoded.     *)
ChargersAreListed ==
  LET listed == {rows[i] : i \in DOMAIN rows} IN
  /\ listed \subseteq {s.host : s \in {q \in heard : q.type = "pblr" \/ q.charger}}
  /\ \A s \in heard : s.type = "pblr" \/ s.charger => s.host \in listed \cup spoiled

(* Zeroconf is closed under nobody's feet: no task is left by then.        *)
NoTaskOutlives == stage \in {"closing", "ended"} => tasks = {}

(* Ctrl-C ends the scan, whatever is still being asked. *)
ScanEnds == stage = "cancelling" ~> stage = "ended"
=============================================================================
