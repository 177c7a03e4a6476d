----------------------------- MODULE ScanProofs -----------------------------
(***************************************************************************)
(* Theorems about Scan, for any network and any number of announcements.   *)
(***************************************************************************)
EXTENDS Scan, TLAPS

Listed == {rows[i] : i \in DOMAIN rows}

(* The table has what seen has, except what could not be decoded. *)
TableOK ==
  /\ Listed \subseteq seen
  /\ seen \subseteq Listed \cup spoiled
  /\ ListedOnce

(* Whoever was listed or left out for its answer was accepted, and whoever *)
(* was accepted is remembered.                                             *)
HeardOK ==
  /\ \A h \in seen : \E s \in heard : Accepted(s) /\ s.host = h
  /\ \A s \in heard : Accepted(s) => s.host \in seen

(* No task starts once the browser has stopped, so gather() has them all.  *)
TasksOK ==
  /\ stage = "gathering" => tasks \subseteq awaited
  /\ stage \in {"closing", "ended"} => tasks = {}

IInv == TypeOK /\ TableOK /\ HeardOK /\ TasksOK

----------------------------------------------------------------------------
(* Types.                                                                  *)

LEMMA InitTypeOK == Init => TypeOK
  BY TasksAssumption DEF Init, TypeOK

(* A row more: what was listed, and the new host. *)
LEMMA RowAdded ==
  ASSUME rows \in Seq(Hosts), NEW h \in Hosts, rows' = Append(rows, h)
  PROVE  /\ rows' \in Seq(Hosts)
         /\ DOMAIN rows' = DOMAIN rows \cup {Len(rows) + 1}
         /\ Len(rows) + 1 \notin DOMAIN rows
         /\ \A i \in DOMAIN rows : rows'[i] = rows[i]
         /\ rows'[Len(rows) + 1] = h
  OBVIOUS

LEMMA StepTypeOK == TypeOK /\ [Next]_vars => TypeOK'
<1> SUFFICES ASSUME TypeOK, [Next]_vars PROVE TypeOK'
  OBVIOUS
<1>1. ASSUME NEW s \in Services, Announce(s) PROVE TypeOK'
  <2>1. /\ made' \in Seq(Services) /\ Len(made') = Len(made) + 1
        /\ Len(made) \in Nat /\ MaxTasks \in Nat
    BY <1>1, TasksAssumption DEF Announce, TypeOK
  <2>2. 1..Len(made) \subseteq 1..Len(made') /\ Len(made) + 1 \in 1..Len(made')
    BY <2>1
  <2>3. /\ tasks' = tasks \cup {Len(made) + 1} /\ Len(made) < MaxTasks
        /\ UNCHANGED <<stage, awaited, seen, rows, heard, spoiled>>
    BY <1>1 DEF Announce
  <2>4. tasks' \subseteq 1..Len(made') /\ awaited' \subseteq 1..Len(made')
    BY <2>2, <2>3 DEF TypeOK
  <2>5. Len(made') <= MaxTasks
    BY <2>1, <2>3
  <2> QED
    BY <2>1, <2>3, <2>4, <2>5 DEF TypeOK
<1>2. ASSUME NEW i \in 1..MaxTasks, Details(i) PROVE TypeOK'
  <2>1. made[i] \in Services
    BY <1>2 DEF Details, TypeOK
  <2>2. made[i].host \in Hosts
    BY <2>1 DEF Hosts
  <2>3. /\ rows' = rows \/ rows' = Append(rows, made[i].host)
        /\ seen' = seen \/ seen' = seen \cup {made[i].host}
        /\ spoiled' = spoiled \/ spoiled' = spoiled \cup {made[i].host}
        /\ tasks' = tasks \ {i} /\ heard' = heard \cup {made[i]}
        /\ UNCHANGED <<stage, made, awaited>>
    BY <1>2 DEF Details
  <2>4. rows' \in Seq(Hosts)
    BY <2>2, <2>3 DEF TypeOK
  <2> QED
    BY <2>1, <2>2, <2>3, <2>4 DEF TypeOK
<1>3. ASSUME NEW i \in 1..MaxTasks, NoDetails(i) PROVE TypeOK'
  BY <1>3 DEF NoDetails, TypeOK
<1>4. CASE CtrlC
  BY <1>4 DEF CtrlC, TypeOK
<1>5. CASE CommandStep
  BY <1>5 DEF CommandStep, StopBrowsing, Gathered, Closed, TypeOK
<1>6. CASE UNCHANGED vars
  BY <1>6 DEF vars, TypeOK
<1> QED
  BY <1>1, <1>2, <1>3, <1>4, <1>5, <1>6 DEF Next, TaskStep

(* Every variable keeps its type. *)
THEOREM TypeCorrect == Spec => []TypeOK
  BY InitTypeOK, StepTypeOK, PTL DEF Spec

----------------------------------------------------------------------------
(* The table.                                                              *)

(* The details of a host that was not seen before. *)
LEMMA NewHost ==
  ASSUME IInv, NEW i \in tasks, Details(i),
         Accepted(made[i]), made[i].host \notin seen
  PROVE  TableOK' /\ HeardOK'
<1> DEFINE h == made[i].host
<1>1. /\ made[i] \in Services /\ h \in Hosts
  BY DEF IInv, TypeOK, Hosts
<1>2. /\ seen' = seen \cup {h} /\ heard' = heard \cup {made[i]}
  BY DEF Details
<1>3. HeardOK'
  BY <1>2 DEF IInv, HeardOK, Accepted
<1>4. CASE made[i].txt
  <2>1. rows' = Append(rows, h) /\ spoiled' = spoiled
    BY <1>4 DEF Details
  <2>2. rows \in Seq(Hosts)
    BY DEF IInv, TypeOK
  <2>3. /\ DOMAIN rows' = DOMAIN rows \cup {Len(rows) + 1}
        /\ \A j \in DOMAIN rows : rows'[j] = rows[j]
        /\ rows'[Len(rows) + 1] = h
    BY <1>1, <2>1, <2>2, RowAdded
  <2>4. Listed' = Listed \cup {h}
    BY <2>3 DEF Listed
  <2>5. \A j \in DOMAIN rows : rows[j] # h
    BY DEF IInv, TableOK, Listed
  <2>6. ListedOnce'
    BY <2>3, <2>5 DEF IInv, TableOK, ListedOnce
  <2> QED
    BY <1>2, <1>3, <2>1, <2>4, <2>6 DEF IInv, TableOK
<1>5. CASE ~made[i].txt
  <2>1. rows' = rows /\ spoiled' = spoiled \cup {h}
    BY <1>5 DEF Details
  <2> QED
    BY <1>2, <1>3, <2>1 DEF IInv, TableOK, Listed, ListedOnce
<1> QED
  BY <1>4, <1>5

LEMMA InitIInv == Init => IInv
  BY InitTypeOK DEF Init, IInv, TableOK, HeardOK, TasksOK, Listed, ListedOnce

LEMMA StepIInv == IInv /\ [Next]_vars => IInv'
<1> SUFFICES ASSUME IInv, [Next]_vars PROVE TableOK' /\ HeardOK' /\ TasksOK'
  BY StepTypeOK DEF IInv
<1> USE DEF IInv
<1>1. ASSUME NEW s \in Services, Announce(s) PROVE TableOK' /\ HeardOK' /\ TasksOK'
  BY <1>1 DEF Announce, TableOK, HeardOK, TasksOK, Listed, ListedOnce, Accepted
<1>2. ASSUME NEW i \in 1..MaxTasks, Details(i) PROVE TableOK' /\ HeardOK' /\ TasksOK'
  <2>1. TasksOK'
    BY <1>2 DEF Details, TasksOK
  <2>2. CASE Accepted(made[i]) /\ made[i].host \notin seen
    BY <1>2, <2>1, <2>2, NewHost DEF Details
  <2>3. CASE ~(Accepted(made[i]) /\ made[i].host \notin seen)
    <3>1. /\ seen' = seen /\ rows' = rows /\ spoiled' = spoiled
          /\ heard' = heard \cup {made[i]}
      BY <1>2, <2>3 DEF Details
    <3> QED
      BY <2>1, <2>3, <3>1 DEF TableOK, HeardOK, Listed, ListedOnce, Accepted
  <2> QED
    BY <2>2, <2>3
<1>3. ASSUME NEW i \in 1..MaxTasks, NoDetails(i) PROVE TableOK' /\ HeardOK' /\ TasksOK'
  BY <1>3 DEF NoDetails, TableOK, HeardOK, TasksOK, Listed, ListedOnce, Accepted
<1>4. CASE CtrlC
  BY <1>4 DEF CtrlC, TableOK, HeardOK, TasksOK, Listed, ListedOnce, Accepted
<1>5. CASE CommandStep
  BY <1>5 DEF CommandStep, StopBrowsing, Gathered, Closed,
              TableOK, HeardOK, TasksOK, Listed, ListedOnce, Accepted
<1>6. CASE UNCHANGED vars
  BY <1>6 DEF vars, TableOK, HeardOK, TasksOK, Listed, ListedOnce, Accepted
<1> QED
  BY <1>1, <1>2, <1>3, <1>4, <1>5, <1>6 DEF Next, TaskStep

LEMMA Inductive == Spec => []IInv
  BY InitIInv, StepIInv, PTL DEF Spec

(* However often and under whatever services a charger is announced, it    *)
(* has one row.                                                            *)
THEOREM OneRowEach == Spec => []ListedOnce
<1>1. IInv => ListedOnce
  BY DEF IInv, TableOK
<1> QED
  BY <1>1, Inductive, PTL

(* Just the chargers whose details came in are listed, but for those whose *)
(* first answer could not be decoded.                                      *)
THEOREM ChargersListed == Spec => []ChargersAreListed
<1>1. IInv => ChargersAreListed
  <2> SUFFICES ASSUME IInv PROVE ChargersAreListed
    OBVIOUS
  <2>1. Listed \subseteq {s.host : s \in {q \in heard : q.type = "pblr" \/ q.charger}}
    BY DEF IInv, TableOK, HeardOK, Accepted
  <2>2. \A s \in heard : s.type = "pblr" \/ s.charger => s.host \in Listed \cup spoiled
    BY DEF IInv, TableOK, HeardOK, Accepted
  <2> QED
    BY <2>1, <2>2 DEF ChargersAreListed, Listed
<1> QED
  BY <1>1, Inductive, PTL

(* When zeroconf is closed, every task that would use it has ended. *)
THEOREM TasksEndFirst == Spec => []NoTaskOutlives
<1>1. IInv => NoTaskOutlives
  BY DEF IInv, TasksOK, NoTaskOutlives
<1> QED
  BY <1>1, Inductive, PTL
=============================================================================
