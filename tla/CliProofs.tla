----------------------------- MODULE CliProofs -----------------------------
(***************************************************************************)
(* What holds of every command line of Cli, on every charger: the types,   *)
(* that no session outlives the command, that success means what was asked *)
(* for was done, that nothing else was changed, that a table shows the     *)
(* change, and that a dump says what it leaves out.                        *)
(*                                                                         *)
(* The invariant says where the process is on the path of its script       *)
(* (CliScripts): in which contexts, and what is still to be done.          *)
(***************************************************************************)
EXTENDS CliScripts, MeterHistoryProofs

(* Before its options are checked, a command has done nothing. *)
Parsing ==
  /\ todo = <<Do("parse")>> /\ open = <<>> /\ sess = {} /\ said = {}
  /\ raised \in {None, "Usage"}

(* The steps left lead out of all contexts, and do all that is missing; an *)
(* error on its way out has left the path.                                 *)
OnPath(asks, steps, contexts, error, facts) ==
  \E a \in Stacks, l \in SUBSET asks :
    /\ Path(asks, steps, a, l, Top, {})
    /\ error = None => contexts = a /\ asks \subseteq facts \cup l

(* An open session is that of a context entered, or to be entered at once. *)
Holds(x, contexts, error, steps) ==
  /\ x # "try"
  /\ \/ Inside(x, contexts)
     \/ /\ error = None /\ steps # <<>>
        /\ Head(steps).do = "open" /\ Head(steps).of = x

SessionsHold == \A x \in sess : Holds(x, open, raised, todo)

(* Inside dump's try statement, and once success is said or the status is  *)
(* 0, all that was asked for is done.                                      *)
DoneByThen ==
  Inside("try", open) \/ "success" \in said \/ exit = "ok" => Asked \subseteq held

IInv ==
  /\ setup \in Setups /\ TypeOK /\ open \in Stacks
  /\ Parsing \/ OnPath(Asked, todo, open, raised, held)
  /\ SessionsHold
  /\ DoneByThen
  /\ exit # None => sess = {}

----------------------------------------------------------------------------
LEMMA AskedStays == setup' = setup => Asked' = Asked
  BY DEF Asked

LEMMA AskedFits ==
  ASSUME setup \in Setups
  PROVE  /\ Asked \in SUBSET Pairs
         /\ Path(Asked, Program(setup.line).script, Top, Asked, Top, {})
  BY ScriptsFit DEF Fits, Asked

LEMMA TailIsSubSeq ==
  ASSUME NEW q \in Seq(Steps), q # <<>>
  PROVE  /\ 1 \in 1..Len(q) /\ Head(q) = q[1] /\ SubSeq(q, 2, Len(q)) = Tail(q)
         /\ Tail(q) \in Seq(Steps) /\ Head(q) \in Steps
<1>1. Len(q) \in Nat /\ Len(q) >= 1 /\ q \in [1..Len(q) -> Steps]
  OBVIOUS
<1>2. /\ 1 \in 1..Len(q) /\ q[1] \in Steps
      /\ Head(q) = q[1] /\ Tail(q) \in Seq(Steps) /\ Len(Tail(q)) = Len(q) - 1
      /\ \A k \in 1..(Len(q) - 1) : Tail(q)[k] = q[k + 1]
  BY <1>1
<1> DEFINE r == SubSeq(q, 2, Len(q))
<1>3. /\ r \in Seq(Steps) /\ Len(r) = Len(q) - 1
      /\ \A k \in 1..(Len(q) - 1) : r[k] = q[k + 1]
  <2>1. r \in Seq(Steps) /\ Len(r) = Len(q) - 1
    BY <1>1
  <2>2. \A k \in 1..Len(r) : r[k] = q[k + 2 - 1]
    BY <1>1
  <2>3. \A k \in 1..(Len(q) - 1) : k + 2 - 1 = k + 1
    BY <1>1
  <2> HIDE DEF r
  <2> QED
    BY <2>1, <2>2, <2>3
<1> HIDE DEF r
<1> DEFINE t == Tail(q)
<1>4. t \in Seq(Steps) /\ Len(t) = Len(q) - 1
  BY <1>2
<1> HIDE DEF t
<1>5. r \in [1..Len(r) -> Steps] /\ t \in [1..Len(t) -> Steps]
  BY <1>3, <1>4
<1>6. r \in [1..(Len(q) - 1) -> Steps] /\ Tail(q) \in [1..(Len(q) - 1) -> Steps]
  BY <1>3, <1>4, <1>5 DEF t
<1>7. r = Tail(q)
  BY <1>2, <1>3, <1>6
<1> QED
  BY <1>2, <1>7 DEF r

(* The next step of a path, and the path from there on. *)
Leads(asks, q, contexts, facts) ==
  /\ q \in Seq(Steps) /\ Tail(q) \in Seq(Steps) /\ Head(q) \in Steps /\ ConnectsEnter(q)
  /\ \E b \in Stacks, l \in SUBSET asks, m \in SUBSET asks :
       /\ Moves(asks, Head(q), contexts, l, b, m)
       /\ Path(asks, Tail(q), b, m, Top, {})
       /\ asks \subseteq facts \cup l

LEMMA NextOnPath ==
  ASSUME NEW asks, NEW q, q # <<>>, NEW contexts, NEW facts,
         OnPath(asks, q, contexts, None, facts)
  PROVE  Leads(asks, q, contexts, facts)
<1>1. PICK a \in Stacks, l \in SUBSET asks :
        /\ Path(asks, q, a, l, Top, {})
        /\ contexts = a /\ asks \subseteq facts \cup l
  BY DEF OnPath
<1>2. q \in Seq(Steps) /\ ConnectsEnter(q)
  BY <1>1 DEF Path
<1>3. /\ 1 \in 1..Len(q) /\ Head(q) = q[1] /\ SubSeq(q, 1 + 1, Len(q)) = Tail(q)
      /\ Tail(q) \in Seq(Steps) /\ Head(q) \in Steps
  BY <1>2, TailIsSubSeq
<1>4. \E c \in Stacks, d \in Stacks, k \in SUBSET asks, n \in SUBSET asks :
        /\ Moves(asks, q[1], c, k, d, n)
        /\ Path(asks, SubSeq(q, 1 + 1, Len(q)), d, n, Top, {})
        /\ 1 = 1 => c = a /\ k = l
  BY <1>1, <1>3, PathSuffix
<1>5. PICK d \in Stacks, n \in SUBSET asks :
        Moves(asks, q[1], a, l, d, n) /\ Path(asks, SubSeq(q, 1 + 1, Len(q)), d, n, Top, {})
  BY <1>4
<1> QED
  BY <1>1, <1>2, <1>3, <1>5 DEF Leads

LEMMA ConnectThenEnter ==
  ASSUME NEW q \in Seq(Steps), q # <<>>, ConnectsEnter(q),
         Head(q).do = "call", Head(q).op = "connect"
  PROVE  Tail(q) # <<>> /\ Head(Tail(q)).do = "open" /\ Head(Tail(q)).of = Head(q).of
<1>1. /\ Len(q) \in Nat /\ Len(q) >= 1 /\ DOMAIN q = 1..Len(q) /\ Head(q) = q[1]
  OBVIOUS
<1>2. q[1].do = "call" /\ q[1].op = "connect" /\ 1 \in DOMAIN q
  BY <1>1
<1>3. 1 + 1 \in DOMAIN q /\ q[1 + 1].do = "open" /\ q[1 + 1].of = q[1].of
  BY <1>2 DEF ConnectsEnter
<1>4. Len(q) >= 2 /\ q[2].do = "open" /\ q[2].of = Head(q).of
  BY <1>1, <1>3
<1>5. Tail(q) # <<>> /\ Head(Tail(q)) = q[2]
  <2>1. Tail(q) \in Seq(Steps) /\ Len(Tail(q)) = Len(q) - 1 /\ Tail(q)[1] = q[1 + 1]
    BY <1>1, <1>4
  <2>2. Len(Tail(q)) >= 1
    BY <1>1, <1>4, <2>1
  <2> DEFINE r == Tail(q)
  <2> HIDE DEF r
  <2>3. r \in Seq(Steps) /\ Len(r) >= 1
    BY <2>1, <2>2 DEF r
  <2>4. r # <<>> /\ Head(r) = r[1]
    BY <2>3
  <2> QED
    BY <2>1, <2>4 DEF r
<1> QED
  BY <1>4, <1>5

(* A step taken as the script says leads on. *)
LEMMA StepOnPath ==
  ASSUME NEW asks, NEW q, NEW b \in Stacks, NEW l \in SUBSET asks,
         NEW m \in SUBSET asks, NEW s, NEW a, NEW facts, NEW more, NEW error,
         Moves(asks, s, a, l, b, m), Path(asks, q, b, m, Top, {}),
         asks \subseteq facts \cup l, facts \cup s.sets \subseteq more
  PROVE  OnPath(asks, q, b, error, more)
<1>1. l \ s.sets \subseteq m
  BY DEF Moves
<1>2. asks \subseteq more \cup m
  BY <1>1
<1> QED
  BY <1>2 DEF OnPath

(* An error leaves the steps where they are. *)
LEMMA ErrorOnPath ==
  ASSUME NEW asks, NEW q, NEW contexts, NEW error, NEW facts, NEW other, NEW more,
         NEW error2, OnPath(asks, q, contexts, error, facts), error2 # None
  PROVE  OnPath(asks, q, other, error2, more)
  BY DEF OnPath

(* More facts do no harm. *)
LEMMA FactsOnPath ==
  ASSUME NEW asks, NEW q, NEW contexts, NEW error, NEW facts, NEW more,
         OnPath(asks, q, contexts, error, facts), facts \subseteq more
  PROVE  OnPath(asks, q, contexts, error, more)
<1>1. PICK a \in Stacks, l \in SUBSET asks :
        /\ Path(asks, q, a, l, Top, {})
        /\ error = None => contexts = a /\ asks \subseteq facts \cup l
  BY DEF OnPath
<1>2. error = None => asks \subseteq more \cup l
  BY <1>1
<1> QED
  BY <1>1, <1>2 DEF OnPath

(* At the end of the path all contexts are left and all is done. *)
LEMMA PathEnd ==
  ASSUME NEW asks, NEW contexts, NEW facts, OnPath(asks, <<>>, contexts, None, facts)
  PROVE  contexts = <<>> /\ asks \subseteq facts
<1>1. PICK a \in Stacks, l \in SUBSET asks :
        Path(asks, <<>>, a, l, Top, {}) /\ contexts = a /\ asks \subseteq facts \cup l
  BY DEF OnPath
<1>2. Len(<<>>) = 0
  OBVIOUS
<1>3. a = Top /\ l = {}
  BY <1>1, <1>2 DEF Path
<1> QED
  BY <1>1, <1>3 DEF Top

LEMMA DoFields ==
  Do("parse") \in Steps /\ Do("parse").do = "parse"
  /\ <<Do("parse")>> \in Seq(Steps) /\ <<Do("parse")>> # <<>>
  /\ Head(<<Do("parse")>>) = Do("parse")
<1>1. "parse" \in Does /\ "peblar" \in Contexts /\ "" \in Ops
  BY DEF Does, Contexts, Ops
<1>2. Do("parse") = Step("parse", "peblar", "", {}, {})
  BY DEF Do
<1>3. PICK op \in Ops : op = ""
  BY <1>1
<1>4. PICK of \in Contexts : of = "peblar"
  BY <1>1
<1>5. PICK d \in Does : d = "parse"
  BY <1>1
<1>6. Step(d, of, op, {}, {}) \in Steps /\ Step(d, of, op, {}, {}).do = d
  BY StepFields
<1>7. Do("parse") \in Steps /\ Do("parse").do = "parse"
  BY <1>2, <1>3, <1>4, <1>5, <1>6
<1> DEFINE p == Do("parse")
<1>8. p \in Steps /\ p.do = "parse"
  BY <1>7
<1> HIDE DEF p
<1>9. <<p>> \in Seq(Steps) /\ <<p>> # <<>> /\ Head(<<p>>) = p
  BY <1>8
<1> QED
  BY <1>8, <1>9 DEF p

----------------------------------------------------------------------------
(* What every step relies on.                                              *)

(* After parsing, a process without an error is on its path. *)
LEMMA RunningLeads ==
  ASSUME IInv, raised = None, todo # <<>>, Head(todo).do # "parse"
  PROVE  Leads(Asked, todo, open, held)
<1>1. ~Parsing
  BY DoFields DEF Parsing
<1>2. OnPath(Asked, todo, open, None, held)
  BY <1>1 DEF IInv
<1> QED
  BY <1>2, NextOnPath

(* Only calls change anything. *)
LEMMA PlainSteps ==
  ASSUME Leads(Asked, todo, open, held), Head(todo).do # "call"
  PROVE  Head(todo).sets = {}
  BY DEF Leads, Moves

(* Only the first step parses. *)
LEMMA ParsingFirst ==
  ASSUME IInv, raised = None, todo # <<>>, Head(todo).do = "parse"
  PROVE  Parsing
<1> SUFFICES ASSUME OnPath(Asked, todo, open, None, held) PROVE FALSE
  BY DEF IInv
<1>1. PICK b \in Stacks, l \in SUBSET Asked, m \in SUBSET Asked :
        Moves(Asked, Head(todo), open, l, b, m)
  <2>1. Leads(Asked, todo, open, held)
    BY NextOnPath
  <2> QED
    BY <2>1 DEF Leads
<1> QED
  BY <1>1 DEF Moves

LEMMA BringFacts ==
  ASSUME TypeOK, NEW facts, Bring(facts)
  PROVE  /\ DOMAIN charger' = Settings \cup Deeds
         /\ Facts(charger)' \subseteq held' /\ held \subseteq held' /\ facts \subseteq held'
  BY DEF TypeOK, Bring, Applied

LEMMA TypesOfPath ==
  ASSUME NEW asks, NEW q, NEW contexts, NEW error, NEW facts,
         OnPath(asks, q, contexts, error, facts)
  PROVE  q \in Seq(Steps)
  BY DEF OnPath, Path

LEMMA ParsePreserves ==
  ASSUME IInv, Parse
  PROVE  IInv'
<1>1. Parsing
  BY ParsingFirst DEF Parse, Running
<1>2. /\ setup' = setup /\ open' = open /\ sess' = sess /\ said' = said /\ exit' = exit
      /\ charger' = charger /\ shown' = shown /\ held' = held /\ cause' = cause
      /\ disturbed' = disturbed /\ Asked' = Asked
  BY AskedStays DEF Parse
<1>3. CASE raised' = "Usage" /\ todo' = todo
  <2>1. TypeOK'
    BY <1>2, <1>3 DEF IInv, TypeOK, Facts, Exceptions
  <2>2. Parsing'
    BY <1>1, <1>2, <1>3 DEF Parsing
  <2>3. SessionsHold' /\ DoneByThen'
    BY <1>1, <1>2 DEF IInv, SessionsHold, DoneByThen, Parsing
  <2> QED
    BY <1>2, <2>1, <2>2, <2>3 DEF IInv
<1>4. CASE raised' = raised /\ todo' = Program(setup.line).script
  <2>1. Path(Asked, todo', Top, Asked, Top, {})
    BY <1>4, AskedFits DEF IInv
  <2>2. OnPath(Asked', todo', open', raised', held')
    <3>1. open' = Top /\ Asked \in SUBSET Asked /\ Asked \subseteq held \cup Asked
      BY <1>1, <1>2 DEF Parsing, Top
    <3> QED
      BY <1>2, <2>1, <3>1, StacksInclude DEF OnPath
  <2>3. TypeOK'
    <3>1. todo' \in Seq(Steps)
      BY <2>2, TypesOfPath
    <3> QED
      BY <1>2, <1>4, <3>1 DEF IInv, TypeOK, Facts
  <2>4. SessionsHold' /\ DoneByThen'
    BY <1>1, <1>2 DEF IInv, SessionsHold, DoneByThen, Parsing
  <2> QED
    BY <1>2, <2>2, <2>3, <2>4 DEF IInv
<1> QED
  BY <1>3, <1>4 DEF Parse, Raise

(* A step of the script that is no call. *)
LEMMA AtStep ==
  ASSUME IInv, raised = None, todo # <<>>, Head(todo).do # "parse", setup' = setup,
         todo' = Tail(todo), held \cup Head(todo).sets \subseteq held'
  PROVE  /\ todo' \in Seq(Steps) /\ Head(todo) \in Steps
         /\ \E b \in Stacks, l \in SUBSET Asked, m \in SUBSET Asked :
              /\ Moves(Asked, Head(todo), open, l, b, m)
              /\ Asked \subseteq held \cup l
              /\ Path(Asked, todo', b, m, Top, {})
              /\ OnPath(Asked', todo', b, raised', held')
<1>1. Leads(Asked, todo, open, held)
  BY RunningLeads
<1>2. /\ Tail(todo) \in Seq(Steps) /\ Head(todo) \in Steps
      /\ \E b \in Stacks, l \in SUBSET Asked, m \in SUBSET Asked :
           /\ Moves(Asked, Head(todo), open, l, b, m)
           /\ Path(Asked, Tail(todo), b, m, Top, {})
           /\ Asked \subseteq held \cup l
  BY <1>1 DEF Leads
<1>3. PICK b \in Stacks, l \in SUBSET Asked, m \in SUBSET Asked :
        /\ Moves(Asked, Head(todo), open, l, b, m)
        /\ Path(Asked, Tail(todo), b, m, Top, {})
        /\ Asked \subseteq held \cup l
  BY <1>2
<1>4. OnPath(Asked, Tail(todo), b, raised', held')
  BY <1>3, StepOnPath
<1>5. Asked' = Asked
  BY AskedStays
<1> QED
  BY <1>2, <1>3, <1>4, <1>5

LEMMA EnterPreserves ==
  ASSUME IInv, Enter
  PROVE  IInv'
<1>1. /\ raised = None /\ todo # <<>> /\ Head(todo).do = "open" /\ exit = None
      /\ open' = <<Head(todo).of>> \o open /\ todo' = Tail(todo)
  BY DEF Enter, Running, Advance
<1>2. /\ setup' = setup /\ sess' = sess /\ raised' = raised /\ said' = said /\ exit' = exit
      /\ charger' = charger /\ shown' = shown /\ held' = held /\ cause' = cause
      /\ disturbed' = disturbed
  BY DEF Enter
<1>3. Asked' = Asked
  BY <1>2, AskedStays
<1>4. Head(todo).sets = {}
  BY <1>1, RunningLeads, PlainSteps
<1>5. PICK b \in Stacks, l \in SUBSET Asked, m \in SUBSET Asked :
        /\ Moves(Asked, Head(todo), open, l, b, m)
        /\ Asked \subseteq held \cup l
        /\ OnPath(Asked', todo', b, raised', held')
  BY <1>1, <1>2, <1>4, AtStep
<1>6. todo' \in Seq(Steps)
  BY <1>5, TypesOfPath
<1>7. b \in Seq(Contexts) /\ b # <<>> /\ Head(b) = Head(todo).of /\ Tail(b) = open
  BY <1>1, <1>5, StacksAre DEF Moves
<1>8. open' = b
  BY <1>1, <1>7, HeadOnTail
<1>9. TypeOK'
  BY <1>2, <1>6, <1>7, <1>8 DEF IInv, TypeOK, Facts
<1>10. SessionsHold'
  <2> SUFFICES ASSUME NEW x \in sess PROVE x # "try" /\ Inside(x, b)
    BY <1>2, <1>8 DEF SessionsHold, Holds
  <2>1. x # "try" /\ (Inside(x, open) \/ x = Head(todo).of)
    BY DEF IInv, SessionsHold, Holds
  <2> QED
    BY <1>7, <2>1, InsideTail
<1>11. DoneByThen'
  <2>1. Inside("try", b) => Asked \subseteq held
    BY <1>4, <1>5 DEF Moves
  <2> QED
    BY <1>2, <1>3, <1>8, <2>1 DEF IInv, DoneByThen
<1> QED
  BY <1>1, <1>2, <1>3, <1>5, <1>8, <1>9, <1>10, <1>11 DEF IInv

LEMMA LeavePreserves ==
  ASSUME IInv, Leave
  PROVE  IInv'
<1>1. /\ raised = None /\ todo # <<>> /\ Head(todo).do = "close" /\ exit = None
      /\ open' = Tail(open) /\ sess' = sess \ {Head(open)} /\ todo' = Tail(todo)
  BY DEF Leave, Running, Advance
<1>2. /\ setup' = setup /\ raised' = raised /\ said' = said /\ exit' = exit
      /\ charger' = charger /\ shown' = shown /\ held' = held /\ cause' = cause
      /\ disturbed' = disturbed
  BY DEF Leave
<1>3. Asked' = Asked
  BY <1>2, AskedStays
<1>4. Head(todo).sets = {}
  BY <1>1, RunningLeads, PlainSteps
<1>5. PICK b \in Stacks, l \in SUBSET Asked, m \in SUBSET Asked :
        /\ Moves(Asked, Head(todo), open, l, b, m)
        /\ OnPath(Asked', todo', b, raised', held')
  BY <1>1, <1>2, <1>4, AtStep
<1>6. todo' \in Seq(Steps)
  BY <1>5, TypesOfPath
<1>7. open # <<>> /\ b = Tail(open) /\ open \in Seq(Contexts)
  BY <1>1, <1>5, StacksAre DEF Moves, IInv
<1>8. open' = b /\ b \in Seq(Contexts)
  BY <1>1, <1>7, StacksAre
<1>9. TypeOK'
  BY <1>1, <1>2, <1>6, <1>8 DEF IInv, TypeOK, Facts
<1>10. SessionsHold'
  <2> SUFFICES ASSUME NEW x \in sess, x # Head(open) PROVE x # "try" /\ Inside(x, b)
    BY <1>1, <1>2, <1>8 DEF SessionsHold, Holds
  <2>1. x # "try" /\ Inside(x, open)
    BY <1>1 DEF IInv, SessionsHold, Holds
  <2> QED
    BY <1>7, <2>1, InsideTail
<1>11. DoneByThen'
  <2>1. Inside("try", b) => Inside("try", open)
    BY <1>7, InsideTail
  <2> QED
    BY <1>2, <1>3, <1>8, <2>1 DEF IInv, DoneByThen
<1> QED
  BY <1>1, <1>2, <1>3, <1>5, <1>8, <1>9, <1>10, <1>11 DEF IInv

(* A step that neither changes anything nor enters nor leaves a context. *)
LEMMA PlainStepPreserves ==
  ASSUME IInv, exit = None, raised = None, todo # <<>>,
         Head(todo).do \in {"say", "summary", "export", "listen"}, todo' = Tail(todo),
         UNCHANGED <<setup, open, sess, raised, exit, charger, shown, held, disturbed>>,
         cause' \in BOOLEAN,
         "success" \in said' =>
           "success" \in said \/ (Head(todo).do = "say" /\ Head(todo).op = "success")
  PROVE  IInv'
<1>1. /\ setup' = setup /\ open' = open /\ sess' = sess /\ raised' = raised /\ exit' = exit
      /\ charger' = charger /\ shown' = shown /\ held' = held /\ disturbed' = disturbed
  OBVIOUS
<1>2. Asked' = Asked
  BY <1>1, AskedStays
<1>3. Head(todo).do \notin {"parse", "call", "open", "close"}
  OBVIOUS
<1>4. Head(todo).sets = {}
  BY <1>3, RunningLeads, PlainSteps
<1>5. PICK b \in Stacks, l \in SUBSET Asked, m \in SUBSET Asked :
        /\ Moves(Asked, Head(todo), open, l, b, m)
        /\ Asked \subseteq held \cup l
        /\ OnPath(Asked', todo', b, raised', held')
  BY <1>1, <1>3, <1>4, AtStep
<1>6. open' = b
  BY <1>1, <1>3, <1>5 DEF Moves
<1>7. TypeOK'
  <2>1. todo' \in Seq(Steps)
    BY <1>5, TypesOfPath
  <2> QED
    BY <1>1, <2>1 DEF IInv, TypeOK, Facts
<1>8. SessionsHold'
  BY <1>1, <1>3 DEF IInv, SessionsHold, Holds
<1>9. DoneByThen'
  <2>1. Head(todo).do = "say" /\ Head(todo).op = "success" => Asked \subseteq held
    BY <1>5 DEF Moves
  <2> QED
    BY <1>1, <1>2, <2>1 DEF IInv, DoneByThen
<1> QED
  BY <1>1, <1>2, <1>5, <1>6, <1>7, <1>8, <1>9 DEF IInv

(* A step that raises, whatever part of its effect it had. *)
LEMMA RaisePreserves ==
  ASSUME IInv, exit = None, raised = None, todo # <<>>,
         Head(todo).do \notin {"parse", "open"}, raised' \in Exceptions,
         UNCHANGED <<setup, todo, open, said, exit, shown, disturbed>>, cause' \in BOOLEAN,
         DOMAIN charger' = Settings \cup Deeds, Facts(charger)' \subseteq held',
         held \subseteq held',
         \A x \in sess' : x \in sess \/ /\ Head(todo).do = "call"
                                        /\ Head(todo).op # "connect" /\ x = Head(todo).of
  PROVE  IInv'
<1>1. /\ setup' = setup /\ todo' = todo /\ open' = open /\ said' = said /\ exit' = exit
      /\ shown' = shown /\ disturbed' = disturbed
  OBVIOUS
<1>2. Asked' = Asked
  BY <1>1, AskedStays
<1>3. Leads(Asked, todo, open, held)
  BY RunningLeads
<1>4. raised' # None
  BY NoneAssumption
<1>5. OnPath(Asked', todo', open', raised', held')
  <2>1. ~Parsing
    BY DoFields DEF Parsing
  <2>2. OnPath(Asked, todo, open, raised, held)
    BY <2>1 DEF IInv
  <2>3. OnPath(Asked, todo, open', raised', held')
    BY <1>4, <2>2, ErrorOnPath
  <2> QED
    BY <1>1, <1>2, <2>3
<1>6. ASSUME NEW x \in sess' PROVE x # "try" /\ Inside(x, open) /\ x \in Contexts
  <2>1. CASE x \in sess
    BY <2>1 DEF IInv, SessionsHold, Holds, TypeOK
  <2>2. CASE Head(todo).do = "call" /\ Head(todo).op # "connect" /\ x = Head(todo).of
    BY <1>3, <2>2 DEF Leads, Moves, Steps
  <2> QED
    BY <1>6, <2>1, <2>2
<1>7. TypeOK'
  BY <1>1, <1>6 DEF IInv, TypeOK
<1>8. SessionsHold'
  BY <1>1, <1>6 DEF SessionsHold, Holds
<1>9. DoneByThen'
  BY <1>1, <1>2 DEF IInv, DoneByThen
<1> QED
  BY <1>1, <1>5, <1>7, <1>8, <1>9 DEF IInv

LEMMA TalkPreserves ==
  ASSUME IInv, Talk
  PROVE  IInv'
<1>1. /\ exit = None /\ raised = None /\ todo # <<>> /\ Head(todo).do = "say"
      /\ todo' = Tail(todo)
      /\ UNCHANGED <<setup, open, sess, raised, exit, charger, shown, held, disturbed>>
  BY DEF Talk, Running, Advance
<1>2. cause' \in BOOLEAN
  BY DEF Talk, IInv, TypeOK
<1>3. said' = said \/ said' = said \cup {Head(todo).op}
  BY DEF Talk, Tell
<1>4. Head(todo).do \in {"say", "summary", "export", "listen"}
  BY <1>1
<1>5. "success" \in said' =>
        "success" \in said \/ (Head(todo).do = "say" /\ Head(todo).op = "success")
  BY <1>1, <1>3
<1> QED
  BY <1>1, <1>2, <1>4, <1>5, PlainStepPreserves

LEMMA ReportPreserves ==
  ASSUME IInv, Report
  PROVE  IInv'
<1>1. /\ exit = None /\ raised = None /\ todo # <<>> /\ Head(todo).do \in {"summary", "export"}
      /\ todo' = Tail(todo)
      /\ UNCHANGED <<setup, open, sess, raised, exit, charger, shown, held, disturbed>>
  BY DEF Report, Running, Advance
<1>2. cause' \in BOOLEAN
  BY DEF Report, IInv, TypeOK
<1>3. said' = said \/ said' = said \cup {"noSessions"}
  BY DEF Report, Tell
<1>4. Head(todo).do \in {"say", "summary", "export", "listen"}
  BY <1>1
<1>5. "success" \in said' =>
        "success" \in said \/ (Head(todo).do = "say" /\ Head(todo).op = "success")
  <2>1. "noSessions" # "success"
    OBVIOUS
  <2> QED
    BY <1>3, <2>1
<1> QED
  BY <1>1, <1>2, <1>4, <1>5, PlainStepPreserves

LEMMA RefusePreserves ==
  ASSUME IInv, Refuse
  PROVE  IInv'
<1>1. /\ exit = None /\ raised = None /\ todo # <<>> /\ Head(todo).do = "refuse"
      /\ raised' = "Usage" /\ sess' = sess /\ held' = held /\ charger' = charger
      /\ cause' = cause
      /\ UNCHANGED <<setup, todo, open, said, exit, shown, disturbed>>
  BY DEF Refuse, Running, Raise
<1>2. "Usage" \in Exceptions
  BY DEF Exceptions
<1>3. /\ DOMAIN charger' = Settings \cup Deeds /\ Facts(charger)' \subseteq held'
      /\ held \subseteq held' /\ cause' \in BOOLEAN
  BY <1>1 DEF IInv, TypeOK, Facts
<1>4. Head(todo).do \notin {"parse", "open"}
  BY <1>1
<1> QED
  BY <1>1, <1>2, <1>3, <1>4, RaisePreserves

LEMMA ListenEndsPreserves ==
  ASSUME IInv, ListenEnds
  PROVE  IInv'
<1>1. /\ exit = None /\ raised = None /\ todo # <<>> /\ Head(todo).do = "listen"
      /\ UNCHANGED <<setup, open, sess, said, exit, charger, shown, held, disturbed>>
  BY DEF ListenEnds, Running
<1>2. CASE todo' = Tail(todo) /\ UNCHANGED <<raised, cause>>
  <2>1. cause' \in BOOLEAN
    BY <1>2 DEF IInv, TypeOK
  <2>2. Head(todo).do \in {"say", "summary", "export", "listen"}
    BY <1>1
  <2>3. "success" \in said' =>
          "success" \in said \/ (Head(todo).do = "say" /\ Head(todo).op = "success")
    BY <1>1
  <2> QED
    BY <1>1, <1>2, <2>1, <2>2, <2>3, PlainStepPreserves
<1>3. CASE raised' = "Connection" /\ cause' = TRUE /\ UNCHANGED todo
  <2>1. "Connection" \in Exceptions
    BY DEF Exceptions, LibraryErrors, Refusals
  <2>2. /\ DOMAIN charger' = Settings \cup Deeds /\ Facts(charger)' \subseteq held'
        /\ held \subseteq held'
    BY <1>1 DEF IInv, TypeOK, Facts
  <2>3. Head(todo).do \notin {"parse", "open"}
    BY <1>1
  <2> QED
    BY <1>1, <1>3, <2>1, <2>2, <2>3, RaisePreserves
<1> QED
  BY <1>2, <1>3 DEF ListenEnds, Raise, Advance

LEMMA CallReturnsPreserves ==
  ASSUME IInv, CallReturns
  PROVE  IInv'
<1> DEFINE call == Head(todo)
<1>1. /\ exit = None /\ raised = None /\ todo # <<>> /\ call.do = "call"
      /\ Bring(call.sets) /\ sess' = sess \cup {call.of}
      /\ UNCHANGED <<setup, open, said, exit, disturbed>>
  BY DEF CallReturns, Running, Sessions
<1>2. /\ DOMAIN charger' = Settings \cup Deeds /\ Facts(charger)' \subseteq held'
      /\ held \subseteq held' /\ call.sets \subseteq held'
  BY <1>1, BringFacts DEF IInv
<1>3. Leads(Asked, todo, open, held)
  BY <1>1, RunningLeads
<1>4. CASE Denied(call)
  <2>1. /\ raised' = "Error" /\ UNCHANGED <<todo, shown>>
        /\ cause' = (cause \/ <<"rest", "off">> \notin call.sets)
    BY <1>4 DEF CallReturns, Raise
  <2>2. "Error" \in Exceptions /\ cause' \in BOOLEAN
    BY <2>1 DEF Exceptions, LibraryErrors, Refusals, IInv, TypeOK
  <2>3. call.op = "rest" /\ "rest" # "connect"
    BY <1>4 DEF Denied
  <2>4. call.do \notin {"parse", "open"}
    BY <1>1
  <2> QED
    BY <1>1, <1>2, <2>1, <2>2, <2>3, <2>4, RaisePreserves
<1>5. CASE ~Denied(call)
  <2>1. /\ todo' = Tail(todo) /\ raised' = raised /\ cause' = cause
        /\ shown' = {fact \in shown : fact[1] \notin call.shows}
                    \cup {fact \in Facts(charger') : fact[1] \in call.shows}
    BY <1>5 DEF CallReturns, Advance
  <2>2. Asked' = Asked
    BY <1>1, AskedStays
  <2>3. PICK b \in Stacks, l \in SUBSET Asked, m \in SUBSET Asked :
          /\ Moves(Asked, call, open, l, b, m)
          /\ OnPath(Asked', todo', b, raised', held')
    BY <1>1, <1>2, <2>1, AtStep
  <2>4. open' = b
    BY <1>1, <2>3 DEF Moves
  <2>5. shown' \subseteq held'
    <3>1. shown \subseteq held /\ Facts(charger') \subseteq held'
      BY <1>2 DEF IInv, TypeOK, Facts
    <3> QED
      BY <1>2, <2>1, <3>1
  <2>6. TypeOK'
    <3>1. todo' \in Seq(Steps)
      BY <2>3, TypesOfPath
    <3>2. call.of \in Contexts
      BY <1>3 DEF Leads, Steps
    <3> QED
      BY <1>1, <1>2, <2>1, <2>5, <3>1, <3>2 DEF IInv, TypeOK
  <2>7. SessionsHold'
    <3>1. ASSUME NEW x \in sess PROVE x # "try" /\ Inside(x, open)
      BY <1>1 DEF IInv, SessionsHold, Holds
    <3>2. call.of # "try"
      BY <1>1, <2>3 DEF Moves
    <3>3. CASE call.op # "connect"
      <4>1. Inside(call.of, open)
        BY <1>1, <2>3, <3>3 DEF Moves
      <4> QED
        BY <1>1, <3>1, <3>2, <4>1 DEF SessionsHold, Holds
    <3>4. CASE call.op = "connect"
      <4>1. todo' # <<>> /\ Head(todo').do = "open" /\ Head(todo').of = call.of
        <5>1. /\ todo \in Seq(Steps) /\ ConnectsEnter(todo)
          BY <1>3 DEF Leads
        <5>2. Tail(todo) # <<>> /\ Head(Tail(todo)).do = "open"
              /\ Head(Tail(todo)).of = call.of
          BY <1>1, <3>4, <5>1, ConnectThenEnter
        <5> QED
          BY <2>1, <5>2
      <4> QED
        BY <1>1, <2>1, <3>1, <3>2, <4>1 DEF SessionsHold, Holds
    <3> QED
      BY <3>3, <3>4
  <2>8. DoneByThen'
    BY <1>1, <1>2, <2>2 DEF IInv, DoneByThen
  <2> QED
    BY <1>1, <2>3, <2>4, <2>6, <2>7, <2>8 DEF IInv
<1> QED
  BY <1>4, <1>5

LEMMA CallRaisesPreserves ==
  ASSUME IInv, CallRaises
  PROVE  IInv'
<1> DEFINE call == Head(todo)
<1>1. /\ exit = None /\ raised = None /\ todo # <<>> /\ call.do = "call"
      /\ cause' = TRUE /\ sess' = IF call.op = "connect" THEN sess ELSE sess \cup {call.of}
      /\ UNCHANGED <<setup, todo, open, said, exit, shown, disturbed>>
  BY DEF CallRaises, Running, Sessions
<1>2. raised' \in Exceptions
  <2>1. Refusals \subseteq Exceptions /\ {"Exit", "Unsupported"} \subseteq Exceptions
    BY DEF Exceptions, LibraryErrors
  <2> QED
    BY <2>1 DEF CallRaises, Raise, Translated, Errors
<1>3. \E facts : Bring(facts)
  BY DEF CallRaises
<1>4. /\ DOMAIN charger' = Settings \cup Deeds /\ Facts(charger)' \subseteq held'
      /\ held \subseteq held'
  BY <1>3, BringFacts DEF IInv
<1>5. call.do \notin {"parse", "open"} /\ cause' \in BOOLEAN
  BY <1>1
<1>6. \A x \in sess' : x \in sess \/ /\ call.do = "call"
                                     /\ call.op # "connect" /\ x = call.of
  BY <1>1
<1> QED
  BY <1>1, <1>2, <1>4, <1>5, <1>6, RaisePreserves

(* dump's handler: what was asked for was done before the try statement,   *)
(* and the steps go on where that statement ends.                          *)
LEMMA CatchPreserves ==
  ASSUME IInv, Catch
  PROVE  IInv'
<1>1. /\ exit = None /\ raised # None /\ open # <<>> /\ Head(open) = "try"
      /\ raised' = None /\ open' = Tail(open)
      /\ UNCHANGED <<setup, sess, exit, charger, shown, held, cause, disturbed>>
  <2>1. None \notin LibraryErrors
    BY NoneAssumption DEF Exceptions
  <2> QED
    BY <2>1 DEF Catch, Guarded
<1>2. Asked' = Asked
  BY <1>1, AskedStays
<1>3. PICK i \in DOMAIN todo : /\ todo[i] = Close("try")
                              /\ todo' = SubSeq(todo, i + 1, Len(todo))
  BY DEF Catch
<1>4. open = InTry /\ Tail(open) = InPeblar /\ open \in Seq(Contexts)
  BY <1>1, TryIsOnTop, StacksAre DEF IInv
<1>5. Inside("try", open) /\ Asked \subseteq held
  <2>1. Inside("try", open)
    BY <1>4, StackInside
  <2> QED
    BY <2>1 DEF IInv, DoneByThen
<1>6. PICK a \in Stacks, l \in SUBSET Asked : Path(Asked, todo, a, l, Top, {})
  <2>1. ~Parsing
    BY <1>1 DEF Parsing
  <2> QED
    BY <2>1 DEF IInv, OnPath
<1>7. i \in 1..Len(todo) /\ todo \in Seq(Steps)
  <2>1. todo \in Seq(Steps)
    BY <1>6 DEF Path
  <2> QED
    BY <1>3, <2>1
<1>8. PICK c \in Stacks, d \in Stacks, k \in SUBSET Asked, n \in SUBSET Asked :
        /\ Moves(Asked, todo[i], c, k, d, n)
        /\ Path(Asked, SubSeq(todo, i + 1, Len(todo)), d, n, Top, {})
  BY <1>6, <1>7, PathSuffix
<1>9. d = InPeblar
  <2>1. "try" \in Contexts /\ "close" \in {"open", "close"}
    BY Literals
  <2>2. Close("try").do = "close" /\ Close("try").of = "try"
    BY DEF Close, Step
  <2>3. c # <<>> /\ Head(c) = "try" /\ d = Tail(c)
    BY <1>3, <1>8, <2>2 DEF Moves
  <2> QED
    BY <2>3, TryIsOnTop
<1>10. OnPath(Asked', todo', open', raised', held')
  <2>1. Path(Asked, todo', open', n, Top, {}) /\ open' \in Stacks
        /\ Asked \subseteq held' \cup n
    BY <1>1, <1>3, <1>4, <1>5, <1>8, <1>9
  <2> QED
    BY <1>2, <2>1 DEF OnPath
<1>11. open' \in Stacks /\ open' \in Seq(Contexts)
  BY <1>1, <1>4, StacksInclude, StacksAre
<1>12. TypeOK'
  <2>1. todo' \in Seq(Steps)
    BY <1>10, TypesOfPath
  <2> QED
    BY <1>1, <1>11, <2>1 DEF IInv, TypeOK, Facts
<1>13. SessionsHold'
  <2> SUFFICES ASSUME NEW x \in sess PROVE x # "try" /\ Inside(x, open')
    BY <1>1 DEF SessionsHold, Holds
  <2>1. x # "try" /\ Inside(x, open)
    BY <1>1 DEF IInv, SessionsHold, Holds
  <2> QED
    BY <1>1, <1>4, <2>1, InsideTail
<1>14. DoneByThen'
  BY <1>1, <1>2, <1>5 DEF DoneByThen
<1> QED
  BY <1>1, <1>10, <1>11, <1>12, <1>13, <1>14 DEF IInv

(* An error leaves a context, whatever it has become. *)
LEMMA OutPreserves ==
  ASSUME IInv, Running("close") \/ Unwinding, raised' \in Exceptions, cause' \in BOOLEAN,
         open' = Tail(open), sess' = sess \ {Head(open)},
         UNCHANGED <<setup, todo, said, exit, charger, shown, held, disturbed>>
  PROVE  IInv'
<1>1. /\ setup' = setup /\ todo' = todo /\ said' = said /\ exit' = exit /\ held' = held
      /\ charger' = charger /\ shown' = shown /\ disturbed' = disturbed /\ exit = None
  BY DEF Running, Unwinding
<1>2. Asked' = Asked
  BY <1>1, AskedStays
<1>3. open # <<>>
  <2>1. CASE Running("close")
    <3>1. raised = None /\ todo # <<>> /\ Head(todo).do = "close"
      BY <2>1 DEF Running
    <3> QED
      BY <3>1, RunningLeads DEF Leads, Moves
  <2>2. CASE Unwinding
    BY <2>2 DEF Unwinding
  <2> QED
    BY <2>1, <2>2
<1>4. open \in Seq(Contexts) /\ open' \in Stacks /\ open' \in Seq(Contexts)
  BY <1>3, TryIsOnTop, StacksAre DEF IInv
<1>5. OnPath(Asked', todo', open', raised', held')
  <2>1. ~Parsing
    BY <1>3 DEF Parsing
  <2>2. OnPath(Asked, todo, open, raised, held)
    BY <2>1 DEF IInv
  <2>3. raised' # None
    BY NoneAssumption
  <2>4. OnPath(Asked, todo, open', raised', held)
    BY <2>2, <2>3, ErrorOnPath
  <2> QED
    BY <1>1, <1>2, <2>4
<1>6. TypeOK'
  BY <1>1, <1>4 DEF IInv, TypeOK, Facts
<1>7. SessionsHold'
  <2> SUFFICES ASSUME NEW x \in sess, x # Head(open) PROVE x # "try" /\ Inside(x, open')
    BY DEF SessionsHold, Holds
  <2>1. raised # None \/ Head(todo).do = "close"
    BY DEF Running, Unwinding
  <2>2. x # "try" /\ Inside(x, open)
    BY <2>1 DEF IInv, SessionsHold, Holds
  <2> QED
    BY <1>3, <1>4, <2>2, InsideTail
<1>8. DoneByThen'
  <2>1. Inside("try", open') => Inside("try", open)
    BY <1>3, <1>4, InsideTail
  <2> QED
    BY <1>1, <1>2, <2>1 DEF IInv, DoneByThen
<1> QED
  BY <1>1, <1>4, <1>5, <1>6, <1>7, <1>8 DEF IInv

LEMMA UnwindPreserves ==
  ASSUME IInv, Unwind
  PROVE  IInv'
<1>1. /\ Unwinding /\ open' = Tail(open) /\ sess' = sess \ {Head(open)}
      /\ raised' = raised /\ cause' = cause
      /\ UNCHANGED <<setup, todo, said, exit, charger, shown, held, disturbed>>
  BY DEF Unwind
<1>2. raised' \in Exceptions /\ cause' \in BOOLEAN
  BY <1>1 DEF Unwinding, IInv, TypeOK
<1> QED
  BY <1>1, <1>2, OutPreserves

LEMMA InterruptPreserves ==
  ASSUME IInv, Interrupt
  PROVE  IInv'
<1> DEFINE call == Head(todo)
<1>1. /\ cause' = TRUE
      /\ UNCHANGED <<setup, said, exit, shown, disturbed>>
  BY DEF Interrupt
<1>2. "Interrupt" \in Exceptions /\ cause' \in BOOLEAN
  BY <1>1 DEF Exceptions
<1>3. CASE InterruptCall
  <2>1. /\ exit = None /\ raised = None /\ todo # <<>> /\ call.do = "call"
        /\ raised' = "Interrupt" /\ \E facts : Bring(facts)
        /\ sess' = IF call.op = "connect" THEN sess ELSE sess \cup {call.of}
        /\ UNCHANGED <<todo, open>>
    BY <1>3 DEF InterruptCall, Running, Sessions, Raise
  <2>2. /\ DOMAIN charger' = Settings \cup Deeds /\ Facts(charger)' \subseteq held'
        /\ held \subseteq held'
    BY <2>1, BringFacts DEF IInv
  <2>3. call.do \notin {"parse", "open"}
    BY <2>1
  <2>4. \A x \in sess' : x \in sess \/ /\ call.do = "call"
                                       /\ call.op # "connect" /\ x = call.of
    BY <2>1
  <2> QED
    BY <1>1, <1>2, <2>1, <2>2, <2>3, <2>4, RaisePreserves
<1>4. CASE InterruptExport
  <2>1. /\ exit = None /\ raised = None /\ todo # <<>> /\ call.do = "export"
        /\ raised' = "Interrupt" /\ sess' = sess /\ charger' = charger /\ held' = held
        /\ UNCHANGED <<todo, open>>
    BY <1>4 DEF InterruptExport, Running, Raise
  <2>2. /\ DOMAIN charger' = Settings \cup Deeds /\ Facts(charger)' \subseteq held'
        /\ held \subseteq held'
    BY <2>1 DEF IInv, TypeOK, Facts
  <2>3. call.do \notin {"parse", "open"} /\ \A x \in sess' : x \in sess
    BY <2>1
  <2> QED
    BY <1>1, <1>2, <2>1, <2>2, <2>3, RaisePreserves
<1>5. CASE InterruptListen
  <2>1. /\ exit = None /\ raised = None /\ todo # <<>> /\ call.do = "listen"
        /\ todo' = Tail(todo)
        /\ UNCHANGED <<open, sess, raised, charger, held>>
    BY <1>5 DEF InterruptListen, Running, Advance
  <2>2. call.do \in {"say", "summary", "export", "listen"}
    BY <2>1
  <2>3. "success" \in said' =>
          "success" \in said \/ (call.do = "say" /\ call.op = "success")
    BY <1>1
  <2> QED
    BY <1>1, <1>2, <2>1, <2>2, <2>3, PlainStepPreserves
<1>6. CASE InterruptClose
  <2>1. /\ Running("close") \/ Unwinding
        /\ open' = Tail(open) /\ sess' = sess \ {Head(open)} /\ raised' = "Interrupt"
        /\ UNCHANGED <<todo, charger, held>>
    BY <1>6 DEF InterruptClose, Raise
  <2> QED
    BY <1>1, <1>2, <2>1, OutPreserves
<1> QED
  BY <1>3, <1>4, <1>5, <1>6 DEF Interrupt

(* Outside of all contexts, no session is left. *)
LEMMA NoneInside ==
  ASSUME IInv, open = <<>>, raised # None \/ todo = <<>>
  PROVE  sess = {}
<1> SUFFICES ASSUME NEW x \in sess PROVE FALSE
  OBVIOUS
<1>1. Inside(x, <<>>)
  BY DEF IInv, SessionsHold, Holds
<1> QED
  BY <1>1 DEF Inside

LEMMA EndPreserves ==
  ASSUME IInv, End
  PROVE  IInv'
<1>1. /\ exit = None /\ raised # None /\ open = <<>> /\ exit' = ExitStatus(raised)
      /\ UNCHANGED <<setup, todo, open, sess, raised, said, charger, shown, held,
                     cause, disturbed>>
  BY DEF End
<1>2. Asked' = Asked
  BY <1>1, AskedStays
<1>3. exit' \in Statuses /\ exit' # "ok"
  BY <1>1 DEF ExitStatus, Statuses
<1>4. sess = {}
  BY <1>1, NoneInside
<1>5. TypeOK'
  BY <1>1, <1>3 DEF IInv, TypeOK, Facts
<1>6. Parsing' \/ OnPath(Asked', todo', open', raised', held')
  <2>1. CASE Parsing
    BY <1>1, <2>1 DEF Parsing
  <2>2. CASE OnPath(Asked, todo, open, raised, held)
    BY <1>1, <1>2, <2>2
  <2> QED
    BY <2>1, <2>2 DEF IInv
<1>7. SessionsHold' /\ DoneByThen'
  BY <1>1, <1>2, <1>3, <1>4 DEF IInv, SessionsHold, DoneByThen
<1> QED
  BY <1>1, <1>4, <1>5, <1>6, <1>7 DEF IInv

LEMMA SucceedPreserves ==
  ASSUME IInv, Succeed
  PROVE  IInv'
<1>1. /\ exit = None /\ raised = None /\ todo = <<>> /\ exit' = "ok"
      /\ UNCHANGED <<setup, todo, open, sess, raised, said, charger, shown, held,
                     cause, disturbed>>
  BY DEF Succeed
<1>2. Asked' = Asked
  BY <1>1, AskedStays
<1>3. OnPath(Asked, todo, open, raised, held)
  <2>1. ~Parsing
    BY <1>1, DoFields DEF Parsing
  <2> QED
    BY <2>1 DEF IInv
<1>4. open = <<>> /\ Asked \subseteq held
  BY <1>1, <1>3, PathEnd
<1>5. sess = {}
  BY <1>1, <1>4, NoneInside
<1>6. TypeOK'
  <2>1. "ok" \in Statuses
    BY DEF Statuses
  <2> QED
    BY <1>1, <2>1 DEF IInv, TypeOK, Facts
<1>7. OnPath(Asked', todo', open', raised', held')
  BY <1>1, <1>2, <1>3
<1>8. SessionsHold' /\ DoneByThen'
  BY <1>1, <1>2, <1>4, <1>5 DEF SessionsHold, DoneByThen
<1> QED
  BY <1>1, <1>5, <1>6, <1>7, <1>8 DEF IInv

LEMMA ChangePreserves ==
  ASSUME IInv, Change
  PROVE  IInv'
<1>1. /\ exit = None /\ disturbed' = TRUE /\ \E facts : Bring(facts)
      /\ UNCHANGED <<setup, todo, open, sess, raised, said, exit, shown, cause>>
  BY DEF Change
<1>2. Asked' = Asked
  BY <1>1, AskedStays
<1>3. /\ DOMAIN charger' = Settings \cup Deeds /\ Facts(charger)' \subseteq held'
      /\ held \subseteq held'
  BY <1>1, BringFacts DEF IInv
<1>4. TypeOK'
  BY <1>1, <1>3 DEF IInv, TypeOK
<1>5. Parsing' \/ OnPath(Asked', todo', open', raised', held')
  <2>1. CASE Parsing
    BY <1>1, <2>1 DEF Parsing
  <2>2. CASE OnPath(Asked, todo, open, raised, held)
    <3>1. OnPath(Asked, todo, open, raised, held')
      BY <1>3, <2>2, FactsOnPath
    <3> QED
      BY <1>1, <1>2, <3>1
  <2> QED
    BY <2>1, <2>2 DEF IInv
<1>6. SessionsHold' /\ DoneByThen'
  BY <1>1, <1>2, <1>3 DEF IInv, SessionsHold, DoneByThen
<1> QED
  BY <1>1, <1>4, <1>5, <1>6 DEF IInv

----------------------------------------------------------------------------
(* The invariant.                                                          *)

LEMMA InitIInv == Init => IInv
<1> SUFFICES ASSUME Init PROVE IInv
  OBVIOUS
<1>1. /\ setup \in Setups /\ todo = <<Do("parse")>> /\ open = <<>> /\ sess = {}
      /\ raised = None /\ said = {} /\ exit = None /\ shown = {}
      /\ held = Facts(charger) /\ cause = FALSE /\ disturbed = FALSE
      /\ DOMAIN charger = Settings \cup Deeds
  BY DEF Init
<1>2. open \in Stacks
  BY <1>1, StacksInclude DEF Top
<1>3. TypeOK
  <2>1. SetupOK(setup)
    BY <1>1, SetupsAssumption
  <2>2. todo \in Seq(Steps)
    BY <1>1, DoFields
  <2>3. open \in Seq(Contexts)
    BY <1>2, StacksAre
  <2> QED
    BY <1>1, <2>1, <2>2, <2>3 DEF TypeOK
<1>4. Parsing
  BY <1>1 DEF Parsing
<1>5. SessionsHold /\ DoneByThen
  <2>1. ~Inside("try", open)
    BY <1>1 DEF Inside
  <2>2. exit # "ok"
    BY <1>1, NoneAssumption DEF Statuses
  <2> QED
    BY <1>1, <2>1, <2>2 DEF SessionsHold, DoneByThen
<1> QED
  BY <1>1, <1>2, <1>3, <1>4, <1>5 DEF IInv

LEMMA StutterIInv == IInv /\ UNCHANGED vars => IInv'
<1> SUFFICES ASSUME IInv, UNCHANGED vars PROVE IInv'
  OBVIOUS
<1>1. UNCHANGED <<setup, todo, open, sess, raised, said, exit, charger, shown, held,
                  cause, disturbed>>
  BY DEF vars
<1>2. Asked' = Asked
  BY <1>1, AskedStays
<1>3. TypeOK'
  BY <1>1 DEF IInv, TypeOK, Facts
<1>4. Parsing' \/ OnPath(Asked', todo', open', raised', held')
  <2>1. CASE Parsing
    BY <1>1, <2>1 DEF Parsing
  <2>2. CASE OnPath(Asked, todo, open, raised, held)
    BY <1>1, <1>2, <2>2
  <2> QED
    BY <2>1, <2>2 DEF IInv
<1>5. SessionsHold' /\ DoneByThen'
  BY <1>1, <1>2 DEF IInv, SessionsHold, DoneByThen
<1> QED
  BY <1>1, <1>3, <1>4, <1>5 DEF IInv

LEMMA NextIInv == IInv /\ [Next]_vars => IInv'
<1> SUFFICES ASSUME IInv, [Next]_vars PROVE IInv'
  OBVIOUS
<1>1. CASE ProcessStep
  BY <1>1, ParsePreserves, EnterPreserves, LeavePreserves, TalkPreserves,
     CallReturnsPreserves, CallRaisesPreserves, RefusePreserves, ReportPreserves,
     CatchPreserves, UnwindPreserves, EndPreserves, SucceedPreserves DEF ProcessStep
<1>2. CASE ListenEnds
  BY <1>2, ListenEndsPreserves
<1>3. CASE Interrupt
  BY <1>3, InterruptPreserves
<1>4. CASE Change
  BY <1>4, ChangePreserves
<1>5. CASE UNCHANGED vars
  BY <1>5, StutterIInv
<1> QED
  BY <1>1, <1>2, <1>3, <1>4, <1>5 DEF Next

LEMMA Invariant == Spec => []IInv
  BY InitIInv, NextIInv, PTL DEF Spec

(* Every variable keeps its type. *)
THEOREM TypeCorrect == Spec => []TypeOK
<1>1. IInv => TypeOK
  BY DEF IInv
<1> QED
  BY <1>1, Invariant, PTL

(* However a command ends, it leaves no session and no socket open.        *)
THEOREM NoSessionIsLeft == Spec => []NoSessionLeft
<1>1. IInv => NoSessionLeft
  BY DEF IInv, NoSessionLeft
<1> QED
  BY <1>1, Invariant, PTL

(* A command that ends with status 0, or says it succeeded, has done all   *)
(* its options asked for.                                                  *)
THEOREM SuccessTold == Spec => []SuccessIsTrue
<1>1. IInv => SuccessIsTrue
  BY DEF IInv, DoneByThen, SuccessIsTrue
<1> QED
  BY <1>1, Invariant, PTL

----------------------------------------------------------------------------
(* What is changed.                                                        *)

Within(allowed) ==
  \A name \in DOMAIN charger :
    charger'[name] # charger[name] => <<name, charger'[name]>> \in allowed

(* No setting and no deed has the name of a file. *)
LEMMA NoFileIsSetting == (Settings \cup Deeds) \cap Files = {}
<1>1. Settings \cap Files = {}
  BY DEF Settings, Files, MainFiles, LocalFiles
<1>2. Deeds \cap Files = {}
  BY DEF Deeds, Files, MainFiles, LocalFiles
<1> QED
  BY <1>1, <1>2

LEMMA BringWithin ==
  ASSUME TypeOK, NEW facts, Bring(facts), NEW allowed,
         \A fact \in facts : fact[1] \in Settings \cup Deeds =>
                               <<fact[1], fact[2]>> \in allowed
  PROVE  Within(allowed)
<1> SUFFICES ASSUME NEW name \in DOMAIN charger, charger'[name] # charger[name]
             PROVE  <<name, charger'[name]>> \in allowed
  BY DEF Within
<1>1. charger'[name] = IF \E fact \in facts : fact[1] = name
                         THEN (CHOOSE fact \in facts : fact[1] = name)[2] ELSE charger[name]
  BY DEF Bring, Applied
<1>2. \E fact \in facts : fact[1] = name
  BY <1>1
<1> DEFINE chosen == CHOOSE fact \in facts : fact[1] = name
<1>3. chosen \in facts /\ chosen[1] = name
  BY <1>2
<1>4. charger'[name] = chosen[2]
  BY <1>1, <1>2
<1> HIDE DEF chosen
<1> QED
  BY <1>3, <1>4 DEF TypeOK

(* A call changes what was asked for, all of it or part of it. *)
LEMMA CallWithin ==
  ASSUME IInv, raised = None, todo # <<>>, Head(todo).do = "call",
         NEW facts \in SUBSET Head(todo).sets, Bring(facts)
  PROVE  Within(Asked \cup setup.others)
<1>1. Leads(Asked, todo, open, held)
  BY RunningLeads
<1>2. Head(todo).sets \subseteq Asked \cup Written
  BY <1>1 DEF Leads, Moves
<1>3. Asked \subseteq Pairs
  BY AskedFits DEF IInv
<1>4. ASSUME NEW fact \in facts, fact[1] \in Settings \cup Deeds
      PROVE  <<fact[1], fact[2]>> \in Asked \cup setup.others
  <2>1. fact \notin Written
    BY <1>4, NoFileIsSetting DEF Written
  <2>2. fact \in Asked /\ fact \in Pairs
    BY <1>2, <1>3, <2>1
  <2>3. fact = <<fact[1], fact[2]>>
    BY <2>2 DEF Pairs
  <2> QED
    BY <2>2, <2>3
<1> QED
  BY <1>4, BringWithin DEF IInv

(* Who changes the charger, or what was so. *)
LEMMA WhoChanges ==
  ASSUME IInv, [Next]_vars
  PROVE  \/ UNCHANGED <<charger, held>>
         \/ Change
         \/ /\ raised = None /\ todo # <<>> /\ Head(todo).do = "call"
            /\ \E facts \in SUBSET Head(todo).sets : Bring(facts)
<1>1. CASE CallReturns
  BY <1>1 DEF CallReturns, Running
<1>2. CASE CallRaises \/ InterruptCall
  <2>1. Effects(Head(todo)) \subseteq SUBSET Head(todo).sets
    BY DEF Effects
  <2>2. \E facts \in Effects(Head(todo)) : Bring(facts)
    BY <1>2 DEF CallRaises, InterruptCall
  <2>3. \E facts \in SUBSET Head(todo).sets : Bring(facts)
    BY <2>1, <2>2
  <2> QED
    BY <1>2, <2>3 DEF CallRaises, InterruptCall, Running
<1>3. CASE InterruptExport \/ InterruptListen \/ InterruptClose
  BY <1>3 DEF InterruptExport, InterruptListen, InterruptClose
<1>4. CASE \/ Parse \/ Enter \/ Leave \/ Talk \/ Refuse \/ Report \/ Catch \/ Unwind
           \/ End \/ Succeed \/ ListenEnds
  BY <1>4 DEF Parse, Enter, Leave, Talk, Refuse, Report, Catch, Unwind, End, Succeed,
     ListenEnds
<1>5. CASE UNCHANGED vars
  BY <1>5 DEF vars
<1> QED
  BY <1>1, <1>2, <1>3, <1>4, <1>5 DEF Next, ProcessStep, Interrupt

LEMMA StepWithin == IInv /\ [Next]_vars => Within(Asked \cup setup.others)
<1> SUFFICES ASSUME IInv, [Next]_vars PROVE Within(Asked \cup setup.others)
  OBVIOUS
<1>1. CASE UNCHANGED <<charger, held>>
  BY <1>1 DEF Within
<1>2. CASE /\ raised = None /\ todo # <<>> /\ Head(todo).do = "call"
           /\ \E facts \in SUBSET Head(todo).sets : Bring(facts)
  BY <1>2, CallWithin
<1>3. CASE Change
  <2>1. PICK fact \in setup.others : Bring({fact})
    BY <1>3 DEF Change
  <2>2. fact \in Settings \X Values
    BY SetupsAssumption DEF IInv, SetupOK
  <2>3. fact = <<fact[1], fact[2]>>
    BY <2>2
  <2> QED
    BY <2>1, <2>3, BringWithin DEF IInv
<1> QED
  BY <1>1, <1>2, <1>3, WhoChanges

(* A flag that was not given changes nothing.                              *)
THEOREM NothingElseChanges == Spec => OnlyWhatWasAsked
<1>1. IInv /\ [Next]_vars =>
        [\A name \in DOMAIN charger :
           charger'[name] # charger[name] =>
             <<name, charger'[name]>> \in Asked \cup setup.others]_vars
  BY StepWithin DEF Within
<1> QED
  BY <1>1, Invariant, PTL DEF Spec, OnlyWhatWasAsked

----------------------------------------------------------------------------
(* What the table shows.                                                   *)

LEMMA SetupStays == [Next]_vars => setup' = setup
  BY DEF Next, ProcessStep, vars, Parse, Enter, Leave, Talk, CallReturns, CallRaises,
     Refuse, Report, Catch, Unwind, End, Succeed, ListenEnds, Interrupt, Change

Refused == Program(setup.line).bad

(* A command that has not begun goes on only with its script, and only if  *)
(* its options are not refused.                                            *)
LEMMA ParsingStep ==
  ASSUME IInv, Parsing, [Next]_vars
  PROVE  Parsing' \/ (~Refused /\ todo' = Program(setup.line).script)
<1>1. /\ todo = <<Do("parse")>> /\ open = <<>> /\ sess = {} /\ said = {}
      /\ raised \in {None, "Usage"}
  BY DEF Parsing
<1>2. todo # <<>> /\ Head(todo).do = "parse"
  BY <1>1, DoFields
<1>3. raised \notin LibraryErrors
  BY <1>1, NoneAssumption DEF LibraryErrors, Refusals, Exceptions
<1>4. \A what : Running(what) => what = "parse"
  BY <1>2 DEF Running
<1>5. CASE Parse
  BY <1>1, <1>5 DEF Parse, Raise, Refused, Parsing
<1>6. CASE End \/ Change \/ UNCHANGED vars
  <2>1. UNCHANGED <<todo, open, sess, raised, said>>
    BY <1>6 DEF End, Change, vars
  <2> QED
    BY <1>1, <2>1 DEF Parsing
<1>7. CASE \/ Enter \/ Leave \/ Talk \/ CallReturns \/ CallRaises \/ Refuse \/ Report
           \/ ListenEnds \/ InterruptCall \/ InterruptExport \/ InterruptListen
  <2>1. \E what \in {"open", "close", "say", "call", "refuse", "summary", "export", "listen"} :
          Running(what)
    BY <1>7 DEF Enter, Leave, Talk, CallReturns, CallRaises, Refuse, Report, ListenEnds,
       InterruptCall, InterruptExport, InterruptListen
  <2> QED
    BY <1>4, <2>1
<1>8. CASE Catch \/ Unwind \/ InterruptClose \/ Succeed
  <2>1. ~Guarded /\ ~Unwinding /\ ~Running("close") /\ todo # <<>>
    BY <1>1, <1>2, <1>3, <1>4 DEF Guarded, Unwinding
  <2> QED
    BY <1>8, <2>1 DEF Catch, Unwind, InterruptClose, Succeed
<1> QED
  BY <1>5, <1>6, <1>7, <1>8 DEF Next, ProcessStep, Interrupt

(* What was asked for, once it was so, is so: no part of a command undoes  *)
(* another.                                                                *)
Stands ==
  \A ask \in Asked \cap held : ask[1] \in DOMAIN charger => charger[ask[1]] = ask[2]

ShowsAsked == \A fact \in shown, ask \in Asked : fact[1] = ask[1] => fact = ask

TableInv ==
  /\ Refused => Parsing
  /\ ~disturbed /\ ~Refused => Stands /\ ShowsAsked

(* A change of what was asked for leaves what stands. *)
LEMMA BringStands ==
  ASSUME IInv, ~Refused, Stands, setup' = setup, NEW facts,
         facts \subseteq Asked \cup Written, Bring(facts)
  PROVE  Stands'
<1>1. Asked' = Asked
  BY AskedStays
<1>2. DOMAIN charger = Settings \cup Deeds /\ DOMAIN charger' = Settings \cup Deeds
  BY BringFacts DEF IInv, TypeOK
<1>3. OneEach(Asked) /\ Asked \in SUBSET Pairs
  BY AskedFits, AsksFit DEF IInv, Refused, Consistent, Asked
<1> SUFFICES ASSUME NEW ask \in Asked, ask \in held', ask[1] \in DOMAIN charger'
             PROVE  charger'[ask[1]] = ask[2]
  BY <1>1 DEF Stands
<1> DEFINE name == ask[1]
<1>4. name \in DOMAIN charger /\ ask = <<name, ask[2]>>
  BY <1>2, <1>3 DEF Pairs
<1>5. charger'[name] = IF \E fact \in facts : fact[1] = name
                         THEN (CHOOSE fact \in facts : fact[1] = name)[2] ELSE charger[name]
  BY <1>4 DEF Bring, Applied
<1>6. CASE \E fact \in facts : fact[1] = name
  <2> DEFINE chosen == CHOOSE fact \in facts : fact[1] = name
  <2>1. chosen \in facts /\ chosen[1] = name
    BY <1>6
  <2>2. charger'[name] = chosen[2]
    BY <1>5, <1>6
  <2> HIDE DEF chosen
  <2>3. chosen \notin Written
    BY <1>2, <1>4, <2>1, NoFileIsSetting DEF Written
  <2>4. chosen = ask
    BY <1>3, <2>1, <2>3 DEF OneEach
  <2> QED
    BY <2>2, <2>4
<1>7. CASE ~\E fact \in facts : fact[1] = name
  <2>1. charger'[name] = charger[name] /\ ask \notin facts
    BY <1>5, <1>7
  <2>2. ask \in held \/ ask \in Facts(charger')
    BY <2>1 DEF Bring
  <2>3. CASE ask \in held
    BY <1>4, <2>1, <2>3 DEF Stands
  <2>4. CASE ask \in Facts(charger')
    BY <2>4 DEF Facts
  <2> QED
    BY <2>2, <2>3, <2>4
<1> QED
  BY <1>6, <1>7

(* The table is read by calls that return, and they come last. *)
LEMMA WhoShows ==
  ASSUME IInv, [Next]_vars
  PROVE  \/ UNCHANGED shown
         \/ /\ Asked \subseteq held
            /\ \A fact \in shown' : fact \in shown \/ fact \in Facts(charger')
<1>1. CASE CallReturns /\ Head(todo).shows # {}
  <2>1. raised = None /\ todo # <<>> /\ Head(todo).do = "call"
    BY <1>1 DEF CallReturns, Running
  <2>2. Leads(Asked, todo, open, held)
    BY <2>1, RunningLeads
  <2>3. Asked \subseteq held
    BY <1>1, <2>2 DEF Leads, Moves
  <2>4. \A fact \in shown' : fact \in shown \/ fact \in Facts(charger')
    BY <1>1 DEF CallReturns
  <2> QED
    BY <2>3, <2>4
<1>2. CASE CallReturns /\ Head(todo).shows = {}
  BY <1>2 DEF CallReturns
<1>3. CASE ~CallReturns
  BY <1>3 DEF Next, ProcessStep, vars, Parse, Enter, Leave, Talk, CallRaises, Refuse,
     Report, Catch, Unwind, End, Succeed, ListenEnds, Interrupt, Change
<1> QED
  BY <1>1, <1>2, <1>3

LEMMA TableStep == IInv /\ TableInv /\ [Next]_vars => TableInv'
<1> SUFFICES ASSUME IInv, TableInv, [Next]_vars PROVE TableInv'
  OBVIOUS
<1>1. setup' = setup /\ Asked' = Asked /\ Refused' = Refused
  BY SetupStays, AskedStays DEF Refused
<1>2. Refused' => Parsing'
  BY <1>1, ParsingStep DEF TableInv
<1> SUFFICES ASSUME ~disturbed', ~Refused PROVE Stands' /\ ShowsAsked'
  BY <1>1, <1>2 DEF TableInv
<1>3. ~Change /\ ~disturbed
  BY DEF Next, ProcessStep, vars, Parse, Enter, Leave, Talk, CallReturns, CallRaises,
     Refuse, Report, Catch, Unwind, End, Succeed, ListenEnds, Interrupt, Change
<1>4. Stands /\ ShowsAsked
  BY <1>3 DEF TableInv
<1>5. Stands'
  <2>1. CASE UNCHANGED <<charger, held>>
    BY <1>1, <1>4, <2>1 DEF Stands
  <2>2. CASE /\ raised = None /\ todo # <<>> /\ Head(todo).do = "call"
             /\ \E facts \in SUBSET Head(todo).sets : Bring(facts)
    <3>1. Head(todo).sets \subseteq Asked \cup Written
      BY <2>2, RunningLeads DEF Leads, Moves
    <3> QED
      BY <1>1, <1>4, <2>2, <3>1, BringStands
  <2> QED
    BY <1>3, <2>1, <2>2, WhoChanges
<1>6. ShowsAsked'
  <2>1. CASE UNCHANGED shown
    BY <1>1, <1>4, <2>1 DEF ShowsAsked
  <2>2. CASE /\ Asked \subseteq held
             /\ \A fact \in shown' : fact \in shown \/ fact \in Facts(charger')
    <3>1. held \subseteq held'
      BY <1>3, WhoChanges DEF Bring
    <3>2. Asked \subseteq Pairs
      BY AskedFits DEF IInv
    <3>3. ASSUME NEW fact \in Facts(charger'), NEW ask \in Asked, fact[1] = ask[1]
          PROVE  fact = ask
      <4>1. PICK name \in DOMAIN charger' : fact = <<name, charger'[name]>>
        BY <3>3 DEF Facts
      <4>2. ask[1] = name /\ ask = <<name, ask[2]>>
        BY <3>2, <3>3, <4>1 DEF Pairs
      <4>3. charger'[name] = ask[2]
        BY <1>1, <1>5, <2>2, <3>1, <4>2 DEF Stands
      <4> QED
        BY <4>1, <4>2, <4>3
    <3> QED
      BY <1>1, <1>4, <2>2, <3>3 DEF ShowsAsked
  <2> QED
    BY <2>1, <2>2, WhoShows
<1> QED
  BY <1>5, <1>6

(* The table a command prints after a change shows that change, unless     *)
(* another client interfered.                                              *)
THEOREM TableIsTrue == Spec => []TableShowsTheChange
<1>1. Init => TableInv
  <2> SUFFICES ASSUME Init PROVE TableInv
    OBVIOUS
  <2>1. Parsing /\ shown = {} /\ held = Facts(charger)
    BY DEF Init, Parsing
  <2>2. Stands
    BY <2>1 DEF Stands, Facts
  <2> QED
    BY <2>1, <2>2 DEF TableInv, ShowsAsked
<1>2. TableInv => TableShowsTheChange
  BY DEF TableInv, TableShowsTheChange, Parsing, ShowsAsked
<1> QED
  BY <1>1, <1>2, TableStep, Invariant, PTL DEF Spec

----------------------------------------------------------------------------
(* What a dump leaves out.                                                 *)

LocalWritten == {<<file, "written">> : file \in LocalFiles}
Skips == {"skippedConnection", "skippedFirmware", "skippedDisabled"}

(* Every file of the local API is written, or will be by a step still to   *)
(* take.                                                                   *)
Due == \A fact \in LocalWritten : fact \in held \/ Brings(todo, fact)

SkippedInv ==
  /\ exit = "ok" => todo = <<>>
  /\ setup.line.name = "dump" => Parsing \/ Quiet \/ said \cap Skips # {} \/ Due

(* What the first step does not bring about, the others do. *)
LEMMA BringsTail ==
  ASSUME NEW q \in Seq(Steps), q # <<>>, NEW fact, Brings(q, fact)
  PROVE  fact \in Head(q).sets \/ Brings(Tail(q), fact)
<1> DEFINE r == Tail(q)
<1>1. /\ Len(q) \in Nat /\ Len(q) >= 1 /\ DOMAIN q = 1..Len(q) /\ Head(q) = q[1]
      /\ r \in Seq(Steps) /\ Len(r) = Len(q) - 1
      /\ \A k \in 1..(Len(q) - 1) : r[k] = q[k + 1]
  OBVIOUS
<1> HIDE DEF r
<1>2. DOMAIN r = 1..(Len(q) - 1)
  BY <1>1
<1>3. PICK i \in 1..Len(q) : fact \in q[i].sets
  BY <1>1 DEF Brings
<1>4. CASE i = 1
  BY <1>1, <1>3, <1>4
<1>5. CASE i # 1
  <2>1. i - 1 \in 1..(Len(q) - 1) /\ (i - 1) + 1 = i
    BY <1>1, <1>5
  <2>2. r[i - 1] = q[i]
    BY <1>1, <2>1
  <2>3. i - 1 \in DOMAIN r /\ fact \in r[i - 1].sets
    BY <1>2, <1>3, <2>1, <2>2
  <2>4. Brings(r, fact)
    BY <2>3 DEF Brings
  <2> QED
    BY <2>4 DEF r
<1> QED
  BY <1>4, <1>5

(* What becomes of the steps left: nothing, the first of them is taken, or *)
(* a dump goes on behind its try statement.                                *)
Takes ==
  /\ raised = None /\ todo # <<>> /\ Head(todo).do # "parse" /\ todo' = Tail(todo)
  /\ Head(todo).do # "call" \/ Head(todo).sets \subseteq held'

LEMMA WhatIsLeft ==
  ASSUME IInv, ~Parsing, [Next]_vars
  PROVE  /\ said \subseteq said'
         /\ UNCHANGED todo \/ Takes \/ Catch
<1>1. CASE Parse
  <2>1. FALSE
    BY <1>1, ParsingFirst DEF Parse, Running
  <2> QED
    BY <2>1
<1>2. CASE CallReturns
  BY <1>2 DEF CallReturns, Running, Advance, Bring, Takes
<1>3. CASE Enter \/ Leave \/ Talk \/ Report \/ ListenEnds
  BY <1>3 DEF Enter, Leave, Talk, Report, ListenEnds, Running, Advance, Takes, Tell
<1>4. CASE Interrupt
  BY <1>4 DEF Interrupt, InterruptCall, InterruptExport, InterruptListen, InterruptClose,
     Running, Advance, Takes
<1>5. CASE CallRaises \/ Refuse \/ Unwind \/ End \/ Succeed \/ Change \/ UNCHANGED vars
  BY <1>5 DEF CallRaises, Refuse, Unwind, End, Succeed, Change, vars
<1>6. CASE Catch
  BY <1>6 DEF Catch, Tell
<1> QED
  BY <1>1, <1>2, <1>3, <1>4, <1>5, <1>6 DEF Next, ProcessStep

LEMMA HeldGrows == IInv /\ [Next]_vars => held \subseteq held'
<1> SUFFICES ASSUME IInv, [Next]_vars PROVE held \subseteq held'
  OBVIOUS
<1>1. CASE Change
  BY <1>1 DEF Change, Bring
<1>2. CASE \E facts \in SUBSET Head(todo).sets : Bring(facts)
  BY <1>2 DEF Bring
<1> QED
  BY <1>1, <1>2, WhoChanges

(* Status 0 is given at the end of the script, and nothing comes after it. *)
LEMMA EndedWell ==
  ASSUME SkippedInv, [Next]_vars, exit' = "ok"
  PROVE  todo' = <<>>
<1>1. CASE exit = "ok"
  <2>1. exit # None
    BY <1>1, NoneAssumption DEF Statuses
  <2>2. UNCHANGED vars
    BY <2>1 DEF Next, ProcessStep, Parse, Enter, Leave, Talk, CallReturns, CallRaises, Refuse,
       Report, Catch, Unwind, Unwinding, End, Succeed, ListenEnds, Interrupt, InterruptCall,
       InterruptExport, InterruptListen, InterruptClose, Change, Running
  <2> QED
    BY <1>1, <2>2 DEF SkippedInv, vars
<1>2. CASE exit # "ok"
  <2>1. End \/ Succeed
    BY <1>2 DEF Next, ProcessStep, vars, Parse, Enter, Leave, Talk, CallReturns,
       CallRaises, Refuse, Report, Catch, Unwind, ListenEnds, Interrupt, Change
  <2>2. ~End
    BY DEF End, ExitStatus
  <2> QED
    BY <2>1, <2>2 DEF Succeed
<1> QED
  BY <1>1, <1>2

LEMMA SkippedStep == IInv /\ SkippedInv /\ [Next]_vars => SkippedInv'
<1> SUFFICES ASSUME IInv, SkippedInv, [Next]_vars PROVE SkippedInv'
  OBVIOUS
<1>1. setup' = setup /\ Quiet' = Quiet
  BY SetupStays DEF Quiet
<1>2. exit' = "ok" => todo' = <<>>
  BY EndedWell
<1> SUFFICES ASSUME setup.line.name = "dump", ~Quiet, ~Parsing'
             PROVE  said' \cap Skips # {} \/ Due'
  BY <1>1, <1>2 DEF SkippedInv
<1>3. CASE Parsing
  <2>1. todo' = Program(setup.line).script
    BY <1>3, ParsingStep
  <2>2. Program(setup.line) = Dump
    BY DEF Program
  <2>3. ASSUME NEW file \in LocalFiles PROVE Brings(todo', <<file, "written">>)
    BY <2>1, <2>2, DumpBrings
  <2> QED
    BY <2>3 DEF Due, LocalWritten
<1>4. CASE ~Parsing /\ said \cap Skips # {}
  BY <1>4, WhatIsLeft
<1>5. CASE ~Parsing /\ Due
  <2>1. CASE UNCHANGED todo
    BY <1>5, <2>1, HeldGrows DEF Due
  <2>2. CASE Takes
    <3>1. raised = None /\ todo # <<>> /\ Head(todo).do # "parse" /\ todo' = Tail(todo)
      BY <2>2 DEF Takes
    <3>2. Leads(Asked, todo, open, held)
      BY <3>1, RunningLeads
    <3>3. Head(todo).sets \subseteq held'
      BY <2>2, <3>2, PlainSteps DEF Takes
    <3>4. todo \in Seq(Steps)
      BY <3>2 DEF Leads
    <3>5. ASSUME NEW fact \in LocalWritten PROVE fact \in held' \/ Brings(todo', fact)
      BY <1>5, <3>1, <3>3, <3>4, BringsTail, HeldGrows DEF Due
    <3> QED
      BY <3>5 DEF Due
  <2>3. CASE Catch
    BY <2>3 DEF Catch, Tell, Reason, Skips
  <2> QED
    BY <1>5, <2>1, <2>2, <2>3, WhatIsLeft
<1> QED
  BY <1>3, <1>4, <1>5 DEF SkippedInv

(* A dump that ends well has the files of the local API or says that it    *)
(* skipped them, unless it was told to be quiet.                           *)
THEOREM SkippedIsTold == Spec => []SkippedIsSaid
<1>1. Init => SkippedInv
  <2>1. Init => Parsing /\ exit = None
    BY DEF Init, Parsing
  <2> QED
    BY <2>1, NoneAssumption DEF SkippedInv, Statuses
<1>2. SkippedInv => SkippedIsSaid
  <2> SUFFICES ASSUME SkippedInv, setup.line.name = "dump", exit = "ok",
                      ~Quiet, said \cap Skips = {}
               PROVE  LocalWritten \subseteq held
    BY DEF SkippedIsSaid, LocalWritten, Skips
  <2>1. todo = <<>>
    BY DEF SkippedInv
  <2>2. ~Parsing
    BY <2>1, DoFields DEF Parsing
  <2>3. Due
    BY <2>2 DEF SkippedInv
  <2>4. \A fact : ~Brings(<<>>, fact)
    BY DEF Brings
  <2> QED
    BY <2>1, <2>3, <2>4 DEF Due
<1> QED
  BY <1>1, <1>2, SkippedStep, Invariant, PTL DEF Spec

----------------------------------------------------------------------------
(* Reports.  What is reported was made of something the charger recorded.  *)

ReportInv ==
  /\ HistoryOK(report.of)
  /\ report.kind \in {"none", "summary", "export"}
  /\ report.kind # "none" => report.of.sessions # <<>>
  /\ report.kind = "summary" => report.says = Summary(report.of)
  /\ report.kind = "export" => report.says = Csv(report.of)

LEMMA NoSessionsOK == HistoryOK(NoSessions)
<1> DEFINE Session == [token : Tokens(<<>>), start : Int, end : Int \cup {None}]
<1>1. <<>> \in Seq(BOOLEAN) /\ <<>> \in Seq(Session)
  <2> HIDE DEF Session
  <2> QED
    OBVIOUS
<1>2. SessionsOK(<<>>)
  BY <1>1 DEF SessionsOK
<1> HIDE DEF Session
<1> QED
  BY <1>1, <1>2 DEF HistoryOK, NoSessions

LEMMA WhoReports ==
  ASSUME [Next]_vars
  PROVE  \/ report' = report
         \/ \E h \in Histories : report' = [kind |-> "none", of |-> h]
         \/ (Running("summary") \/ Running("export")) /\ Reportable /\ Reports
<1>1. CASE UNCHANGED vars
  BY <1>1 DEF vars
<1>2. CASE CallReturns
  BY <1>2 DEF CallReturns, NoReport
<1>3. CASE Report
  BY <1>3 DEF Report
<1>4. CASE Parse \/ Enter \/ Leave \/ Talk \/ CallRaises \/ Refuse
  BY <1>4 DEF Parse, Enter, Leave, Talk, CallRaises, Refuse
<1>5. CASE Catch \/ Unwind \/ End \/ Succeed
  BY <1>5 DEF Catch, Unwind, End, Succeed
<1>6. CASE ListenEnds \/ Change
  BY <1>6 DEF ListenEnds, Change
<1>7. CASE Interrupt
  BY <1>7 DEF Interrupt, InterruptCall, InterruptExport, InterruptListen, InterruptClose
<1> QED
  BY <1>1, <1>2, <1>3, <1>4, <1>5, <1>6, <1>7 DEF Next, ProcessStep

LEMMA ReportStep == ReportInv /\ [Next]_vars => ReportInv'
<1> SUFFICES ASSUME ReportInv, [Next]_vars
             PROVE  ReportInv'
  OBVIOUS
<1>1. CASE report' = report
  BY <1>1 DEF ReportInv
<1>2. CASE \E h \in Histories : report' = [kind |-> "none", of |-> h]
  <2>1. PICK h \in Histories : report' = [kind |-> "none", of |-> h]
    BY <1>2
  <2>2. report'.kind = "none" /\ report'.of = h /\ HistoryOK(h)
    BY <2>1, HistoriesAssumption
  <2> QED
    BY <2>2 DEF ReportInv
<1>3. CASE (Running("summary") \/ Running("export")) /\ Reportable /\ Reports
  <2> DEFINE do == Head(todo).do
             says == IF do = "summary" THEN Summary(report.of) ELSE Csv(report.of)
  <2>1. do \in {"summary", "export"}
    BY <1>3 DEF Running
  <2>2. report' = [kind |-> do, of |-> report.of, says |-> says]
    BY <1>3 DEF Reports
  <2>3. report'.kind = do /\ report'.of = report.of /\ report'.says = says
    <3> HIDE DEF do, says
    <3> QED
      BY <2>2
  <2>4. report.of.sessions # <<>>
    BY <1>3 DEF Reportable
  <2>5. HistoryOK(report.of)
    BY DEF ReportInv
  <2>6. /\ do = "summary" => says = Summary(report.of)
        /\ do = "export" => says = Csv(report.of)
    OBVIOUS
  <2> HIDE DEF do, says
  <2> QED
    BY <2>1, <2>3, <2>4, <2>5, <2>6 DEF ReportInv
<1> QED
  BY <1>1, <1>2, <1>3, WhoReports

LEMMA ReportInvariant == Spec => []ReportInv
<1>1. Init => ReportInv
  BY NoSessionsOK DEF Init, NoReport, ReportInv
<1> QED
  BY <1>1, ReportStep, PTL DEF Spec

(* A report leaves nothing out and counts nothing twice, whatever the      *)
(* charger recorded: sessions without a token, sessions still running, too *)
(* few flags or too many.                                                  *)
THEOREM ReportsAddUp == Spec => []ReportAddsUp
<1>1. ReportInv => ReportAddsUp
  <2> SUFFICES ASSUME ReportInv
               PROVE  ReportAddsUp
    OBVIOUS
  <2> DEFINE of == report.of
             rows == report.says.rows
  <2>1. HistoryOK(of) /\ SessionsOK(of.sessions)
    BY DEF ReportInv, HistoryOK
  <2>2. ASSUME report.kind = "summary"
        PROVE  TableRight(rows, of.sessions)
    <3>1. rows = Aggregate(of.sessions)
      BY <2>2 DEF ReportInv, Summary
    <3> QED
      BY <2>1, <3>1, TableAddsUp
  <2>3. ASSUME report.kind = "export"
        PROVE  FileRight(rows, of)
    <3>1. rows = Csv(of).rows
      BY <2>3 DEF ReportInv
    <3> QED
      BY <2>1, <3>1, FileAddsUp
  <2> QED
    BY <2>2, <2>3 DEF ReportAddsUp, TableRight, FileRight
<1> QED
  BY <1>1, ReportInvariant, PTL

(* The total a report gives, if no two sessions ran at once, is at least   *)
(* what they took, in whatever order they are listed, and just that if in  *)
(* order and without gaps.                                                 *)
THEOREM TotalIsTheMeters == Spec => []TotalCoversSessions
<1>1. ReportInv => TotalCoversSessions
  <2> SUFFICES ASSUME ReportInv, report.kind # "none", OneAtATime(report.of.sessions)
               PROVE  /\ report.says.total >= Sum(report.of.sessions)
                      /\ Gapless(report.of.sessions) =>
                           report.says.total = Sum(report.of.sessions)
    BY DEF TotalCoversSessions
  <2> DEFINE s == report.of.sessions
  <2>1. SessionsOK(s) /\ s # <<>>
    BY DEF ReportInv, HistoryOK
  <2>2. report.says.total = Total(s)
    BY DEF ReportInv, Summary, Csv
  <2> HIDE DEF s
  <2>3. OneAtATime(s)
    BY DEF s
  <2>4. Total(s) >= Sum(s) /\ (Gapless(s) => Total(s) = Sum(s))
    BY <2>1, <2>3, TotalIsEnough, TotalIsExact
  <2> QED
    BY <2>2, <2>4 DEF s
<1> QED
  BY <1>1, ReportInvariant, PTL

=============================================================================
