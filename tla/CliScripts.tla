----------------------------- MODULE CliScripts -----------------------------
(***************************************************************************)
(* What is true of the script of every command of Cli, whatever its        *)
(* options: its contexts are nested, every call is made inside the context *)
(* it needs, it changes what was asked for and nothing else, and all of    *)
(* that is done before it says so or shows it.  Nor does it ask for two    *)
(* values of one thing; and a dump writes the files of the local API.      *)
(***************************************************************************)
EXTENDS Cli, FiniteSetTheorems, TLAPS

Pairs == Names \X Values
Written == {<<file, "written">> : file \in Files}
Does == {"call", "open", "close", "say", "parse", "refuse", "summary", "export", "listen"}
Ops == {"", "login", "request", "rest", "modbus", "token", "history", "connect",
        "success", "table", "banner", "done"}

Top == <<>>
InPeblar == <<"peblar">>
InApi == <<"api", "peblar">>
InWebsocket == <<"websocket", "peblar">>
InTry == <<"try", "peblar">>
InTryApi == <<"api", "try", "peblar">>
Stacks == {Top, InPeblar, InApi, InWebsocket, InTry, InTryApi}

Inside(x, a) == \E k \in DOMAIN a : a[k] = x

(* A step s, from contexts a with l still to be done, to b and m.          *)
Moves(asks, s, a, l, b, m) ==
  /\ s \in Steps /\ s.do # "parse"
  /\ s.sets \subseteq asks \cup Written /\ l \ s.sets \subseteq m
  /\ s.do # "call" => s.sets = {}
  /\ s.do = "open" => b # <<>> /\ Head(b) = s.of /\ Tail(b) = a
  /\ s.do = "close" => a # <<>> /\ Head(a) = s.of /\ b = Tail(a)
  /\ s.do \notin {"open", "close"} => b = a
  /\ s.do = "call" => s.of # "try" /\ (s.op = "connect" \/ Inside(s.of, a))
  /\ s.do = "say" /\ s.op = "success" => l = {}
  /\ s.shows # {} => l = {}
  /\ Inside("try", b) => m = {}

(* What was connected is entered at once. *)
ConnectsEnter(q) ==
  \A i \in DOMAIN q :
    q[i].do = "call" /\ q[i].op = "connect" =>
      i + 1 \in DOMAIN q /\ q[i + 1].do = "open" /\ q[i + 1].of = q[i].of

Traced(asks, q, st, lf) ==
  \A i \in 1..Len(q) : Moves(asks, q[i], st[i], lf[i], st[i + 1], lf[i + 1])

(* The steps q, from contexts a with l still to be done, to b and m.       *)
Path(asks, q, a, l, b, m) ==
  /\ q \in Seq(Steps) /\ ConnectsEnter(q)
  /\ \E st \in [1..(Len(q) + 1) -> Stacks], lf \in [1..(Len(q) + 1) -> SUBSET asks] :
       /\ st[1] = a /\ lf[1] = l
       /\ st[Len(q) + 1] = b /\ lf[Len(q) + 1] = m
       /\ Traced(asks, q, st, lf)

----------------------------------------------------------------------------
(* Contexts.                                                               *)

LEMMA StacksAre == Stacks \subseteq Seq(Contexts)
<1>1. "peblar" \in Contexts /\ "api" \in Contexts /\ "websocket" \in Contexts
      /\ "try" \in Contexts
  BY DEF Contexts
<1>2. Top \in Seq(Contexts) /\ InPeblar \in Seq(Contexts)
  BY <1>1 DEF Top, InPeblar
<1>3. InApi \in Seq(Contexts) /\ InWebsocket \in Seq(Contexts)
  BY <1>1 DEF InApi, InWebsocket
<1>4. InTry \in Seq(Contexts) /\ InTryApi \in Seq(Contexts)
  BY <1>1 DEF InTry, InTryApi
<1> QED
  BY <1>2, <1>3, <1>4 DEF Stacks

LEMMA HeadOnTail ==
  ASSUME NEW S, NEW b \in Seq(S), b # <<>>
  PROVE  <<Head(b)>> \o Tail(b) = b
<1>1. /\ Len(b) \in Nat /\ Len(b) >= 1 /\ b \in [1..Len(b) -> S]
  OBVIOUS
<1> DEFINE c == <<Head(b)>> \o Tail(b)
<1>2. /\ Head(b) \in S /\ Tail(b) \in Seq(S) /\ Len(Tail(b)) = Len(b) - 1
      /\ \A k \in 1..(Len(b) - 1) : Tail(b)[k] = b[k + 1]
      /\ Head(b) = b[1]
  BY <1>1
<1>3. <<Head(b)>> \in Seq(S) /\ Len(<<Head(b)>>) = 1 /\ <<Head(b)>>[1] = b[1]
  BY <1>2
<1>4. c \in Seq(S) /\ Len(c) = Len(b)
  BY <1>1, <1>2, <1>3
<1>5. ASSUME NEW k \in 1..Len(b) PROVE c[k] = b[k]
  <2>1. CASE k = 1
    BY <1>1, <1>2, <1>3, <2>1
  <2>2. CASE k # 1
    <3>1. k - 1 \in 1..(Len(b) - 1) /\ k - 1 + 1 = k
      BY <1>1, <2>2
    <3>2. c[k] = Tail(b)[k - 1]
      BY <1>1, <1>2, <1>3, <2>2
    <3> QED
      BY <1>2, <3>1, <3>2
  <2> QED
    BY <2>1, <2>2
<1> HIDE DEF c
<1>6. c \in [1..Len(b) -> S]
  BY <1>4
<1>7. c = b
  BY <1>1, <1>5, <1>6
<1> QED
  BY <1>7 DEF c

LEMMA StackTails ==
  /\ Head(InPeblar) = "peblar" /\ Tail(InPeblar) = Top /\ InPeblar # <<>>
  /\ Head(InApi) = "api" /\ Tail(InApi) = InPeblar /\ InApi # <<>>
  /\ Head(InWebsocket) = "websocket" /\ Tail(InWebsocket) = InPeblar /\ InWebsocket # <<>>
  /\ Head(InTry) = "try" /\ Tail(InTry) = InPeblar /\ InTry # <<>>
  /\ Head(InTryApi) = "api" /\ Tail(InTryApi) = InTry /\ InTryApi # <<>>
  BY DEF Top, InPeblar, InApi, InWebsocket, InTry, InTryApi

LEMMA StackInside ==
  /\ Inside("peblar", InPeblar) /\ Inside("peblar", InApi) /\ Inside("api", InApi)
  /\ Inside("peblar", InWebsocket) /\ Inside("websocket", InWebsocket)
  /\ Inside("peblar", InTry) /\ Inside("peblar", InTryApi) /\ Inside("api", InTryApi)
  /\ Inside("try", InTry) /\ Inside("try", InTryApi)
  /\ ~Inside("try", Top) /\ ~Inside("try", InPeblar) /\ ~Inside("try", InApi)
  /\ ~Inside("try", InWebsocket)
  BY DEF Inside, Top, InPeblar, InApi, InWebsocket, InTry, InTryApi

LEMMA TryIsOnTop ==
  ASSUME NEW a \in Stacks, a # <<>>
  PROVE  Tail(a) \in Stacks /\ (Head(a) = "try" => a = InTry /\ Tail(a) = InPeblar)
<1>1. \/ a = InPeblar \/ a = InApi \/ a = InWebsocket \/ a = InTry \/ a = InTryApi
  BY DEF Stacks, Top
<1>2. "peblar" # "try" /\ "api" # "try" /\ "websocket" # "try"
  OBVIOUS
<1> QED
  BY <1>1, <1>2, StackTails DEF Stacks

LEMMA InsideTail ==
  ASSUME NEW a \in Seq(Contexts), NEW x
  PROVE  /\ ~Inside(x, <<>>)
         /\ a # <<>> => (Inside(x, a) <=> x = Head(a) \/ Inside(x, Tail(a)))
<1>1. ~Inside(x, <<>>)
  BY DEF Inside
<1>2. ASSUME a # <<>> PROVE Inside(x, a) <=> x = Head(a) \/ Inside(x, Tail(a))
  <2>1. /\ Len(a) \in Nat /\ Len(a) >= 1 /\ DOMAIN a = 1..Len(a)
        /\ DOMAIN Tail(a) = 1..(Len(a) - 1) /\ Head(a) = a[1]
        /\ \A k \in 1..(Len(a) - 1) : Tail(a)[k] = a[k + 1]
    BY <1>2
  <2>2. ASSUME Inside(x, a) PROVE x = Head(a) \/ Inside(x, Tail(a))
    <3>1. PICK k \in 1..Len(a) : a[k] = x
      BY <2>1, <2>2 DEF Inside
    <3>2. CASE k = 1
      BY <2>1, <3>1, <3>2
    <3>3. CASE k # 1
      <4>1. k - 1 \in 1..(Len(a) - 1) /\ Tail(a)[k - 1] = x
        BY <2>1, <3>1, <3>3
      <4> QED
        BY <2>1, <4>1 DEF Inside
    <3> QED
      BY <3>2, <3>3
  <2>3. ASSUME Inside(x, Tail(a)) PROVE Inside(x, a)
    <3>1. PICK k \in 1..(Len(a) - 1) : Tail(a)[k] = x
      BY <2>1, <2>3 DEF Inside
    <3>2. k + 1 \in 1..Len(a) /\ a[k + 1] = x
      BY <2>1, <3>1
    <3> QED
      BY <2>1, <3>2 DEF Inside
  <2>4. ASSUME x = Head(a) PROVE Inside(x, a)
    BY <2>1, <2>4 DEF Inside
  <2> QED
    BY <2>2, <2>3, <2>4
<1> QED
  BY <1>1, <1>2

----------------------------------------------------------------------------
(* How paths are put together.                                             *)

LEMMA PathEmpty ==
  ASSUME NEW asks, NEW a \in Stacks, NEW l \in SUBSET asks
  PROVE  Path(asks, <<>>, a, l, a, l)
<1> DEFINE st == [i \in 1..1 |-> a]
           lf == [i \in 1..1 |-> l]
<1>1. /\ st \in [1..(Len(<<>>) + 1) -> Stacks] /\ lf \in [1..(Len(<<>>) + 1) -> SUBSET asks]
      /\ st[1] = a /\ lf[1] = l /\ st[Len(<<>>) + 1] = a /\ lf[Len(<<>>) + 1] = l
  OBVIOUS
<1>2. Traced(asks, <<>>, st, lf)
  BY DEF Traced
<1>3. <<>> \in Seq(Steps) /\ ConnectsEnter(<<>>)
  BY DEF ConnectsEnter
<1> QED
  BY <1>1, <1>2, <1>3 DEF Path

LEMMA PathOne ==
  ASSUME NEW asks, NEW s, NEW a \in Stacks, NEW b \in Stacks,
         NEW l \in SUBSET asks, NEW m \in SUBSET asks,
         Moves(asks, s, a, l, b, m), s.op # "connect"
  PROVE  Path(asks, <<s>>, a, l, b, m)
<1> DEFINE st == [i \in 1..2 |-> IF i = 1 THEN a ELSE b]
           lf == [i \in 1..2 |-> IF i = 1 THEN l ELSE m]
           q == <<s>>
<1>1. /\ Len(q) = 1 /\ DOMAIN q = 1..1 /\ q[1] = s
  OBVIOUS
<1>2. s \in Steps
  BY DEF Moves
<1>3. q \in Seq(Steps)
  BY <1>2
<1> HIDE DEF q
<1>4. /\ st \in [1..(Len(q) + 1) -> Stacks] /\ lf \in [1..(Len(q) + 1) -> SUBSET asks]
      /\ st[1] = a /\ lf[1] = l /\ st[Len(q) + 1] = b /\ lf[Len(q) + 1] = m
  BY <1>1
<1>5. Traced(asks, q, st, lf)
  <2>1. st[1 + 1] = b /\ lf[1 + 1] = m
    OBVIOUS
  <2> QED
    BY <1>1, <1>4, <2>1 DEF Traced
<1>6. ConnectsEnter(q)
  BY <1>1 DEF ConnectsEnter
<1>7. Path(asks, q, a, l, b, m)
  <2> HIDE DEF st, lf
  <2> QED
    BY <1>3, <1>4, <1>5, <1>6 DEF Path
<1> QED
  BY <1>7 DEF q

LEMMA PathConcat ==
  ASSUME NEW asks, NEW p, NEW q, NEW a, NEW b, NEW c, NEW l, NEW m, NEW n,
         Path(asks, p, a, l, b, m), Path(asks, q, b, m, c, n)
  PROVE  Path(asks, p \o q, a, l, c, n)
<1> DEFINE r == p \o q
<1>1. /\ p \in Seq(Steps) /\ q \in Seq(Steps)
      /\ ConnectsEnter(p) /\ ConnectsEnter(q)
  BY DEF Path
<1>2. /\ Len(p) \in Nat /\ Len(q) \in Nat /\ Len(r) = Len(p) + Len(q)
      /\ r \in Seq(Steps)
      /\ DOMAIN p = 1..Len(p) /\ DOMAIN q = 1..Len(q) /\ DOMAIN r = 1..Len(r)
      /\ \A i \in 1..Len(p) : r[i] = p[i]
      /\ \A i \in 1..Len(r) : i > Len(p) => i - Len(p) \in 1..Len(q) /\ r[i] = q[i - Len(p)]
  BY <1>1
<1> HIDE DEF r
<1>3. PICK st1 \in [1..(Len(p) + 1) -> Stacks], lf1 \in [1..(Len(p) + 1) -> SUBSET asks] :
        /\ st1[1] = a /\ lf1[1] = l /\ st1[Len(p) + 1] = b /\ lf1[Len(p) + 1] = m
        /\ Traced(asks, p, st1, lf1)
  BY DEF Path
<1>4. PICK st2 \in [1..(Len(q) + 1) -> Stacks], lf2 \in [1..(Len(q) + 1) -> SUBSET asks] :
        /\ st2[1] = b /\ lf2[1] = m /\ st2[Len(q) + 1] = c /\ lf2[Len(q) + 1] = n
        /\ Traced(asks, q, st2, lf2)
  BY DEF Path
<1> DEFINE st == [i \in 1..(Len(r) + 1) |->
                    IF i <= Len(p) THEN st1[i] ELSE st2[i - Len(p)]]
           lf == [i \in 1..(Len(r) + 1) |->
                    IF i <= Len(p) THEN lf1[i] ELSE lf2[i - Len(p)]]
<1>5. \A i \in 1..(Len(r) + 1) :
        /\ i <= Len(p) => st[i] = st1[i] /\ lf[i] = lf1[i] /\ i \in 1..(Len(p) + 1)
        /\ i > Len(p) => /\ i - Len(p) \in 1..(Len(q) + 1)
                         /\ st[i] = st2[i - Len(p)] /\ lf[i] = lf2[i - Len(p)]
  BY <1>2
<1>6. /\ st \in [1..(Len(r) + 1) -> Stacks] /\ lf \in [1..(Len(r) + 1) -> SUBSET asks]
  <2>1. \A i \in 1..(Len(r) + 1) : st[i] \in Stacks /\ lf[i] \in SUBSET asks
    <3>1. ASSUME NEW i \in 1..(Len(r) + 1), i <= Len(p)
          PROVE st[i] \in Stacks /\ lf[i] \in SUBSET asks
      BY <1>3, <1>5, <3>1
    <3>2. ASSUME NEW i \in 1..(Len(r) + 1), i > Len(p)
          PROVE st[i] \in Stacks /\ lf[i] \in SUBSET asks
      BY <1>4, <1>5, <3>2
    <3> QED
      BY <1>2, <3>1, <3>2
  <2> QED
    BY <2>1
<1> HIDE DEF st, lf
<1>7. \A i \in 1..(Len(r) + 1) :
        i <= Len(p) + 1 => st[i] = st1[i] /\ lf[i] = lf1[i]
  <2>1. ASSUME NEW i \in 1..(Len(r) + 1), i = Len(p) + 1
        PROVE st[i] = st1[i] /\ lf[i] = lf1[i]
    <3>1. i > Len(p) /\ i - Len(p) = 1
      BY <1>2, <2>1
    <3>2. st[i] = st2[1] /\ lf[i] = lf2[1]
      BY <1>5, <3>1
    <3>3. st[i] = b /\ lf[i] = m
      BY <1>4, <3>2
    <3> QED
      BY <1>3, <2>1, <3>3
  <2>2. ASSUME NEW i \in 1..(Len(r) + 1), i <= Len(p)
        PROVE st[i] = st1[i] /\ lf[i] = lf1[i]
    BY <1>5, <2>2
  <2>3. \A i \in 1..(Len(r) + 1) : i <= Len(p) + 1 => i <= Len(p) \/ i = Len(p) + 1
    BY <1>2
  <2> QED
    BY <2>1, <2>2, <2>3
<1>8. /\ st[1] = a /\ lf[1] = l /\ st[Len(r) + 1] = c /\ lf[Len(r) + 1] = n
  <2>1. /\ 1 \in 1..(Len(r) + 1) /\ 1 <= Len(p) + 1
        /\ Len(r) + 1 \in 1..(Len(r) + 1) /\ Len(r) + 1 > Len(p)
        /\ Len(r) + 1 - Len(p) = Len(q) + 1
    BY <1>2
  <2> QED
    BY <1>3, <1>4, <1>5, <1>7, <2>1
<1>9. Traced(asks, r, st, lf)
  <2> SUFFICES ASSUME NEW i \in 1..Len(r)
               PROVE  Moves(asks, r[i], st[i], lf[i], st[i + 1], lf[i + 1])
    BY DEF Traced
  <2>1. CASE i <= Len(p)
    <3>1. /\ i \in 1..Len(p) /\ i \in 1..(Len(r) + 1) /\ i + 1 \in 1..(Len(r) + 1)
          /\ i + 1 <= Len(p) + 1 /\ i <= Len(p) + 1
      BY <1>2, <2>1
    <3>2. /\ r[i] = p[i] /\ st[i] = st1[i] /\ lf[i] = lf1[i]
          /\ st[i + 1] = st1[i + 1] /\ lf[i + 1] = lf1[i + 1]
      BY <1>2, <1>7, <3>1
    <3> QED
      BY <1>3, <3>1, <3>2 DEF Traced
  <2>2. CASE i > Len(p)
    <3> DEFINE j == i - Len(p)
    <3>1. /\ j \in 1..Len(q) /\ r[i] = q[j] /\ i \in 1..(Len(r) + 1)
          /\ i + 1 \in 1..(Len(r) + 1) /\ i + 1 > Len(p) /\ i + 1 - Len(p) = j + 1
      BY <1>2, <2>2
    <3>2. /\ st[i] = st2[j] /\ lf[i] = lf2[j]
          /\ st[i + 1] = st2[j + 1] /\ lf[i + 1] = lf2[j + 1]
      BY <1>5, <2>2, <3>1
    <3> HIDE DEF j
    <3> QED
      BY <1>4, <3>1, <3>2 DEF Traced
  <2> QED
    BY <1>2, <2>1, <2>2
<1>10. ConnectsEnter(r)
  <2> SUFFICES ASSUME NEW i \in 1..Len(r), r[i].do = "call", r[i].op = "connect"
               PROVE  /\ i + 1 \in 1..Len(r)
                      /\ r[i + 1].do = "open" /\ r[i + 1].of = r[i].of
    BY <1>2 DEF ConnectsEnter
  <2>1. CASE i <= Len(p)
    <3>1. i \in 1..Len(p) /\ r[i] = p[i] /\ DOMAIN p = 1..Len(p)
      BY <1>2, <2>1
    <3>0. p[i].do = "call" /\ p[i].op = "connect" /\ i \in DOMAIN p
      BY <3>1
    <3>2. i + 1 \in 1..Len(p) /\ p[i + 1].do = "open" /\ p[i + 1].of = p[i].of
      BY <1>1, <3>0, <3>1 DEF ConnectsEnter
    <3>3. r[i + 1] = p[i + 1]
      BY <1>2, <3>2
    <3>4. i + 1 \in 1..Len(r)
      <4>1. i + 1 <= Len(p) /\ Len(p) <= Len(r) /\ i + 1 >= 1 /\ i + 1 \in Nat
        BY <1>2, <3>1, <3>2
      <4> QED
        BY <1>2, <4>1
    <3> QED
      BY <3>1, <3>2, <3>3, <3>4
  <2>2. CASE i > Len(p)
    <3> DEFINE j == i - Len(p)
    <3>1. j \in 1..Len(q) /\ r[i] = q[j]
      BY <1>2, <2>2
    <3> HIDE DEF j
    <3>0. q[j].do = "call" /\ q[j].op = "connect" /\ j \in DOMAIN q /\ DOMAIN q = 1..Len(q)
      BY <1>2, <3>1
    <3>2. j + 1 \in 1..Len(q) /\ q[j + 1].do = "open" /\ q[j + 1].of = q[j].of
      BY <1>1, <3>0 DEF ConnectsEnter
    <3> USE DEF j
    <3>3. i + 1 \in 1..Len(r) /\ i + 1 > Len(p) /\ i + 1 - Len(p) = j + 1
      BY <1>2, <2>2, <3>2
    <3>4. r[i + 1] = q[j + 1]
      BY <1>2, <3>3
    <3> QED
      BY <3>1, <3>2, <3>3, <3>4
  <2> QED
    BY <1>2, <2>1, <2>2
<1>11. Path(asks, r, a, l, c, n)
  BY <1>2, <1>6, <1>8, <1>9, <1>10 DEF Path
<1> QED
  BY <1>11 DEF r

LEMMA PathIf ==
  ASSUME NEW asks, NEW condition, NEW q, NEW a \in Stacks, NEW l \in SUBSET asks,
         NEW m \in SUBSET asks,
         condition => Path(asks, q, a, l, a, m), ~condition => l = m
  PROVE  Path(asks, If(condition, q), a, l, a, m)
<1>1. CASE condition
  BY <1>1 DEF If
<1>2. CASE ~condition
  BY <1>2, PathEmpty DEF If
<1> QED
  BY <1>1, <1>2

(* The steps of q after the i-th. *)
LEMMA PathSuffix ==
  ASSUME NEW asks, NEW q, NEW a, NEW b, NEW l, NEW m, Path(asks, q, a, l, b, m),
         NEW i \in 1..Len(q)
  PROVE  \E c \in Stacks, d \in Stacks, k \in SUBSET asks, n \in SUBSET asks :
           /\ Moves(asks, q[i], c, k, d, n)
           /\ Path(asks, SubSeq(q, i + 1, Len(q)), d, n, b, m)
           /\ i = 1 => c = a /\ k = l
<1>1. q \in Seq(Steps) /\ ConnectsEnter(q)
  BY DEF Path
<1>2. PICK st \in [1..(Len(q) + 1) -> Stacks], lf \in [1..(Len(q) + 1) -> SUBSET asks] :
        /\ st[1] = a /\ lf[1] = l /\ st[Len(q) + 1] = b /\ lf[Len(q) + 1] = m
        /\ Traced(asks, q, st, lf)
  BY DEF Path
<1> DEFINE r == SubSeq(q, i + 1, Len(q))
<1>3. /\ Len(q) \in Nat /\ r \in Seq(Steps) /\ Len(r) = Len(q) - i
      /\ DOMAIN q = 1..Len(q) /\ DOMAIN r = 1..Len(r)
      /\ \A j \in 1..Len(r) : j + i \in 1..Len(q) /\ r[j] = q[j + i]
  <2>1. Len(q) \in Nat /\ r \in Seq(Steps) /\ Len(r) = Len(q) - i
    BY <1>1
  <2>2. DOMAIN q = 1..Len(q) /\ DOMAIN r = 1..Len(r)
    BY <1>1, <2>1
  <2>3. \A j \in 1..Len(r) : r[j] = q[j + (i + 1) - 1]
    BY <1>1, <2>1
  <2> HIDE DEF r
  <2>4. \A j \in 1..Len(r) : j + i \in 1..Len(q) /\ j + (i + 1) - 1 = j + i
    BY <2>1
  <2> QED
    BY <2>1, <2>2, <2>3, <2>4
<1> HIDE DEF r
<1> DEFINE st2 == [j \in 1..(Len(r) + 1) |-> st[j + i]]
           lf2 == [j \in 1..(Len(r) + 1) |-> lf[j + i]]
<1>4. /\ st2 \in [1..(Len(r) + 1) -> Stacks] /\ lf2 \in [1..(Len(r) + 1) -> SUBSET asks]
      /\ \A j \in 1..(Len(r) + 1) : st2[j] = st[j + i] /\ lf2[j] = lf[j + i]
  <2>1. Len(q) \in Nat /\ Len(r) = Len(q) - i /\ i \in Nat
    BY <1>3
  <2>2. \A j \in 1..(Len(r) + 1) : j + i \in 1..(Len(q) + 1)
    BY <2>1
  <2> QED
    BY <2>2
<1> HIDE DEF st2, lf2
<1>5. /\ st2[1] = st[i + 1] /\ lf2[1] = lf[i + 1]
      /\ st2[Len(r) + 1] = b /\ lf2[Len(r) + 1] = m
  <2>1. /\ 1 \in 1..(Len(r) + 1) /\ Len(r) + 1 \in 1..(Len(r) + 1)
        /\ Len(r) + 1 + i = Len(q) + 1 /\ 1 + i = i + 1
    BY <1>3
  <2>2. /\ st2[1] = st[1 + i] /\ lf2[1] = lf[1 + i]
    BY <1>4, <2>1
  <2>3. /\ st2[Len(r) + 1] = st[Len(r) + 1 + i] /\ lf2[Len(r) + 1] = lf[Len(r) + 1 + i]
    BY <1>4, <2>1
  <2> QED
    BY <1>2, <2>1, <2>2, <2>3
<1>6. Traced(asks, r, st2, lf2)
  <2> SUFFICES ASSUME NEW j \in 1..Len(r)
               PROVE  Moves(asks, r[j], st2[j], lf2[j], st2[j + 1], lf2[j + 1])
    BY DEF Traced
  <2>1. /\ j + i \in 1..Len(q) /\ r[j] = q[j + i] /\ j \in 1..(Len(r) + 1)
        /\ j + 1 \in 1..(Len(r) + 1) /\ (j + 1) + i = (j + i) + 1
    BY <1>3
  <2>2. /\ st2[j] = st[j + i] /\ lf2[j] = lf[j + i]
        /\ st2[j + 1] = st[(j + i) + 1] /\ lf2[j + 1] = lf[(j + i) + 1]
    <3>1. st2[j] = st[j + i] /\ lf2[j] = lf[j + i]
      BY <1>4, <2>1
    <3>2. st2[j + 1] = st[(j + 1) + i] /\ lf2[j + 1] = lf[(j + 1) + i]
      BY <1>4, <2>1
    <3> QED
      BY <2>1, <3>1, <3>2
  <2> QED
    BY <1>2, <2>1, <2>2 DEF Traced
<1>7. ConnectsEnter(r)
  <2> SUFFICES ASSUME NEW j \in 1..Len(r), r[j].do = "call", r[j].op = "connect"
               PROVE  /\ j + 1 \in 1..Len(r)
                      /\ r[j + 1].do = "open" /\ r[j + 1].of = r[j].of
    BY <1>3 DEF ConnectsEnter
  <2>1. j + i \in 1..Len(q) /\ r[j] = q[j + i]
    BY <1>3
  <2>2. /\ (j + i) + 1 \in 1..Len(q) /\ q[(j + i) + 1].do = "open"
        /\ q[(j + i) + 1].of = q[j + i].of
    BY <1>1, <1>3, <2>1 DEF ConnectsEnter
  <2>3. j + 1 \in 1..Len(r) /\ (j + 1) + i = (j + i) + 1
    BY <1>3, <2>2
  <2>4. r[j + 1] = q[(j + i) + 1]
    BY <1>3, <2>3
  <2> QED
    BY <2>1, <2>2, <2>3, <2>4
<1>8. Path(asks, r, st[i + 1], lf[i + 1], b, m)
  BY <1>3, <1>4, <1>5, <1>6, <1>7 DEF Path
<1>9. /\ i \in 1..(Len(q) + 1) /\ i + 1 \in 1..(Len(q) + 1)
  BY <1>3
<1>10. /\ Moves(asks, q[i], st[i], lf[i], st[i + 1], lf[i + 1])
       /\ st[i] \in Stacks /\ st[i + 1] \in Stacks
       /\ lf[i] \in SUBSET asks /\ lf[i + 1] \in SUBSET asks
       /\ i = 1 => st[i] = a /\ lf[i] = l
  BY <1>2, <1>9 DEF Traced
<1> QED
  BY <1>8, <1>10 DEF r

----------------------------------------------------------------------------
(* Steps.                                                                  *)

LEMMA StepFields ==
  ASSUME NEW d \in Does, NEW of \in Contexts, NEW op \in Ops,
         NEW sets \in SUBSET Pairs, NEW shows \in SUBSET Settings
  PROVE  LET s == Step(d, of, op, sets, shows) IN
         /\ s \in Steps
         /\ s.do = d /\ s.of = of /\ s.op = op /\ s.sets = sets /\ s.shows = shows
  BY DEF Step, Steps, Does, Ops, Pairs

LEMMA Literals ==
  /\ {"peblar", "api", "websocket", "try"} \subseteq Contexts
  /\ {"call", "open", "close", "say", "refuse", "summary", "export", "listen"} \subseteq Does
  /\ {"", "login", "request", "rest", "modbus", "token", "history", "connect",
      "success", "table", "banner", "done"} \subseteq Ops
  BY DEF Contexts, Does, Ops

LEMMA HeadThenTail ==
  ASSUME NEW x \in Steps, NEW r \in Seq(Steps), NEW q \in Seq(Steps),
         q # <<>>, Head(q) = x, Tail(q) = r
  PROVE  q = <<x>> \o r
  BY HeadOnTail

(* A call that is not the one that connects. *)
LEMMA CallPath ==
  ASSUME NEW asks \in SUBSET Pairs, NEW of \in {"peblar", "api", "websocket"},
         NEW op \in Ops, op # "connect",
         NEW sets \in SUBSET (asks \cup Written), NEW shows \in SUBSET Settings,
         NEW a \in Stacks, Inside(of, a),
         NEW l \in SUBSET asks, NEW m \in SUBSET asks, l \ sets \subseteq m,
         shows = {} \/ l = {},
         Inside("try", a) => m = {}
  PROVE  Path(asks, <<Step("call", of, op, sets, shows)>>, a, l, a, m)
<1> DEFINE s == Step("call", of, op, sets, shows)
<1>1. Written \subseteq Pairs
  BY DEF Written, Pairs, Names, Values
<1>2. /\ s \in Steps /\ s.do = "call" /\ s.of = of /\ s.op = op /\ s.sets = sets
      /\ s.shows = shows
  <2>1. sets \in SUBSET Pairs /\ "call" \in Does /\ of \in Contexts
    BY <1>1, Literals
  <2> QED
    BY <2>1, StepFields
<1> HIDE DEF s
<1>3. Moves(asks, s, a, l, a, m)
  BY <1>2 DEF Moves
<1> QED
  BY <1>2, <1>3, PathOne DEF s

(* A step that is no call and leaves the contexts alone. *)
LEMMA PlainPath ==
  ASSUME NEW asks \in SUBSET Pairs,
         NEW d \in {"say", "refuse", "summary", "export", "listen"},
         NEW op \in Ops, op # "connect",
         NEW a \in Stacks, NEW l \in SUBSET asks,
         op = "success" => l = {}, Inside("try", a) => l = {}
  PROVE  Path(asks, <<Step(d, "peblar", op, {}, {})>>, a, l, a, l)
<1> DEFINE s == Step(d, "peblar", op, {}, {})
<1>2. /\ s \in Steps /\ s.do = d /\ s.op = op /\ s.sets = {} /\ s.shows = {}
  <2>1. d \in Does /\ "peblar" \in Contexts
    BY Literals
  <2> QED
    BY <2>1, StepFields
<1> HIDE DEF s
<1>3. Moves(asks, s, a, l, a, l)
  BY <1>2 DEF Moves
<1> QED
  BY <1>2, <1>3, PathOne DEF s

LEMMA BoundaryFields ==
  ASSUME NEW x \in Contexts, NEW d \in {"open", "close"}
  PROVE  LET s == Step(d, x, "", {}, {}) IN
         /\ s \in Steps /\ s.do = d /\ s.of = x /\ s.op = ""
         /\ s.sets = {} /\ s.shows = {}
<1> DEFINE s == Step(d, x, "", {}, {})
<1>1. d \in Does /\ "" \in Ops
  BY Literals
<1>2. PICK op \in Ops : op = ""
  BY <1>1
<1>3. Step(d, x, op, {}, {}) \in Steps
  BY <1>1, StepFields
<1> QED
  BY <1>2, <1>3 DEF Step

LEMMA OpenPath ==
  ASSUME NEW asks \in SUBSET Pairs, NEW x \in Contexts,
         NEW a \in Stacks, NEW b \in Stacks, b # <<>>, Head(b) = x, Tail(b) = a,
         NEW l \in SUBSET asks, Inside("try", b) => l = {}
  PROVE  Path(asks, <<Open(x)>>, a, l, b, l)
<1> DEFINE s == Step("open", x, "", {}, {})
<1>2. /\ s \in Steps /\ s.do = "open" /\ s.of = x /\ s.op = "" /\ s.sets = {}
      /\ s.shows = {}
  BY BoundaryFields
<1> HIDE DEF s
<1>3. Moves(asks, s, a, l, b, l)
  BY <1>2 DEF Moves
<1>5. Path(asks, <<s>>, a, l, b, l)
  BY <1>2, <1>3, PathOne
<1> QED
  BY <1>5 DEF s, Open

LEMMA ClosePath ==
  ASSUME NEW asks \in SUBSET Pairs, NEW x \in Contexts,
         NEW a \in Stacks, NEW b \in Stacks, a # <<>>, Head(a) = x, Tail(a) = b,
         NEW l \in SUBSET asks, Inside("try", a) => l = {}
  PROVE  Path(asks, <<Close(x)>>, a, l, b, l)
<1> DEFINE s == Step("close", x, "", {}, {})
<1>2. /\ s \in Steps /\ s.do = "close" /\ s.of = x /\ s.op = "" /\ s.sets = {}
      /\ s.shows = {}
  BY BoundaryFields
<1>4. Inside("try", b) => Inside("try", a)
  BY InsideTail, StacksAre
<1> HIDE DEF s
<1>3. Moves(asks, s, a, l, b, l)
  BY <1>2, <1>4 DEF Moves
<1>5. Path(asks, <<s>>, a, l, b, l)
  BY <1>2, <1>3, PathOne
<1> QED
  BY <1>5 DEF s, Close

(* Steps of which none changes anything. *)
LEMMA PathStay ==
  ASSUME NEW asks, NEW q \in Seq(Steps), NEW a \in Stacks, NEW l \in SUBSET asks,
         \A i \in DOMAIN q : Moves(asks, q[i], a, l, a, l) /\ q[i].op # "connect"
  PROVE  Path(asks, q, a, l, a, l)
<1> DEFINE st == [i \in 1..(Len(q) + 1) |-> a]
           lf == [i \in 1..(Len(q) + 1) |-> l]
<1>1. Len(q) \in Nat /\ DOMAIN q = 1..Len(q)
  OBVIOUS
<1>2. /\ st \in [1..(Len(q) + 1) -> Stacks] /\ lf \in [1..(Len(q) + 1) -> SUBSET asks]
      /\ \A i \in 1..(Len(q) + 1) : st[i] = a /\ lf[i] = l
  OBVIOUS
<1>3. 1 \in 1..(Len(q) + 1) /\ Len(q) + 1 \in 1..(Len(q) + 1)
  BY <1>1
<1> HIDE DEF st, lf
<1>4. Traced(asks, q, st, lf)
  <2> SUFFICES ASSUME NEW i \in 1..Len(q)
               PROVE  Moves(asks, q[i], st[i], lf[i], st[i + 1], lf[i + 1])
    BY DEF Traced
  <2>1. i \in 1..(Len(q) + 1) /\ i + 1 \in 1..(Len(q) + 1)
    BY <1>1
  <2> QED
    BY <1>1, <1>2, <2>1
<1>5. ConnectsEnter(q)
  BY DEF ConnectsEnter
<1> QED
  BY <1>2, <1>3, <1>4, <1>5 DEF Path

LEMMA PathOfStep ==
  ASSUME NEW asks, NEW x, NEW a, NEW b, NEW l, NEW m, Path(asks, <<x>>, a, l, b, m)
  PROVE  x \in Steps
<1>1. <<x>> \in Seq(Steps)
  BY DEF Path
<1> QED
  BY <1>1

LEMMA PathTwo ==
  ASSUME NEW asks, NEW x, NEW y, NEW a, NEW b, NEW c, NEW l, NEW m, NEW n,
         Path(asks, <<x>>, a, l, b, m), Path(asks, <<y>>, b, m, c, n)
  PROVE  Path(asks, <<x, y>>, a, l, c, n)
<1>1. x \in Steps /\ y \in Steps
  BY PathOfStep
<1>0. /\ <<x, y>> \in Seq(Steps) /\ <<y>> \in Seq(Steps) /\ <<x, y>> # <<>>
      /\ Head(<<x, y>>) = x /\ Tail(<<x, y>>) = <<y>>
  BY <1>1
<1>2. <<x>> \o <<y>> = <<x, y>>
  BY <1>0, <1>1, HeadThenTail
<1>3. Path(asks, <<x>> \o <<y>>, a, l, c, n)
  BY PathConcat
<1> QED
  BY <1>2, <1>3

LEMMA PathThree ==
  ASSUME NEW asks, NEW x, NEW y, NEW z, NEW a, NEW b, NEW c, NEW l, NEW m, NEW n,
         Path(asks, <<x>>, a, l, b, m), Path(asks, <<y, z>>, b, m, c, n)
  PROVE  Path(asks, <<x, y, z>>, a, l, c, n)
<1>1. <<y, z>> \in Seq(Steps) /\ x \in Steps
  BY PathOfStep DEF Path
<1>2. y \in Steps /\ z \in Steps
  BY <1>1
<1>0. /\ <<x, y, z>> \in Seq(Steps) /\ <<x, y, z>> # <<>>
      /\ Head(<<x, y, z>>) = x /\ Tail(<<x, y, z>>) = <<y, z>>
  BY <1>1, <1>2
<1>3. <<x>> \o <<y, z>> = <<x, y, z>>
  BY <1>0, <1>1, HeadThenTail
<1>4. Path(asks, <<x>> \o <<y, z>>, a, l, c, n)
  BY PathConcat
<1> QED
  BY <1>3, <1>4

----------------------------------------------------------------------------
(* Calls and contexts, as the commands use them.                           *)

LEMMA StacksInclude ==
  /\ Top \in Stacks /\ InPeblar \in Stacks /\ InApi \in Stacks
  /\ InWebsocket \in Stacks /\ InTry \in Stacks /\ InTryApi \in Stacks
  BY DEF Stacks

LEMMA PeblarCall ==
  ASSUME NEW asks \in SUBSET Pairs, NEW op \in Ops, op # "connect",
         NEW sets \in SUBSET (asks \cup Written),
         NEW l \in SUBSET asks, NEW m \in SUBSET asks, l \ sets \subseteq m
  PROVE  Path(asks, <<Call(op, sets)>>, InPeblar, l, InPeblar, m)
<1>1. "peblar" \in {"peblar", "api", "websocket"} /\ {} \in SUBSET Settings
  OBVIOUS
<1>2. Path(asks, <<Step("call", "peblar", op, sets, {})>>, InPeblar, l, InPeblar, m)
  BY <1>1, CallPath, StacksInclude, StackInside
<1> QED
  BY <1>2 DEF Call

LEMMA PeblarShow ==
  ASSUME NEW asks \in SUBSET Pairs, NEW names \in SUBSET Settings, NEW l \in SUBSET asks,
         names = {} \/ l = {}
  PROVE  Path(asks, <<Show(names)>>, InPeblar, l, InPeblar, l)
<1>1. /\ "peblar" \in {"peblar", "api", "websocket"} /\ {} \in SUBSET (asks \cup Written)
      /\ "request" \in Ops /\ "request" # "connect"
  BY Literals
<1>2. Path(asks, <<Step("call", "peblar", "request", {}, names)>>, InPeblar, l, InPeblar, l)
  BY <1>1, CallPath, StacksInclude, StackInside
<1> QED
  BY <1>2 DEF Show

(* Of the local client: inside dump's try all that was asked is done. *)
LEMMA ApiCall ==
  ASSUME NEW asks \in SUBSET Pairs, NEW sets \in SUBSET (asks \cup Written),
         NEW a \in {InApi, InTryApi},
         NEW l \in SUBSET asks, NEW m \in SUBSET asks, l \ sets \subseteq m,
         a = InTryApi => m = {}
  PROVE  Path(asks, <<Local(Call("request", sets))>>, a, l, a, m)
<1>1. /\ "api" \in {"peblar", "api", "websocket"} /\ {} \in SUBSET Settings
      /\ "request" \in Ops /\ "request" # "connect"
  BY Literals
<1>2. a \in Stacks /\ Inside("api", a) /\ (Inside("try", a) => m = {})
  BY StacksInclude, StackInside
<1>3. Path(asks, <<Step("call", "api", "request", sets, {})>>, a, l, a, m)
  BY <1>1, <1>2, CallPath
<1>4. Local(Call("request", sets)) = Step("call", "api", "request", sets, {})
  BY DEF Local, Call, Step
<1> QED
  BY <1>3, <1>4

LEMMA ApiShow ==
  ASSUME NEW asks \in SUBSET Pairs, NEW names \in SUBSET Settings, NEW l \in SUBSET asks,
         names = {} \/ l = {}
  PROVE  Path(asks, <<Local(Show(names))>>, InApi, l, InApi, l)
<1>1. /\ "api" \in {"peblar", "api", "websocket"} /\ {} \in SUBSET (asks \cup Written)
      /\ "request" \in Ops /\ "request" # "connect"
  BY Literals
<1>2. Path(asks, <<Step("call", "api", "request", {}, names)>>, InApi, l, InApi, l)
  BY <1>1, CallPath, StacksInclude, StackInside
<1>3. Local(Show(names)) = Step("call", "api", "request", {}, names)
  BY DEF Local, Show, Step
<1> QED
  BY <1>2, <1>3

LEMMA SayPath ==
  ASSUME NEW asks \in SUBSET Pairs, NEW text \in {"success", "table", "banner", "done"},
         NEW a \in Stacks, NEW l \in SUBSET asks,
         text = "success" => l = {}, Inside("try", a) => l = {}
  PROVE  Path(asks, <<Say(text)>>, a, l, a, l)
<1>1. text \in Ops /\ text # "connect" /\ "say" \in {"say", "refuse", "summary", "export", "listen"}
  BY Literals
<1> QED
  BY <1>1, PlainPath DEF Say

LEMMA DoPath ==
  ASSUME NEW asks \in SUBSET Pairs, NEW d \in {"refuse", "summary", "export", "listen"},
         NEW a \in Stacks, NEW l \in SUBSET asks, ~Inside("try", a)
  PROVE  Path(asks, <<Do(d)>>, a, l, a, l)
<1>1. PICK op \in Ops : op = "" /\ op # "connect" /\ op # "success"
  BY Literals
<1>2. Path(asks, <<Step(d, "peblar", op, {}, {})>>, a, l, a, l)
  BY <1>1, PlainPath
<1> QED
  BY <1>1, <1>2 DEF Do

LEMMA WithPeblarPath ==
  ASSUME NEW asks \in SUBSET Pairs, NEW body, NEW l \in SUBSET asks, NEW m \in SUBSET asks,
         Path(asks, body, InPeblar, l, InPeblar, m)
  PROVE  Path(asks, WithPeblar(body), Top, l, Top, m)
<1>1. Path(asks, <<Open("peblar")>>, Top, l, InPeblar, l)
  BY OpenPath, StacksInclude, StackTails, StackInside, Literals
<1>2. Path(asks, <<Call("login", {})>>, InPeblar, l, InPeblar, l)
  BY PeblarCall, Literals
<1>3. Path(asks, <<Open("peblar"), Call("login", {})>>, Top, l, InPeblar, l)
  BY <1>1, <1>2, PathTwo
<1>4. Path(asks, <<Close("peblar")>>, InPeblar, m, Top, m)
  BY ClosePath, StacksInclude, StackTails, StackInside, Literals
<1>5. Path(asks, <<Open("peblar"), Call("login", {})>> \o body, Top, l, InPeblar, m)
  BY <1>3, PathConcat
<1> QED
  BY <1>4, <1>5, PathConcat DEF WithPeblar

LEMMA WithApiPath ==
  ASSUME NEW asks \in SUBSET Pairs, NEW body, NEW l \in SUBSET asks, NEW m \in SUBSET asks,
         Path(asks, body, InApi, l, InApi, m)
  PROVE  Path(asks, WithApi(body), InPeblar, l, InPeblar, m)
<1>1. Path(asks, <<Call("rest", {})>>, InPeblar, l, InPeblar, l)
  BY PeblarCall, Literals
<1>2. Path(asks, <<Open("api")>>, InPeblar, l, InApi, l)
  BY OpenPath, StacksInclude, StackTails, StackInside, Literals
<1>3. Path(asks, <<Call("rest", {}), Open("api")>>, InPeblar, l, InApi, l)
  BY <1>1, <1>2, PathTwo
<1>4. Path(asks, <<Close("api")>>, InApi, m, InPeblar, m)
  BY ClosePath, StacksInclude, StackTails, StackInside, Literals
<1>5. Path(asks, <<Call("rest", {}), Open("api")>> \o body, InPeblar, l, InApi, m)
  BY <1>3, PathConcat
<1> QED
  BY <1>4, <1>5, PathConcat DEF WithApi

(* Calls that each do their part of what was asked. *)
LEMMA PathCalls ==
  ASSUME NEW asks \in SUBSET Pairs, NEW q \in Seq(Steps), NEW l \in SUBSET asks,
         \A i \in DOMAIN q : /\ q[i].do = "call" /\ q[i].of = "peblar"
                             /\ q[i].op # "connect" /\ q[i].sets \subseteq asks \cup Written
                             /\ q[i].shows = {}
  PROVE  Path(asks, q, InPeblar, l, InPeblar, l \ UNION {q[i].sets : i \in DOMAIN q})
<1> DEFINE st == [i \in 1..(Len(q) + 1) |-> InPeblar]
           lf == [i \in 1..(Len(q) + 1) |-> l \ UNION {q[j].sets : j \in 1..(i - 1)}]
<1>1. Len(q) \in Nat /\ DOMAIN q = 1..Len(q) /\ \A i \in 1..Len(q) : q[i] \in Steps
  OBVIOUS
<1>2. /\ st \in [1..(Len(q) + 1) -> Stacks] /\ lf \in [1..(Len(q) + 1) -> SUBSET asks]
      /\ \A i \in 1..(Len(q) + 1) :
           st[i] = InPeblar /\ lf[i] = l \ UNION {q[j].sets : j \in 1..(i - 1)}
  BY StacksInclude
<1>3. 1 \in 1..(Len(q) + 1) /\ Len(q) + 1 \in 1..(Len(q) + 1)
  BY <1>1
<1> HIDE DEF st, lf
<1>4. lf[1] = l
  <2>1. lf[1] = l \ UNION {q[j].sets : j \in 1..(1 - 1)}
    BY <1>2, <1>3
  <2>2. 1..(1 - 1) = {}
    OBVIOUS
  <2> QED
    BY <2>1, <2>2
<1>5. lf[Len(q) + 1] = l \ UNION {q[i].sets : i \in DOMAIN q}
  <2>1. lf[Len(q) + 1] = l \ UNION {q[j].sets : j \in 1..((Len(q) + 1) - 1)}
    BY <1>2, <1>3
  <2>2. 1..((Len(q) + 1) - 1) = DOMAIN q
    BY <1>1
  <2> QED
    BY <2>1, <2>2
<1>6. Traced(asks, q, st, lf)
  <2> SUFFICES ASSUME NEW i \in 1..Len(q)
               PROVE  Moves(asks, q[i], st[i], lf[i], st[i + 1], lf[i + 1])
    BY DEF Traced
  <2>1. i \in 1..(Len(q) + 1) /\ i + 1 \in 1..(Len(q) + 1) /\ (i + 1) - 1 = i
        /\ 1..i = 1..(i - 1) \cup {i}
    BY <1>1
  <2>2. /\ st[i] = InPeblar /\ st[i + 1] = InPeblar
        /\ lf[i] = l \ UNION {q[j].sets : j \in 1..(i - 1)}
        /\ lf[i + 1] = l \ UNION {q[j].sets : j \in 1..i}
    BY <1>2, <2>1
  <2>3. lf[i] \ q[i].sets \subseteq lf[i + 1]
    <3> SUFFICES ASSUME NEW x \in lf[i], x \notin q[i].sets PROVE x \in lf[i + 1]
      OBVIOUS
    <3>1. x \in l /\ \A j \in 1..(i - 1) : x \notin q[j].sets
      BY <2>2
    <3>2. \A j \in 1..i : x \notin q[j].sets
      BY <2>1, <3>1
    <3> QED
      BY <2>2, <3>1, <3>2
  <2> QED
    BY <1>1, <2>2, <2>3, StackInside DEF Moves
<1>7. ConnectsEnter(q)
  BY DEF ConnectsEnter
<1>8. st[1] = InPeblar /\ st[Len(q) + 1] = InPeblar
  BY <1>2, <1>3
<1> QED
  BY <1>2, <1>4, <1>5, <1>6, <1>7, <1>8 DEF Path

LEMMA AttemptPath ==
  ASSUME NEW asks \in SUBSET Pairs, NEW body, Path(asks, body, InTry, {}, InTry, {})
  PROVE  Path(asks, Attempt(body), InPeblar, {}, InPeblar, {})
<1>0. {} \in SUBSET asks
  OBVIOUS
<1>1. Path(asks, <<Open("try")>>, InPeblar, {}, InTry, {})
  BY <1>0, OpenPath, StacksInclude, StackTails, Literals
<1>2. Path(asks, <<Close("try")>>, InTry, {}, InPeblar, {})
  BY <1>0, ClosePath, StacksInclude, StackTails, Literals
<1>3. Path(asks, <<Open("try")>> \o body, InPeblar, {}, InTry, {})
  BY <1>1, PathConcat
<1> QED
  BY <1>2, <1>3, PathConcat DEF Attempt

(* The local client, inside dump's try statement. *)
LEMMA TryApiPath ==
  ASSUME NEW asks \in SUBSET Pairs, NEW body, Path(asks, body, InTryApi, {}, InTryApi, {})
  PROVE  Path(asks, WithApi(body), InTry, {}, InTry, {})
<1>0. {} \in SUBSET asks
  OBVIOUS
<1>1. Path(asks, <<Call("rest", {})>>, InTry, {}, InTry, {})
  <2>1. /\ "peblar" \in {"peblar", "api", "websocket"} /\ {} \in SUBSET Settings
        /\ {} \in SUBSET (asks \cup Written) /\ "rest" \in Ops /\ "rest" # "connect"
    BY Literals
  <2>2. Path(asks, <<Step("call", "peblar", "rest", {}, {})>>, InTry, {}, InTry, {})
    BY <1>0, <2>1, CallPath, StacksInclude, StackInside
  <2> QED
    BY <2>2 DEF Call
<1>2. Path(asks, <<Open("api")>>, InTry, {}, InTryApi, {})
  BY <1>0, OpenPath, StacksInclude, StackTails, Literals
<1>3. Path(asks, <<Call("rest", {}), Open("api")>>, InTry, {}, InTryApi, {})
  BY <1>1, <1>2, PathTwo
<1>4. Path(asks, <<Close("api")>>, InTryApi, {}, InTry, {})
  BY <1>0, ClosePath, StacksInclude, StackTails, Literals
<1>5. Path(asks, <<Call("rest", {}), Open("api")>> \o body, InTry, {}, InTryApi, {})
  BY <1>3, PathConcat
<1> QED
  BY <1>4, <1>5, PathConcat DEF WithApi

(* Connecting and entering are two steps of which the first opens the      *)
(* socket that the second one is to close.                                 *)
LEMMA WithWebsocketPath ==
  ASSUME NEW asks \in SUBSET Pairs, NEW body, NEW l \in SUBSET asks, NEW m \in SUBSET asks,
         Path(asks, body, InWebsocket, l, InWebsocket, m)
  PROVE  Path(asks, WithWebsocket(body), InPeblar, l, InPeblar, m)
<1> DEFINE x == Live(Call("connect", {}))
           y == Open("websocket")
           q == <<x, y>>
           st == [i \in 1..3 |-> IF i = 3 THEN InWebsocket ELSE InPeblar]
           lf == [i \in 1..3 |-> l]
<1>1. /\ x \in Steps /\ x.do = "call" /\ x.of = "websocket" /\ x.op = "connect"
      /\ x.sets = {} /\ x.shows = {}
  <2>1. "call" \in Does /\ "websocket" \in Contexts /\ "connect" \in Ops
    BY Literals
  <2>2. x = Step("call", "websocket", "connect", {}, {})
    BY DEF Live, Call, Step
  <2> QED
    BY <2>1, <2>2, StepFields
<1>2. /\ y \in Steps /\ y.do = "open" /\ y.of = "websocket" /\ y.op = ""
      /\ y.sets = {} /\ y.shows = {}
  BY BoundaryFields, Literals DEF Open
<1> HIDE DEF x, y
<1>3. /\ q \in Seq(Steps) /\ Len(q) = 2 /\ DOMAIN q = 1..2 /\ q[1] = x /\ q[2] = y
  <2>0. x \in Steps /\ y \in Steps
    BY <1>1, <1>2
  <2>1. q \in Seq(Steps) /\ Len(q) = 2 /\ q[1] = x /\ q[2] = y
    BY <2>0
  <2> HIDE DEF q
  <2> QED
    BY <2>1
<1> HIDE DEF q
<1>4. /\ st \in [1..3 -> Stacks] /\ lf \in [1..3 -> SUBSET asks]
      /\ st[1] = InPeblar /\ st[2] = InPeblar /\ st[3] = InWebsocket
      /\ lf[1] = l /\ lf[2] = l /\ lf[3] = l
  BY StacksInclude
<1> HIDE DEF st, lf
<1>5. Moves(asks, x, InPeblar, l, InPeblar, l)
  BY <1>1, StackInside DEF Moves
<1>6. Moves(asks, y, InPeblar, l, InWebsocket, l)
  BY <1>2, StackInside, StackTails DEF Moves
<1>7. Traced(asks, q, st, lf)
  <2>1. \A i \in 1..2 : i = 1 \/ i = 2
    OBVIOUS
  <2>2. 1 + 1 = 2 /\ 2 + 1 = 3
    OBVIOUS
  <2> QED
    BY <1>3, <1>4, <1>5, <1>6, <2>1, <2>2 DEF Traced
<1>8. ConnectsEnter(q)
  <2> SUFFICES ASSUME NEW i \in 1..2, q[i].do = "call"
               PROVE  /\ i + 1 \in 1..2
                      /\ q[i + 1].do = "open" /\ q[i + 1].of = q[i].of
    BY <1>3 DEF ConnectsEnter
  <2>1. i = 1
    <3>1. i = 1 \/ i = 2
      OBVIOUS
    <3>2. q[2].do = "open" /\ "open" # "call"
      BY <1>2, <1>3
    <3> QED
      BY <3>1, <3>2
  <2>2. i + 1 = 2 /\ 2 \in 1..2
    BY <2>1
  <2>3. q[i] = x /\ q[2] = y
    BY <1>3, <2>1
  <2> QED
    BY <1>1, <1>2, <2>2, <2>3
<1>9. Path(asks, q, InPeblar, l, InWebsocket, l)
  <2>1. Len(q) + 1 = 3
    BY <1>3
  <2> QED
    BY <1>3, <1>4, <1>7, <1>8, <2>1 DEF Path
<1>10. Path(asks, <<Close("websocket")>>, InWebsocket, m, InPeblar, m)
  BY ClosePath, StacksInclude, StackTails, StackInside, Literals
<1>11. Path(asks, q \o body, InPeblar, l, InWebsocket, m)
  BY <1>9, PathConcat
<1>12. Path(asks, (q \o body) \o <<Close("websocket")>>, InPeblar, l, InPeblar, m)
  BY <1>10, <1>11, PathConcat
<1> QED
  BY <1>12 DEF WithWebsocket, q, x, y

----------------------------------------------------------------------------
(* The commands.                                                           *)

Fits(c) == c.asks \in SUBSET Pairs /\ Path(c.asks, c.script, Top, c.asks, Top, {})

LEMMA CommandFields ==
  ASSUME NEW bad, NEW asks \in SUBSET Pairs, NEW script,
         Path(asks, script, Top, asks, Top, {})
  PROVE  Fits(Command(bad, asks, script))
  BY DEF Fits, Command

LEMMA SetPairs ==
  ASSUME NEW condition, NEW name \in Names, NEW value \in Values
  PROVE  When(condition, Set(name, value)) \in SUBSET Pairs
  BY DEF When, Set, Pairs

LEMMA DonePairs ==
  ASSUME NEW condition, NEW deed \in Deeds
  PROVE  Done(deed) \in SUBSET Pairs /\ When(condition, Done(deed)) \in SUBSET Pairs
<1>1. deed \in Names
  BY DEF Names
<1>2. "done" \in Values
  BY DEF Values
<1> QED
  BY <1>1, <1>2 DEF When, Done, Pairs

LEMMA Vocabulary ==
  /\ Settings \subseteq Names /\ Modes \subseteq Values
  /\ {"on", "off", "given", "new", "listed", "absent", "ReadOnly", "ReadWrite"}
       \subseteq Values
  /\ \A o : Given(o) \in Values
  BY DEF Names, Values, Given

LEMMA SettingsInclude ==
  {"rest", "restAccess", "token", "modbus", "modbusAccess", "household",
   "householdLimit", "chargeLimit", "solar", "smart", "led", "buzzer",
   "lock", "rfid", "evLimit", "singlePhase"} = Settings
  BY DEF Settings

LEMMA DeedsInclude ==
  {"identify", "unlock", "reboot", "firmware", "customization", "authorize",
   "subscribe"} = Deeds
  BY DEF Deeds

(* One call does all of it, and then success is said. *)
LEMMA OneCallPath ==
  ASSUME NEW facts \in SUBSET Pairs
  PROVE  Path(facts, WithPeblar(<<Call("request", facts)>>) \o <<Say("success")>>,
              Top, facts, Top, {})
<1>0. /\ {} \in SUBSET facts /\ facts \in SUBSET (facts \cup Written)
      /\ facts \in SUBSET facts /\ facts \ facts \subseteq {}
      /\ "request" \in Ops /\ "request" # "connect"
  BY Literals
<1>1. Path(facts, <<Call("request", facts)>>, InPeblar, facts, InPeblar, {})
  BY <1>0, PeblarCall
<1>2. Path(facts, WithPeblar(<<Call("request", facts)>>), Top, facts, Top, {})
  BY <1>0, <1>1, WithPeblarPath
<1>3. Path(facts, <<Say("success")>>, Top, {}, Top, {})
  BY <1>0, SayPath, StacksInclude
<1> QED
  BY <1>2, <1>3, PathConcat

LEMMA ActFits ==
  ASSUME NEW facts \in SUBSET Pairs
  PROVE  Fits(Act(facts))
  BY OneCallPath, CommandFields DEF Act

(* A table of what a body has read. *)
LEMMA TablePath ==
  ASSUME NEW body, Path({}, body, InPeblar, {}, InPeblar, {})
  PROVE  Path({}, WithPeblar(body) \o <<Say("table")>>, Top, {}, Top, {})
<1>0. {} \in SUBSET Pairs /\ {} \in SUBSET {}
  OBVIOUS
<1>1. Path({}, WithPeblar(body), Top, {}, Top, {})
  BY <1>0, WithPeblarPath
<1>2. "table" \in {"success", "table", "banner", "done"} /\ "table" # "success"
  OBVIOUS
<1>3. Path({}, <<Say("table")>>, Top, {}, Top, {})
  BY <1>0, <1>2, SayPath, StacksInclude
<1> QED
  BY <1>1, <1>3, PathConcat

LEMMA ViewFits ==
  ASSUME NEW calls \in Nat
  PROVE  Fits(View(calls))
<1> DEFINE q == [i \in 1..calls |-> Show({})]
           s == Show({})
<1>1. s \in Steps /\ s.do = "call" /\ s.of = "peblar" /\ s.op = "request" /\ s.sets = {}
      /\ s.shows = {}
  <2>1. "call" \in Does /\ "peblar" \in Contexts /\ "request" \in Ops
    BY Literals
  <2> QED
    BY <2>1, StepFields DEF Show
<1> HIDE DEF s
<1>2. q \in Seq(Steps) /\ \A i \in DOMAIN q : q[i] = s
  <2>1. q = [i \in 1..calls |-> s]
    BY DEF s
  <2> QED
    BY <1>1, <2>1
<1> HIDE DEF q
<1>3. Moves({}, s, InPeblar, {}, InPeblar, {}) /\ s.op # "connect"
  BY <1>1, StackInside DEF Moves
<1>4. Path({}, q, InPeblar, {}, InPeblar, {})
  BY <1>2, <1>3, PathStay, StacksInclude
<1>5. Path({}, WithPeblar(q) \o <<Say("table")>>, Top, {}, Top, {})
  BY <1>4, TablePath
<1> QED
  BY <1>5, CommandFields DEF View, q

LEMMA LocalViewFits == Fits(LocalView)
<1>0. {} \in SUBSET Pairs /\ {} \in SUBSET {} /\ {} \in SUBSET Settings
  OBVIOUS
<1>1. Path({}, <<Local(Show({}))>>, InApi, {}, InApi, {})
  BY <1>0, ApiShow
<1>2. Path({}, WithApi(<<Local(Show({}))>>), InPeblar, {}, InPeblar, {})
  BY <1>0, <1>1, WithApiPath
<1>3. Path({}, WithPeblar(WithApi(<<Local(Show({}))>>)) \o <<Say("table")>>, Top, {}, Top, {})
  BY <1>2, TablePath
<1> QED
  BY <1>3, CommandFields DEF LocalView

(* A call that an option asks for. *)
LEMMA OptionPath ==
  ASSUME NEW asks \in SUBSET Pairs, NEW op \in Ops, op # "connect",
         NEW condition, NEW facts, When(condition, facts) \subseteq asks,
         NEW l \in SUBSET asks
  PROVE  Path(asks, If(condition, <<Call(op, facts)>>), InPeblar, l,
              InPeblar, l \ When(condition, facts))
<1>0. l \ When(condition, facts) \in SUBSET asks
  OBVIOUS
<1>1. CASE condition
  <2>1. When(condition, facts) = facts
    BY <1>1 DEF When
  <2>2. Path(asks, <<Call(op, facts)>>, InPeblar, l, InPeblar, l \ facts)
    BY <2>1, PeblarCall
  <2> QED
    BY <1>0, <1>1, <2>1, <2>2 DEF If
<1>2. CASE ~condition
  <2>1. l \ When(condition, facts) = l /\ If(condition, <<Call(op, facts)>>) = <<>>
    BY <1>2 DEF When, If
  <2> QED
    BY <2>1, PathEmpty, StacksInclude
<1> QED
  BY <1>1, <1>2

LEMMA UnlockFits ==
  ASSUME NEW o
  PROVE  Fits(UnlockCmd(o))
<1> DEFINE first == Done("unlock")
           second == Set("lock", "off")
           extra == When("persist" \in o, second)
           asks == first \cup extra
           body == <<Call("request", first)>> \o If("persist" \in o, <<Call("request", second)>>)
<1>1. first \in SUBSET Pairs
  BY DonePairs, DeedsInclude
<1>2. extra \in SUBSET Pairs
  BY SetPairs, SettingsInclude, Vocabulary
<1>3. /\ "request" \in Ops /\ "request" # "connect"
  BY Literals
<1> HIDE DEF first, second
<1>4. /\ asks \in SUBSET Pairs /\ asks \in SUBSET asks /\ {} \in SUBSET asks
      /\ first \in SUBSET (asks \cup Written) /\ extra \in SUBSET asks
      /\ asks \ first \subseteq extra /\ extra \ extra = {}
  BY <1>1, <1>2
<1> HIDE DEF asks
<1>5. Path(asks, <<Call("request", first)>>, InPeblar, asks, InPeblar, extra)
  BY <1>3, <1>4, PeblarCall
<1>6. Path(asks, If("persist" \in o, <<Call("request", second)>>), InPeblar, extra,
           InPeblar, extra \ extra)
  BY <1>3, <1>4, OptionPath
<1>7. Path(asks, body, InPeblar, asks, InPeblar, {})
  BY <1>4, <1>5, <1>6, PathConcat
<1> HIDE DEF body
<1>8. Path(asks, WithPeblar(body), Top, asks, Top, {})
  BY <1>4, <1>7, WithPeblarPath
<1>9. Path(asks, <<Say("success")>>, Top, {}, Top, {})
  BY <1>4, SayPath, StacksInclude
<1>10. Path(asks, WithPeblar(body) \o <<Say("success")>>, Top, asks, Top, {})
  BY <1>8, <1>9, PathConcat
<1> QED
  BY <1>4, <1>10, CommandFields DEF UnlockCmd, asks, body, first, second

LEMMA HouseholdLimitFits ==
  ASSUME NEW o
  PROVE  Fits(HouseholdLimit(o))
<1> DEFINE facts == When("limit" \in o, Set("householdLimit", Given(o)))
                    \cup When("enable" \in o, Set("household", "on"))
                    \cup When("disable" \in o, Set("household", "off"))
           change == WithPeblar(<<Call("request", facts)>>) \o <<Say("success")>>
           show == WithPeblar(<<Show({"household", "householdLimit"})>>) \o <<Say("table")>>
           bad == {"enable", "disable"} \subseteq o
<1>1. facts \in SUBSET Pairs
  BY SetPairs, SettingsInclude, Vocabulary
<1>2. Path({}, show, Top, {}, Top, {})
  <2>1. {"household", "householdLimit"} \in SUBSET Settings /\ {} \in SUBSET Pairs
        /\ {} \in SUBSET {}
    BY SettingsInclude
  <2> QED
    BY <2>1, PeblarShow, TablePath
<1>3. HouseholdLimit(o) = Command(bad, facts, IF facts # {} THEN change ELSE show)
  BY DEF HouseholdLimit
<1> HIDE DEF facts, show, bad
<1>4. Path(facts, change, Top, facts, Top, {})
  BY <1>1, OneCallPath
<1> HIDE DEF change
<1>5. CASE facts # {}
  BY <1>1, <1>3, <1>4, <1>5, CommandFields
<1>6. CASE facts = {}
  BY <1>1, <1>2, <1>3, <1>6, CommandFields
<1> QED
  BY <1>5, <1>6

LEMMA UpdateFits ==
  ASSUME NEW o
  PROVE  Fits(Update(o))
<1> DEFINE facts == When("firmware" \in o, Done("firmware"))
                    \cup When("customization" \in o, Done("customization"))
<1>1. facts \in SUBSET Pairs
  BY DonePairs, DeedsInclude
<1>2. Update(o) = Command(Cardinality(facts) # 1, facts,
                          WithPeblar(<<Call("request", facts)>>) \o <<Say("success")>>)
  BY DEF Update
<1> HIDE DEF facts
<1> QED
  BY <1>1, <1>2, OneCallPath, CommandFields

LEMMA SmartChargingFits ==
  ASSUME NEW o
  PROVE  Fits(SmartCharging(o))
<1> DEFINE facts == {<<"smart", mode>> : mode \in o \cap Modes}
<1>1. facts \in SUBSET Pairs
  <2>1. "smart" \in Names /\ o \cap Modes \subseteq Values
    BY SettingsInclude, Vocabulary
  <2> QED
    BY <2>1 DEF Pairs
<1>2. SmartCharging(o) = Command(Cardinality(facts) # 1, facts,
                          WithPeblar(<<Call("request", facts)>>) \o <<Say("success")>>)
  BY DEF SmartCharging
<1> HIDE DEF facts
<1> QED
  BY <1>1, <1>2, OneCallPath, CommandFields

LEMMA AccessPath ==
  ASSUME NEW asks \in SUBSET Pairs, NEW op \in Ops, op # "connect", NEW o,
         NEW enabled, NEW access, AccessFacts(o, enabled, access) \subseteq asks,
         NEW l \in SUBSET asks
  PROVE  Path(asks, AccessCalls(o, op, enabled, access), InPeblar, l,
              InPeblar, l \ AccessFacts(o, enabled, access))
<1> DEFINE f1 == Set(enabled, "on")       w1 == When("enable" \in o, f1)
           f2 == Set(enabled, "off")      w2 == When("disable" \in o, f2)
           f3 == Set(access, "ReadOnly")  w3 == When("read" \in o, f3)
           f4 == Set(access, "ReadWrite") w4 == When("write" \in o, f4)
           q1 == If("enable" \in o, <<Call(op, f1)>>)
           q2 == If("disable" \in o, <<Call(op, f2)>>)
           q3 == If("read" \in o, <<Call(op, f3)>>)
           q4 == If("write" \in o, <<Call(op, f4)>>)
<1>1. AccessFacts(o, enabled, access) = w1 \cup w2 \cup w3 \cup w4
  BY DEF AccessFacts
<1>2. AccessCalls(o, op, enabled, access) = q1 \o q2 \o q3 \o q4
  BY DEF AccessCalls
<1> HIDE DEF f1, f2, f3, f4
<1>3. /\ w1 \subseteq asks /\ w2 \subseteq asks /\ w3 \subseteq asks /\ w4 \subseteq asks
      /\ l \ w1 \in SUBSET asks /\ (l \ w1) \ w2 \in SUBSET asks
      /\ ((l \ w1) \ w2) \ w3 \in SUBSET asks
  <2> HIDE DEF w1, w2, w3, w4
  <2> QED
    BY <1>1
<1>4. Path(asks, q1, InPeblar, l, InPeblar, l \ w1)
  BY <1>3, OptionPath
<1>5. Path(asks, q2, InPeblar, l \ w1, InPeblar, (l \ w1) \ w2)
  BY <1>3, OptionPath
<1>6. Path(asks, q3, InPeblar, (l \ w1) \ w2, InPeblar, ((l \ w1) \ w2) \ w3)
  BY <1>3, OptionPath
<1>7. Path(asks, q4, InPeblar, ((l \ w1) \ w2) \ w3, InPeblar, (((l \ w1) \ w2) \ w3) \ w4)
  BY <1>3, OptionPath
<1> HIDE DEF q1, q2, q3, q4, w1, w2, w3, w4
<1>8. Path(asks, q1 \o q2, InPeblar, l, InPeblar, (l \ w1) \ w2)
  BY <1>4, <1>5, PathConcat
<1>9. Path(asks, (q1 \o q2) \o q3, InPeblar, l, InPeblar, ((l \ w1) \ w2) \ w3)
  BY <1>6, <1>8, PathConcat
<1>10. Path(asks, ((q1 \o q2) \o q3) \o q4, InPeblar, l,
            InPeblar, (((l \ w1) \ w2) \ w3) \ w4)
  BY <1>7, <1>9, PathConcat
<1>11. (((l \ w1) \ w2) \ w3) \ w4 = l \ AccessFacts(o, enabled, access)
  BY <1>1
<1> QED
  BY <1>2, <1>10, <1>11

(* What the options ask for is done, success is said, and the table shown. *)
LEMMA ChangePath ==
  ASSUME NEW asks \in SUBSET Pairs, NEW calls, NEW show, NEW said1, NEW shown1,
         Path(asks, calls, InPeblar, asks, InPeblar, {}),
         Path(asks, show, InPeblar, {}, InPeblar, {})
  PROVE  Path(asks, WithPeblar(calls \o If(said1, <<Say("success")>>) \o If(shown1, show))
                    \o If(shown1, <<Say("table")>>), Top, asks, Top, {})
<1> DEFINE q2 == If(said1, <<Say("success")>>)
           q3 == If(shown1, show)
           q4 == If(shown1, <<Say("table")>>)
           body == calls \o q2 \o q3
<1>0. /\ asks \in SUBSET asks /\ {} \in SUBSET asks
      /\ {"success", "table"} \subseteq {"success", "table", "banner", "done"}
      /\ "table" # "success"
  OBVIOUS
<1>1. Path(asks, <<Say("success")>>, InPeblar, {}, InPeblar, {})
  BY <1>0, SayPath, StacksInclude
<1>2. Path(asks, <<Say("table")>>, Top, {}, Top, {})
  BY <1>0, SayPath, StacksInclude
<1>3. Path(asks, q2, InPeblar, {}, InPeblar, {})
  BY <1>0, <1>1, PathIf, StacksInclude
<1>4. Path(asks, q3, InPeblar, {}, InPeblar, {})
  BY <1>0, PathIf, StacksInclude
<1>5. Path(asks, q4, Top, {}, Top, {})
  BY <1>0, <1>2, PathIf, StacksInclude
<1> HIDE DEF q2, q3, q4
<1>6. Path(asks, calls \o q2, InPeblar, asks, InPeblar, {})
  BY <1>3, PathConcat
<1>7. Path(asks, body, InPeblar, asks, InPeblar, {})
  BY <1>4, <1>6, PathConcat
<1> HIDE DEF body
<1>8. Path(asks, WithPeblar(body), Top, asks, Top, {})
  BY <1>0, <1>7, WithPeblarPath
<1>9. Path(asks, WithPeblar(body) \o q4, Top, asks, Top, {})
  BY <1>5, <1>8, PathConcat
<1> QED
  BY <1>9 DEF body, q2, q3, q4

LEMMA AccessPairs ==
  ASSUME NEW o, NEW enabled \in Settings, NEW access \in Settings
  PROVE  AccessFacts(o, enabled, access) \in SUBSET Pairs
  BY SetPairs, Vocabulary DEF AccessFacts

LEMMA RestApiFits ==
  ASSUME NEW o
  PROVE  Fits(RestApi(o))
<1> DEFINE facts == AccessFacts(o, "rest", "restAccess")
           token == When("generate" \in o, Set("token", "new"))
           asks == facts \cup token
           q1 == AccessCalls(o, "rest", "rest", "restAccess")
           q2 == If("generate" \in o, <<Call("token", Set("token", "new"))>>)
           calls == q1 \o q2
           show == <<Show({"rest", "restAccess"}), Show({"token"})>>
           told == calls # <<>>
           listed == calls = <<>> \/ "quiet" \notin o
<1>1. RestApi(o) =
        Command(AccessClash(o), asks,
          WithPeblar(calls \o If(told, <<Say("success")>>) \o If(listed, show))
          \o If(listed, <<Say("table")>>))
  BY DEF RestApi
<1>2. /\ facts \in SUBSET Pairs /\ token \in SUBSET Pairs
  BY AccessPairs, SetPairs, SettingsInclude, Vocabulary
<1>3. /\ "rest" \in Ops /\ "rest" # "connect" /\ "token" \in Ops /\ "token" # "connect"
  BY Literals
<1>4. /\ asks \in SUBSET Pairs /\ facts \subseteq asks /\ token \subseteq asks
      /\ asks \in SUBSET asks /\ {} \in SUBSET asks
      /\ asks \ facts \in SUBSET asks /\ (asks \ facts) \ token = {}
  <2> HIDE DEF facts, token
  <2> QED
    BY <1>2
<1> HIDE DEF asks
<1>5. Path(asks, q1, InPeblar, asks, InPeblar, asks \ facts)
  BY <1>3, <1>4, AccessPath
<1>6. Path(asks, q2, InPeblar, asks \ facts, InPeblar, (asks \ facts) \ token)
  BY <1>3, <1>4, OptionPath
<1>7. Path(asks, calls, InPeblar, asks, InPeblar, {})
  <2> HIDE DEF q1, q2, facts, token
  <2> QED
    BY <1>4, <1>5, <1>6, PathConcat
<1>8. Path(asks, show, InPeblar, {}, InPeblar, {})
  <2>1. {"rest", "restAccess"} \in SUBSET Settings /\ {"token"} \in SUBSET Settings
    BY SettingsInclude
  <2>2. Path(asks, <<Show({"rest", "restAccess"})>>, InPeblar, {}, InPeblar, {})
    BY <1>4, <2>1, PeblarShow
  <2>3. Path(asks, <<Show({"token"})>>, InPeblar, {}, InPeblar, {})
    BY <1>4, <2>1, PeblarShow
  <2> QED
    BY <2>2, <2>3, PathTwo
<1> HIDE DEF calls, show, told, listed
<1>9. Path(asks, WithPeblar(calls \o If(told, <<Say("success")>>) \o If(listed, show))
           \o If(listed, <<Say("table")>>), Top, asks, Top, {})
  BY <1>4, <1>7, <1>8, ChangePath
<1> QED
  BY <1>1, <1>4, <1>9, CommandFields

LEMMA ModbusFits ==
  ASSUME NEW o
  PROVE  Fits(Modbus(o))
<1> DEFINE asks == AccessFacts(o, "modbus", "modbusAccess")
           calls == AccessCalls(o, "modbus", "modbus", "modbusAccess")
           show == <<Show({"modbus", "modbusAccess"})>>
           told == calls # <<>>
           listed == calls = <<>> \/ "quiet" \notin o
<1>1. Modbus(o) =
        Command(AccessClash(o), asks,
          WithPeblar(calls \o If(told, <<Say("success")>>) \o If(listed, show))
          \o If(listed, <<Say("table")>>))
  BY DEF Modbus
<1>2. asks \in SUBSET Pairs
  BY AccessPairs, SettingsInclude
<1>3. /\ "modbus" \in Ops /\ "modbus" # "connect" /\ asks \in SUBSET asks
      /\ {} \in SUBSET asks /\ asks \ asks = {}
      /\ {"modbus", "modbusAccess"} \in SUBSET Settings
  BY Literals, SettingsInclude
<1>4. Path(asks, calls, InPeblar, asks, InPeblar, asks \ asks)
  BY <1>2, <1>3, AccessPath
<1> HIDE DEF asks
<1>5. Path(asks, show, InPeblar, {}, InPeblar, {})
  BY <1>2, <1>3, PeblarShow
<1> HIDE DEF calls, show, told, listed
<1>9. Path(asks, WithPeblar(calls \o If(told, <<Say("success")>>) \o If(listed, show))
           \o If(listed, <<Say("table")>>), Top, asks, Top, {})
  BY <1>2, <1>3, <1>4, <1>5, ChangePath
<1> QED
  BY <1>1, <1>2, <1>9, CommandFields

LEMMA UserConfigurationFits ==
  ASSUME NEW o
  PROVE  Fits(UserConfiguration(o))
<1> DEFINE facts == When("chargeLimit" \in o, Set("chargeLimit", "given"))
                    \cup When("solar" \in o, Set("solar", Given(o)))
           body == <<Call("request", facts), Say("success")>>
           change == WithPeblar(body)
           show == WithPeblar(<<Show({"chargeLimit", "solar"})>>) \o <<Say("table")>>
           bad == "tooLow" \in o
<1>1. facts \in SUBSET Pairs
  BY SetPairs, SettingsInclude, Vocabulary
<1>2. Path({}, show, Top, {}, Top, {})
  <2>1. {"chargeLimit", "solar"} \in SUBSET Settings /\ {} \in SUBSET Pairs
        /\ {} \in SUBSET {}
    BY SettingsInclude
  <2> QED
    BY <2>1, PeblarShow, TablePath
<1>3. UserConfiguration(o) = Command(bad, facts, IF facts # {} THEN change ELSE show)
  BY DEF UserConfiguration
<1> HIDE DEF facts, show, bad
<1>4. Path(facts, change, Top, facts, Top, {})
  <2>0. /\ {} \in SUBSET facts /\ facts \in SUBSET (facts \cup Written)
        /\ facts \in SUBSET facts /\ facts \ facts \subseteq {}
        /\ "request" \in Ops /\ "request" # "connect"
    BY Literals
  <2>1. Path(facts, <<Call("request", facts)>>, InPeblar, facts, InPeblar, {})
    BY <1>1, <2>0, PeblarCall
  <2>2. Path(facts, <<Say("success")>>, InPeblar, {}, InPeblar, {})
    BY <1>1, <2>0, SayPath, StacksInclude
  <2>3. Path(facts, body, InPeblar, facts, InPeblar, {})
    BY <2>1, <2>2, PathTwo
  <2> HIDE DEF body
  <2> QED
    BY <1>1, <2>0, <2>3, WithPeblarPath
<1> HIDE DEF change
<1>5. CASE facts # {}
  BY <1>1, <1>3, <1>4, <1>5, CommandFields
<1>6. CASE facts = {}
  BY <1>1, <1>2, <1>3, <1>6, CommandFields
<1> QED
  BY <1>5, <1>6

LEMMA EvFits ==
  ASSUME NEW o
  PROVE  Fits(Ev(o))
<1> DEFINE facts == When("limit" \in o, Set("evLimit", Given(o)))
                    \cup When("single" \in o, Set("singlePhase", Given(o)))
           calls == <<Local(Call("request", facts)), Local(Show({})), Say("success")>>
           show == <<Local(Show({"evLimit", "singlePhase"}))>>
           listed == facts = {} \/ "quiet" \notin o
           body == If(facts # {}, calls) \o If(listed, show)
           table == If(listed, <<Say("table")>>)
<1>1. facts \in SUBSET Pairs
  BY SetPairs, SettingsInclude, Vocabulary
<1>2. Ev(o) = Command(FALSE, facts, WithPeblar(WithApi(body)) \o table)
  BY DEF Ev
<1> HIDE DEF facts
<1>3. /\ facts \in SUBSET facts /\ {} \in SUBSET facts /\ facts \ facts \subseteq {}
      /\ facts \in SUBSET (facts \cup Written) /\ {} \in SUBSET Settings
      /\ {"evLimit", "singlePhase"} \in SUBSET Settings
      /\ {"success", "table"} \subseteq {"success", "table", "banner", "done"}
      /\ "table" # "success" /\ InApi \in {InApi, InTryApi}
  BY SettingsInclude
<1>4. InApi # InTryApi
  BY StackInside
<1>5. Path(facts, calls, InApi, facts, InApi, {})
  <2>1. Path(facts, <<Local(Call("request", facts))>>, InApi, facts, InApi, {})
    BY <1>1, <1>3, <1>4, ApiCall
  <2>2. Path(facts, <<Local(Show({}))>>, InApi, {}, InApi, {})
    BY <1>1, <1>3, ApiShow
  <2>3. Path(facts, <<Say("success")>>, InApi, {}, InApi, {})
    BY <1>1, <1>3, SayPath, StacksInclude
  <2>4. Path(facts, <<Local(Show({})), Say("success")>>, InApi, {}, InApi, {})
    BY <2>2, <2>3, PathTwo
  <2> QED
    BY <2>1, <2>4, PathThree
<1>6. Path(facts, show, InApi, {}, InApi, {})
  BY <1>1, <1>3, ApiShow
<1>7. Path(facts, <<Say("table")>>, Top, {}, Top, {})
  BY <1>1, <1>3, SayPath, StacksInclude
<1> HIDE DEF calls, show, listed
<1>8. Path(facts, If(facts # {}, calls), InApi, facts, InApi, {})
  BY <1>3, <1>5, PathIf, StacksInclude
<1>9. Path(facts, If(listed, show), InApi, {}, InApi, {})
  BY <1>3, <1>6, PathIf, StacksInclude
<1>10. Path(facts, table, Top, {}, Top, {})
  BY <1>3, <1>7, PathIf, StacksInclude
<1>11. Path(facts, body, InApi, facts, InApi, {})
  BY <1>8, <1>9, PathConcat
<1> HIDE DEF body, table
<1>12. Path(facts, WithApi(body), InPeblar, facts, InPeblar, {})
  BY <1>1, <1>3, <1>11, WithApiPath
<1>13. Path(facts, WithPeblar(WithApi(body)), Top, facts, Top, {})
  BY <1>1, <1>3, <1>12, WithPeblarPath
<1>14. Path(facts, WithPeblar(WithApi(body)) \o table, Top, facts, Top, {})
  BY <1>10, <1>13, PathConcat
<1> QED
  BY <1>1, <1>2, <1>14, CommandFields

LEMMA AuthorizeFits ==
  ASSUME NEW o
  PROVE  Fits(Authorize(o))
<1> DEFINE facts == Done("authorize")
           body == <<Local(Call("request", facts))>>
           bad == ("uid" \in o) = ("name" \in o)
<1>1. facts \in SUBSET Pairs
  BY DonePairs, DeedsInclude
<1>2. Authorize(o) = Command(bad, facts, WithPeblar(WithApi(body)) \o <<Say("success")>>)
  BY DEF Authorize
<1> HIDE DEF facts, bad
<1>3. /\ facts \in SUBSET facts /\ {} \in SUBSET facts /\ facts \ facts \subseteq {}
      /\ facts \in SUBSET (facts \cup Written) /\ InApi \in {InApi, InTryApi}
  OBVIOUS
<1>4. InApi # InTryApi
  BY StackInside
<1>5. Path(facts, body, InApi, facts, InApi, {})
  BY <1>1, <1>3, <1>4, ApiCall
<1>6. Path(facts, <<Say("success")>>, Top, {}, Top, {})
  BY <1>1, <1>3, SayPath, StacksInclude
<1> HIDE DEF body
<1>7. Path(facts, WithApi(body), InPeblar, facts, InPeblar, {})
  BY <1>1, <1>3, <1>5, WithApiPath
<1>8. Path(facts, WithPeblar(WithApi(body)), Top, facts, Top, {})
  BY <1>1, <1>3, <1>7, WithPeblarPath
<1>9. Path(facts, WithPeblar(WithApi(body)) \o <<Say("success")>>, Top, facts, Top, {})
  BY <1>6, <1>8, PathConcat
<1> QED
  BY <1>1, <1>2, <1>9, CommandFields

LEMMA MeterHistoryFits ==
  ASSUME NEW o
  PROVE  Fits(MeterHistoryCmd(o))
<1> DEFINE refused == If("badBound" \in o, <<Do("refuse")>>)
           read == <<Call("history", {}), Show({})>>
           last == IF "export" \in o THEN "export" ELSE "summary"
           body == FetchData(o) \o <<Do(last)>>
<1>0. /\ {} \in SUBSET Pairs /\ {} \in SUBSET {} /\ {} \in SUBSET Settings
      /\ {} \in SUBSET ({} \cup Written) /\ {} \ {} \subseteq {}
      /\ "history" \in Ops /\ "history" # "connect"
      /\ {"refuse", "summary", "export"} \subseteq {"refuse", "summary", "export", "listen"}
  BY Literals
<1>1. Path({}, refused, InPeblar, {}, InPeblar, {})
  <2>1. Path({}, <<Do("refuse")>>, InPeblar, {}, InPeblar, {})
    BY <1>0, DoPath, StacksInclude, StackInside
  <2> QED
    BY <1>0, <2>1, PathIf, StacksInclude
<1>2. Path({}, read, InPeblar, {}, InPeblar, {})
  <2>1. Path({}, <<Call("history", {})>>, InPeblar, {}, InPeblar, {})
    BY <1>0, PeblarCall
  <2>2. Path({}, <<Show({})>>, InPeblar, {}, InPeblar, {})
    BY <1>0, PeblarShow
  <2> QED
    BY <2>1, <2>2, PathTwo
<1>3. Path({}, <<Do(last)>>, InPeblar, {}, InPeblar, {})
  <2>1. last \in {"refuse", "summary", "export", "listen"}
    OBVIOUS
  <2> HIDE DEF last
  <2> QED
    BY <1>0, <2>1, DoPath, StacksInclude, StackInside
<1>4. FetchData(o) = refused \o read
  BY DEF FetchData
<1> HIDE DEF refused, read, last
<1>5. Path({}, refused \o read, InPeblar, {}, InPeblar, {})
  BY <1>1, <1>2, PathConcat
<1>6. Path({}, body, InPeblar, {}, InPeblar, {})
  BY <1>3, <1>4, <1>5, PathConcat
<1> HIDE DEF body
<1>7. Path({}, WithPeblar(body), Top, {}, Top, {})
  BY <1>0, <1>6, WithPeblarPath
<1> QED
  BY <1>0, <1>7, CommandFields DEF MeterHistoryCmd, body, last

LEMMA WatchFits == Fits(Watch)
<1> DEFINE facts == Done("subscribe")
           subscribe == Live(Call("request", facts))
           body == <<Say("banner"), subscribe, Do("listen")>>
<1>1. facts \in SUBSET Pairs
  BY DonePairs, DeedsInclude
<1>2. Watch = Command(FALSE, facts, WithPeblar(WithWebsocket(body)))
  BY DEF Watch
<1> HIDE DEF facts
<1>3. /\ facts \in SUBSET facts /\ {} \in SUBSET facts /\ facts \ facts \subseteq {}
      /\ facts \in SUBSET (facts \cup Written) /\ {} \in SUBSET Settings
      /\ "banner" \in {"success", "table", "banner", "done"} /\ "banner" # "success"
      /\ "listen" \in {"refuse", "summary", "export", "listen"}
      /\ "websocket" \in {"peblar", "api", "websocket"}
      /\ "request" \in Ops /\ "request" # "connect"
  BY Literals
<1>4. Path(facts, <<Say("banner")>>, InWebsocket, facts, InWebsocket, facts)
  BY <1>1, <1>3, SayPath, StacksInclude, StackInside
<1>5. Path(facts, <<subscribe>>, InWebsocket, facts, InWebsocket, {})
  <2>1. Path(facts, <<Step("call", "websocket", "request", facts, {})>>,
             InWebsocket, facts, InWebsocket, {})
    BY <1>1, <1>3, CallPath, StacksInclude, StackInside
  <2>2. subscribe = Step("call", "websocket", "request", facts, {})
    BY DEF Live, Call, Step
  <2> QED
    BY <2>1, <2>2
<1>6. Path(facts, <<Do("listen")>>, InWebsocket, {}, InWebsocket, {})
  BY <1>1, <1>3, DoPath, StacksInclude, StackInside
<1> HIDE DEF subscribe
<1>7. Path(facts, <<subscribe, Do("listen")>>, InWebsocket, facts, InWebsocket, {})
  BY <1>5, <1>6, PathTwo
<1>8. Path(facts, body, InWebsocket, facts, InWebsocket, {})
  BY <1>4, <1>7, PathThree
<1> HIDE DEF body
<1>9. Path(facts, WithWebsocket(body), InPeblar, facts, InPeblar, {})
  BY <1>1, <1>3, <1>8, WithWebsocketPath
<1>10. Path(facts, WithPeblar(WithWebsocket(body)), Top, facts, Top, {})
  BY <1>1, <1>3, <1>9, WithPeblarPath
<1> QED
  BY <1>1, <1>2, <1>10, CommandFields

LEMMA FetchFields ==
  ASSUME NEW file \in Files
  PROVE  /\ Fetch(file) \in Steps /\ Fetch(file).do = "call" /\ Fetch(file).of = "peblar"
         /\ Fetch(file).op = "request" /\ Fetch(file).sets = {<<file, "written">>}
         /\ Fetch(file).shows = {}
<1>1. /\ "call" \in Does /\ "peblar" \in Contexts /\ "request" \in Ops
      /\ {} \in SUBSET Settings
  BY Literals
<1>2. {<<file, "written">>} \in SUBSET Pairs
  <2>1. file \in Names /\ "written" \in Values
    BY DEF Names, Values
  <2> QED
    BY <2>1 DEF Pairs
<1>3. Fetch(file) = Step("call", "peblar", "request", {<<file, "written">>}, {})
  BY DEF Fetch, Call
<1> QED
  BY <1>1, <1>2, <1>3, StepFields

LEMMA MainFilesPath ==
  LET asks == {<<file, "written">> : file \in MainFiles} IN
  Path(asks,
       <<Fetch("system_information"), Fetch("user_configuration"),
         Fetch("versions_current"), Fetch("versions_available"),
         Fetch("api_token"), Fetch("standalonelist")>>,
       InPeblar, asks, InPeblar, {})
<1> DEFINE asks == {<<file, "written">> : file \in MainFiles}
           f1 == "system_information"  f2 == "user_configuration"
           f3 == "versions_current"    f4 == "versions_available"
           f5 == "api_token"           f6 == "standalonelist"
           q == <<Fetch(f1), Fetch(f2), Fetch(f3), Fetch(f4), Fetch(f5), Fetch(f6)>>
<1>1. MainFiles = {f1, f2, f3, f4, f5, f6} /\ MainFiles \subseteq Files
  BY DEF MainFiles, Files
<1>2. asks \in SUBSET Pairs
  BY <1>1 DEF Pairs, Names, Values
<1> HIDE DEF f1, f2, f3, f4, f5, f6
<1>3. /\ Fetch(f1) \in Steps /\ Fetch(f2) \in Steps /\ Fetch(f3) \in Steps
      /\ Fetch(f4) \in Steps /\ Fetch(f5) \in Steps /\ Fetch(f6) \in Steps
  BY <1>1, FetchFields
<1>4. /\ q \in Seq(Steps) /\ Len(q) = 6
      /\ q[1] = Fetch(f1) /\ q[2] = Fetch(f2) /\ q[3] = Fetch(f3)
      /\ q[4] = Fetch(f4) /\ q[5] = Fetch(f5) /\ q[6] = Fetch(f6)
  BY <1>3
<1> HIDE DEF q
<1>5. DOMAIN q = 1..6
  BY <1>4
<1>6. \A i \in 1..6 : \E file \in MainFiles : q[i] = Fetch(file)
  <2>1. \A i \in 1..6 : i = 1 \/ i = 2 \/ i = 3 \/ i = 4 \/ i = 5 \/ i = 6
    OBVIOUS
  <2> QED
    BY <1>1, <1>4, <2>1
<1>7. \A i \in DOMAIN q : /\ q[i].do = "call" /\ q[i].of = "peblar"
                          /\ q[i].op # "connect" /\ q[i].sets \subseteq asks \cup Written
                          /\ q[i].shows = {}
  <2> SUFFICES ASSUME NEW i \in 1..6
               PROVE /\ q[i].do = "call" /\ q[i].of = "peblar"
                     /\ q[i].op # "connect" /\ q[i].sets \subseteq asks \cup Written
                     /\ q[i].shows = {}
    BY <1>5
  <2>1. PICK file \in MainFiles : q[i] = Fetch(file)
    BY <1>6
  <2>2. <<file, "written">> \in asks /\ file \in Files
    BY <1>1
  <2> HIDE DEF asks
  <2> QED
    BY <2>1, <2>2, FetchFields
<1>8. asks \subseteq UNION {q[i].sets : i \in DOMAIN q}
  <2> SUFFICES ASSUME NEW file \in MainFiles
               PROVE  \E i \in DOMAIN q : <<file, "written">> \in q[i].sets
    OBVIOUS
  <2>1. PICK i \in 1..6 : q[i] = Fetch(file)
    <3>1. /\ 1 \in 1..6 /\ 2 \in 1..6 /\ 3 \in 1..6 /\ 4 \in 1..6 /\ 5 \in 1..6 /\ 6 \in 1..6
      OBVIOUS
    <3> QED
      BY <1>1, <1>4, <3>1
  <2> QED
    BY <1>1, <1>5, <2>1, FetchFields
<1> DEFINE rest == asks \ UNION {q[i].sets : i \in DOMAIN q}
<1>9. rest = {}
  BY <1>8
<1> HIDE DEF asks
<1>10. asks \in SUBSET asks
  OBVIOUS
<1>11. Path(asks, q, InPeblar, asks, InPeblar, rest)
  BY <1>2, <1>4, <1>7, <1>10, PathCalls
<1>12. Path(asks, q, InPeblar, asks, InPeblar, {})
  <2> HIDE DEF rest
  <2> QED
    BY <1>9, <1>11
<1> QED
  BY <1>12 DEF asks, q, f1, f2, f3, f4, f5, f6

LEMMA LocalFilePath ==
  ASSUME NEW asks \in SUBSET Pairs, NEW file \in LocalFiles
  PROVE  Path(asks, <<Local(Fetch(file))>>, InTryApi, {}, InTryApi, {})
<1>1. {<<file, "written">>} \in SUBSET (asks \cup Written)
  BY DEF Written, Files
<1>2. /\ {} \in SUBSET asks /\ {} \ {<<file, "written">>} \subseteq {}
      /\ InTryApi \in {InApi, InTryApi}
  OBVIOUS
<1> QED
  BY <1>1, <1>2, ApiCall DEF Fetch

LEMMA DumpFits == Fits(Dump)
<1> DEFINE asks == {<<file, "written">> : file \in MainFiles}
           main == <<Fetch("system_information"), Fetch("user_configuration"),
                     Fetch("versions_current"), Fetch("versions_available"),
                     Fetch("api_token"), Fetch("standalonelist")>>
           x1 == Local(Fetch("health"))  x2 == Local(Fetch("system"))
           x3 == Local(Fetch("meter"))   x4 == Local(Fetch("ev_interface"))
           local == <<x1, x2, x3, x4>>
           body == main \o Attempt(WithApi(local))
<1>1. Dump = Command(FALSE, asks, WithPeblar(body) \o <<Say("done")>>)
  BY DEF Dump
<1>2. asks \in SUBSET Pairs
  BY DEF Pairs, Names, Values, Files
<1>3. Path(asks, main, InPeblar, asks, InPeblar, {})
  BY MainFilesPath
<1> HIDE DEF asks, main
<1>4. {"health", "system", "meter", "ev_interface"} = LocalFiles
  BY DEF LocalFiles
<1>5. /\ Path(asks, <<x1>>, InTryApi, {}, InTryApi, {})
      /\ Path(asks, <<x2>>, InTryApi, {}, InTryApi, {})
      /\ Path(asks, <<x3>>, InTryApi, {}, InTryApi, {})
      /\ Path(asks, <<x4>>, InTryApi, {}, InTryApi, {})
  BY <1>2, <1>4, LocalFilePath
<1> HIDE DEF x1, x2, x3, x4
<1>6. Path(asks, local, InTryApi, {}, InTryApi, {})
  <2>1. Path(asks, <<x3, x4>>, InTryApi, {}, InTryApi, {})
    BY <1>5, PathTwo
  <2>2. Path(asks, <<x2, x3, x4>>, InTryApi, {}, InTryApi, {})
    BY <1>5, <2>1, PathThree
  <2>3. x1 \in Steps /\ x2 \in Steps /\ x3 \in Steps /\ x4 \in Steps
    BY <1>5, PathOfStep
  <2>4. /\ local \in Seq(Steps) /\ <<x2, x3, x4>> \in Seq(Steps) /\ local # <<>>
        /\ Head(local) = x1 /\ Tail(local) = <<x2, x3, x4>>
    BY <2>3
  <2>5. local = <<x1>> \o <<x2, x3, x4>>
    BY <2>3, <2>4, HeadThenTail
  <2> QED
    BY <1>5, <2>2, <2>5, PathConcat
<1> HIDE DEF local
<1>7. Path(asks, Attempt(WithApi(local)), InPeblar, {}, InPeblar, {})
  BY <1>2, <1>6, TryApiPath, AttemptPath
<1>8. Path(asks, body, InPeblar, asks, InPeblar, {})
  BY <1>3, <1>7, PathConcat
<1> HIDE DEF body
<1>9. asks \in SUBSET asks /\ {} \in SUBSET asks
      /\ "done" \in {"success", "table", "banner", "done"} /\ "done" # "success"
  OBVIOUS
<1>10. Path(asks, WithPeblar(body), Top, asks, Top, {})
  BY <1>2, <1>8, <1>9, WithPeblarPath
<1>11. Path(asks, <<Say("done")>>, Top, {}, Top, {})
  BY <1>2, <1>9, SayPath, StacksInclude
<1>12. Path(asks, WithPeblar(body) \o <<Say("done")>>, Top, asks, Top, {})
  BY <1>10, <1>11, PathConcat
<1> QED
  BY <1>1, <1>2, <1>12, CommandFields

LEMMA ScriptsFit == \A s \in Setups : Fits(Program(s.line))
<1> SUFFICES ASSUME NEW s \in Setups PROVE Fits(Program(s.line))
  OBVIOUS
<1> DEFINE n == s.line.name
           o == s.line.opts
<1>1. n \in Commands
  BY SetupsAssumption DEF SetupOK
<1>2. /\ Fits(Identify) /\ Fits(LockCmd) /\ Fits(Buzzer) /\ Fits(Led) /\ Fits(Reboot)
      /\ Fits(AddRfidToken) /\ Fits(DelRfidToken)
  <2>1. /\ Done("identify") \in SUBSET Pairs /\ Done("reboot") \in SUBSET Pairs
    BY DonePairs, DeedsInclude
  <2>2. /\ Set("lock", "on") \in SUBSET Pairs /\ Set("buzzer", "given") \in SUBSET Pairs
        /\ Set("led", "given") \in SUBSET Pairs /\ Set("rfid", "listed") \in SUBSET Pairs
        /\ Set("rfid", "absent") \in SUBSET Pairs
    <3>1. /\ {"lock", "buzzer", "led", "rfid"} \subseteq Names
          /\ {"on", "given", "listed", "absent"} \subseteq Values
      BY SettingsInclude, Vocabulary
    <3> QED
      BY <3>1 DEF Set, Pairs
  <2> QED
    BY <2>1, <2>2, ActFits DEF Identify, LockCmd, Buzzer, Led, Reboot, AddRfidToken,
       DelRfidToken
<1>3. /\ Fits(Versions) /\ Fits(SystemInformation) /\ Fits(RfidTokens) /\ Fits(Status)
      /\ Fits(Schedule) /\ Fits(EnergyHistory)
  BY ViewFits DEF Versions, SystemInformation, RfidTokens, Status, Schedule, EnergyHistory
<1>4. Fits(Health) /\ Fits(Meter) /\ Fits(System)
  BY LocalViewFits DEF Health, Meter, System
<1>5. /\ Fits(UnlockCmd(o)) /\ Fits(HouseholdLimit(o)) /\ Fits(Update(o)) /\ Fits(RestApi(o))
      /\ Fits(Modbus(o)) /\ Fits(UserConfiguration(o)) /\ Fits(SmartCharging(o))
      /\ Fits(Ev(o)) /\ Fits(Authorize(o)) /\ Fits(MeterHistoryCmd(o))
  BY UnlockFits, HouseholdLimitFits, UpdateFits, RestApiFits, ModbusFits,
     UserConfigurationFits, SmartChargingFits, EvFits, AuthorizeFits, MeterHistoryFits
<1> HIDE DEF n, o
<1> QED
  BY <1>1, <1>2, <1>3, <1>4, <1>5, WatchFits, DumpFits DEF Commands, Program, n, o

----------------------------------------------------------------------------
(* What the options ask for.                                               *)

(* One value each. *)
OneEach(facts) == \A f, g \in facts : f[1] = g[1] => f = g

LEMMA OneEachUnion ==
  ASSUME NEW A, NEW B, OneEach(A), OneEach(B), \A f \in A, g \in B : f[1] # g[1]
  PROVE  OneEach(A \cup B)
  BY DEF OneEach

(* An option and its opposite, of which one at most is given.              *)
LEMMA OneOfTwo ==
  ASSUME NEW name, NEW v, NEW w, NEW first, NEW second, ~(first /\ second)
  PROVE  /\ OneEach(When(first, Set(name, v)) \cup When(second, Set(name, w)))
         /\ \A f \in When(first, Set(name, v)) \cup When(second, Set(name, w)) : f[1] = name
  BY DEF OneEach, When, Set

LEMMA AccessOneEach ==
  ASSUME NEW o, ~AccessClash(o), NEW enabled, NEW access, enabled # access
  PROVE  /\ OneEach(AccessFacts(o, enabled, access))
         /\ \A f \in AccessFacts(o, enabled, access) : f[1] \in {enabled, access}
<1> DEFINE A == When("enable" \in o, Set(enabled, "on"))
                \cup When("disable" \in o, Set(enabled, "off"))
           B == When("read" \in o, Set(access, "ReadOnly"))
                \cup When("write" \in o, Set(access, "ReadWrite"))
<1>1. ~("enable" \in o /\ "disable" \in o) /\ ~("read" \in o /\ "write" \in o)
  BY DEF AccessClash
<1>2. OneEach(A) /\ \A f \in A : f[1] = enabled
  BY <1>1, OneOfTwo
<1>3. OneEach(B) /\ \A f \in B : f[1] = access
  BY <1>1, OneOfTwo
<1>4. AccessFacts(o, enabled, access) = A \cup B
  BY DEF AccessFacts
<1> HIDE DEF A, B
<1> QED
  BY <1>2, <1>3, <1>4, OneEachUnion

(* A command whose options were not refused asks for one value each. *)
Consistent(c) == c.bad \/ OneEach(c.asks)

LEMMA NamedWhen ==
  ASSUME NEW condition, NEW name, NEW value
  PROVE  /\ OneEach(When(condition, Set(name, value)))
         /\ \A f \in When(condition, Set(name, value)) : f[1] = name
  BY DEF OneEach, When, Set

(* Just one of the modes is given. *)
LEMMA OneModeConsistent ==
  ASSUME NEW o
  PROVE  Consistent(SmartCharging(o))
<1> DEFINE facts == {<<"smart", mode>> : mode \in o \cap Modes}
           D == {<<"smart", "default">>}
           F == D \cup {<<"smart", "fast_solar">>}
           S == F \cup {<<"smart", "smart_solar">>}
           P == S \cup {<<"smart", "pure_solar">>}
           C == P \cup {<<"smart", "custom_solar">>}
           A == C \cup {<<"smart", "scheduled">>}
<1>1. SmartCharging(o).bad = (Cardinality(facts) # 1) /\ SmartCharging(o).asks = facts
  BY DEF SmartCharging, Command
<1>2. facts \in SUBSET A
  BY DEF Modes
<1>3. IsFiniteSet(D)
  BY FS_Singleton
<1> HIDE DEF D, facts
<1>4. IsFiniteSet(F)
  BY <1>3, FS_AddElement
<1> HIDE DEF F
<1>5. IsFiniteSet(S)
  BY <1>4, FS_AddElement
<1> HIDE DEF S
<1>6. IsFiniteSet(P)
  BY <1>5, FS_AddElement
<1> HIDE DEF P
<1>7. IsFiniteSet(C)
  BY <1>6, FS_AddElement
<1> HIDE DEF C
<1>8. IsFiniteSet(A)
  BY <1>7, FS_AddElement
<1> HIDE DEF A
<1>9. IsFiniteSet(facts)
  BY <1>2, <1>8, FS_Subset
<1>10. Cardinality(facts) = 1 => \E x : facts = {x}
  BY <1>9, FS_Singleton
<1> QED
  BY <1>1, <1>10 DEF Consistent, OneEach

(* Options that set different things. *)
LEMMA DifferentWhens ==
  ASSUME NEW name, NEW value, NEW other, NEW amount, NEW first, NEW second, name # other
  PROVE  OneEach(When(first, Set(name, value)) \cup When(second, Set(other, amount)))
<1> DEFINE A == When(first, Set(name, value))  B == When(second, Set(other, amount))
<1>1. OneEach(A) /\ OneEach(B)
  BY NamedWhen
<1>2. (\A f \in A : f[1] = name) /\ (\A f \in B : f[1] = other)
  BY NamedWhen
<1> HIDE DEF A, B
<1>3. OneEach(A \cup B)
  BY <1>1, <1>2, OneEachUnion
<1> QED
  BY <1>3 DEF A, B

LEMMA UnlockConsistent ==
  ASSUME NEW o
  PROVE  Consistent(UnlockCmd(o))
<1> DEFINE asks == Done("unlock") \cup When("persist" \in o, Set("lock", "off"))
<1>1. UnlockCmd(o).asks = asks
  BY DEF UnlockCmd, Command
<1>2. OneEach(asks)
  BY DEF OneEach, When, Set, Done
<1> QED
  BY <1>1, <1>2 DEF Consistent

LEMMA HouseholdLimitConsistent ==
  ASSUME NEW o
  PROVE  Consistent(HouseholdLimit(o))
<1> DEFINE A == When("limit" \in o, Set("householdLimit", Given(o)))
           B == When("enable" \in o, Set("household", "on"))
                \cup When("disable" \in o, Set("household", "off"))
<1>1. /\ HouseholdLimit(o).bad = ({"enable", "disable"} \subseteq o)
      /\ HouseholdLimit(o).asks = A \cup B
  BY DEF HouseholdLimit, Command
<1>2. CASE ~({"enable", "disable"} \subseteq o)
  <2>1. ~("enable" \in o /\ "disable" \in o)
    BY <1>2
  <2>2. OneEach(A) /\ \A f \in A : f[1] = "householdLimit"
    BY NamedWhen
  <2>3. OneEach(B) /\ \A f \in B : f[1] = "household"
    BY <2>1, OneOfTwo
  <2>4. "household" # "householdLimit"
    OBVIOUS
  <2> HIDE DEF A, B
  <2>5. OneEach(A \cup B)
    BY <2>2, <2>3, <2>4, OneEachUnion
  <2> QED
    BY <1>1, <2>5 DEF Consistent
<1> QED
  BY <1>1, <1>2 DEF Consistent

LEMMA UpdateConsistent ==
  ASSUME NEW o
  PROVE  Consistent(Update(o))
<1> DEFINE facts == When("firmware" \in o, Done("firmware"))
                    \cup When("customization" \in o, Done("customization"))
<1>1. Update(o).asks = facts
  BY DEF Update, Command
<1>2. OneEach(facts)
  BY DEF OneEach, When, Done
<1> QED
  BY <1>1, <1>2 DEF Consistent

LEMMA RestApiConsistent ==
  ASSUME NEW o
  PROVE  Consistent(RestApi(o))
<1> DEFINE A == AccessFacts(o, "rest", "restAccess")
           B == When("generate" \in o, Set("token", "new"))
<1>1. RestApi(o).bad = AccessClash(o) /\ RestApi(o).asks = A \cup B
  BY DEF RestApi, Command
<1>2. CASE ~AccessClash(o)
  <2>1. OneEach(A) /\ \A f \in A : f[1] \in {"rest", "restAccess"}
    BY <1>2, AccessOneEach
  <2>2. OneEach(B) /\ \A f \in B : f[1] = "token"
    BY NamedWhen
  <2> HIDE DEF A, B
  <2>3. "token" \notin {"rest", "restAccess"}
    OBVIOUS
  <2>4. OneEach(A \cup B)
    BY <2>1, <2>2, <2>3, OneEachUnion
  <2> QED
    BY <1>1, <2>4 DEF Consistent
<1> QED
  BY <1>1, <1>2 DEF Consistent

LEMMA ModbusConsistent ==
  ASSUME NEW o
  PROVE  Consistent(Modbus(o))
<1>1. /\ Modbus(o).bad = AccessClash(o)
      /\ Modbus(o).asks = AccessFacts(o, "modbus", "modbusAccess")
  BY DEF Modbus, Command
<1>2. ~AccessClash(o) => OneEach(AccessFacts(o, "modbus", "modbusAccess"))
  BY AccessOneEach
<1> QED
  BY <1>1, <1>2 DEF Consistent

LEMMA UserConfigurationConsistent ==
  ASSUME NEW o
  PROVE  Consistent(UserConfiguration(o))
<1> DEFINE facts == When("chargeLimit" \in o, Set("chargeLimit", "given"))
                    \cup When("solar" \in o, Set("solar", Given(o)))
<1>1. UserConfiguration(o).asks = facts
  BY DEF UserConfiguration, Command
<1>2. OneEach(facts)
  BY DifferentWhens
<1> QED
  BY <1>1, <1>2 DEF Consistent

LEMMA EvConsistent ==
  ASSUME NEW o
  PROVE  Consistent(Ev(o))
<1> DEFINE facts == When("limit" \in o, Set("evLimit", Given(o)))
                    \cup When("single" \in o, Set("singlePhase", Given(o)))
<1>1. Ev(o).asks = facts
  BY DEF Ev, Command
<1>2. OneEach(facts)
  BY DifferentWhens
<1> QED
  BY <1>1, <1>2 DEF Consistent

LEMMA FixedConsistent ==
  ASSUME NEW o
  PROVE  /\ Consistent(Authorize(o)) /\ Consistent(MeterHistoryCmd(o)) /\ Consistent(Watch)
         /\ Consistent(Dump) /\ Consistent(LocalView) /\ \A calls : Consistent(View(calls))
<1>1. OneEach({}) /\ OneEach(Done("authorize")) /\ OneEach(Done("subscribe"))
  BY DEF OneEach, Done
<1>2. OneEach({<<file, "written">> : file \in MainFiles})
  BY DEF OneEach
<1>3. /\ Authorize(o).asks = Done("authorize") /\ MeterHistoryCmd(o).asks = {}
      /\ Watch.asks = Done("subscribe") /\ LocalView.asks = {}
      /\ Dump.asks = {<<file, "written">> : file \in MainFiles}
      /\ \A calls : View(calls).asks = {}
  BY DEF Authorize, MeterHistoryCmd, Watch, LocalView, Dump, View, Command
<1> QED
  BY <1>1, <1>2, <1>3 DEF Consistent

LEMMA ActConsistent ==
  /\ Consistent(Identify) /\ Consistent(LockCmd) /\ Consistent(Buzzer) /\ Consistent(Led)
  /\ Consistent(Reboot) /\ Consistent(AddRfidToken) /\ Consistent(DelRfidToken)
<1>1. \A name, value : OneEach(Set(name, value)) /\ OneEach(Done(name))
  BY DEF OneEach, Set, Done
<1>2. \A facts : Act(facts).asks = facts
  BY DEF Act, Command
<1> QED
  BY <1>1, <1>2 DEF Consistent, Identify, LockCmd, Buzzer, Led, Reboot, AddRfidToken,
     DelRfidToken

(* No command asks for two values of one thing. *)
LEMMA AsksFit == \A s \in Setups : Consistent(Program(s.line))
<1> SUFFICES ASSUME NEW s \in Setups PROVE Consistent(Program(s.line))
  OBVIOUS
<1> DEFINE n == s.line.name
           o == s.line.opts
<1>1. n \in Commands
  BY SetupsAssumption DEF SetupOK
<1>2. /\ Consistent(Versions) /\ Consistent(SystemInformation) /\ Consistent(RfidTokens)
      /\ Consistent(Status) /\ Consistent(Schedule) /\ Consistent(EnergyHistory)
  BY FixedConsistent DEF Versions, SystemInformation, RfidTokens, Status, Schedule,
     EnergyHistory
<1>3. Consistent(Health) /\ Consistent(Meter) /\ Consistent(System)
  BY FixedConsistent DEF Health, Meter, System
<1>4. /\ Consistent(UnlockCmd(o)) /\ Consistent(HouseholdLimit(o)) /\ Consistent(Update(o))
      /\ Consistent(RestApi(o)) /\ Consistent(Modbus(o)) /\ Consistent(UserConfiguration(o))
      /\ Consistent(SmartCharging(o)) /\ Consistent(Ev(o)) /\ Consistent(Authorize(o))
      /\ Consistent(MeterHistoryCmd(o)) /\ Consistent(Watch) /\ Consistent(Dump)
  BY UnlockConsistent, HouseholdLimitConsistent, UpdateConsistent, RestApiConsistent,
     ModbusConsistent, UserConfigurationConsistent, OneModeConsistent, EvConsistent,
     FixedConsistent
<1> HIDE DEF n, o
<1> QED
  BY <1>1, <1>2, <1>3, <1>4, ActConsistent DEF Commands, Program, n, o

----------------------------------------------------------------------------
(* What a script will bring about.                                         *)

(* One of the steps brings the fact about. *)
Brings(q, fact) == \E i \in DOMAIN q : fact \in q[i].sets

LEMMA BringsEither ==
  ASSUME NEW p \in Seq(Steps), NEW q \in Seq(Steps), NEW fact,
         Brings(p, fact) \/ Brings(q, fact)
  PROVE  Brings(p \o q, fact) /\ p \o q \in Seq(Steps)
<1> DEFINE r == p \o q
<1>1. /\ r \in Seq(Steps) /\ Len(r) = Len(p) + Len(q)
      /\ \A i \in 1..Len(p) : r[i] = p[i]
      /\ \A i \in 1..Len(q) : r[Len(p) + i] = q[i]
  OBVIOUS
<1>2. /\ DOMAIN p = 1..Len(p) /\ DOMAIN q = 1..Len(q) /\ DOMAIN r = 1..Len(r)
      /\ Len(p) \in Nat /\ Len(q) \in Nat
  BY <1>1
<1> HIDE DEF r
<1>3. CASE Brings(p, fact)
  <2>1. PICK i \in 1..Len(p) : fact \in p[i].sets
    BY <1>2, <1>3 DEF Brings
  <2>2. i \in 1..Len(r) /\ r[i] = p[i]
    BY <1>1, <1>2
  <2> QED
    BY <1>1, <1>2, <2>1, <2>2 DEF Brings, r
<1>4. CASE Brings(q, fact)
  <2>1. PICK i \in 1..Len(q) : fact \in q[i].sets
    BY <1>2, <1>4 DEF Brings
  <2>2. Len(p) + i \in 1..Len(r) /\ r[Len(p) + i] = q[i]
    BY <1>1, <1>2
  <2> QED
    BY <1>1, <1>2, <2>1, <2>2 DEF Brings, r
<1> QED
  BY <1>3, <1>4

LEMMA LocalBrings ==
  ASSUME NEW file
  PROVE  <<file, "written">> \in Local(Fetch(file)).sets
  BY DEF Local, Fetch, Call, Step

(* A dump writes the files of the local API, unless something goes wrong. *)
LEMMA DumpBrings ==
  ASSUME NEW file \in LocalFiles
  PROVE  Brings(Dump.script, <<file, "written">>)
<1> DEFINE fact == <<file, "written">>
           main == <<Fetch("system_information"), Fetch("user_configuration"),
                     Fetch("versions_current"), Fetch("versions_available"),
                     Fetch("api_token"), Fetch("standalonelist")>>
           x1 == Local(Fetch("health"))  x2 == Local(Fetch("system"))
           x3 == Local(Fetch("meter"))   x4 == Local(Fetch("ev_interface"))
           local == <<x1, x2, x3, x4>>
           body == main \o Attempt(WithApi(local))
<1>1. Dump.script = WithPeblar(body) \o <<Say("done")>>
  BY DEF Dump, Command
<1>2. /\ main \in Seq(Steps) /\ local \in Seq(Steps)
  <2>1. ASSUME NEW f \in Files PROVE Fetch(f) \in Steps
    BY FetchFields
  <2>2. ASSUME NEW f \in LocalFiles PROVE Local(Fetch(f)) \in Steps
    <3>1. {} \in SUBSET Pairs
      OBVIOUS
    <3>2. Path({}, <<Local(Fetch(f))>>, InTryApi, {}, InTryApi, {})
      BY <3>1, LocalFilePath
    <3> QED
      BY <3>2, PathOfStep
  <2>3. /\ Fetch("system_information") \in Steps /\ Fetch("user_configuration") \in Steps
        /\ Fetch("versions_current") \in Steps /\ Fetch("versions_available") \in Steps
        /\ Fetch("api_token") \in Steps /\ Fetch("standalonelist") \in Steps
    BY <2>1 DEF Files, MainFiles
  <2>4. x1 \in Steps /\ x2 \in Steps /\ x3 \in Steps /\ x4 \in Steps
    BY <2>2 DEF LocalFiles
  <2> HIDE DEF x1, x2, x3, x4
  <2> QED
    BY <2>3, <2>4
<1>3. Brings(local, fact)
  <2>1. fact \in x1.sets \/ fact \in x2.sets \/ fact \in x3.sets \/ fact \in x4.sets
    BY LocalBrings DEF LocalFiles
  <2> HIDE DEF x1, x2, x3, x4, fact
  <2>2. /\ DOMAIN local = 1..4 /\ local[1] = x1 /\ local[2] = x2 /\ local[3] = x3
        /\ local[4] = x4
    OBVIOUS
  <2> HIDE DEF local
  <2> QED
    BY <2>1, <2>2 DEF Brings
<1> HIDE DEF main, local, fact
<1>4. /\ <<Open("peblar"), Call("login", {})>> \in Seq(Steps)
      /\ <<Call("rest", {}), Open("api")>> \in Seq(Steps)
      /\ <<Open("try")>> \in Seq(Steps) /\ <<Close("try")>> \in Seq(Steps)
      /\ <<Close("api")>> \in Seq(Steps) /\ <<Close("peblar")>> \in Seq(Steps)
      /\ <<Say("done")>> \in Seq(Steps)
  <2>1. ASSUME NEW d \in Does, NEW of \in Contexts, NEW op \in Ops
        PROVE  Step(d, of, op, {}, {}) \in Steps
    BY StepFields
  <2>2. ASSUME NEW of \in Contexts PROVE Open(of) \in Steps /\ Close(of) \in Steps
    BY <2>1, Literals DEF Open, Close
  <2>3. ASSUME NEW op \in Ops PROVE Call(op, {}) \in Steps
    BY <2>1, Literals DEF Call
  <2>4. Say("done") \in Steps
    BY <2>1, Literals DEF Say
  <2>5. /\ Open("peblar") \in Steps /\ Open("api") \in Steps /\ Open("try") \in Steps
        /\ Close("peblar") \in Steps /\ Close("api") \in Steps /\ Close("try") \in Steps
    BY <2>2, Literals
  <2>6. Call("login", {}) \in Steps /\ Call("rest", {}) \in Steps
    BY <2>3, Literals
  <2> QED
    BY <2>4, <2>5, <2>6
<1> DEFINE api == WithApi(local)
           attempt == Attempt(api)
<1>5. Brings(api, fact) /\ api \in Seq(Steps)
  BY <1>2, <1>3, <1>4, BringsEither DEF WithApi
<1> HIDE DEF api
<1>6. Brings(attempt, fact) /\ attempt \in Seq(Steps)
  BY <1>4, <1>5, BringsEither DEF Attempt
<1> HIDE DEF attempt
<1>7. Brings(main \o attempt, fact) /\ main \o attempt \in Seq(Steps)
  BY <1>2, <1>6, BringsEither
<1>8. body = main \o attempt
  BY DEF attempt, api
<1> HIDE DEF body
<1>9. Brings(body, fact) /\ body \in Seq(Steps)
  BY <1>7, <1>8
<1>10. Brings(WithPeblar(body), fact) /\ WithPeblar(body) \in Seq(Steps)
  BY <1>4, <1>9, BringsEither DEF WithPeblar
<1>11. Brings(WithPeblar(body) \o <<Say("done")>>, fact)
  BY <1>4, <1>10, BringsEither
<1> QED
  BY <1>1, <1>11 DEF fact
=============================================================================
