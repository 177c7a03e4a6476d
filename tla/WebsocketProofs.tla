-------------------------- MODULE WebsocketProofs --------------------------
(***************************************************************************)
(* Theorems about Websocket, for any number of tasks, topics and           *)
(* connections.  IInv is the inductive invariant: Core says who holds the  *)
(* socket, Requests whose the pending futures are, Emptied what is left    *)
(* without a client.  Told and Charged, per topic, Cared and Alone are     *)
(* invariants relative to it.                                              *)
(***************************************************************************)
EXTENDS Websocket, TLAPS, SequenceTheorems

USE DEF past

----------------------------------------------------------------------------
(* Types. *)
(* A connection. *)
Streams == [state : ConnStates, up : Seq(Frames), down : Seq(Frames), list : SUBSET Topics]

(* A task. *)
Peers == [at : Places, topic : Topics \cup {None}, fut : Futures, ref : Conns \cup {None}]

(* The types, with the shape of a connection TypeOK leaves open. *)
TypeInv ==
  /\ conn \in [Conns -> Streams]
  /\ reader \in [Conns -> ReaderStates]
  /\ client \in Conns \cup {None} /\ current \in Conns \cup {None}
  /\ callbacks \in [Topics -> Tasks \cup {None}]
  /\ pending \in [Topics -> Tasks \cup {None}]
  /\ task \in [Tasks -> Peers]
  /\ subscribed \in [Topics -> Tasks \cup {None}]
  /\ swept \subseteq Topics /\ abandoned \subseteq Tasks

(* A closed connection with another state, or another state and other      *)
(* frames to read, is a connection.                                        *)
LEMMA Cleared ==
  ASSUME NEW e \in Seq(Frames), NEW l \in SUBSET Topics, NEW s \in ConnStates, NEW d \in Seq(Frames),
         NEW r, r = [state |-> "closed", up |-> e, down |-> e, list |-> l]
  PROVE  /\ [r EXCEPT !.state = s] = [state |-> s, up |-> e, down |-> e, list |-> l]
         /\ [r EXCEPT !.state = s, !.down = d] = [state |-> s, up |-> e, down |-> d, list |-> l]
         /\ [r EXCEPT !.state = s] \in Streams
         /\ [r EXCEPT !.state = s, !.down = d] \in Streams
         /\ r \in Streams
<1>a. [r EXCEPT !.state = s] = [state |-> s, up |-> e, down |-> e, list |-> l]
  OBVIOUS
<1>b. [r EXCEPT !.state = s, !.down = d] = [state |-> s, up |-> e, down |-> d, list |-> l]
  <2>1. \A q : q = [r EXCEPT !.state = s, !.down = d] =>
          /\ q.state = s /\ q.up = e /\ q.down = d /\ q.list = l
          /\ DOMAIN q = {"state", "up", "down", "list"}
          /\ q = [x \in {"state", "up", "down", "list"} |-> q[x]]
    OBVIOUS
  <2> QED BY <2>1
<1>1. /\ [r EXCEPT !.state = s] = [state |-> s, up |-> e, down |-> e, list |-> l]
      /\ [r EXCEPT !.state = s, !.down = d] = [state |-> s, up |-> e, down |-> d, list |-> l]
  BY <1>a, <1>b
<1>2. "closed" \in ConnStates
  BY DEF ConnStates
<1>3. /\ [state |-> s, up |-> e, down |-> e, list |-> l] \in Streams
      /\ [state |-> s, up |-> e, down |-> d, list |-> l] \in Streams
      /\ [state |-> "closed", up |-> e, down |-> e, list |-> l] \in Streams
  BY <1>2 DEF Streams
<1> QED BY <1>1, <1>3

(* The same of Closed, the connection whose channels are empty. *)
LEMMA Clean ==
  ASSUME NEW s \in ConnStates, NEW d \in Seq(Frames)
  PROVE  /\ [Closed EXCEPT !.state = s] = [state |-> s, up |-> <<>>, down |-> <<>>, list |-> {}]
         /\ [Closed EXCEPT !.state = s, !.down = d] = [state |-> s, up |-> <<>>, down |-> d, list |-> {}]
         /\ [Closed EXCEPT !.state = s] \in Streams
         /\ [Closed EXCEPT !.state = s, !.down = d] \in Streams
         /\ Closed \in Streams
<1>1. <<>> \in Seq(Frames) /\ {} \in SUBSET Topics
  OBVIOUS
<1> QED BY <1>1, Cleared DEF Closed

(* An idle task and a map without entries are well typed. *)
LEMMA Blank == Idle \in Peers
               /\ Nobody \in [Topics -> Tasks \cup {None}]
BY DEF Idle, Nobody, Places, Futures, Peers

(* _send_action() keeps the types: a frame appended, a future registered. *)
LEMMA Sending ==
  ASSUME TypeInv, NEW c \in Tasks, NEW t \in Topics, NEW kind \in {"subscribe", "unsubscribe"},
         client \in Conns, SendAction(c, t, kind)
  PROVE  /\ conn' \in [Conns -> Streams]
         /\ pending' \in [Topics -> Tasks \cup {None}]
         /\ task' \in [Tasks -> Peers]
         /\ subscribed' \in [Topics -> Tasks \cup {None}]
         /\ abandoned' \subseteq Tasks
<1> DEFINE f == [kind |-> kind, topic |-> t]
           up2 == IF conn[client].state = "open" THEN Append(conn[client].up, f) ELSE conn[client].up
<1>1. f \in Frames
  BY DEF Frames
<1>2. conn[client] \in Streams /\ conn[client].up \in Seq(Frames)
  BY DEF TypeInv, Streams
<1>3. up2 \in Seq(Frames)
  BY <1>1, <1>2, AppendProperties
<1>4. conn' = [conn EXCEPT ![client].up = up2]
  BY DEF SendAction
<1>5. conn' \in [Conns -> Streams]
  <2> HIDE DEF up2
  <2> QED BY <1>2, <1>3, <1>4 DEF TypeInv, Streams
<1>6. pending' \in [Topics -> Tasks \cup {None}]
  BY DEF SendAction, TypeInv, TypeOK
<1>7. task' = [task EXCEPT ![c] = [Idle EXCEPT !.topic = t, !.fut = "waiting",
                !.at = IF kind = "subscribe" THEN "subscribing" ELSE "unsubscribing"]]
  BY DEF SendAction
<1>8. [Idle EXCEPT !.topic = t, !.fut = "waiting",
                !.at = IF kind = "subscribe" THEN "subscribing" ELSE "unsubscribing"]
       \in Peers
  BY DEF Idle, Places, Futures, Peers
<1>9. subscribed' \in [Topics -> Tasks \cup {None}] /\ abandoned' \subseteq Tasks
  BY DEF SendAction, TypeInv
<1> QED BY <1>5, <1>6, <1>7, <1>8, <1>9 DEF TypeInv

(* A reader that takes the next frame keeps the types. *)
LEMMA Reading ==
  ASSUME TypeInv, NEW k \in Conns, conn[k].down # <<>>
  PROVE  /\ Head(conn[k].down) \in Frames
         /\ [conn EXCEPT ![k].down = Tail(@)] \in [Conns -> Streams]
<1>1. conn[k] \in Streams /\ conn[k].down \in Seq(Frames)
  BY DEF TypeInv, Streams
<1>2. Head(conn[k].down) \in Frames /\ Tail(conn[k].down) \in Seq(Frames)
  BY <1>1, HeadTailProperties
<1> QED BY <1>1, <1>2 DEF TypeInv, Streams

(* The reader's last lines keep the types. *)
LEMMA Dropping ==
  ASSUME TypeInv, DropSubscriptions
  PROVE  /\ callbacks' \in [Topics -> Tasks \cup {None}]
         /\ task' \in [Tasks -> Peers]
         /\ swept' \subseteq Topics
<1>1. ASSUME NEW c \in Tasks PROVE [task[c] EXCEPT !.fut = "lost"] \in Peers
  BY DEF TypeInv, Peers, Futures
<1> QED BY <1>1, Blank DEF DropSubscriptions, TypeInv

(* The charger's answer to a request keeps the types. *)
LEMMA Answering ==
  ASSUME TypeInv, NEW k \in Conns, Answer(k)
  PROVE  conn' \in [Conns -> Streams]
<1> DEFINE m == Head(conn[k].up)
           reply(kinds) == [i \in DOMAIN kinds |-> [kind |-> kinds[i], topic |-> m.topic]]
<1>1. conn[k] \in Streams /\ conn[k].up \in Seq(Frames) /\ conn[k].down \in Seq(Frames)
      /\ conn[k].list \subseteq Topics
  BY DEF TypeInv, Streams
<1>2. conn[k].up # <<>>
  BY DEF Answer
<1>3. m \in Frames /\ Tail(conn[k].up) \in Seq(Frames)
  BY <1>1, <1>2, HeadTailProperties
<1>4. m.topic \in Topics
  BY <1>3 DEF Frames
<1>5. reply(<<"ok", "event">>) \in Seq(Frames) /\ reply(<<"ok">>) \in Seq(Frames)
      /\ reply(<<"rejected">>) \in Seq(Frames)
  BY <1>4 DEF Frames
<1>6. ASSUME NEW r \in Seq(Frames), NEW l \in SUBSET Topics,
             conn' = [conn EXCEPT ![k].up = Tail(@), ![k].down = @ \o r, ![k].list = l]
      PROVE  conn' \in [Conns -> Streams]
  <2>1. conn[k].down \o r \in Seq(Frames)
    BY <1>1, ConcatProperties
  <2> QED BY <2>1, <1>1, <1>3, <1>6 DEF TypeInv, Streams
<1>7. PICK r \in {reply(<<"ok", "event">>), reply(<<"ok">>), reply(<<"rejected">>)},
           l \in {conn[k].list \cup {m.topic}, conn[k].list \ {m.topic}, conn[k].list} :
        conn' = [conn EXCEPT ![k].up = Tail(@), ![k].down = @ \o r, ![k].list = l]
  BY DEF Answer
<1>8. r \in Seq(Frames) /\ l \in SUBSET Topics
  BY <1>1, <1>4, <1>5
<1> QED BY <1>6, <1>7, <1>8

(* TypeInv is inductive. *)
LEMMA TypeStep == TypeInv /\ [Next]_vars => TypeInv'
<1> SUFFICES ASSUME TypeInv, [Next]_vars PROVE TypeInv'
  OBVIOUS
<1> USE NoneAssumption, TasksAssumption
<1>0. CASE UNCHANGED vars
  BY <1>0 DEF vars, TypeInv, TypeOK
<1>2. /\ conn \in [Conns -> Streams]
      /\ reader \in [Conns -> ReaderStates]
      /\ client \in Conns \cup {None} /\ current \in Conns \cup {None}
      /\ callbacks \in [Topics -> Tasks \cup {None}]
      /\ pending \in [Topics -> Tasks \cup {None}]
      /\ task \in [Tasks -> Peers]
      /\ subscribed \in [Topics -> Tasks \cup {None}]
      /\ swept \subseteq Topics /\ abandoned \subseteq Tasks
      /\ Idle \in Peers /\ Nobody \in [Topics -> Tasks \cup {None}]
  BY Blank DEF TypeInv
<1>3. Closed \in Streams /\ \A s \in ConnStates : [Closed EXCEPT !.state = s] \in Streams
  <2>1. <<>> \in Seq(Frames) /\ "open" \in ConnStates
    BY DEF ConnStates
  <2> QED BY <2>1, Clean
<1>4. ASSUME NEW c \in Tasks, Request(c) \/ TaskStep(c) PROVE TypeInv'
  <2>1. CASE Connect(c)
    <3>1. [task[c] EXCEPT !.at = "dialing"] \in Peers
      BY <1>2 DEF Places, Peers
    <3>2. task' = [task EXCEPT ![c] = [task[c] EXCEPT !.at = "dialing"]]
      BY <2>1 DEF Connect
    <3>3. task' \in [Tasks -> Peers]
      BY <3>1, <3>2, <1>2
    <3> QED BY <2>1, <3>3, <1>2 DEF Connect, TypeInv
  <2>2. CASE Disconnect(c)
    <3>1. task' \in [Tasks -> Peers]
      <4> DEFINE p == [task[c] EXCEPT !.at = "joining", !.ref = current]
      <4>1. p \in Peers
        BY <1>2 DEF Places, Peers
      <4>2. task' = [task EXCEPT ![c] = p]
        BY <2>2, <1>2 DEF Disconnect, Peers
      <4> QED BY <4>1, <4>2, <1>2
    <3>2. reader' \in [Conns -> ReaderStates]
      <4>1. CASE current # None /\ reader[current] # "done"
        BY <4>1, <2>2, <1>2 DEF Disconnect, ReaderStates
      <4>2. CASE ~(current # None /\ reader[current] # "done")
        BY <4>2, <2>2, <1>2 DEF Disconnect
      <4> QED BY <4>1, <4>2
    <3> QED BY <2>2, <3>1, <3>2, <1>2 DEF Disconnect, TypeInv
  <2>3. CASE Cancelled(c)
    BY <2>3, <1>2 DEF Cancelled, Return, Peers, TypeInv
  <2>4. ASSUME NEW t \in Topics, Subscribe(c, t) PROVE TypeInv'
    <3>1. client \in Conns
      BY <2>4, <1>2 DEF Subscribe, Admitted, Connected
    <3>2. SendAction(c, t, "subscribe")
      BY <2>4 DEF Subscribe, TypeInv
    <3> QED BY <2>4, <3>1, <3>2, <1>2, Sending DEF Subscribe, TypeInv
  <2>5. ASSUME NEW t \in Topics, SubscribeRefused(c, t) PROVE TypeInv'
    BY <2>5, <1>2 DEF SubscribeRefused, TypeInv
  <2>6. ASSUME NEW t \in Topics, SubscribeUnsent(c, t) PROVE TypeInv'
    BY <2>6, <1>2 DEF SubscribeUnsent, TypeInv
  <2>7. ASSUME NEW t \in Topics, Unsubscribe(c, t) PROVE TypeInv'
    <3>1. client \in Conns
      BY <2>7, <1>2 DEF Unsubscribe, Admitted, Connected
    <3>2. SendAction(c, t, "unsubscribe")
      BY <2>7 DEF Unsubscribe, TypeInv
    <3> QED BY <2>7, <3>1, <3>2, <1>2, Sending DEF Unsubscribe, TypeInv
  <2>8. CASE DialSucceeds(c)
    <3>1. PICK k \in Conns : /\ conn' = [conn EXCEPT ![k] = [Closed EXCEPT !.state = "open"]]
                             /\ reader' = [reader EXCEPT ![k] = "reading"]
                             /\ client' = k /\ current' = k
      BY <2>8 DEF DialSucceeds
    <3>2. conn' \in [Conns -> Streams]
      BY <3>1, <1>2, <1>3 DEF ConnStates
    <3> QED BY <2>8, <3>1, <3>2, <1>2 DEF DialSucceeds, Return, ReaderStates, Peers, TypeInv
  <2>9. CASE DialFails(c)
    BY <2>9, <1>2 DEF DialFails, Return, Peers, TypeInv
  <2>10. CASE Answered(c)
    <3>1. task' \in [Tasks -> Peers] /\ pending' \in [Topics -> Tasks \cup {None}]
      BY <2>10, <1>2 DEF Answered, Return
    <3>2. callbacks' \in [Topics -> Tasks \cup {None}]
      BY <2>10, <1>2 DEF Answered
    <3>3. subscribed' \in [Topics -> Tasks \cup {None}]
      BY <2>10, <1>2 DEF Answered
    <3> QED BY <2>10, <3>1, <3>2, <3>3, <1>2 DEF Answered, TypeInv
  <2>11. CASE TimesOut(c)
    BY <2>11, <1>2 DEF TimesOut, Return, Peers, TypeInv
  <2>12. CASE Joined(c)
    <3>1. CASE /\ conn' = [conn EXCEPT ![client] = [Closed EXCEPT !.state = "closing"]]
               /\ task' = [task EXCEPT ![c].at = "shutting", ![c].ref = client]
               /\ UNCHANGED <<client, callbacks, pending>>
      <4> DEFINE p == [task[c] EXCEPT !.at = "shutting", !.ref = client]
      <4>1. p \in Peers
        BY <1>2 DEF Places, Peers
      <4>2. task' = [task EXCEPT ![c] = p]
        BY <3>1, <1>2 DEF Peers
      <4> HIDE DEF p
      <4>3. task' \in [Tasks -> Peers]
        BY <4>1, <4>2, <1>2
      <4>4. conn' \in [Conns -> Streams]
        BY <3>1, <1>2, <1>3 DEF ConnStates
      <4> QED BY <2>12, <3>1, <4>3, <4>4, <1>2 DEF Joined, TypeInv
    <3>2. CASE /\ client' = None /\ callbacks' = Nobody /\ pending' = Nobody
               /\ Return(c) /\ UNCHANGED conn
      BY <2>12, <3>2, <1>2 DEF Joined, Return, TypeInv
    <3> QED BY <2>12, <3>1, <3>2 DEF Joined
  <2>13. CASE Shut(c)
    BY <2>13, <1>2, <1>3 DEF Shut, Return, Peers, TypeInv
  <2>14. CASE ShutCancelled(c)
    BY <2>14, <1>2, <1>3 DEF ShutCancelled, Return, Peers, TypeInv
  <2> QED BY <1>4, <2>1, <2>2, <2>3, <2>4, <2>5, <2>6, <2>7, <2>8, <2>9, <2>10, <2>11,
             <2>12, <2>13, <2>14 DEF Request, TaskStep
<1>5. ASSUME NEW k \in Conns, ReaderStep(k) \/ Answer(k) \/ Publish(k) \/ HangUp(k) PROVE TypeInv'
  <2>1. CASE HandleResult(k)
    <3>1. conn[k].down # <<>>
      BY <2>1 DEF HandleResult, TypeInv
    <3>2. conn' \in [Conns -> Streams]
      BY <2>1, <3>1, Reading DEF HandleResult, TypeInv
    <3>3. task' \in [Tasks -> Peers]
      <4> DEFINE m == Head(conn[k].down)
      <4>1. m.kind \in {"ok", "rejected"}
        BY <2>1 DEF HandleResult
      <4>2. ASSUME NEW c PROVE [task EXCEPT ![c].fut = m.kind] \in [Tasks -> Peers]
        <5> HIDE DEF m
        <5> QED BY <4>1, <1>2 DEF Futures, Peers
      <4> QED BY <2>1, <4>2, <1>2 DEF HandleResult
    <3> QED BY <2>1, <3>2, <3>3, <1>2 DEF HandleResult, TypeInv
  <2>2. CASE HandleEvent(k)
    <3>1. conn[k].down # <<>>
      BY <2>2 DEF HandleEvent, TypeInv
    <3>2. conn' \in [Conns -> Streams]
      BY <2>2, <3>1, Reading DEF HandleEvent, TypeInv
    <3> QED BY <2>2, <3>2, <1>2 DEF HandleEvent, TypeInv
  <2>3. CASE CallbackRaises(k)
    BY <2>3, <1>2, <1>3 DEF CallbackRaises, ConnStates, ReaderStates, TypeInv
  <2>4. CASE ReaderClosed(k)
    BY <2>4, <1>2, <1>3, Dropping DEF ReaderClosed, ReaderStates, TypeInv
  <2>5. CASE ReaderEnds(k)
    BY <2>5, <1>2, <1>3, Dropping DEF ReaderEnds, ReaderStates, TypeInv
  <2>6. CASE ReaderCancelled(k)
    BY <2>6, <1>2, Dropping DEF ReaderCancelled, ReaderStates, TypeInv
  <2>7. CASE CloseAbandoned(k)
    BY <2>7, <1>2, <1>3 DEF CloseAbandoned, ReaderStates, TypeInv
  <2>8. CASE Answer(k)
    BY <2>8, <1>2, Answering DEF Answer, TypeInv
  <2>9. CASE Publish(k)
    <3>1. PICK t \in conn[k].list :
            conn' = [conn EXCEPT ![k].down = Append(@, [kind |-> "event", topic |-> t])]
      BY <2>9 DEF Publish, TypeInv
    <3>2. conn[k] \in Streams /\ conn[k].down \in Seq(Frames) /\ [kind |-> "event", topic |-> t] \in Frames
      BY <1>2 DEF Streams, Frames
    <3>3. Append(conn[k].down, [kind |-> "event", topic |-> t]) \in Seq(Frames)
      BY <3>2, AppendProperties
    <3>4. conn' \in [Conns -> Streams]
      BY <3>1, <3>2, <3>3, <1>2 DEF Streams
    <3> QED BY <2>9, <3>4, <1>2 DEF Publish, TypeInv
  <2>10. CASE HangUp(k)
    <3>1. PICK rest \in {conn[k].down, <<>>} :
            conn' = [conn EXCEPT ![k] = [Closed EXCEPT !.state = "shut", !.down = rest]]
      BY <2>10 DEF HangUp, TypeInv
    <3>2. conn[k].down \in Seq(Frames) /\ <<>> \in Seq(Frames)
      BY <1>2 DEF Streams
    <3>3. rest \in Seq(Frames) /\ "shut" \in ConnStates
      BY <3>2 DEF ConnStates
    <3>4. [Closed EXCEPT !.state = "shut", !.down = rest] \in Streams
      BY <3>3, Clean
    <3> QED BY <2>10, <3>1, <3>4, <1>2 DEF HangUp, TypeInv
  <2> QED BY <1>5, <2>1, <2>2, <2>3, <2>4, <2>5, <2>6, <2>7, <2>8, <2>9, <2>10 DEF ReaderStep
<1> QED BY <1>0, <1>4, <1>5 DEF Next

(* TypeInv holds when the websocket has just been created. *)
LEMMA InitTyped == Init => TypeInv
<1>1. <<>> \in Seq(Frames) /\ "open" \in ConnStates
  BY DEF ConnStates
<1>2. Closed \in Streams
  BY <1>1, Clean
<1> QED BY <1>2, Blank DEF Init, TypeInv, ReaderStates

(* Every variable has its type, whoever calls what. *)
THEOREM TypeCorrect == Spec => []TypeOK
<1>1. TypeInv => TypeOK
  BY DEF TypeInv, TypeOK, Streams, Peers
<1> QED BY <1>1, InitTyped, TypeStep, PTL DEF Spec

----------------------------------------------------------------------------
(* The socket: who holds it, and what its reader is doing. *)
(* The socket of k has not been closed on this side. *)
Up(k) == conn[k].state \in {"open", "shut"}
(* Where a task connects or disconnects. *)
Held == {"dialing", "joining", "shutting"}

(* Who holds the socket: the client and its reader are of one connection,  *)
(* unless that one is closed or closing, and what connect() and            *)
(* disconnect() found still is so when they go on.                         *)
Holders ==
  /\ \A c \in Tasks : task[c].at \in Held => c = Owner
  /\ \A c \in Tasks : task[c].ref # None => task[c].at \in {"joining", "shutting"}
  /\ current # None => client = current
  /\ client # None /\ current = None =>
       task[Owner].at = "shutting" \/ conn[client].state = "closed"
  /\ task[Owner].at = "dialing" => \A k \in Conns : reader[k] \in {"closing", "done"}
  /\ task[Owner].at = "joining" => client # None /\ task[Owner].ref = current
  /\ task[Owner].at = "shutting" =>
       /\ client # None /\ current = None
       /\ task[Owner].ref = client /\ reader[client] = "done"

(* What the reader of k and its socket say of one another: only a reader   *)
(* in its own close() outlasts its connection.                             *)
Socket(k) ==
  /\ k # current => reader[k] \in {"closing", "done"}
  /\ k # client => conn[k].state = "closed" \/ reader[k] = "closing"
  /\ reader[k] \in {"reading", "cancelling"} => Up(k)
  /\ reader[k] \in {"closing", "abandoning"} => conn[k].state = "closing"
  /\ reader[k] \in {"cancelling", "abandoning"} => task[Owner].at = "joining"
  /\ reader[k] = "done" =>
       \/ conn[k].state = "closed"
       \/ task[Owner].at = "joining" /\ Up(k)
       \/ task[Owner].at = "shutting" /\ conn[k].state = "closing"

Core == Holders /\ \A k \in Conns : Socket(k)

(* A step that hands nothing on. *)
Calm ==
  /\ \A j \in Conns : conn'[j].state = conn[j].state
  /\ UNCHANGED <<reader, client, current>>
  /\ \A c \in Tasks :
       /\ task'[c].ref = task[c].ref
       /\ \/ task'[c].at = task[c].at
          \/ task[c].at \notin Held /\ task'[c].at \notin Held

(* A step that touches neither reader nor socket nor the place of a task   *)
(* that connects or disconnects keeps Core.                                *)
LEMMA CalmKeeps == TypeInv /\ Core /\ Calm => Core'
<1> SUFFICES ASSUME TypeInv, Core, Calm PROVE Core'
  OBVIOUS
<1> USE TasksAssumption
<1>1. \A c \in Tasks : \A p \in Held : task'[c].at = p <=> task[c].at = p
  BY DEF Calm, Held
<1>2. Holders'
  <2>1. current' = current /\ client' = client /\ reader' = reader
    BY DEF Calm
  <2>1a. task'[Owner].ref = task[Owner].ref
    BY DEF Calm
  <2>2. \A c \in Tasks : task'[c].at \in Held => c = Owner
    BY <1>1 DEF Core, Holders, Calm, Held
  <2>3. ASSUME NEW c \in Tasks, task'[c].ref # None PROVE task'[c].at \in {"joining", "shutting"}
    <3>1. task[c].ref # None
      BY <2>3 DEF Calm
    <3>2. task[c].at \in {"joining", "shutting"}
      BY <3>1 DEF Core, Holders
    <3> QED BY <3>2, <1>1 DEF Held
  <2>4. \A p \in Held : task'[Owner].at = p <=> task[Owner].at = p
    BY <1>1
  <2>5. "dialing" \in Held /\ "joining" \in Held /\ "shutting" \in Held
    BY DEF Held
  <2>6. client' # None => client \in Conns /\ conn'[client].state = conn[client].state
    BY <2>1 DEF Calm, TypeInv
  <2> QED BY <2>1, <2>1a, <2>2, <2>3, <2>4, <2>5, <2>6 DEF Core, Holders
<1>3. ASSUME NEW k \in Conns PROVE Socket(k)'
  BY <1>1 DEF Core, Socket, Calm, Up, Held
<1> QED BY <1>2, <1>3 DEF Core

(* _send_action() changes no state of a connection and one task. *)
LEMMA SendKeepsStates ==
  ASSUME TypeInv, NEW c \in Tasks, NEW t \in Topics, NEW kind \in {"subscribe", "unsubscribe"},
         client \in Conns, SendAction(c, t, kind)
  PROVE  /\ \A j \in Conns : conn'[j].state = conn[j].state
         /\ \A d \in Tasks : d # c => task'[d] = task[d]
         /\ task'[c].topic = t /\ task'[c].fut = "waiting" /\ task'[c].ref = None
         /\ kind = "subscribe" => task'[c].at = "subscribing"
         /\ kind = "unsubscribe" => task'[c].at = "unsubscribing"
<1> DEFINE place == IF kind = "subscribe" THEN "subscribing" ELSE "unsubscribing"
<1>1. \A j \in Conns : conn'[j].state = conn[j].state
  BY DEF SendAction, TypeInv, Streams
<1>2. task' = [task EXCEPT ![c] = [Idle EXCEPT !.topic = t, !.fut = "waiting", !.at = place]]
  BY DEF SendAction
<1>3. /\ kind = "subscribe" => place = "subscribing"
      /\ kind = "unsubscribe" => place = "unsubscribing"
  OBVIOUS
<1> HIDE DEF place
<1>4. task'[c] = [Idle EXCEPT !.topic = t, !.fut = "waiting", !.at = place]
      /\ \A d \in Tasks : d # c => task'[d] = task[d]
  BY <1>2 DEF TypeInv
<1>5. \A q : q = [Idle EXCEPT !.topic = t, !.fut = "waiting", !.at = place]
        => q.topic = t /\ q.fut = "waiting" /\ q.at = place /\ q.ref = None
  BY DEF Idle
<1> QED BY <1>1, <1>3, <1>4, <1>5

(* The reader's last lines move no task: they fail the pending futures. *)
LEMMA DropKeepsPlaces ==
  ASSUME TypeInv, DropSubscriptions
  PROVE  \A c \in Tasks :
           /\ task'[c].at = task[c].at /\ task'[c].ref = task[c].ref /\ task'[c].topic = task[c].topic
           /\ task'[c].fut = IF task[c].fut = "waiting" /\ \E t \in Topics : pending[t] = c
                               THEN "lost" ELSE task[c].fut
BY DEF DropSubscriptions, TypeInv, Peers

(* A result moves no task: it resolves a future. *)
LEMMA ResultKeepsPlaces ==
  ASSUME TypeInv, NEW k \in Conns, HandleResult(k)
  PROVE  \A c \in Tasks :
           task'[c].at = task[c].at /\ task'[c].ref = task[c].ref /\ task'[c].topic = task[c].topic
<1>1. ASSUME NEW d, NEW kind, task' = [task EXCEPT ![d].fut = kind], NEW c \in Tasks
      PROVE  task'[c].at = task[c].at /\ task'[c].ref = task[c].ref /\ task'[c].topic = task[c].topic
  BY <1>1 DEF TypeInv, Peers
<1>2. task' = task \/ \E d, kind : task' = [task EXCEPT ![d].fut = kind]
  BY DEF HandleResult
<1> QED BY <1>1, <1>2

(* A method that returns leaves its task idle. *)
LEMMA ReturnIdles ==
  ASSUME TypeInv, NEW c \in Tasks, Return(c)
  PROVE  /\ task'[c].at = "idle" /\ task'[c].fut = "none" /\ task'[c].ref = None /\ task'[c].topic = None
         /\ \A d \in Tasks : d # c => task'[d] = task[d]
BY DEF Return, Idle, TypeInv

(* Core is inductive: connect(), disconnect() and the reader hand the      *)
(* socket on without losing it.                                            *)
LEMMA CoreStep == TypeInv /\ Core /\ [Next]_vars => Core'
<1> SUFFICES ASSUME TypeInv, Core, [Next]_vars PROVE Core'
  OBVIOUS
<1> USE TasksAssumption, NoneAssumption
<1>0. CASE UNCHANGED vars
  <2>1. Calm
    BY <1>0 DEF vars, Calm
  <2> QED BY <2>1, CalmKeeps
<1>2. /\ conn \in [Conns -> Streams]
      /\ reader \in [Conns -> ReaderStates]
      /\ client \in Conns \cup {None} /\ current \in Conns \cup {None}
      /\ task \in [Tasks -> Peers]
  BY DEF TypeInv
<1>c. \A s \in ConnStates : [Closed EXCEPT !.state = s].state = s
  BY DEF Closed
<1>3. ASSUME NEW c \in Tasks, Waiting(c), Return(c), UNCHANGED <<conn, reader, client, current>>
      PROVE  Core'
  <2>1. Calm
    BY <1>3, ReturnIdles DEF Calm, Waiting, Held, Core, Holders
  <2> QED BY <2>1, CalmKeeps
<1>4. ASSUME NEW c \in Tasks, NEW t \in Topics, NEW kind \in {"subscribe", "unsubscribe"}, task[c].at = "idle",
             Connected, SendAction(c, t, kind), UNCHANGED <<reader, client, current>>
      PROVE  Core'
  <2>1. client \in Conns
    BY <1>4, <1>2 DEF Connected
  <2>2. Calm
    BY <1>4, <2>1, SendKeepsStates DEF Calm, Held, Core, Holders
  <2> QED BY <2>2, CalmKeeps
<1>5. ASSUME NEW c \in Tasks, Request(c) \/ TaskStep(c) PROVE Core'
  <2>1. CASE Connect(c)
    <3>1. /\ task[c].at = "idle" /\ task'[c].at = "dialing" /\ task'[c].ref = task[c].ref
          /\ \A d \in Tasks : d # c => task'[d] = task[d]
      BY <2>1, <1>2 DEF Connect, Peers
    <3>2. c = Owner /\ ~Connected /\ UNCHANGED <<conn, reader, client, current>>
      BY <2>1 DEF Connect
    <3>5. \A k \in Conns : reader[k] \in {"closing", "done"}
      BY <3>1, <3>2, <1>2 DEF Core, Holders, Socket, Up, Connected, ReaderStates
    <3>3. Holders'
      BY <3>1, <3>2, <3>5 DEF Core, Holders, Held
    <3>4. \A k \in Conns : Socket(k)'
      BY <3>1, <3>2 DEF Core, Socket, Up
    <3> QED BY <3>3, <3>4 DEF Core
  <2>2. CASE Disconnect(c)
    <3>1. /\ task[c].at = "idle" /\ task'[c].at = "joining" /\ task'[c].ref = current
          /\ \A d \in Tasks : d # c => task'[d] = task[d]
      <4> DEFINE p == [task[c] EXCEPT !.at = "joining", !.ref = current]
      <4>1. p.at = "joining" /\ p.ref = current
        BY <1>2 DEF Peers
      <4>2. task' = [task EXCEPT ![c] = p] /\ task[c].at = "idle"
        BY <2>2, <1>2 DEF Disconnect, Peers
      <4> QED BY <4>1, <4>2, <1>2
    <3>2. c = Owner /\ (current # None \/ client # None) /\ UNCHANGED <<conn, client, current>>
      BY <2>2 DEF Disconnect
    <3>3. /\ \A k \in Conns : k # current => reader'[k] = reader[k]
          /\ current # None =>
               /\ current \in Conns /\ reader[current] \in ReaderStates
               /\ reader[current] = "done" => reader'[current] = "done"
               /\ reader[current] = "closing" => reader'[current] = "abandoning"
               /\ reader[current] \notin {"closing", "done"} => reader'[current] = "cancelling"
      BY <2>2, <3>1, <3>2, <1>2 DEF Disconnect
    <3>4. Holders'
      BY <3>1, <3>2, <3>3 DEF Core, Holders, Held
    <3>6. \A k \in Conns : Socket(k)'
      BY <3>1, <3>2, <3>3 DEF Core, Socket, Holders, Up, ReaderStates
    <3> QED BY <3>4, <3>6 DEF Core
  <2>3. CASE Cancelled(c)
    BY <2>3, <1>3 DEF Cancelled
  <2>4. ASSUME NEW t \in Topics, Subscribe(c, t) PROVE Core'
    BY <2>4, <1>4 DEF Subscribe, Admitted
  <2>5. ASSUME NEW t \in Topics, SubscribeRefused(c, t) \/ SubscribeUnsent(c, t) PROVE Core'
    <3>1. Calm
      BY <2>5 DEF SubscribeRefused, SubscribeUnsent, Calm
    <3> QED BY <3>1, CalmKeeps
  <2>7. ASSUME NEW t \in Topics, Unsubscribe(c, t) PROVE Core'
    BY <2>7, <1>4 DEF Unsubscribe, Admitted
  <2>8. CASE DialSucceeds(c)
    <3>1. PICK k \in Conns : /\ Free(k)
                             /\ conn' = [conn EXCEPT ![k] = [Closed EXCEPT !.state = "open"]]
                             /\ reader' = [reader EXCEPT ![k] = "reading"]
                             /\ client' = k /\ current' = k
      BY <2>8 DEF DialSucceeds
    <3>2. /\ conn'[k].state = "open" /\ reader'[k] = "reading"
          /\ \A j \in Conns : j # k => conn'[j] = conn[j] /\ reader'[j] = reader[j]
      BY <3>1, <1>2, <1>c DEF ConnStates
    <3>3. task[c].at = "dialing" /\ c = Owner /\ Return(c)
      BY <2>8 DEF DialSucceeds, Core, Holders, Held
    <3>4. Holders'
      BY <3>1, <3>3, ReturnIdles DEF Core, Holders, Held
    <3>5. \A j \in Conns :
            <<conn[j].state, reader[j]>> \in {<<"closed", "done">>, <<"closing", "closing">>}
      BY <3>3, <1>2 DEF Core, Holders, Socket
    <3>6. \A j \in Conns : Socket(j)'
      BY <3>1, <3>2, <3>3, <3>5, ReturnIdles DEF Socket, Up
    <3> QED BY <3>4, <3>6 DEF Core
  <2>9. CASE DialFails(c)
    <3>1. task[c].at = "dialing" /\ c = Owner /\ Return(c) /\ UNCHANGED <<conn, reader, client, current>>
      BY <2>9 DEF DialFails, Core, Holders, Held
    <3>2. Holders'
      BY <3>1, ReturnIdles DEF Core, Holders, Held
    <3>3. \A j \in Conns : Socket(j)'
      BY <3>1, ReturnIdles DEF Core, Socket, Up
    <3> QED BY <3>2, <3>3 DEF Core
  <2>10. CASE Answered(c)
    BY <2>10, <1>3 DEF Answered
  <2>11. CASE TimesOut(c)
    BY <2>11, <1>3 DEF TimesOut
  <2>12. CASE Joined(c)
    <3>1. /\ task[c].at = "joining" /\ c = Owner /\ task[c].ref = current /\ client \in Conns
          /\ current # None => client = current /\ reader[client] = "done"
          /\ current = None => conn[client].state = "closed"
          /\ current' = None /\ reader' = reader
      BY <2>12, <1>2 DEF Joined, Core, Holders, Held, Stopped
    <3>0. reader[client] = "done"
      BY <3>1, <1>2 DEF Core, Socket, Up
    <3>2. CASE conn[client].state \in {"open", "shut"}
      <4>1. /\ conn' = [conn EXCEPT ![client] = [Closed EXCEPT !.state = "closing"]]
            /\ task' = [task EXCEPT ![c].at = "shutting", ![c].ref = client]
            /\ client' = client
        BY <2>12, <3>1, <3>2 DEF Joined
      <4>2. /\ task'[c].at = "shutting" /\ task'[c].ref = client
            /\ \A d \in Tasks : d # c => task'[d] = task[d]
        <5> DEFINE p == [task[c] EXCEPT !.at = "shutting", !.ref = client]
        <5>1. p.at = "shutting" /\ p.ref = client
          BY <1>2 DEF Peers
        <5>2. task' = [task EXCEPT ![c] = p]
          BY <4>1, <1>2 DEF Peers
        <5> QED BY <5>1, <5>2, <1>2
      <4>3. /\ conn'[client].state = "closing"
            /\ \A j \in Conns : j # client => conn'[j] = conn[j]
        BY <4>1, <3>1, <1>2, <1>c DEF ConnStates
      <4>4. Holders'
        BY <3>0, <3>1, <4>1, <4>2 DEF Core, Holders, Held
      <4>5. \A j \in Conns : Socket(j)'
        BY <3>0, <3>1, <4>1, <4>2, <4>3 DEF Core, Socket, Up
      <4> QED BY <4>4, <4>5 DEF Core
    <3>3. CASE conn[client].state \notin {"open", "shut"}
      <4>1. client' = None /\ conn' = conn /\ Return(c)
        BY <2>12, <3>1, <3>3 DEF Joined
      <4>2. conn[client].state = "closed"
        BY <3>0, <3>1, <3>3 DEF Core, Socket, Up
      <4>3. Holders'
        BY <3>1, <4>1, ReturnIdles DEF Core, Holders, Held
      <4>4. \A j \in Conns : Socket(j)'
        BY <3>0, <3>1, <4>1, <4>2, ReturnIdles DEF Core, Socket, Up
      <4> QED BY <4>3, <4>4 DEF Core
    <3> QED BY <3>2, <3>3
  <2>13. CASE Shut(c) \/ ShutCancelled(c)
    <3>1. /\ task[c].at = "shutting" /\ c = Owner /\ task[c].ref = client /\ current = None
          /\ client \in Conns /\ reader[client] = "done" /\ Return(c)
          /\ client' \in {client, None} /\ UNCHANGED <<reader, current>>
          /\ conn' = [conn EXCEPT ![client] = Closed]
      BY <2>13, <1>2 DEF Shut, ShutCancelled, Core, Holders, Held
    <3>2. /\ conn'[client].state = "closed"
          /\ \A j \in Conns : j # client => conn'[j] = conn[j]
      BY <3>1, <1>2 DEF Closed
    <3>3. Holders'
      BY <3>1, <3>2, ReturnIdles DEF Core, Holders, Held
    <3>4. \A j \in Conns : Socket(j)'
      BY <3>1, <3>2, ReturnIdles DEF Core, Socket, Up
    <3> QED BY <3>3, <3>4 DEF Core
  <2> QED BY <1>5, <2>1, <2>2, <2>3, <2>4, <2>5, <2>7, <2>8, <2>9, <2>10, <2>11,
             <2>12, <2>13 DEF Request, TaskStep
<1>6. ASSUME NEW k \in Conns, NEW d, conn' = [conn EXCEPT ![k].down = d],
             UNCHANGED <<reader, client, current>>,
             \A c \in Tasks : task'[c].at = task[c].at /\ task'[c].ref = task[c].ref
      PROVE  Core'
  <2>1. Calm
    BY <1>6, <1>2 DEF Calm, Streams
  <2> QED BY <2>1, CalmKeeps
<1>7. ASSUME NEW k \in Conns, reader[k] # "done", reader'[k] = "done", conn'[k].state = "closed",
             \A j \in Conns : j # k => conn'[j] = conn[j] /\ reader'[j] = reader[j],
             UNCHANGED <<client, current>>,
             \A c \in Tasks : task'[c].at = task[c].at /\ task'[c].ref = task[c].ref
      PROVE  Core'
  <2>1. Holders'
    BY <1>7, <1>2 DEF Core, Holders, Held
  <2>2. \A j \in Conns : Socket(j)'
    BY <1>7, <1>2 DEF Core, Socket, Up
  <2> QED BY <2>1, <2>2 DEF Core
<1>8. ASSUME NEW k \in Conns, ReaderStep(k) \/ Answer(k) \/ Publish(k) \/ HangUp(k) PROVE Core'
  <2>0. Closed.state = "closed"
    BY DEF Closed
  <2>1. CASE HandleResult(k)
    <3>1. \A c \in Tasks : task'[c].at = task[c].at /\ task'[c].ref = task[c].ref
      BY <2>1, ResultKeepsPlaces
    <3> QED BY <2>1, <3>1, <1>6 DEF HandleResult
  <2>2. CASE HandleEvent(k)
    BY <2>2, <1>6 DEF HandleEvent
  <2>3. CASE CallbackRaises(k)
    <3>1. conn'[k].state = "closing" /\ reader'[k] = "closing" /\ reader[k] = "reading"
          /\ \A j \in Conns : j # k => conn'[j] = conn[j] /\ reader'[j] = reader[j]
      BY <2>3, <1>2, <1>c DEF CallbackRaises, ConnStates
    <3>2. UNCHANGED <<client, current, task>>
      BY <2>3 DEF CallbackRaises
    <3>3. Holders'
      BY <3>1, <3>2, <1>2 DEF Core, Holders, Held, Socket
    <3>4. \A j \in Conns : Socket(j)'
      BY <3>1, <3>2, <1>2 DEF Core, Socket, Up
    <3> QED BY <3>3, <3>4 DEF Core
  <2>4. CASE ReaderClosed(k)
    <3>1. conn'[k].state = "closed" /\ reader'[k] = "done" /\ reader[k] = "closing"
          /\ \A j \in Conns : j # k => conn'[j] = conn[j] /\ reader'[j] = reader[j]
      BY <2>4, <1>2, <2>0 DEF ReaderClosed
    <3>2. UNCHANGED <<client, current>> /\ DropSubscriptions
      BY <2>4 DEF ReaderClosed
    <3>3. \A c \in Tasks : task'[c].at = task[c].at /\ task'[c].ref = task[c].ref
      BY <3>2, DropKeepsPlaces
    <3> QED BY <3>1, <3>2, <3>3, <1>7
  <2>5. CASE ReaderEnds(k)
    <3>1. conn'[k].state = "closed" /\ reader'[k] = "done" /\ reader[k] = "reading"
          /\ \A j \in Conns : j # k => conn'[j] = conn[j] /\ reader'[j] = reader[j]
      BY <2>5, <1>2, <2>0 DEF ReaderEnds
    <3>2. UNCHANGED <<client, current>> /\ DropSubscriptions
      BY <2>5 DEF ReaderEnds
    <3>3. \A c \in Tasks : task'[c].at = task[c].at /\ task'[c].ref = task[c].ref
      BY <3>2, DropKeepsPlaces
    <3> QED BY <3>1, <3>2, <3>3, <1>7
  <2>6. CASE ReaderCancelled(k)
    <3>1. /\ reader'[k] = "done" /\ reader[k] = "cancelling" /\ conn' = conn
          /\ \A j \in Conns : j # k => reader'[j] = reader[j]
          /\ UNCHANGED <<client, current>>
          /\ \A c \in Tasks : task'[c].at = task[c].at /\ task'[c].ref = task[c].ref
      BY <2>6, <1>2, DropKeepsPlaces DEF ReaderCancelled
    <3>2. Holders'
      BY <3>1, <1>2 DEF Core, Holders, Held
    <3>3. \A j \in Conns : Socket(j)'
      BY <3>1, <1>2 DEF Core, Socket, Up
    <3> QED BY <3>2, <3>3 DEF Core
  <2>7. CASE CloseAbandoned(k)
    <3>1. conn'[k].state = "closed" /\ reader'[k] = "done" /\ reader[k] = "abandoning"
          /\ \A j \in Conns : j # k => conn'[j] = conn[j] /\ reader'[j] = reader[j]
      BY <2>7, <1>2, <2>0 DEF CloseAbandoned
    <3>2. UNCHANGED <<client, current, task>>
      BY <2>7 DEF CloseAbandoned
    <3> QED BY <3>1, <3>2, <1>7
  <2>8. CASE Answer(k)
    <3>1. \A j \in Conns : conn'[j].state = conn[j].state
      <4>1. PICK r, l : conn' = [conn EXCEPT ![k].up = Tail(@), ![k].down = @ \o r, ![k].list = l]
        BY <2>8 DEF Answer
      <4>3. conn'[k].state = conn[k].state
        BY <4>1, <1>2 DEF Streams
      <4> QED BY <4>1, <4>3, <1>2
    <3>2. Calm
      BY <2>8, <3>1 DEF Answer, Calm
    <3> QED BY <3>2, CalmKeeps
  <2>9. CASE Publish(k)
    BY <2>9, <1>6 DEF Publish
  <2>10. CASE HangUp(k)
    <3>1. \A d : [Closed EXCEPT !.state = "shut", !.down = d].state = "shut"
      BY DEF Closed
    <3>2. /\ conn[k].state = "open" /\ conn'[k].state = "shut"
          /\ \A j \in Conns : j # k => conn'[j] = conn[j]
          /\ UNCHANGED <<reader, client, current, task>>
      BY <2>10, <3>1, <1>2 DEF HangUp
    <3>3. Holders'
      BY <3>2, <1>2 DEF Core, Holders, Held
    <3>4. \A j \in Conns : Socket(j)'
      BY <3>2 DEF Core, Socket, Up
    <3> QED BY <3>3, <3>4 DEF Core
  <2> QED BY <1>8, <2>1, <2>2, <2>3, <2>4, <2>5, <2>6, <2>7, <2>8, <2>9, <2>10 DEF ReaderStep
<1> QED BY <1>0, <1>5, <1>8 DEF Next

----------------------------------------------------------------------------
(* Requests, and what disconnect() leaves of them. *)
(* Without a client nothing is registered and nothing pending. *)
Emptied == client = None => callbacks = Nobody /\ pending = Nobody

(* A task that waits has a future, for a topic it uses. *)
Request1(c) ==
  /\ Waiting(c) => <<c, task[c].topic>> \in Uses
  /\ task[c].fut # "none" <=> Waiting(c)

(* What is pending belongs to a task that waits for it. *)
Requests ==
  /\ \A c \in Tasks : Request1(c)
  /\ \A t \in Topics : pending[t] # None =>
        Waiting(pending[t]) /\ task[pending[t]].topic = t

(* The future c waits for is resolved. *)
Resolves(c) ==
  /\ task[c].fut = "waiting" /\ \E t \in Topics : pending[t] = c
  /\ task'[c].fut \in {"ok", "rejected", "lost"}

(* Futures are resolved; no request begins or ends. *)
Settled ==
  /\ pending' = pending \/ (pending' = Nobody /\ client' = None)
  /\ \A c \in Tasks : ~Waiting(c) => ~Waiting(c)' /\ task'[c].fut = "none"
  /\ \A c \in Tasks : Waiting(c) => /\ task'[c].at = task[c].at
                                    /\ task'[c].topic = task[c].topic
                                    /\ task'[c].fut = task[c].fut \/ Resolves(c)

(* The request of c ends, and pops what is pending for its topic. *)
Ended(c) ==
  /\ Waiting(c) /\ Return(c)
  /\ pending' = [pending EXCEPT ![task[c].topic] = None]

(* c begins a request for t. *)
Begun(c, t) ==
  /\ pending[t] = None /\ pending' = [pending EXCEPT ![t] = c]
  /\ <<c, t>> \in Uses /\ ~Waiting(c)
  /\ Connected /\ UNCHANGED <<reader, client, current>>
  /\ \A d \in Tasks : d # c => task'[d] = task[d]
  /\ task'[c].topic = t /\ task'[c].fut = "waiting"
  /\ task'[c].at \in {"subscribing", "unsubscribing"}

(* Steps that only resolve futures keep Requests. *)
LEMMA SettledKeeps == TypeInv /\ Requests /\ Settled => Requests'
<1> SUFFICES ASSUME TypeInv, Requests, Settled PROVE Requests'
  OBVIOUS
<1>1. ASSUME NEW c \in Tasks PROVE Request1(c)'
  <2>1. Request1(c)
    BY DEF Requests
  <2>2. CASE Waiting(c)
    <3>1. Waiting(c)'
      BY <2>2 DEF Settled, Waiting
    <3>2. task[c].fut # "none"
      BY <2>1, <2>2 DEF Request1
    <3>3. task'[c].topic = task[c].topic /\ task'[c].fut # "none"
      BY <2>2, <3>2 DEF Settled, Resolves
    <3> QED BY <2>1, <2>2, <3>1, <3>3 DEF Request1
  <2>3. CASE ~Waiting(c)
    BY <2>3 DEF Settled, Request1
  <2> QED BY <2>2, <2>3
<1>2. ASSUME NEW t \in Topics, pending'[t] # None
      PROVE  Waiting(pending[t])' /\ task'[pending'[t]].topic = t /\ pending'[t] = pending[t]
  <2>1. pending'[t] = pending[t]
    BY <1>2 DEF Settled, Nobody
  <2>2. pending[t] \in Tasks /\ Waiting(pending[t]) /\ task[pending[t]].topic = t
    BY <2>1, <1>2 DEF TypeInv, Requests
  <2>3. ASSUME NEW c \in Tasks, c = pending[t] PROVE Waiting(c)' /\ task'[c].topic = t
    BY <2>2, <2>3 DEF Settled, Waiting
  <2> QED BY <2>1, <2>2, <2>3 DEF Waiting
<1>3. \A t \in Topics : pending'[t] # None => Waiting(pending[t])' /\ task'[pending'[t]].topic = t
  BY <1>2
<1> QED BY <1>1, <1>2, <1>3 DEF Requests, Waiting

(* A request that ends keeps Requests. *)
LEMMA EndedKeeps == ASSUME TypeInv, Requests, NEW c \in Tasks, Ended(c) PROVE Requests'
<1> USE TasksAssumption, NoneAssumption
<1>1. /\ Waiting(c) /\ ~Waiting(c)' /\ task'[c].fut = "none"
      /\ \A d \in Tasks : d # c => task'[d] = task[d]
  BY ReturnIdles DEF Ended, Waiting
<1>2. \A d \in Tasks : Request1(d)'
  BY <1>1 DEF Request1, Requests, Waiting
<1>3. ASSUME NEW t \in Topics, pending'[t] # None
      PROVE  (task'[pending'[t]].at \in {"subscribing", "unsubscribing"}) /\ task'[pending'[t]].topic = t
  <2>1. task[c].topic # t /\ pending'[t] = pending[t] /\ pending[t] \in Tasks
    BY <1>3 DEF Ended, TypeInv
  <2>2. Waiting(pending[t]) /\ task[pending[t]].topic = t
    BY <2>1, <1>3 DEF Requests
  <2>3. pending[t] # c
    BY <2>1, <2>2
  <2> QED BY <2>1, <2>2, <2>3, <1>1 DEF Waiting
<1> QED BY <1>2, <1>3 DEF Requests, Waiting

(* A request that begins keeps Requests. *)
LEMMA BegunKeeps == ASSUME TypeInv, Requests, NEW c \in Tasks, NEW t \in Topics, Begun(c, t)
                    PROVE  Requests'
<1> USE TasksAssumption, NoneAssumption
<1>1. \A d \in Tasks : Request1(d)'
  BY DEF Begun, Request1, Requests, Waiting
<1>3. ASSUME NEW u \in Topics, pending'[u] # None
      PROVE  (task'[pending'[u]].at \in {"subscribing", "unsubscribing"}) /\ task'[pending'[u]].topic = u
  <2>1. CASE u = t
    BY <2>1 DEF Begun, TypeInv
  <2>2. CASE u # t
    <3>1. pending'[u] = pending[u] /\ pending[u] \in Tasks
      BY <2>2, <1>3 DEF Begun, TypeInv
    <3>2. Waiting(pending[u]) /\ task[pending[u]].topic = u
      BY <3>1, <1>3 DEF Requests
    <3>3. pending[u] # c
      BY <3>2 DEF Begun
    <3> QED BY <3>1, <3>2, <3>3 DEF Waiting, Begun
  <2> QED BY <2>1, <2>2
<1> QED BY <1>1, <1>3 DEF Requests, Waiting

(* subscribe() and unsubscribe() begin a request while connected. *)
LEMMA SendsBegin ==
  ASSUME TypeInv, NEW c \in Tasks, NEW t \in Topics, Subscribe(c, t) \/ Unsubscribe(c, t)
  PROVE  Begun(c, t)
<1> USE NoneAssumption
<1>1. ASSUME Subscribe(c, t) PROVE Begun(c, t)
  <2>1. client \in Conns /\ pending[t] = None /\ SendAction(c, t, "subscribe")
        /\ <<c, t>> \in Uses /\ task[c].at = "idle" /\ Connected /\ UNCHANGED <<reader, client, current>>
    BY <1>1 DEF Subscribe, Admitted, Connected, TypeInv
  <2>2. pending' = [pending EXCEPT ![t] = c]
    BY <2>1 DEF SendAction
  <2> QED BY <2>1, <2>2, SendKeepsStates DEF Begun, Waiting
<1>2. ASSUME Unsubscribe(c, t) PROVE Begun(c, t)
  <2>1. client \in Conns /\ pending[t] = None /\ SendAction(c, t, "unsubscribe")
        /\ <<c, t>> \in Uses /\ task[c].at = "idle" /\ Connected /\ UNCHANGED <<reader, client, current>>
    BY <1>2, TasksAssumption DEF Unsubscribe, Admitted, Connected, TypeInv
  <2>2. pending' = [pending EXCEPT ![t] = c]
    BY <2>1 DEF SendAction
  <2> QED BY <2>1, <2>2, SendKeepsStates DEF Begun, Waiting
<1> QED BY <1>1, <1>2

(* All the other steps but the ends of a request only resolve futures. *)
LEMMA OthersSettle ==
  ASSUME TypeInv, Core, Requests, [Next]_vars
  PROVE  \/ Settled
         \/ \E c \in Tasks : Answered(c) \/ TimesOut(c) \/ Cancelled(c)
         \/ \E c \in Tasks, t \in Topics : Subscribe(c, t) \/ Unsubscribe(c, t)
<1> USE TasksAssumption, NoneAssumption
<1>1. /\ task \in [Tasks -> Peers]
      /\ \A c \in Tasks : Request1(c)
  BY DEF TypeInv, Requests
<1>2. ASSUME pending' = pending, task' = task PROVE Settled
  BY <1>2, <1>1 DEF Settled, Waiting, Request1
<1>3. ASSUME NEW c \in Tasks, ~Waiting(c), task'[c].fut = "none",
             task'[c].at \notin {"subscribing", "unsubscribing"},
             \A d \in Tasks : d # c => task'[d] = task[d],
             pending' = pending \/ (pending' = Nobody /\ client' = None)
      PROVE  Settled
  BY <1>3, <1>1 DEF Settled, Waiting, Request1
<1>4. ASSUME pending' = pending,
             \A c \in Tasks : /\ task'[c].at = task[c].at /\ task'[c].topic = task[c].topic
                              /\ \/ task'[c].fut = task[c].fut
                                 \/ Resolves(c)
      PROVE  Settled
  BY <1>4, <1>1 DEF Settled, Waiting, Request1, Resolves
<1>5. ASSUME NEW c \in Tasks, Request(c) \/ TaskStep(c)
      PROVE  \/ Settled
             \/ Answered(c) \/ TimesOut(c) \/ Cancelled(c)
             \/ \E t \in Topics : Subscribe(c, t) \/ Unsubscribe(c, t)
  <2>1. CASE Connect(c)
    <3>1. task' = [task EXCEPT ![c].at = "dialing"] /\ task[c].at = "idle" /\ pending' = pending
      BY <2>1 DEF Connect
    <3>2. task'[c].at = "dialing" /\ task'[c].fut = task[c].fut /\ \A d \in Tasks : d # c => task'[d] = task[d]
      BY <3>1, <1>1 DEF Peers
    <3>3. ~Waiting(c) /\ task[c].fut = "none"
      BY <3>1, <1>1 DEF Waiting, Request1
    <3> QED BY <3>1, <3>2, <3>3, <1>3
  <2>2. CASE Disconnect(c)
    <3>1. /\ task'[c].at = "joining" /\ task'[c].fut = task[c].fut /\ task[c].at = "idle"
          /\ \A d \in Tasks : d # c => task'[d] = task[d]
      <4> DEFINE p == [task[c] EXCEPT !.at = "joining", !.ref = current]
      <4>1. p.at = "joining" /\ p.fut = task[c].fut
        BY <1>1 DEF Peers
      <4>2. task' = [task EXCEPT ![c] = p] /\ task[c].at = "idle"
        BY <2>2, <1>1 DEF Disconnect, Peers
      <4> QED BY <4>1, <4>2, <1>1
    <3>2. ~Waiting(c) /\ task[c].fut = "none" /\ pending' = pending
      BY <2>2, <3>1, <1>1 DEF Waiting, Request1, Disconnect
    <3> QED BY <3>1, <3>2, <1>3
  <2>5. ASSUME NEW t \in Topics, SubscribeRefused(c, t) \/ SubscribeUnsent(c, t) PROVE Settled
    BY <2>5, <1>2 DEF SubscribeRefused, SubscribeUnsent
  <2>8. CASE DialSucceeds(c)
    <3>1. task[c].at = "dialing" /\ Return(c) /\ pending' = pending
      BY <2>8 DEF DialSucceeds
    <3> QED BY <3>1, <1>3, ReturnIdles DEF Waiting
  <2>9. CASE DialFails(c)
    <3>1. task[c].at = "dialing" /\ Return(c) /\ pending' = pending
      BY <2>9 DEF DialFails
    <3> QED BY <3>1, <1>3, ReturnIdles DEF Waiting
  <2>12. CASE Joined(c)
    <3>1. task[c].at = "joining" /\ (pending' = pending \/ (pending' = Nobody /\ client' = None))
      BY <2>12 DEF Joined
    <3>2. CASE Return(c)
      BY <3>1, <3>2, <1>3, ReturnIdles DEF Waiting
    <3>3. CASE task' = [task EXCEPT ![c].at = "shutting", ![c].ref = client]
      <4>1. /\ task'[c].at = "shutting" /\ task'[c].fut = task[c].fut
            /\ \A d \in Tasks : d # c => task'[d] = task[d]
        <5> DEFINE p == [task[c] EXCEPT !.at = "shutting", !.ref = client]
        <5>1. p.at = "shutting" /\ p.fut = task[c].fut
          BY <1>1 DEF Peers
        <5>2. task' = [task EXCEPT ![c] = p]
          BY <3>3, <1>1 DEF Peers
        <5> QED BY <5>1, <5>2, <1>1
      <4> QED BY <3>1, <4>1, <1>1, <1>3 DEF Waiting, Request1
    <3> QED BY <2>12, <3>2, <3>3 DEF Joined
  <2>13. CASE Shut(c) \/ ShutCancelled(c)
    <3>1. /\ task[c].at = "shutting" /\ Return(c)
          /\ pending' = pending \/ (pending' = Nobody /\ client' = None)
      BY <2>13 DEF Shut, ShutCancelled
    <3> QED BY <3>1, <1>3, ReturnIdles DEF Waiting
  <2> QED BY <1>5, <2>1, <2>2, <2>5, <2>8, <2>9, <2>12, <2>13 DEF Request, TaskStep
<1>6. ASSUME NEW k \in Conns, ReaderStep(k) \/ Answer(k) \/ Publish(k) \/ HangUp(k) PROVE Settled
  <2>1. CASE HandleResult(k)
    <3> DEFINE m == Head(conn[k].down)
    <3>0. m.topic \in Topics
      BY <2>1, Reading DEF HandleResult, Frames
    <3>1. m.kind \in {"ok", "rejected"} /\ pending' = pending
          /\ task' = IF pending[m.topic] # None /\ task[pending[m.topic]].fut = "waiting"
               THEN [task EXCEPT ![pending[m.topic]].fut = m.kind] ELSE task
      BY <2>1 DEF HandleResult
    <3> HIDE DEF m
    <3>2. ASSUME NEW c \in Tasks
          PROVE  /\ task'[c].at = task[c].at /\ task'[c].topic = task[c].topic
                 /\ \/ task'[c].fut = task[c].fut
                    \/ Resolves(c)
      <4>1. CASE pending[m.topic] = c /\ task[c].fut = "waiting"
        BY <3>1, <3>0, <4>1, <1>1 DEF Peers, Resolves
      <4>2. CASE ~(pending[m.topic] = c /\ task[c].fut = "waiting")
        BY <3>1, <4>2, <1>1 DEF Peers
      <4> QED BY <4>1, <4>2
    <3> QED BY <3>1, <3>2, <1>4
  <2>4. CASE pending' = pending /\ DropSubscriptions
    BY <2>4, <1>4, DropKeepsPlaces DEF Resolves
  <2>5. CASE pending' = pending /\ task' = task
    BY <2>5, <1>2
  <2> QED BY <1>6, <2>1, <2>4, <2>5 DEF ReaderStep, HandleEvent, CallbackRaises, ReaderClosed,
             ReaderEnds,
        ReaderCancelled, CloseAbandoned, Answer, Publish, HangUp
<1>7. CASE UNCHANGED vars
  BY <1>7, <1>2 DEF vars
<1> QED BY <1>5, <1>6, <1>7 DEF Next

(* Answered, timed out or cancelled, a request ends. *)
LEMMA EndsEnd ==
  ASSUME NEW c \in Tasks, Answered(c) \/ TimesOut(c) \/ Cancelled(c)
  PROVE  Ended(c)
BY DEF Answered, TimesOut, Cancelled, Ended

(* So every step resolves futures, ends a request or begins one. *)
LEMMA Kinds ==
  ASSUME TypeInv, Core, Requests, [Next]_vars
  PROVE  \/ Settled
         \/ \E c \in Tasks : Ended(c)
         \/ \E c \in Tasks, t \in Topics : Begun(c, t)
BY EndsEnd, OthersSettle, SendsBegin

(* Requests is inductive. *)
LEMMA RequestsStep == TypeInv /\ Core /\ Requests /\ [Next]_vars => Requests'
BY Kinds, SettledKeeps, EndedKeeps, BegunKeeps

(* Emptied is inductive: what is registered is registered while a client   *)
(* is there, and disconnect() drops it with the client.                    *)
LEMMA EmptiedStep == TypeInv /\ Core /\ Emptied /\ [Next]_vars => Emptied'
<1> SUFFICES ASSUME TypeInv, Core, Emptied, [Next]_vars, client' = None
             PROVE  callbacks' = Nobody /\ pending' = Nobody
  BY DEF Emptied
<1> USE TasksAssumption, NoneAssumption
<1>1. \A t : [Nobody EXCEPT ![t] = None] = Nobody
  BY DEF Nobody
<1>2. CASE client = None
  <2>1. callbacks = Nobody /\ pending = Nobody /\ ~Connected
    BY <1>2 DEF Emptied, Connected
  <2>2. ASSUME NEW c \in Tasks, Request(c) \/ TaskStep(c)
        PROVE  callbacks' = Nobody /\ pending' = Nobody
    BY <2>1, <2>2, <1>1, <1>2
       DEF Request, TaskStep, Connect, Disconnect, Cancelled, Subscribe, SubscribeRefused,
           SubscribeUnsent, Unsubscribe, Admitted, DialSucceeds, DialFails, Answered, TimesOut, Joined, Shut,
           ShutCancelled
  <2>3. ASSUME NEW k \in Conns, ReaderStep(k) \/ Answer(k) \/ Publish(k) \/ HangUp(k)
        PROVE  callbacks' = Nobody /\ pending' = Nobody
    BY <2>1, <2>3 DEF ReaderStep, HandleResult, HandleEvent, CallbackRaises, ReaderClosed,
       ReaderEnds,
        ReaderCancelled, CloseAbandoned, Answer, Publish, HangUp, DropSubscriptions
  <2> QED BY <2>1, <2>2, <2>3 DEF Next, vars
<1>3. CASE client # None
  <2>1. ASSUME NEW c \in Tasks, Request(c) \/ TaskStep(c)
        PROVE  callbacks' = Nobody /\ pending' = Nobody
    BY <2>1, <1>3 DEF Request, TaskStep, Connect, Disconnect, Cancelled, Subscribe,
       SubscribeRefused,
           SubscribeUnsent, Unsubscribe, DialSucceeds, DialFails, Answered, TimesOut, Joined, Shut,
           ShutCancelled
  <2>2. ASSUME NEW k \in Conns, ReaderStep(k) \/ Answer(k) \/ Publish(k) \/ HangUp(k)
        PROVE  client' = client
    BY <2>2 DEF ReaderStep, HandleResult, HandleEvent, CallbackRaises, ReaderClosed, ReaderEnds,
        ReaderCancelled, CloseAbandoned, Answer, Publish, HangUp, DropSubscriptions
  <2> QED BY <1>3, <2>1, <2>2 DEF Next, vars
<1> QED BY <1>2, <1>3

----------------------------------------------------------------------------
(* When a websocket is connected. *)
(* Only a new connection connects a websocket. *)
LEMMA StaysDown ==
  ASSUME TypeInv, Core, [Next]_vars, Connected', ~Connected
  PROVE  \E c \in Tasks : DialSucceeds(c)
<1> USE TasksAssumption, NoneAssumption
<1>1. /\ conn \in [Conns -> Streams]
      /\ reader \in [Conns -> ReaderStates]
      /\ client \in Conns \cup {None} /\ current \in Conns \cup {None}
      /\ task \in [Tasks -> Peers]
  BY DEF TypeInv
<1>2. ASSUME UNCHANGED <<reader, client, current>>, \A j \in Conns : conn'[j].state = conn[j].state
      PROVE  FALSE
  BY <1>1, <1>2 DEF Connected
<1>3. ASSUME NEW c \in Tasks, Request(c) \/ TaskStep(c), ~DialSucceeds(c) PROVE FALSE
  <2>1. CASE UNCHANGED <<conn, reader, client, current>>
    BY <2>1, <1>2
  <2>2. CASE Disconnect(c)
    BY <2>2, <1>1 DEF Disconnect, Connected
  <2>3. ASSUME NEW t \in Topics, Subscribe(c, t) \/ Unsubscribe(c, t) PROVE FALSE
    BY <2>3 DEF Subscribe, Unsubscribe, Admitted
  <2>4. CASE Joined(c)
    BY <2>4 DEF Joined, Connected
  <2>5. CASE Shut(c) \/ ShutCancelled(c)
    BY <2>5 DEF Shut, ShutCancelled, Core, Holders, Held, Connected
  <2> QED BY <1>3, <2>1, <2>2, <2>3, <2>4, <2>5 DEF Request, TaskStep, Connect, Cancelled,
             SubscribeRefused,
       SubscribeUnsent, DialFails, Answered, TimesOut
<1>4. ASSUME NEW k \in Conns, ReaderStep(k) \/ Answer(k) \/ Publish(k) \/ HangUp(k) PROVE FALSE
  <2>0. /\ [Closed EXCEPT !.state = "closing"].state = "closing" /\ Closed.state = "closed"
        /\ \A d : [Closed EXCEPT !.state = "shut", !.down = d].state = "shut"
    BY DEF Closed
  <2>1. CASE HandleResult(k) \/ HandleEvent(k) \/ Publish(k)
    <3>1. UNCHANGED <<reader, client, current>> /\ \E d : conn' = [conn EXCEPT ![k].down = d]
      BY <2>1 DEF HandleResult, HandleEvent, Publish
    <3>2. PICK d : conn' = [conn EXCEPT ![k].down = d]
      BY <3>1
    <3>3. \A j \in Conns : conn'[j].state = conn[j].state
      BY <3>2, <1>1 DEF Streams
    <3> QED BY <3>1, <3>3, <1>2
  <2>2. CASE CallbackRaises(k)
    BY <2>2, <2>0, <1>1 DEF CallbackRaises, Connected
  <2>3. CASE ReaderClosed(k) \/ ReaderEnds(k) \/ CloseAbandoned(k)
    BY <2>3, <2>0, <1>1 DEF ReaderClosed, ReaderEnds, CloseAbandoned, Connected
  <2>4. CASE ReaderCancelled(k)
    BY <2>4, <1>1 DEF ReaderCancelled, Connected
  <2>5. CASE Answer(k)
    <3>1. PICK r, l : conn' = [conn EXCEPT ![k].up = Tail(@), ![k].down = @ \o r, ![k].list = l]
      BY <2>5 DEF Answer
    <3>2. \A j \in Conns : conn'[j].state = conn[j].state
      BY <3>1, <1>1 DEF Streams
    <3> QED BY <2>5, <3>2, <1>2 DEF Answer
  <2>6. CASE HangUp(k)
    BY <2>6, <2>0, <1>1 DEF HangUp, Connected
  <2> QED BY <1>4, <2>1, <2>2, <2>3, <2>4, <2>5, <2>6 DEF ReaderStep
<1>5. CASE UNCHANGED vars
  BY <1>5, <1>2 DEF vars
<1> QED BY <1>3, <1>4, <1>5 DEF Next

----------------------------------------------------------------------------
(* What a subscriber was told. *)
(* c has, or may yet get, the acknowledgement of its subscription to t. *)
Expecting(c, t) ==
  /\ task[c].at = "subscribing" /\ task[c].topic = t
  /\ task[c].fut = "ok" \/ (task[c].fut = "waiting" /\ pending[t] = c)

(* c waits for a result for t. *)
AsksFor(c, t) == Waiting(c) /\ task[c].topic = t

(* c waits for the acknowledgement of its subscription to t. *)
Asking(c, t) ==
  /\ task[c].at = "subscribing" /\ task[c].topic = t
  /\ task[c].fut = "waiting" /\ pending[t] = c

(* What subscribe() promised about t, and its acknowledgement will, unless *)
(* the end of an older reader took the callback out.                       *)
Told(t) ==
  /\ \A c \in Tasks : Asking(c, t) => callbacks[t] = c
  /\ Connected /\ t \notin swept => \A c \in Tasks : Expecting(c, t) => callbacks[t] = c
  /\ Connected /\ t \notin swept /\ subscribed[t] # None => callbacks[t] = subscribed[t]
  /\ \A c \in Tasks : AsksFor(c, t) => subscribed[t] = None

(* A step that takes no callback out unnoticed, and tells nobody. *)
Quiet ==
  /\ callbacks' = callbacks \/ \A c \in Tasks, t \in Topics : ~Asking(c, t)'
  /\ swept' = Topics \/ (swept' = swept /\ (Connected' => callbacks' = callbacks))
  /\ subscribed' = subscribed \/ subscribed' = Nobody

(* Steps that only resolve futures make no task ask or expect. *)
LEMMA SettledAsks ==
  ASSUME TypeInv, Requests, Settled, NEW t \in Topics, NEW c \in Tasks
  PROVE  /\ AsksFor(c, t)' => AsksFor(c, t)
         /\ Expecting(c, t)' => Expecting(c, t)
         /\ Asking(c, t)' => Asking(c, t)
<1>1. ASSUME AsksFor(c, t)' PROVE AsksFor(c, t)
  <2>1. Waiting(c)
    BY <1>1 DEF AsksFor, Settled
  <2> QED BY <1>1, <2>1 DEF AsksFor, Settled
<1>2. ASSUME Expecting(c, t)' PROVE Expecting(c, t)
  <2>1. AsksFor(c, t) /\ task[c].at = "subscribing"
    BY <1>1, <1>2 DEF Expecting, AsksFor, Waiting, Settled
  <2>2. CASE Resolves(c)
    <3>1. pending[t] = c
      BY <2>1, <2>2, NoneAssumption DEF Resolves, Requests, AsksFor, TypeInv
    <3> QED BY <2>1, <2>2, <3>1 DEF Resolves, Expecting, AsksFor
  <2>3. CASE task'[c].fut = task[c].fut
    <3>1. pending'[t] = c => pending[t] = c
      BY NoneAssumption DEF Settled, Nobody
    <3> QED BY <1>2, <2>1, <2>3, <3>1 DEF Expecting, AsksFor
  <2> QED BY <2>1, <2>2, <2>3 DEF Settled, AsksFor
<1>3. ASSUME Asking(c, t)' PROVE Asking(c, t)
  <2>1. Expecting(c, t) /\ AsksFor(c, t)
    BY <1>1, <1>2, <1>3 DEF Asking, Expecting, AsksFor, Waiting
  <2>2. task[c].fut = "waiting"
    BY <1>3, <2>1 DEF Asking, AsksFor, Settled, Resolves
  <2> QED BY <2>1, <2>2 DEF Asking, Expecting
<1> QED BY <1>1, <1>2, <1>3

(* A quiet step keeps Told. *)
LEMMA QuietTold ==
  ASSUME TypeInv, Requests, NEW t \in Topics, Told(t), Settled, Quiet, Connected' => Connected
  PROVE  Told(t)'
<1>1. \A c \in Tasks : Expecting(c, t)' => Expecting(c, t)
  BY SettledAsks
<1>2. \A c \in Tasks : AsksFor(c, t)' => AsksFor(c, t)
  BY SettledAsks
<1>3. subscribed'[t] = subscribed[t] \/ subscribed'[t] = None
  BY DEF Quiet, Nobody
<1>4. Connected' /\ t \notin swept' => t \notin swept /\ callbacks'[t] = callbacks[t]
  BY DEF Quiet
<1>5. ASSUME Connected', t \notin swept', NEW c \in Tasks, Expecting(c, t)' PROVE callbacks'[t] = c
  BY <1>1, <1>4, <1>5 DEF Told
<1>6. Connected' /\ t \notin swept' /\ subscribed'[t] # None => callbacks'[t] = subscribed'[t]
  BY <1>3, <1>4 DEF Told
<1>7. ASSUME NEW c \in Tasks, AsksFor(c, t)' PROVE subscribed'[t] = None
  BY <1>2, <1>3, <1>7 DEF Told
<1>8. ASSUME NEW c \in Tasks, Asking(c, t)' PROVE callbacks'[t] = c
  <2>1. Asking(c, t) /\ callbacks' = callbacks
    BY <1>8, SettledAsks DEF Quiet
  <2> QED BY <2>1 DEF Told
<1> QED BY <1>5, <1>6, <1>7, <1>8 DEF Told

(* A topic with one user has one task asking for it. *)
LEMMA SoleAsker ==
  ASSUME Requests, NEW t \in Topics, Sole(t), NEW c \in Tasks, NEW d \in Tasks,
         <<c, t>> \in Uses, AsksFor(d, t)
  PROVE  d = c
BY DEF Requests, Request1, AsksFor, Sole

(* The end of a request keeps Told: the callback popped is its own. *)
LEMMA EndedTold ==
  ASSUME TypeInv, Requests, NEW t \in Topics, Sole(t), Told(t),
         NEW c \in Tasks, Answered(c) \/ TimesOut(c) \/ Cancelled(c),
         Connected' => Connected
  PROVE  Told(t)'
<1> USE NoneAssumption
<1>1. /\ Ended(c) /\ Waiting(c) /\ ~Waiting(c)' /\ <<c, task[c].topic>> \in Uses /\ task[c].topic \in Topics
      /\ \A d \in Tasks : d # c => task'[d] = task[d]
  BY ReturnIdles, TasksAssumption DEF Ended, Waiting, Answered, TimesOut, Cancelled, Requests,
     Request1
<1>2. CASE task[c].topic # t
  <2>1. /\ pending'[t] = pending[t] /\ callbacks'[t] = callbacks[t] /\ subscribed'[t] = subscribed[t]
        /\ swept' = swept
    BY <1>1, <1>2 DEF Answered, TimesOut, Cancelled, TypeInv
  <2>2. \A d \in Tasks : /\ AsksFor(d, t)' => AsksFor(d, t)
                         /\ Expecting(d, t)' => Expecting(d, t)
                         /\ Asking(d, t)' => Asking(d, t)
    BY <1>1, <2>1 DEF AsksFor, Expecting, Asking, Waiting
  <2>3. ASSUME NEW d \in Tasks, Asking(d, t)' \/ (Connected' /\ t \notin swept /\ Expecting(d, t)')
        PROVE  callbacks'[t] = d
    BY <2>1, <2>2, <2>3 DEF Told
  <2>4. Connected' /\ t \notin swept' /\ subscribed'[t] # None => callbacks'[t] = subscribed'[t]
    BY <2>1 DEF Told
  <2>5. ASSUME NEW d \in Tasks, AsksFor(d, t)' PROVE subscribed'[t] = None
    BY <2>1, <2>2, <2>5 DEF Told
  <2> QED BY <2>1, <2>3, <2>4, <2>5 DEF Told
<1>3. CASE task[c].topic = t
  <2>1. ASSUME NEW d \in Tasks, AsksFor(d, t)' PROVE FALSE
    <3>1. d # c
      BY <1>1, <2>1 DEF AsksFor
    <3>2. AsksFor(d, t)
      BY <1>1, <2>1, <3>1 DEF AsksFor, Waiting
    <3> QED BY <1>1, <1>3, <3>1, <3>2, SoleAsker
  <2>2. ASSUME NEW d \in Tasks, Expecting(d, t)' \/ Asking(d, t)' PROVE FALSE
    BY <2>1, <2>2 DEF Expecting, Asking, AsksFor, Waiting
  <2>3. AsksFor(c, t) /\ subscribed[t] = None
    BY <1>1, <1>3 DEF AsksFor, Told
  <2>4. ASSUME Connected', t \notin swept', subscribed'[t] # None PROVE callbacks'[t] = subscribed'[t]
    <3>1. /\ Answered(c) /\ task[c].at = "subscribing" /\ task[c].fut = "ok"
          /\ subscribed'[t] = c /\ callbacks' = callbacks /\ t \notin swept
      BY <1>3, <2>3, <2>4 DEF Answered, TimesOut, Cancelled, TypeInv
    <3>2. Connected /\ Expecting(c, t)
      BY <1>3, <2>4, <3>1 DEF Expecting
    <3> QED BY <3>1, <3>2 DEF Told
  <2> QED BY <2>1, <2>2, <2>4 DEF Told
<1> QED BY <1>2, <1>3

(* The beginning of a request keeps Told. *)
LEMMA BegunTold ==
  ASSUME TypeInv, Requests, NEW t \in Topics, Sole(t), Told(t),
         NEW c \in Tasks, NEW u \in Topics, Subscribe(c, u) \/ Unsubscribe(c, u), Begun(c, u),
         Connected' => Connected
  PROVE  Told(t)'
<1> USE NoneAssumption
<1>1. /\ subscribed' = [subscribed EXCEPT ![u] = None] /\ <<c, u>> \in Uses /\ ~Waiting(c)
      /\ pending' = [pending EXCEPT ![u] = c]
      /\ task'[c].topic = u
      /\ \A d \in Tasks : d # c => task'[d] = task[d]
  BY DEF Subscribe, Unsubscribe, SendAction, Begun
<1>2. CASE u # t
  <2>1. /\ pending'[t] = pending[t] /\ callbacks'[t] = callbacks[t] /\ subscribed'[t] = subscribed[t]
        /\ t \in swept' <=> t \in swept
    BY <1>1, <1>2 DEF Subscribe, Unsubscribe, TypeInv
  <2>2. \A d \in Tasks : /\ AsksFor(d, t)' => AsksFor(d, t)
                         /\ Expecting(d, t)' => Expecting(d, t)
                         /\ Asking(d, t)' => Asking(d, t)
    BY <1>1, <1>2, <2>1 DEF AsksFor, Expecting, Asking, Waiting
  <2>3. ASSUME NEW d \in Tasks, Asking(d, t)' \/ (Connected' /\ t \notin swept' /\ Expecting(d, t)')
        PROVE  callbacks'[t] = d
    BY <2>1, <2>2, <2>3 DEF Told
  <2>4. Connected' /\ t \notin swept' /\ subscribed'[t] # None => callbacks'[t] = subscribed'[t]
    BY <2>1 DEF Told
  <2>5. ASSUME NEW d \in Tasks, AsksFor(d, t)' PROVE subscribed'[t] = None
    BY <2>1, <2>2, <2>5 DEF Told
  <2> QED BY <2>1, <2>3, <2>4, <2>5 DEF Told
<1>3. CASE u = t
  <2>1. subscribed'[t] = None
    BY <1>1, <1>3 DEF TypeInv
  <2>2. ASSUME NEW d \in Tasks, Expecting(d, t)' PROVE callbacks'[t] = d
    <3>1. d = c
      <4>1. CASE d # c
        <5>1. AsksFor(d, t)
          BY <1>1, <2>2, <4>1 DEF AsksFor, Expecting, Waiting
        <5> QED BY <1>1, <1>3, <5>1, SoleAsker
      <4> QED BY <4>1
    <3>2. Subscribe(c, t)
      <4>1. task'[c].at = "subscribing"
        BY <2>2, <3>1 DEF Expecting
      <4>2. ASSUME Unsubscribe(c, t) PROVE task'[c].at = "unsubscribing"
        <5>1. SendAction(c, t, "unsubscribe") /\ client \in Conns
          BY <4>2 DEF Unsubscribe, Admitted, Connected, TypeInv
        <5> QED BY <5>1, SendKeepsStates
      <4> QED BY <1>3, <4>1, <4>2
    <3> QED BY <3>1, <3>2 DEF Subscribe, TypeInv
  <2>3. ASSUME NEW d \in Tasks, Asking(d, t)' PROVE callbacks'[t] = d
    BY <2>2, <2>3 DEF Asking, Expecting
  <2> QED BY <2>1, <2>2, <2>3 DEF Told
<1> QED BY <1>2, <1>3

(* A request refused or not sent keeps Told: the callback it pops by topic *)
(* is not one somebody counts on.                                          *)
LEMMA RefusedTold ==
  ASSUME TypeInv, Requests, NEW t \in Topics, Sole(t), Told(t),
         NEW c \in Tasks, NEW u \in Topics, SubscribeRefused(c, u) \/ SubscribeUnsent(c, u)
  PROVE  Told(t)'
<1> USE NoneAssumption
<1>1. /\ UNCHANGED <<conn, reader, client, current, pending, task, swept>>
      /\ callbacks' = [callbacks EXCEPT ![u] = None] /\ <<c, u>> \in Uses /\ ~Waiting(c)
      /\ subscribed' = subscribed \/ subscribed' = [subscribed EXCEPT ![u] = None]
  BY DEF SubscribeRefused, SubscribeUnsent, Waiting
<1>2. /\ Connected' <=> Connected
      /\ \A d \in Tasks : AsksFor(d, t)' <=> AsksFor(d, t)
      /\ \A d \in Tasks : Expecting(d, t)' <=> Expecting(d, t)
      /\ \A d \in Tasks : Asking(d, t)' <=> Asking(d, t)
  BY <1>1 DEF Connected, AsksFor, Expecting, Asking, Waiting
<1>3. CASE u # t
  <2>1. callbacks'[t] = callbacks[t] /\ subscribed'[t] = subscribed[t]
    BY <1>1, <1>3 DEF TypeInv
  <2> QED BY <1>1, <1>2, <2>1 DEF Told
<1>4. CASE u = t
  <2>1. ASSUME NEW d \in Tasks, AsksFor(d, t) PROVE FALSE
    <3>1. d = c
      BY <1>1, <1>4, <2>1, SoleAsker
    <3> QED BY <1>1, <2>1, <3>1 DEF AsksFor
  <2>2. pending[t] = None
    BY <2>1 DEF Requests, AsksFor, TypeInv
  <2>3. Connected => subscribed'[t] = None
    BY <1>4, <2>2 DEF SubscribeRefused, SubscribeUnsent, Admitted, TypeInv
  <2>4. \A d \in Tasks : ~Expecting(d, t) /\ ~Asking(d, t)
    BY <2>1 DEF Expecting, Asking, AsksFor, Waiting
  <2> QED BY <1>2, <2>1, <2>3, <2>4 DEF Told
<1> QED BY <1>3, <1>4

(* Whoever waits across a new connection has its callback in place. *)
LEMMA DialTold ==
  ASSUME TypeInv, NEW t \in Topics, Told(t), NEW c \in Tasks, DialSucceeds(c)
  PROVE  Told(t)'
<1> USE NoneAssumption
<1>1. /\ NoTaskReady /\ UNCHANGED <<pending, callbacks>> /\ subscribed' = Nobody /\ Return(c)
  BY DEF DialSucceeds
<1>2. ASSUME NEW d \in Tasks, Expecting(d, t)' PROVE Asking(d, t)
  <2>1. d # c /\ task'[d] = task[d]
    BY <1>1, <1>2, ReturnIdles DEF Expecting
  <2> QED BY <1>1, <1>2, <2>1 DEF Expecting, Asking, NoTaskReady
<1>3. ASSUME NEW d \in Tasks, Asking(d, t)' PROVE Expecting(d, t)'
  BY <1>3 DEF Asking, Expecting
<1>4. ASSUME NEW d \in Tasks, Expecting(d, t)' PROVE callbacks'[t] = d
  BY <1>1, <1>2, <1>4 DEF Told
<1> QED BY <1>1, <1>3, <1>4 DEF Told, Nobody

(* The reader's last lines leave nobody asking. *)
LEMMA DropEndsAsking ==
  ASSUME TypeInv, DropSubscriptions, pending' = pending
  PROVE  \A c \in Tasks, t \in Topics : ~Asking(c, t)'
BY DropKeepsPlaces DEF Asking

(* Every step that is not one of those is quiet. *)
LEMMA QuietOrNamed ==
  ASSUME TypeInv, Core, [Next]_vars
  PROVE  \/ \E c \in Tasks : Answered(c) \/ TimesOut(c) \/ Cancelled(c) \/ DialSucceeds(c)
         \/ \E c \in Tasks, u \in Topics : Subscribe(c, u) \/ Unsubscribe(c, u)
         \/ \E c \in Tasks, u \in Topics : SubscribeRefused(c, u) \/ SubscribeUnsent(c, u)
         \/ Quiet
<1> USE TasksAssumption, NoneAssumption
<1>1. ASSUME NEW c \in Tasks, Connect(c) \/ Disconnect(c) \/ DialFails(c) \/ Joined(c)
                              \/ Shut(c) \/ ShutCancelled(c)
      PROVE  Quiet
  BY <1>1 DEF Connect, Disconnect, DialFails, Joined, Shut, ShutCancelled, Quiet, Connected, Asking,
     Nobody
<1>2. ASSUME NEW k \in Conns, ReaderStep(k) \/ Answer(k) \/ Publish(k) \/ HangUp(k) PROVE Quiet
  <2>2. CASE ReaderClosed(k) \/ ReaderEnds(k) \/ ReaderCancelled(k)
    <3>1. DropSubscriptions /\ pending' = pending /\ (subscribed' = subscribed \/ subscribed' = Nobody)
      BY <2>2 DEF ReaderClosed, ReaderEnds, ReaderCancelled
    <3>2. swept' = Topics
      BY <3>1 DEF DropSubscriptions
    <3> QED BY <3>1, <3>2, DropEndsAsking DEF Quiet
  <2> QED BY <1>2, <2>2 DEF ReaderStep, HandleResult, HandleEvent, CallbackRaises, CloseAbandoned,
             Answer,
              Publish, HangUp, Quiet
<1>3. CASE UNCHANGED vars
  BY <1>3 DEF vars, Quiet
<1> QED BY <1>1, <1>2, <1>3 DEF Next, Request, TaskStep

(* Told is inductive for a topic with one user. *)
LEMMA ToldStep ==
  ASSUME TypeInv, Core, Requests, [Next]_vars, NEW t \in Topics, Sole(t), Told(t)
  PROVE  Told(t)'
<1>1. ASSUME NEW c \in Tasks, DialSucceeds(c) PROVE Told(t)'
  BY <1>1, DialTold
<1>2. CASE ~\E c \in Tasks : DialSucceeds(c)
  <2>1. Connected' => Connected
    BY <1>2, StaysDown
  <2>2. ASSUME NEW c \in Tasks, Answered(c) \/ TimesOut(c) \/ Cancelled(c) PROVE Told(t)'
    BY <2>1, <2>2, EndedTold
  <2>3. ASSUME NEW c \in Tasks, NEW u \in Topics, Begun(c, u), Subscribe(c, u) \/ Unsubscribe(c, u)
        PROVE  Told(t)'
    BY <2>1, <2>3, BegunTold
  <2>4. ASSUME NEW c \in Tasks, NEW u \in Topics, SubscribeRefused(c, u) \/ SubscribeUnsent(c, u)
        PROVE  Told(t)'
    BY <2>4, RefusedTold
  <2>5. ASSUME NEW c \in Tasks, NEW u \in Topics, Subscribe(c, u) \/ Unsubscribe(c, u)
        PROVE  Begun(c, u)
    BY <2>5, SendsBegin
  <2>6. ASSUME Settled, Quiet PROVE Told(t)'
    BY <2>1, <2>6, QuietTold
  <2> QED BY <1>2, <2>2, <2>3, <2>4, <2>5, <2>6, QuietOrNamed, OthersSettle
<1> QED BY <1>1, <1>2

----------------------------------------------------------------------------
(* What the charger has: frames and its list. *)
(* All the requests for t under way are subscriptions. *)
OnlySubscribes(s, t) == \A i \in 1 .. Len(s) : s[i].topic = t => s[i].kind = "subscribe"

(* A request for t has been acknowledged. *)
Acks(s, t) == \E i \in 1 .. Len(s) : s[i].topic = t /\ s[i].kind = "ok"

(* While s is open the charger lists the topics it acknowledges. *)
Honest(s, t) ==
  s.state = "open" => OnlySubscribes(s.up, t) /\ (Acks(s.down, t) => t \in s.list)

(* A subscribe request put into the channel leaves it one of subscribe     *)
(* requests for the topic.                                                 *)
LEMMA MoreUp ==
  ASSUME NEW s \in Seq(Frames), NEW f \in Frames, NEW t, OnlySubscribes(s, t),
         f.topic = t => f.kind = "subscribe"
  PROVE  OnlySubscribes(Append(s, f), t)
<1> SUFFICES ASSUME NEW i \in 1 .. Len(Append(s, f)), Append(s, f)[i].topic = t
             PROVE  Append(s, f)[i].kind = "subscribe"
  BY DEF OnlySubscribes
<1>1. Len(Append(s, f)) = Len(s) + 1 /\ Len(s) \in Nat
  BY AppendProperties, LenProperties
<1>2. CASE i = Len(s) + 1
  <2>1. Append(s, f)[i] = f
    BY <1>2, AppendProperties
  <2> QED BY <2>1
<1>3. CASE i \in 1 .. Len(s)
  <2>1. Append(s, f)[i] = s[i]
    BY <1>3, AppendProperties
  <2> QED BY <1>3, <2>1 DEF OnlySubscribes
<1> QED BY <1>1, <1>2, <1>3

(* So does taking the first request out of it, which is one. *)
LEMMA LessUp ==
  ASSUME NEW s \in Seq(Frames), s # <<>>, NEW t, OnlySubscribes(s, t)
  PROVE  /\ OnlySubscribes(Tail(s), t)
         /\ Head(s).topic = t => Head(s).kind = "subscribe"
<1>1. /\ Len(s) \in Nat /\ Len(s) # 0 /\ Head(s) = s[1] /\ Len(Tail(s)) = Len(s) - 1
      /\ \A i \in 1 .. Len(Tail(s)) : Tail(s)[i] = s[i + 1]
  BY LenProperties, EmptySeq, HeadTailProperties
<1> QED BY <1>1 DEF OnlySubscribes

(* What acknowledges a topic in a channel and its reply is in one of them. *)
LEMMA MoreDown ==
  ASSUME NEW s \in Seq(Frames), NEW r \in Seq(Frames), NEW t, Acks(s \o r, t)
  PROVE  Acks(s, t) \/ Acks(r, t)
<1>1. PICK i \in 1 .. Len(s \o r) : (s \o r)[i].topic = t /\ (s \o r)[i].kind = "ok"
  BY DEF Acks
<1>2. /\ Len(s \o r) = Len(s) + Len(r) /\ Len(s) \in Nat /\ Len(r) \in Nat
      /\ (s \o r)[i] = IF i <= Len(s) THEN s[i] ELSE r[i - Len(s)]
  BY ConcatProperties, LenProperties
<1>3. CASE i <= Len(s)
  BY <1>1, <1>2, <1>3 DEF Acks
<1>4. CASE ~(i <= Len(s))
  <2>1. (i - Len(s)) \in 1 .. Len(r)
    BY <1>2, <1>4
  <2> QED BY <1>1, <1>2, <1>4, <2>1 DEF Acks
<1> QED BY <1>3, <1>4

(* The frame the reader takes was in the channel. *)
LEMMA LessDown ==
  ASSUME NEW s \in Seq(Frames), s # <<>>, NEW t
  PROVE  /\ Acks(Tail(s), t) => Acks(s, t)
         /\ Head(s).topic = t /\ Head(s).kind = "ok" => Acks(s, t)
<1>1. /\ Len(s) \in Nat /\ Len(s) # 0 /\ Head(s) = s[1] /\ Len(Tail(s)) = Len(s) - 1
      /\ \A i \in 1 .. Len(Tail(s)) : Tail(s)[i] = s[i + 1]
  BY LenProperties, EmptySeq, HeadTailProperties
<1>2. ASSUME Acks(Tail(s), t) PROVE Acks(s, t)
  <2>1. PICK i \in 1 .. Len(Tail(s)) : Tail(s)[i].topic = t /\ Tail(s)[i].kind = "ok"
    BY <1>2 DEF Acks
  <2>2. (i + 1) \in 1 .. Len(s) /\ s[i + 1] = Tail(s)[i]
    BY <1>1
  <2> QED BY <2>1, <2>2 DEF Acks
<1> QED BY <1>1, <1>2 DEF Acks

(* A request sent keeps a connection honest, unless it unsubscribes. *)
LEMMA SendHonest ==
  ASSUME TypeInv, NEW t \in Topics, NEW c \in Tasks, NEW u \in Topics,
         NEW kind \in {"subscribe", "unsubscribe"}, client \in Conns, SendAction(c, u, kind),
         u = t => kind = "subscribe", NEW k \in Conns, Honest(conn[k], t)
  PROVE  Honest(conn'[k], t)
<1> DEFINE f == [kind |-> kind, topic |-> u]
           up2 == IF conn[client].state = "open" THEN Append(conn[client].up, f) ELSE conn[client].up
<1>1. f \in Frames /\ f.topic = u /\ f.kind = kind
  BY DEF Frames
<1>2. conn' = [conn EXCEPT ![client].up = up2]
  BY DEF SendAction
<1> HIDE DEF f
<1>3. conn[client] \in Streams /\ conn[client].up \in Seq(Frames)
  BY DEF TypeInv, Streams
<1>4. CASE k # client
  BY <1>2, <1>4 DEF TypeInv
<1>5. CASE k = client
  <2>0. k = client
    BY <1>5
  <2> DEFINE old == conn[client].up
             new == Append(old, f)
  <2>1. OnlySubscribes(old, t) => OnlySubscribes(new, t)
    BY <1>1, <1>3, MoreUp
  <2>2. conn[client].state = "open" => up2 = new
    OBVIOUS
  <2> HIDE DEF up2, new
  <2>3. /\ conn'[k].state = conn[k].state /\ conn'[k].up = up2
        /\ conn'[k].down = conn[k].down /\ conn'[k].list = conn[k].list
    BY <1>2, <1>3, <2>0 DEF TypeInv, Streams
  <2> QED BY <2>0, <2>1, <2>2, <2>3 DEF Honest
<1> QED BY <1>4, <1>5

(* Reading a frame keeps a connection honest. *)
LEMMA ReadHonest ==
  ASSUME TypeInv, NEW t \in Topics, NEW k \in Conns, Honest(conn[k], t), NEW j \in Conns, conn[j].down # <<>>,
         conn' = [conn EXCEPT ![j].down = Tail(@)]
  PROVE  Honest(conn'[k], t)
<1>1. CASE k # j
  BY <1>1 DEF TypeInv
<1>2. CASE k = j
  <2>0. k = j
    BY <1>2
  <2>1. conn[k] \in Streams /\ conn[k].down \in Seq(Frames) /\ conn[k].down # <<>>
    BY <2>0 DEF TypeInv, Streams
  <2>2. /\ conn'[k].state = conn[k].state /\ conn'[k].up = conn[k].up
        /\ conn'[k].down = Tail(conn[k].down) /\ conn'[k].list = conn[k].list
    BY <2>0 DEF TypeInv, Streams
  <2>3. Acks(Tail(conn[k].down), t) => Acks(conn[k].down, t)
    BY <2>1, LessDown
  <2> QED BY <2>2, <2>3 DEF Honest
<1> QED BY <1>1, <1>2

(* The charger's answer keeps a connection honest, and the topic listed. *)
LEMMA AnswerHonest ==
  ASSUME TypeInv, NEW t \in Topics, NEW k \in Conns, Honest(conn[k], t), NEW j \in Conns, Answer(j)
  PROVE  Honest(conn'[k], t) /\ (t \in conn[k].list => t \in conn'[k].list)
<1> DEFINE m == Head(conn[j].up)
           reply(kinds) == [i \in DOMAIN kinds |-> [kind |-> kinds[i], topic |-> m.topic]]
<1>1. conn[j] \in Streams /\ conn[j].up \in Seq(Frames) /\ conn[j].down \in Seq(Frames)
      /\ conn[j].list \subseteq Topics
  BY DEF TypeInv, Streams
<1>2. conn[j].up # <<>> /\ conn[j].state = "open"
  BY DEF Answer
<1>3. m \in Frames /\ Tail(conn[j].up) \in Seq(Frames) /\ m.topic \in Topics
  BY <1>1, <1>2, HeadTailProperties DEF Frames
<1>5. reply(<<"ok", "event">>) \in Seq(Frames) /\ reply(<<"ok">>) \in Seq(Frames)
      /\ reply(<<"rejected">>) \in Seq(Frames)
  BY <1>3 DEF Frames
<1>6. /\ Acks(reply(<<"ok", "event">>), t) => m.topic = t
      /\ Acks(reply(<<"ok">>), t) => m.topic = t
      /\ ~Acks(reply(<<"rejected">>), t)
  <2>1. ASSUME NEW ks, reply(ks) \in Seq(Frames), NEW i \in 1 .. Len(reply(ks))
        PROVE  reply(ks)[i].topic = m.topic /\ reply(ks)[i].kind = ks[i] /\ i \in DOMAIN ks
    <3> DEFINE r == reply(ks)
    <3>1. DOMAIN r = 1 .. Len(r)
      BY <2>1, LenProperties
    <3>2. DOMAIN r = DOMAIN ks
      OBVIOUS
    <3>3. i \in DOMAIN ks
      BY <3>1, <3>2
    <3>4. reply(ks)[i] = [kind |-> ks[i], topic |-> m.topic]
      BY <3>3
    <3> QED BY <3>3, <3>4
  <2>2. \A ks : reply(ks) \in Seq(Frames) /\ Acks(reply(ks), t) => m.topic = t
    BY <2>1 DEF Acks
  <2>3. ASSUME Acks(reply(<<"rejected">>), t) PROVE FALSE
    <3>1. PICK i \in 1 .. Len(reply(<<"rejected">>)) : reply(<<"rejected">>)[i].kind = "ok"
      BY <2>3 DEF Acks
    <3>2. i \in DOMAIN <<"rejected">> /\ <<"rejected">>[i] = "ok"
      BY <1>5, <2>1, <3>1
    <3> QED BY <3>2
  <2> HIDE DEF reply
  <2> QED BY <1>5, <2>2, <2>3
<1>7. CASE k # j
  <2>1. PICK r, l : conn' = [conn EXCEPT ![j].up = Tail(@), ![j].down = @ \o r, ![j].list = l]
    BY DEF Answer
  <2>2. conn'[k] = conn[k]
    BY <2>1, <1>7 DEF TypeInv
  <2> QED BY <2>2
<1>8. CASE k = j
  <2>0. OnlySubscribes(Tail(conn[j].up), t) /\ (m.topic = t => m.kind = "subscribe")
    BY <1>1, <1>2, <1>8, LessUp DEF Honest
  <2>1. ASSUME NEW r \in Seq(Frames), NEW l,
               conn' = [conn EXCEPT ![j].up = Tail(@), ![j].down = @ \o r, ![j].list = l],
               Acks(r, t) => t \in l, t \in conn[j].list => t \in l
        PROVE  Honest(conn'[k], t) /\ (t \in conn[k].list => t \in conn'[k].list)
    <3>1. /\ conn'[j].state = conn[j].state /\ conn'[j].up = Tail(conn[j].up)
          /\ conn'[j].down = conn[j].down \o r /\ conn'[j].list = l
      BY <2>1, <1>1 DEF TypeInv, Streams
    <3>2. Acks(conn[j].down \o r, t) => Acks(conn[j].down, t) \/ Acks(r, t)
      BY <1>1, MoreDown
    <3>3. Acks(conn[j].down, t) => t \in conn[j].list
      BY <1>2, <1>8 DEF Honest
    <3>4. Honest(conn'[j], t)
      BY <2>0, <2>1, <3>1, <3>2, <3>3 DEF Honest
    <3> QED BY <3>1, <3>4, <2>1, <1>8
  <2> DEFINE give(r, l) == conn' = [conn EXCEPT ![j].up = Tail(@), ![j].down = @ \o r, ![j].list = l]
  <2>2. \/ m.kind = "subscribe" /\ give(reply(<<"ok", "event">>), conn[j].list \cup {m.topic})
        \/ m.kind = "unsubscribe" /\ give(reply(<<"ok">>), conn[j].list \ {m.topic})
        \/ give(reply(<<"rejected">>), conn[j].list)
    BY DEF Answer
  <2>3. CASE m.kind = "subscribe" /\ give(reply(<<"ok", "event">>), conn[j].list \cup {m.topic})
    <3> DEFINE r == reply(<<"ok", "event">>)
               l == conn[j].list \cup {m.topic}
    <3>1. r \in Seq(Frames) /\ (Acks(r, t) => t \in l) /\ (t \in conn[j].list => t \in l)
      BY <1>5, <1>6
    <3>2. give(r, l)
      BY <2>3
    <3> HIDE DEF r, l, m
    <3> QED BY <3>1, <3>2, <2>1
  <2>4. CASE m.kind = "unsubscribe" /\ give(reply(<<"ok">>), conn[j].list \ {m.topic})
    <3> DEFINE r == reply(<<"ok">>)
               l == conn[j].list \ {m.topic}
    <3>0. m.topic # t
      BY <2>0, <2>4
    <3>1. r \in Seq(Frames) /\ (Acks(r, t) => t \in l) /\ (t \in conn[j].list => t \in l)
      BY <1>5, <1>6, <3>0
    <3>2. give(r, l)
      BY <2>4
    <3> HIDE DEF r, l, m
    <3> QED BY <3>1, <3>2, <2>1
  <2>5. CASE give(reply(<<"rejected">>), conn[j].list)
    <3> DEFINE r == reply(<<"rejected">>)
               l == conn[j].list
    <3>1. r \in Seq(Frames) /\ (Acks(r, t) => t \in l) /\ (t \in conn[j].list => t \in l)
      BY <1>5, <1>6
    <3>2. give(r, l)
      BY <2>5
    <3> HIDE DEF r, l, m
    <3> QED BY <3>1, <3>2, <2>1
  <2> QED BY <2>2, <2>3, <2>4, <2>5
<1> QED BY <1>7, <1>8

(* An event published keeps a connection honest. *)
LEMMA PublishHonest ==
  ASSUME TypeInv, NEW t \in Topics, NEW k \in Conns, Honest(conn[k], t), NEW j \in Conns, Publish(j)
  PROVE  Honest(conn'[k], t) /\ conn'[k].list = conn[k].list
<1>1. PICK u \in conn[j].list :
        conn' = [conn EXCEPT ![j].down = Append(@, [kind |-> "event", topic |-> u])]
  BY DEF Publish
<1>2. conn[j] \in Streams /\ conn[j].down \in Seq(Frames) /\ u \in Topics
  BY DEF TypeInv, Streams
<1> DEFINE f == [kind |-> "event", topic |-> u]
<1>3. f \in Frames /\ <<f>> \in Seq(Frames) /\ ~Acks(<<f>>, t)
  BY <1>2 DEF Frames, Acks
<1>4. Append(conn[j].down, f) = conn[j].down \o <<f>>
  BY <1>2, <1>3, AppendIsConcat
<1> HIDE DEF f
<1>5. Acks(Append(conn[j].down, f), t) => Acks(conn[j].down, t)
  BY <1>2, <1>3, <1>4, MoreDown
<1>6. /\ conn'[j].state = conn[j].state /\ conn'[j].up = conn[j].up
      /\ conn'[j].down = Append(conn[j].down, f) /\ conn'[j].list = conn[j].list
      /\ \A i \in Conns : i # j => conn'[i] = conn[i]
  BY <1>1, <1>2 DEF TypeInv, Streams, f
<1> QED BY <1>5, <1>6 DEF Honest

----------------------------------------------------------------------------
(* What the charger has: every step. *)
ClientOpen == Connected /\ conn[client].state = "open"

(* c has been told that its request for t succeeded. *)
Confirmed(c, t) == AsksFor(c, t) /\ task[c].fut = "ok"

(* A subscription that was, or will be, reported is at the charger. *)
Charged(t) ==
  /\ \A k \in Conns : Honest(conn[k], t)
  /\ ClientOpen /\ (subscribed[t] # None \/ \E c \in Tasks : Confirmed(c, t)) => t \in conn[client].list

(* A connection that is not open is honest. *)
LEMMA NotOpen == \A s, t : s.state # "open" => Honest(s, t)
BY DEF Honest

(* The states of the closed connections the actions build. *)
LEMMA ClosedStates ==
  /\ Closed.state = "closed"
  /\ [Closed EXCEPT !.state = "closing"].state = "closing"
  /\ \A d : [Closed EXCEPT !.state = "shut", !.down = d].state = "shut"
BY DEF Closed

(* Every step keeps a connection honest about a topic nobody leaves. *)
LEMMA HonestStep ==
  ASSUME TypeInv, [Next]_vars, NEW t \in Topics, Kept(t), NEW k \in Conns, Honest(conn[k], t)
  PROVE  Honest(conn'[k], t)
<1> USE TasksAssumption, NoneAssumption
<1>1. conn \in [Conns -> Streams]
  BY DEF TypeInv
<1>2. ASSUME conn' = conn PROVE Honest(conn'[k], t)
  BY <1>2
<1>3. ASSUME NEW j, NEW s, s.state # "open", conn' = [conn EXCEPT ![j] = s]
      PROVE  Honest(conn'[k], t)
  <2>1. CASE k = j
    BY <1>1, <1>3, <2>1, NotOpen
  <2>2. CASE k # j
    BY <1>1, <1>3, <2>2
  <2> QED BY <2>1, <2>2
<1>4. ASSUME NEW c \in Tasks, Request(c) \/ TaskStep(c) PROVE Honest(conn'[k], t)
  <2>1. ASSUME NEW u \in Topics, Subscribe(c, u) PROVE Honest(conn'[k], t)
    <3>1. SendAction(c, u, "subscribe") /\ client \in Conns
      BY <2>1 DEF Subscribe, Admitted, Connected, TypeInv
    <3> QED BY <3>1, SendHonest
  <2>2. ASSUME NEW u \in Topics, Unsubscribe(c, u) PROVE Honest(conn'[k], t)
    <3>1. SendAction(c, u, "unsubscribe") /\ client \in Conns /\ u # t
      BY <2>2 DEF Unsubscribe, Admitted, Connected, TypeInv, Kept
    <3> QED BY <3>1, SendHonest
  <2>3. CASE DialSucceeds(c)
    <3>1. PICK j \in Conns : conn' = [conn EXCEPT ![j] = [Closed EXCEPT !.state = "open"]]
      BY <2>3 DEF DialSucceeds
    <3>2. /\ [Closed EXCEPT !.state = "open"].up = <<>> /\ [Closed EXCEPT !.state = "open"].down = <<>>
      BY DEF Closed
    <3>3. OnlySubscribes(<<>>, t) /\ ~Acks(<<>>, t)
      BY DEF OnlySubscribes, Acks
    <3>4. Honest([Closed EXCEPT !.state = "open"], t)
      BY <3>2, <3>3 DEF Honest
    <3> QED BY <1>1, <3>1, <3>4
  <2>4. CASE Joined(c)
    <3>1. conn' = conn \/ conn' = [conn EXCEPT ![client] = [Closed EXCEPT !.state = "closing"]]
      BY <2>4 DEF Joined
    <3> QED BY <3>1, <1>2, <1>3, ClosedStates
  <2>5. CASE Shut(c) \/ ShutCancelled(c)
    <3>1. conn' = [conn EXCEPT ![task[c].ref] = Closed]
      BY <2>5 DEF Shut, ShutCancelled
    <3> QED BY <3>1, <1>3, ClosedStates
  <2> QED BY <1>2, <1>4, <2>1, <2>2, <2>3, <2>4, <2>5 DEF Request, TaskStep, Connect, Disconnect,
             Cancelled,
       SubscribeRefused, SubscribeUnsent, DialFails, Answered, TimesOut
<1>5. ASSUME NEW j \in Conns, ReaderStep(j) \/ Answer(j) \/ Publish(j) \/ HangUp(j)
      PROVE  Honest(conn'[k], t)
  <2>1. CASE HandleResult(j) \/ HandleEvent(j)
    <3>1. conn[j].down # <<>> /\ conn' = [conn EXCEPT ![j].down = Tail(@)]
      BY <2>1 DEF HandleResult, HandleEvent
    <3> QED BY <3>1, ReadHonest
  <2>2. CASE CallbackRaises(j)
    <3>1. conn' = [conn EXCEPT ![j] = [Closed EXCEPT !.state = "closing"]]
      BY <2>2 DEF CallbackRaises
    <3> QED BY <3>1, <1>3, ClosedStates
  <2>3. CASE ReaderClosed(j) \/ ReaderEnds(j) \/ CloseAbandoned(j)
    <3>1. conn' = [conn EXCEPT ![j] = Closed]
      BY <2>3 DEF ReaderClosed, ReaderEnds, CloseAbandoned
    <3> QED BY <3>1, <1>3, ClosedStates
  <2>4. CASE ReaderCancelled(j)
    BY <2>4, <1>2 DEF ReaderCancelled
  <2>5. CASE Answer(j)
    BY <2>5, AnswerHonest
  <2>6. CASE Publish(j)
    BY <2>6, PublishHonest
  <2>7. CASE HangUp(j)
    <3>1. PICK rest : conn' = [conn EXCEPT ![j] = [Closed EXCEPT !.state = "shut", !.down = rest]]
      BY <2>7 DEF HangUp
    <3> QED BY <3>1, <1>3, ClosedStates
  <2> QED BY <1>5, <2>1, <2>2, <2>3, <2>4, <2>5, <2>6, <2>7 DEF ReaderStep
<1>6. CASE UNCHANGED vars
  BY <1>2, <1>6 DEF vars
<1> QED BY <1>4, <1>5, <1>6 DEF Next

(* While the connection is open the charger keeps the topic listed. *)
LEMMA ListKept ==
  ASSUME TypeInv, Core, [Next]_vars, NEW t \in Topics, \A k \in Conns : Honest(conn[k], t),
         ~\E c \in Tasks : DialSucceeds(c), ClientOpen'
  PROVE  ClientOpen /\ client' = client /\ (t \in conn[client].list => t \in conn'[client].list)
<1> USE TasksAssumption, NoneAssumption
<1>1. /\ conn \in [Conns -> Streams] /\ client' \in Conns /\ Connected'
      /\ conn'[client'].state = "open"
  <2>1. TypeInv'
    BY TypeStep
  <2> QED BY <2>1 DEF TypeInv, ClientOpen, Connected
<1>2. Connected /\ client \in Conns
  BY <1>1, StaysDown DEF Connected, TypeInv
<1>3. client' = client
  <2>1. ASSUME NEW c \in Tasks, Request(c) \/ TaskStep(c), client' # client PROVE FALSE
    BY <2>1, <1>1 DEF Request, TaskStep, Connect, Disconnect, Cancelled, Subscribe,
       SubscribeRefused,
           SubscribeUnsent, Unsubscribe, DialFails, Answered, TimesOut, Joined, Shut, ShutCancelled
  <2>2. ASSUME NEW k \in Conns, ReaderStep(k) \/ Answer(k) \/ Publish(k) \/ HangUp(k)
        PROVE  client' = client
    BY <2>2 DEF ReaderStep, HandleResult, HandleEvent, CallbackRaises, ReaderClosed, ReaderEnds,
        ReaderCancelled, CloseAbandoned, Answer, Publish, HangUp, DropSubscriptions
  <2> QED BY <2>1, <2>2 DEF Next, vars
<1> DEFINE Goal == conn[client].state = "open" /\ (t \in conn[client].list => t \in conn'[client].list)
<1>4. ASSUME conn' = conn PROVE Goal
  BY <1>1, <1>3, <1>4
<1>5. ASSUME NEW j, NEW s, s.state # "open", conn' = [conn EXCEPT ![j] = s] PROVE Goal
  <2>1. client # j
    BY <1>1, <1>2, <1>3, <1>5
  <2> QED BY <1>1, <1>2, <1>3, <1>5, <2>1
<1>6. ASSUME NEW j, NEW d, conn' = [conn EXCEPT ![j].down = d] PROVE Goal
  BY <1>1, <1>2, <1>3, <1>6 DEF Streams
<1>7. ASSUME NEW c \in Tasks, Request(c) \/ TaskStep(c), ~DialSucceeds(c) PROVE Goal
  <2>1. ASSUME NEW u \in Topics, Subscribe(c, u) \/ Unsubscribe(c, u) PROVE Goal
    <3>1. PICK d : conn' = [conn EXCEPT ![client].up = d]
      BY <2>1 DEF Subscribe, Unsubscribe, SendAction
    <3> QED BY <3>1, <1>1, <1>2, <1>3 DEF Streams
  <2>4. CASE Joined(c)
    <3>1. conn' = conn \/ conn' = [conn EXCEPT ![client] = [Closed EXCEPT !.state = "closing"]]
      BY <2>4 DEF Joined
    <3> QED BY <3>1, <1>4, <1>5, ClosedStates
  <2>5. CASE Shut(c) \/ ShutCancelled(c)
    <3>1. conn' = [conn EXCEPT ![task[c].ref] = Closed]
      BY <2>5 DEF Shut, ShutCancelled
    <3> QED BY <3>1, <1>5, ClosedStates
  <2> QED BY <1>4, <1>7, <2>1, <2>4, <2>5 DEF Request, TaskStep, Connect, Disconnect, Cancelled,
       SubscribeRefused, SubscribeUnsent, DialFails, Answered, TimesOut
<1>8. ASSUME NEW j \in Conns, ReaderStep(j) \/ Answer(j) \/ Publish(j) \/ HangUp(j) PROVE Goal
  <2>1. CASE HandleResult(j) \/ HandleEvent(j) \/ Publish(j)
    BY <2>1, <1>6 DEF HandleResult, HandleEvent, Publish
  <2>2. CASE CallbackRaises(j)
    <3>1. conn' = [conn EXCEPT ![j] = [Closed EXCEPT !.state = "closing"]]
      BY <2>2 DEF CallbackRaises
    <3> QED BY <3>1, <1>5, ClosedStates
  <2>3. CASE ReaderClosed(j) \/ ReaderEnds(j) \/ CloseAbandoned(j)
    <3>1. conn' = [conn EXCEPT ![j] = Closed]
      BY <2>3 DEF ReaderClosed, ReaderEnds, CloseAbandoned
    <3> QED BY <3>1, <1>5, ClosedStates
  <2>4. CASE ReaderCancelled(j)
    BY <2>4, <1>4 DEF ReaderCancelled
  <2>5. CASE Answer(j)
    <3>1. PICK r, l : conn' = [conn EXCEPT ![j].up = Tail(@), ![j].down = @ \o r, ![j].list = l]
      BY <2>5 DEF Answer
    <3>2. conn[client].state = "open"
      BY <3>1, <1>1, <1>2, <1>3 DEF Streams
    <3> QED BY <2>5, <3>2, <1>2, AnswerHonest
  <2>7. CASE HangUp(j)
    <3>1. PICK rest : conn' = [conn EXCEPT ![j] = [Closed EXCEPT !.state = "shut", !.down = rest]]
      BY <2>7 DEF HangUp
    <3> QED BY <3>1, <1>5, ClosedStates
  <2> QED BY <1>8, <2>1, <2>2, <2>3, <2>4, <2>5, <2>7 DEF ReaderStep
<1>9. ASSUME UNCHANGED vars PROVE Goal
  BY <1>4, <1>9 DEF vars
<1>10. Goal
  BY <1>7, <1>8, <1>9 DEF Next
<1> QED BY <1>2, <1>3, <1>10 DEF ClientOpen

(* A subscriber learns of its acknowledgement from the reader alone. *)
LEMMA WhoConfirms ==
  ASSUME TypeInv, Requests, [Next]_vars, NEW t \in Topics, NEW c \in Tasks, Confirmed(c, t)', ~Confirmed(c, t)
  PROVE  \E k \in Conns : /\ HandleResult(k)
                          /\ Head(conn[k].down).topic = t /\ Head(conn[k].down).kind = "ok"
<1> USE TasksAssumption, NoneAssumption
<1>1. task \in [Tasks -> Peers] /\ task'[c].at \in {"subscribing", "unsubscribing"}
      /\ task'[c].topic = t /\ task'[c].fut = "ok"
  BY DEF TypeInv, Confirmed, AsksFor, Waiting
<1>2. task'[c] # task[c]
  BY DEF Confirmed, AsksFor, Waiting
<1>3. ASSUME NEW d \in Tasks, Request(d) \/ TaskStep(d) PROVE FALSE
  <2>1. ASSUME Return(d) PROVE FALSE
    BY <1>1, <1>2, <2>1, ReturnIdles
  <2>2. ASSUME NEW u \in Topics, Subscribe(d, u) \/ Unsubscribe(d, u) PROVE FALSE
    BY <1>1, <1>2, <2>2, SendsBegin DEF Begun
  <2>3. ASSUME NEW p, NEW r, task' = [task EXCEPT ![d].at = p, ![d].ref = r], p \in {"joining", "shutting"}
        PROVE  FALSE
    <3>1. task' = [task EXCEPT ![d] = [task[d] EXCEPT !.at = p, !.ref = r]]
      BY <2>3, <1>1 DEF Peers
    <3>2. [task[d] EXCEPT !.at = p, !.ref = r].at = p
      BY <1>1 DEF Peers
    <3> QED BY <1>1, <1>2, <2>3, <3>1, <3>2
  <2>4. CASE Connect(d)
    BY <2>4, <1>1, <1>2 DEF Connect, Peers
  <2>5. CASE Disconnect(d)
    BY <2>5, <2>3 DEF Disconnect
  <2>6. CASE Joined(d)
    BY <2>6, <2>1, <2>3 DEF Joined
  <2> QED BY <1>2, <1>3, <2>1, <2>2, <2>4, <2>5, <2>6 DEF Request, TaskStep, Cancelled,
             SubscribeRefused,
        SubscribeUnsent, DialSucceeds, DialFails, Answered, TimesOut, Shut, ShutCancelled
<1>4. ASSUME DropSubscriptions PROVE FALSE
  BY <1>1, <1>2, <1>4 DEF DropSubscriptions, TypeInv, Peers
<1>5. ASSUME NEW k \in Conns, HandleResult(k)
      PROVE  Head(conn[k].down).topic = t /\ Head(conn[k].down).kind = "ok"
  <2> DEFINE m == Head(conn[k].down)
  <2>1. /\ pending[m.topic] # None
        /\ task' = [task EXCEPT ![pending[m.topic]].fut = m.kind]
    BY <1>2, <1>5 DEF HandleResult
  <2>2. m.topic \in Topics
    BY <1>5, Reading DEF HandleResult, Frames
  <2>3. pending[m.topic] \in Tasks /\ task[pending[m.topic]].topic = m.topic
    BY <2>1, <2>2 DEF TypeInv, Requests
  <2> HIDE DEF m
  <2>4. c = pending[m.topic] /\ task'[c].fut = m.kind /\ task'[c].topic = task[c].topic
    BY <1>1, <1>2, <2>1, <2>3 DEF Peers
  <2>5. m.topic = t /\ m.kind = "ok"
    BY <1>1, <2>3, <2>4
  <2> QED BY <2>5 DEF m
<1> QED BY <1>2, <1>3, <1>4, <1>5 DEF Next, vars, ReaderStep, HandleEvent, CallbackRaises, ReaderClosed,
           ReaderEnds,
        ReaderCancelled, CloseAbandoned, Answer, Publish, HangUp

(* subscribe() reports a subscription that was acknowledged. *)
LEMMA WhoSubscribes ==
  ASSUME TypeInv, Core, [Next]_vars, NEW t \in Topics, subscribed'[t] # None, subscribed[t] = None
  PROVE  \E c \in Tasks : Confirmed(c, t)
<1> USE TasksAssumption, NoneAssumption
<1>1. ASSUME NEW c \in Tasks, Answered(c) PROVE Confirmed(c, t)
  BY <1>1 DEF Answered, TypeInv, Confirmed, AsksFor
<1>2. ASSUME NEW c \in Tasks, TimesOut(c) \/ Cancelled(c) \/ DialSucceeds(c) PROVE FALSE
  BY <1>2 DEF TimesOut, Cancelled, DialSucceeds, Nobody
<1>3. ASSUME NEW c \in Tasks, NEW u \in Topics, \/ Subscribe(c, u) \/ Unsubscribe(c, u)
                                               \/ SubscribeRefused(c, u) \/ SubscribeUnsent(c, u) PROVE FALSE
  BY <1>3 DEF Subscribe, Unsubscribe, SendAction, SubscribeRefused, SubscribeUnsent, TypeInv
<1>4. ASSUME Quiet PROVE FALSE
  BY <1>4 DEF Quiet, Nobody
<1> QED BY <1>1, <1>2, <1>3, <1>4, QuietOrNamed

(* Charged is inductive for a topic nobody unsubscribes from. *)
LEMMA ChargedStep ==
  ASSUME TypeInv, Core, Requests, [Next]_vars, NEW t \in Topics, Kept(t), Charged(t)
  PROVE  Charged(t)'
<1> USE TasksAssumption, NoneAssumption
<1>1. \A k \in Conns : Honest(conn'[k], t)
  BY HonestStep DEF Charged
<1>2. ASSUME ClientOpen', subscribed'[t] # None \/ \E c \in Tasks : Confirmed(c, t)'
      PROVE  t \in conn'[client'].list
  <2>1. ASSUME NEW d \in Tasks, DialSucceeds(d) PROVE FALSE
    <3>1. NoTaskReady /\ subscribed' = Nobody /\ Return(d)
      BY <2>1 DEF DialSucceeds
    <3>2. subscribed'[t] = None
      BY <3>1 DEF Nobody
    <3>3. ASSUME NEW c \in Tasks, Confirmed(c, t)' PROVE FALSE
      BY <3>1, <3>3, ReturnIdles DEF Confirmed, AsksFor, Waiting, NoTaskReady
    <3> QED BY <1>2, <3>2, <3>3
  <2>2. ClientOpen /\ client' = client /\ (t \in conn[client].list => t \in conn'[client].list)
    BY <1>2, <2>1, ListKept DEF Charged
  <2>3. CASE subscribed[t] # None \/ \E c \in Tasks : Confirmed(c, t)
    BY <2>2, <2>3 DEF Charged
  <2>4. CASE ~(subscribed[t] # None \/ \E c \in Tasks : Confirmed(c, t))
    <3>1. subscribed'[t] = None
      BY <2>4, WhoSubscribes
    <3>2. PICK c \in Tasks : Confirmed(c, t)' /\ ~Confirmed(c, t)
      BY <1>2, <2>4, <3>1
    <3>3. PICK k \in Conns : /\ HandleResult(k)
                             /\ Head(conn[k].down).topic = t /\ Head(conn[k].down).kind = "ok"
      BY <3>2, WhoConfirms
    <3>4. k = client
      BY <2>2, <3>3 DEF HandleResult, Core, Socket, Holders, ClientOpen, Connected
    <3>5. conn[k].down \in Seq(Frames) /\ conn[k].down # <<>>
      BY <3>3 DEF HandleResult, TypeInv, Streams
    <3>6. Acks(conn[k].down, t)
      BY <3>3, <3>5, LessDown
    <3>7. t \in conn[client].list
      BY <2>2, <3>4, <3>6 DEF Charged, Honest, ClientOpen
    <3> QED BY <2>2, <3>7
  <2> QED BY <2>3, <2>4
<1> QED BY <1>1, <1>2 DEF Charged

----------------------------------------------------------------------------
(* Waiting tasks, whichever callbacks raise. *)
(* There is a client, and the reader that goes with it has not ended. *)
Tended == client # None /\ reader[client] # "done"

(* Whoever waits, and is not to count as abandoned, is the one to be told, *)
(* and somebody is there to do it.                                         *)
Cared ==
  \A c \in Tasks \ abandoned : Waiting(c) =>
    /\ task[c].fut = "waiting" => pending[task[c].topic] = c /\ Tended
    /\ Connected => pending[task[c].topic] = c

(* Nobody waits beside it for the same topic. *)
Alone ==
  \A c \in Tasks \ abandoned, d \in Tasks :
    Waiting(c) /\ Waiting(d) /\ task[c].topic = task[d].topic => c = d

(* While the websocket is connected its reader is at work. *)
LEMMA ConnectedIsTended == TypeInv /\ Core /\ Connected => Tended
BY DEF Core, Holders, Connected, Tended

(* A reader ends by failing what is pending, or is cut short. *)
LEMMA TendedStep ==
  ASSUME TypeInv, Core, [Next]_vars, Tended
  PROVE  \/ Tended'
         \/ DropSubscriptions /\ pending' = pending
         \/ \E k \in Conns : CloseAbandoned(k)
<1> USE TasksAssumption, NoneAssumption
<1>1. /\ reader \in [Conns -> ReaderStates] /\ client \in Conns
      /\ task \in [Tasks -> Peers] /\ current \in Conns \cup {None}
  BY DEF TypeInv, Tended
<1>2. ASSUME UNCHANGED <<reader, client>> PROVE Tended'
  BY <1>2 DEF Tended
<1>3. ASSUME NEW c \in Tasks, Request(c) \/ TaskStep(c) PROVE Tended'
  <2>1. CASE Disconnect(c)
    BY <2>1, <1>1 DEF Disconnect, Tended
  <2>2. CASE DialSucceeds(c)
    BY <2>2, <1>1 DEF DialSucceeds, Tended
  <2>3. CASE Joined(c)
    <3>1. c = Owner /\ task[c].ref = current /\ task[c].at = "joining" /\ Stopped(task[c].ref)
      BY <2>3 DEF Joined, Core, Holders, Held
    <3>2. current = None /\ conn[client].state = "closed"
      BY <3>1 DEF Core, Holders, Stopped, Tended
    <3>3. reader[client] = "done"
      BY <3>2, <1>1 DEF Core, Socket
    <3> QED BY <3>3 DEF Tended
  <2>4. CASE Shut(c) \/ ShutCancelled(c)
    BY <2>4, <1>1 DEF Shut, ShutCancelled, Core, Holders, Held, Tended
  <2> QED BY <1>2, <1>3, <2>1, <2>2, <2>3, <2>4 DEF Request, TaskStep, Connect, Cancelled,
             Subscribe, SubscribeRefused, SubscribeUnsent, Unsubscribe, DialFails, Answered, TimesOut
<1>4. ASSUME NEW k \in Conns, ReaderStep(k) \/ Answer(k) \/ Publish(k) \/ HangUp(k)
      PROVE  Tended' \/ (DropSubscriptions /\ pending' = pending) \/ CloseAbandoned(k)
  <2>1. CASE CallbackRaises(k)
    BY <2>1, <1>1 DEF CallbackRaises, Tended
  <2> QED BY <1>2, <1>4, <2>1 DEF ReaderStep, HandleResult, HandleEvent, ReaderClosed, ReaderEnds,
             ReaderCancelled, Answer, Publish, HangUp
<1>5. CASE UNCHANGED vars
  BY <1>2, <1>5 DEF vars
<1> QED BY <1>3, <1>4, <1>5 DEF Next

(* Who counts as left waiting changes with a close() cut short, and when a *)
(* request begins.                                                         *)
LEMMA AbandonedStep ==
  ASSUME TypeInv, [Next]_vars
  PROVE  \/ abandoned' = abandoned
         \/ \E k \in Conns : CloseAbandoned(k)
         \/ \E c \in Tasks, t \in Topics : Subscribe(c, t) \/ Unsubscribe(c, t)
<1>1. ASSUME NEW c \in Tasks, Request(c) \/ TaskStep(c)
      PROVE  \/ abandoned' = abandoned
             \/ \E t \in Topics : Subscribe(c, t) \/ Unsubscribe(c, t)
  BY <1>1 DEF Request, TaskStep, Connect, Disconnect, Cancelled, SubscribeRefused,
     SubscribeUnsent, DialSucceeds, DialFails, Answered, TimesOut, Joined, Shut, ShutCancelled
<1>2. ASSUME NEW k \in Conns, ReaderStep(k) \/ Answer(k) \/ Publish(k) \/ HangUp(k)
      PROVE  abandoned' = abandoned \/ CloseAbandoned(k)
  BY <1>2 DEF ReaderStep, HandleResult, HandleEvent, CallbackRaises, ReaderClosed, ReaderEnds,
        ReaderCancelled, Answer, Publish, HangUp
<1> QED BY <1>1, <1>2 DEF Next, vars

(* A request begins. *)
LEMMA BegunCared ==
  ASSUME TypeInv, Core, Requests, Cared, Alone, NEW d \in Tasks, NEW u \in Topics,
         Begun(d, u), Subscribe(d, u) \/ Unsubscribe(d, u)
  PROVE  Cared' /\ Alone'
<1> USE TasksAssumption, NoneAssumption
<1>0. ASSUME NEW c \in Tasks, Waiting(c) PROVE task[c].topic \in Topics
  BY <1>0 DEF Requests, Request1
<1>1. /\ Connected /\ pending[u] = None /\ pending' = [pending EXCEPT ![u] = d]
      /\ UNCHANGED <<reader, client, current>> /\ task'[d].topic = u
      /\ \A c \in Tasks : c # d => task'[c] = task[c]
  BY DEF Begun
<1>2. Tended'
  BY <1>1, ConnectedIsTended DEF Tended
<1>3. abandoned' = IF \E c \in abandoned \ {d} : Waiting(c) /\ task[c].topic = u
                     THEN abandoned \cup {d} ELSE abandoned \ {d}
  BY DEF Subscribe, Unsubscribe, SendAction
<1>4. ASSUME NEW c \in Tasks \ abandoned', c # d, Waiting(c)'
      PROVE  /\ c \notin abandoned /\ task'[c] = task[c] /\ Waiting(c)
             /\ task[c].topic # u /\ pending'[task[c].topic] = c
  <2>1. c \notin abandoned /\ task'[c] = task[c] /\ Waiting(c)
    BY <1>1, <1>3, <1>4 DEF Waiting
  <2>2. pending[task[c].topic] = c /\ task[c].topic \in Topics
    BY <1>0, <1>1, <2>1 DEF Cared
  <2> QED BY <1>1, <2>1, <2>2 DEF TypeInv
<1>5. Cared'
  <2>1. ASSUME NEW c \in Tasks \ abandoned', Waiting(c)' PROVE pending'[task'[c].topic] = c
    <3>1. CASE c = d
      BY <1>1, <3>1 DEF TypeInv
    <3> QED BY <1>4, <2>1, <3>1
  <2> QED BY <1>2, <2>1 DEF Cared
<1>6. ASSUME NEW c \in Tasks \ abandoned', NEW e \in Tasks, Waiting(c)', Waiting(e)',
             task'[c].topic = task'[e].topic, c # e
      PROVE  FALSE
  <2>1. CASE c # d /\ e = d
    BY <1>1, <1>4, <1>6, <2>1
  <2>2. CASE c # d /\ e # d
    BY <1>1, <1>4, <1>6, <2>2 DEF Alone, Waiting
  <2>3. CASE c = d
    <3>1. task'[e] = task[e] /\ Waiting(e) /\ task[e].topic = u
      BY <1>1, <1>6, <2>3 DEF Waiting
    <3>2. e \notin abandoned
      BY <1>3, <1>6, <2>3, <3>1
    <3> QED BY <1>1, <3>1, <3>2 DEF Cared
  <2> QED BY <2>1, <2>2, <2>3
<1> QED BY <1>5, <1>6 DEF Alone

(* A request ends. *)
LEMMA EndedCared ==
  ASSUME TypeInv, Core, Requests, Cared, Alone, [Next]_vars, NEW d \in Tasks, Ended(d),
         abandoned' = abandoned
  PROVE  Cared' /\ Alone'
<1> USE TasksAssumption, NoneAssumption
<1>0. ASSUME NEW c \in Tasks, Waiting(c) PROVE task[c].topic \in Topics
  BY <1>0 DEF Requests, Request1
<1>1. /\ Waiting(d) /\ ~Waiting(d)' /\ pending' = [pending EXCEPT ![task[d].topic] = None]
      /\ \A c \in Tasks : c # d => task'[c] = task[c]
  BY ReturnIdles DEF Ended, Waiting
<1>2. Connected' => Connected
  <2>1. ASSUME NEW c \in Tasks, DialSucceeds(c) PROVE FALSE
    BY <1>1, <2>1, ReturnIdles DEF DialSucceeds, Waiting
  <2> QED BY <2>1, StaysDown
<1>3. Tended => Tended'
  <2>1. ~DropSubscriptions
    BY <1>1, DropKeepsPlaces DEF Waiting
  <2>2. ASSUME NEW k \in Conns, CloseAbandoned(k) PROVE FALSE
    BY <1>1, <2>2 DEF CloseAbandoned, Waiting
  <2> QED BY <2>1, <2>2, TendedStep
<1>4. ASSUME NEW c \in Tasks, Waiting(c)' PROVE c # d /\ task'[c] = task[c] /\ Waiting(c)
  BY <1>1, <1>4 DEF Waiting
<1>5. ASSUME NEW c \in Tasks \ abandoned, Waiting(c)' PROVE pending'[task[c].topic] = pending[task[c].topic]
  <2>1. task[c].topic # task[d].topic
    BY <1>1, <1>4, <1>5 DEF Alone
  <2> QED BY <1>0, <1>1, <1>4, <1>5, <2>1 DEF TypeInv
<1>6. Cared'
  BY <1>2, <1>3, <1>4, <1>5 DEF Cared, Waiting
<1> QED BY <1>4, <1>6 DEF Alone, Waiting

(* Futures are resolved, a connection comes up, or nothing of the kind. *)
LEMMA SettledCared ==
  ASSUME TypeInv, Core, Requests, Cared, Alone, [Next]_vars, Settled,
         ~\E k \in Conns : CloseAbandoned(k), abandoned' = abandoned
  PROVE  Cared' /\ Alone'
<1> USE TasksAssumption, NoneAssumption
<1>1. ASSUME NEW c \in Tasks, Waiting(c)'
      PROVE  /\ Waiting(c) /\ task'[c].topic = task[c].topic /\ task[c].topic \in Topics
             /\ task'[c].fut = "waiting" => task[c].fut = "waiting"
  <2>1. Waiting(c)
    BY <1>1 DEF Settled
  <2>2. task[c].topic \in Topics
    BY <2>1 DEF Requests, Request1
  <2> QED BY <2>1, <2>2 DEF Settled, Resolves
<1>2. ASSUME NEW c \in Tasks \ abandoned, Waiting(c)', task'[c].fut = "waiting"
      PROVE  pending'[task[c].topic] = c /\ Tended'
  <2>1. pending[task[c].topic] = c /\ Tended /\ task[c].topic \in Topics /\ task[c].fut = "waiting"
    BY <1>1, <1>2 DEF Cared
  <2>2. ~DropSubscriptions
    BY <1>2, <2>1, DropKeepsPlaces
  <2>3. Tended'
    BY <2>1, <2>2, TendedStep
  <2> QED BY <2>1, <2>3 DEF Settled, Tended
<1>3. ASSUME NEW c \in Tasks \ abandoned, Waiting(c)', task'[c].fut # "waiting", Connected'
      PROVE  pending'[task[c].topic] = c
  <2>1. ASSUME NEW d \in Tasks, DialSucceeds(d) PROVE FALSE
    <3>1. task[c].fut = "waiting"
      BY <1>1, <1>3, <2>1 DEF DialSucceeds, NoTaskReady, Requests, Request1
    <3>2. c # d /\ task'[c] = task[c]
      BY <1>1, <1>3, <2>1, ReturnIdles DEF DialSucceeds, Waiting
    <3> QED BY <1>3, <3>1, <3>2
  <2>2. pending[task[c].topic] = c
    BY <1>1, <1>3, <2>1, StaysDown DEF Cared
  <2>3. client' # None
    BY <1>3 DEF Connected
  <2> QED BY <2>2, <2>3 DEF Settled
<1>4. Cared'
  BY <1>1, <1>2, <1>3 DEF Cared
<1> QED BY <1>1, <1>4 DEF Alone

(* Cared is inductive together with Alone. *)
LEMMA CaredStep ==
  ASSUME TypeInv, Core, Requests, Cared, Alone, [Next]_vars PROVE Cared' /\ Alone'
<1>1. ASSUME NEW d \in Tasks, NEW u \in Topics, Subscribe(d, u) \/ Unsubscribe(d, u)
      PROVE  Cared' /\ Alone'
  BY <1>1, SendsBegin, BegunCared
<1>2. ASSUME NEW k \in Conns, CloseAbandoned(k) PROVE Cared' /\ Alone'
  BY <1>2 DEF CloseAbandoned, Cared, Alone, Waiting
<1>3. CASE /\ ~\E k \in Conns : CloseAbandoned(k)
           /\ ~\E c \in Tasks, t \in Topics : Subscribe(c, t) \/ Unsubscribe(c, t)
  <2>1. abandoned' = abandoned
    BY <1>3, AbandonedStep
  <2>2. Settled \/ \E d \in Tasks : Ended(d)
    BY <1>3, OthersSettle, EndsEnd
  <2> QED BY <1>3, <2>1, <2>2, SettledCared, EndedCared
<1> QED BY <1>1, <1>2, <1>3

----------------------------------------------------------------------------
(* The theorems.                                                           *)

(* The inductive invariant. *)
IInv == TypeInv /\ Core /\ Requests /\ Emptied

(* IInv holds initially. *)
LEMMA InitIInv == Init => IInv
<1> SUFFICES ASSUME Init PROVE IInv
  OBVIOUS
<1> USE TasksAssumption, NoneAssumption
<1>1. TypeInv
  BY InitTyped
<1>2. /\ \A c \in Tasks : task[c].at = "idle" /\ task[c].fut = "none" /\ task[c].ref = None
      /\ \A k \in Conns : conn[k].state = "closed" /\ reader[k] = "done"
      /\ client = None /\ current = None /\ callbacks = Nobody /\ pending = Nobody
  BY DEF Init, Idle, Closed
<1>3. Core
  BY <1>2 DEF Core, Holders, Socket, Held, Up
<1>4. Requests
  BY <1>2 DEF Requests, Request1, Waiting, Nobody
<1> QED BY <1>1, <1>2, <1>3, <1>4 DEF IInv, Emptied

(* The inductive invariant: the socket has one holder at a time and what   *)
(* outlasts its connection is a reader in its own close(), what is pending *)
(* belongs to a task that waits for it, and a client that is gone has left *)
(* no callback and no request.                                             *)
THEOREM Inductive == Spec => []IInv
<1>1. IInv /\ [Next]_vars => IInv'
  BY TypeStep, CoreStep, RequestsStep, EmptiedStep DEF IInv
<1> QED BY <1>1, InitIInv, PTL DEF Spec

(* disconnect() leaves nothing behind but a reader that was in its own     *)
(* close() before another connection came up, in whatever order the        *)
(* requests, the readers and the charger take their turns.                 *)
THEOREM LeavesNothing == Spec => []NothingLeftBehind
<1>1. IInv => NothingLeftBehind
  <2> SUFFICES ASSUME IInv, client = None
               PROVE  /\ callbacks = Nobody /\ pending = Nobody
                      /\ \A k \in Conns : reader[k] # "closing" => Free(k)
    BY DEF NothingLeftBehind
  <2> USE TasksAssumption, NoneAssumption
  <2>1. current = None /\ task[Owner].at \notin {"joining", "shutting"}
    BY DEF IInv, TypeInv, Core, Holders
  <2>2. \A c \in Tasks : task[c].ref = None
    BY <2>1 DEF IInv, Core, Holders, Held
  <2>3. ASSUME NEW k \in Conns, reader[k] # "closing" PROVE Free(k)
    BY <2>1, <2>2, <2>3 DEF IInv, Core, Socket, Free
  <2> QED BY <2>3 DEF IInv, Emptied
<1> QED BY <1>1, Inductive, PTL

(* A reader that stops takes its socket with it, or disconnect() is about  *)
(* to: no socket lingers open with no reader.                              *)
THEOREM NoneLingers == Spec => []NoLingeringSocket
<1>1. IInv => NoLingeringSocket
  BY DEF IInv, Core, Socket, Up, NoLingeringSocket
<1> QED BY <1>1, Inductive, PTL

(* Told, wherever a topic has one user. *)
EachTold == \A t \in Topics : Sole(t) => Told(t)

(* Topic by topic, where a topic has one user: whoever was told it is      *)
(* subscribed is registered while the websocket is connected, unless the   *)
(* end of an older reader took the callback out.                           *)
THEOREM SoleIsTold == Spec => []EachTold
<1> USE NoneAssumption
<1>1. Init => EachTold
  BY DEF Init, EachTold, Told, AsksFor, Expecting, Asking, Waiting, Idle, Connected
<1>2. IInv /\ EachTold /\ [Next]_vars => EachTold'
  BY ToldStep DEF IInv, EachTold
<1> QED BY <1>1, <1>2, Inductive, PTL DEF Spec

(* The one subscriber of a topic, once told so, loses its callback to the  *)
(* end of an older reader only: not to a timeout, a cancellation, a        *)
(* reconnection or the late answers they leave behind.                     *)
THEOREM StaysRegistered == Spec => []OnlySweptAreLost
<1>1. EachTold => OnlySweptAreLost
  BY DEF EachTold, Told, OnlySweptAreLost
<1> QED BY <1>1, SoleIsTold, PTL

(* The callback of the one subscriber of a topic is in place by the time   *)
(* the acknowledgement has been read and the first event is heard, also    *)
(* when it asked on an older connection, unless the end of an older reader *)
(* comes between.                                                          *)
THEOREM HearsTheFirst == Spec => []FirstEventIsHeard
<1>1. IInv /\ EachTold => FirstEventIsHeard
  <2> SUFFICES ASSUME IInv, EachTold, NEW c \in Tasks, Connected, Sole(task[c].topic),
                      task[c].at = "subscribing", task[c].fut = "ok", task[c].topic \notin swept
               PROVE  callbacks[task[c].topic] = c
    BY DEF FirstEventIsHeard
  <2>1. task[c].topic \in Topics
    BY TasksAssumption DEF IInv, Requests, Request1, Waiting
  <2>2. Told(task[c].topic) /\ Expecting(c, task[c].topic)
    BY <2>1 DEF EachTold, Expecting
  <2> QED BY <2>2 DEF Told
<1> QED BY <1>1, SoleIsTold, Inductive, PTL

(* Charged, wherever nobody leaves a topic. *)
EachCharged == \A t \in Topics : Kept(t) => Charged(t)

(* Topic by topic, where nobody unsubscribes from it: a subscription that  *)
(* was reported as made is one the charger has.                            *)
THEOREM KeptIsCharged == Spec => []EachCharged
<1> USE NoneAssumption
<1>1. Init => EachCharged
  BY DEF Init, EachCharged, Charged, Honest, Closed, ClientOpen, Connected
<1>2. IInv /\ EachCharged /\ [Next]_vars => EachCharged'
  BY ChargedStep DEF IInv, EachCharged
<1> QED BY <1>1, <1>2, Inductive, PTL DEF Spec

(* A subscription that was reported as made is one the charger has, as     *)
(* long as nobody unsubscribes from the topic: also when it is shared, and *)
(* an answer is late.                                                      *)
THEOREM ChargerHasIt == Spec => []SubscribedAtCharger
<1>1. EachCharged => SubscribedAtCharger
  BY DEF EachCharged, Charged, ClientOpen, SubscribedAtCharger
<1> QED BY <1>1, KeptIsCharged, PTL

(* Whichever callbacks raise, and however many tasks share a topic, who    *)
(* waits for a result has its future pending, and there is a reader that   *)
(* has not ended to resolve or fail it.  The exception are those who       *)
(* waited when a disconnect() cut their reader short in its close(), and   *)
(* who asks for their topic while they still do.                           *)
THEOREM NoneOrphaned == Spec => []NoOrphanWaiter
<1>1. Init => Cared /\ Alone
  BY DEF Init, Cared, Alone, Waiting, Idle
<1>2. IInv /\ Cared /\ Alone /\ [Next]_vars => Cared' /\ Alone'
  BY CaredStep DEF IInv
<1>3. Cared => NoOrphanWaiter
  BY DEF Cared, Tended, NoOrphanWaiter, Attended
<1> QED BY <1>1, <1>2, <1>3, Inductive, PTL DEF Spec

=============================================================================
