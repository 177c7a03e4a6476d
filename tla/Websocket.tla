----------------------------- MODULE Websocket -----------------------------
(***************************************************************************)
(* The charger's live event stream (src/src/peblar/websocket.py): one      *)
(* PeblarWebsocket shared by several asyncio tasks, one of which connects  *)
(* and disconnects while any may subscribe and unsubscribe, the reader     *)
(* task of each connection, and the charger at the other end of a TCP      *)
(* connection.                                                             *)
(*                                                                         *)
(* One action is the code a task runs between two awaits that suspend it.  *)
(* Sending a frame is taken to be immediate; a slow send is a slow channel.*)
(* A reader starts before any task can act on its connection: it is queued *)
(* the moment connect() returns.                                           *)
(***************************************************************************)
EXTENDS Naturals, Sequences

CONSTANTS
  Tasks,      \* the tasks that share the websocket
  Owner,      \* the one that connects and disconnects
  Uses,       \* <<task, topic>>: who subscribes to what
  Leaves,     \* <<task, topic>>: who also unsubscribes from what
  Raisers,    \* tasks whose callbacks may raise
  Topics,
  Conns,      \* connections, reused once nothing refers to them
  None,
  MaxQueue    \* bound: a channel holding so many frames takes no more

ASSUME NoneAssumption == None \notin Tasks \cup Conns \cup Topics
ASSUME TasksAssumption ==
  /\ Owner \in Tasks /\ Raisers \subseteq Tasks
  /\ Uses \subseteq Tasks \X Topics /\ Leaves \subseteq Uses
ASSUME BoundAssumption == MaxQueue \in Nat \ {0}

VARIABLES
  conn,       \* per connection: its state, both channels, the charger's list
  reader,     \* per connection: the reader task created with it
  client,     \* self._client
  current,    \* self._reader, as the connection whose reader it is
  callbacks,  \* self._callbacks: per topic the task that registered it
  pending,    \* self._pending: per topic the task whose future it is
  task,       \* per task: where it is, and the state of its future
  subscribed, \* history: per topic, whom subscribe() told it is on, over
              \* this connection and with no later request for the topic
  swept,      \* history: topics whose callbacks the end of a reader dropped
              \* on this connection, and not subscribed to since
  abandoned   \* history: tasks that waited for a result when the close() of
              \* their reader was cut short, or asked while one of those did

past == <<subscribed, swept, abandoned>>
vars == <<conn, reader, client, current, callbacks, pending, task, past>>

----------------------------------------------------------------------------
(* Types and helpers.                                                      *)

Frames == [kind : {"subscribe", "unsubscribe", "ok", "rejected", "event"},
           topic : Topics]

(* "shut": the charger is gone, unnoticed; "closing": close() awaits the   *)
(* handshake, and the closed flag is already up.                           *)
ConnStates == {"open", "shut", "closing", "closed"}
ReaderStates == {"reading", "cancelling", "closing", "abandoning", "done"}
Futures == {"none", "waiting", "ok", "rejected", "lost"}
Places == {"idle", "dialing", "subscribing", "unsubscribing", "joining", "shutting"}

Closed == [state |-> "closed", up |-> <<>>, down |-> <<>>, list |-> {}]
Idle == [at |-> "idle", topic |-> None, fut |-> "none", ref |-> None]
Nobody == [t \in Topics |-> None]

(* The connected property. *)
Connected ==
  /\ client # None /\ conn[client].state \in {"open", "shut"}
  /\ current # None /\ reader[current] # "done"

Stopped(r) == IF r = None THEN TRUE ELSE reader[r] = "done"

Free(k) ==
  /\ conn[k].state = "closed" /\ reader[k] = "done"
  /\ k \notin {client, current} /\ \A c \in Tasks : task[c].ref # k

Waiting(c) == task[c].at \in {"subscribing", "unsubscribing"}

(* A task whose future is resolved is in the ready queue: it runs before   *)
(* the event loop looks at the network again.                              *)
NoTaskReady == \A c \in Tasks : task[c].fut \in {"none", "waiting"}

Init ==
  /\ conn = [k \in Conns |-> Closed]
  /\ reader = [k \in Conns |-> "done"]
  /\ client = None
  /\ current = None
  /\ callbacks = Nobody
  /\ pending = Nobody
  /\ task = [c \in Tasks |-> Idle]
  /\ subscribed = Nobody /\ swept = {} /\ abandoned = {}

Return(c) == task' = [task EXCEPT ![c] = Idle]

----------------------------------------------------------------------------
(* connect()                                                               *)

(* A reader that still awaits its own close() does not count as connected: *)
(* a new connection may come up next to it.                                *)
Connect(c) ==
  /\ c = Owner /\ task[c].at = "idle"
  /\ ~Connected
  /\ task' = [task EXCEPT ![c].at = "dialing"]
  /\ UNCHANGED <<conn, reader, client, current, callbacks, pending, past>>

DialSucceeds(c) ==
  /\ task[c].at = "dialing" /\ NoTaskReady
  /\ \E k \in Conns :
       /\ Free(k)
       /\ conn' = [conn EXCEPT ![k] = [Closed EXCEPT !.state = "open"]]
       /\ reader' = [reader EXCEPT ![k] = "reading"]
       /\ client' = k
       /\ current' = k
  /\ Return(c)
  /\ subscribed' = Nobody /\ swept' = {}
  /\ UNCHANGED <<callbacks, pending, abandoned>>

(* It fails, or the caller is cancelled meanwhile. *)
DialFails(c) ==
  /\ task[c].at = "dialing"
  /\ Return(c)
  /\ UNCHANGED <<conn, reader, client, current, callbacks, pending, past>>

----------------------------------------------------------------------------
(* subscribe() and unsubscribe()                                           *)

Admitted(t) == Connected /\ pending[t] = None

(* _send_action() up to its wait: the future is registered, the frame sent.*)
SendAction(c, t, kind) ==
  /\ Len(conn[client].up) < MaxQueue
  /\ pending' = [pending EXCEPT ![t] = c]
  /\ conn' = [conn EXCEPT ![client].up =
                IF conn[client].state = "open"
                  THEN Append(@, [kind |-> kind, topic |-> t]) ELSE @]
  /\ task' = [task EXCEPT ![c] = [Idle EXCEPT !.topic = t, !.fut = "waiting",
                !.at = IF kind = "subscribe" THEN "subscribing" ELSE "unsubscribing"]]
  /\ subscribed' = [subscribed EXCEPT ![t] = None]
  /\ abandoned' = IF \E d \in abandoned \ {c} : Waiting(d) /\ task[d].topic = t
                    THEN abandoned \cup {c} ELSE abandoned \ {c}

(* Slip: the callback is left for the acknowledgement to register. *)
SubscribeUnheard(c, t) ==
  /\ <<c, t>> \in Uses /\ task[c].at = "idle"
  /\ Admitted(t)
  /\ SendAction(c, t, "subscribe")
  /\ swept' = swept \ {t}
  /\ UNCHANGED <<reader, client, current, callbacks>>

(* The callback goes in before the request goes out. *)
Subscribe(c, t) ==
  /\ <<c, t>> \in Uses /\ task[c].at = "idle"
  /\ Admitted(t)
  /\ callbacks' = [callbacks EXCEPT ![t] = c]
  /\ SendAction(c, t, "subscribe")
  /\ swept' = swept \ {t}
  /\ UNCHANGED <<reader, client, current>>

(* Not connected, or a request for the topic is already in flight: the     *)
(* callback just put in is taken out again, by topic.                      *)
SubscribeRefused(c, t) ==
  /\ <<c, t>> \in Uses /\ task[c].at = "idle"
  /\ ~Admitted(t)
  /\ callbacks' = [callbacks EXCEPT ![t] = None]
  /\ UNCHANGED <<conn, reader, client, current, pending, task, past>>

(* The send finds the connection gone: future and callback are both popped.*)
SubscribeUnsent(c, t) ==
  /\ <<c, t>> \in Uses /\ task[c].at = "idle"
  /\ Admitted(t) /\ conn[client].state = "shut"
  /\ callbacks' = [callbacks EXCEPT ![t] = None]
  /\ subscribed' = [subscribed EXCEPT ![t] = None]
  /\ UNCHANGED <<conn, reader, client, current, pending, task, swept, abandoned>>

Unsubscribe(c, t) ==
  /\ <<c, t>> \in Leaves /\ task[c].at = "idle"
  /\ Admitted(t)
  /\ SendAction(c, t, "unsubscribe")
  /\ UNCHANGED <<reader, client, current, callbacks, swept>>

(* Slip: a rejected request is taken for an accepted one. *)
AnsweredAnyhow(c) ==
  LET t == task[c].topic IN
  /\ Waiting(c) /\ task[c].fut # "waiting"
  /\ pending' = [pending EXCEPT ![t] = None]
  /\ subscribed' = IF task[c].at = "subscribing" /\ Connected
                     THEN [subscribed EXCEPT ![t] = c] ELSE subscribed
  /\ Return(c)
  /\ UNCHANGED <<conn, reader, client, current, callbacks, swept, abandoned>>

(* The future is resolved and its task runs on: the entry for the topic is *)
(* popped, whoever it belongs to by now.                                   *)
Answered(c) ==
  LET t == task[c].topic IN
  /\ Waiting(c) /\ task[c].fut # "waiting"
  /\ pending' = [pending EXCEPT ![t] = None]
  /\ IF task[c].at = "subscribing"
       THEN /\ callbacks' = IF task[c].fut = "ok" THEN callbacks
                            ELSE [callbacks EXCEPT ![t] = None]
            /\ subscribed' = IF task[c].fut = "ok" /\ Connected
                               THEN [subscribed EXCEPT ![t] = c] ELSE subscribed
       ELSE /\ callbacks' = IF task[c].fut = "ok" THEN [callbacks EXCEPT ![t] = None]
                            ELSE callbacks
            /\ UNCHANGED subscribed
  /\ Return(c)
  /\ UNCHANGED <<conn, reader, client, current, swept, abandoned>>

(* Slip: a timeout drops every callback instead of its own. *)
TimesOutClears(c) ==
  /\ Waiting(c)
  /\ pending' = [pending EXCEPT ![task[c].topic] = None]
  /\ callbacks' = IF task[c].at = "subscribing" THEN Nobody ELSE callbacks
  /\ Return(c)
  /\ UNCHANGED <<conn, reader, client, current, past>>

(* Slip: the timeout covers the send and not the wait. *)
TimesOutUnsent(c) ==
  LET t == task[c].topic IN
  /\ Waiting(c) /\ ~Connected
  /\ pending' = [pending EXCEPT ![t] = None]
  /\ callbacks' = IF task[c].at = "subscribing" THEN [callbacks EXCEPT ![t] = None]
                  ELSE callbacks
  /\ Return(c)
  /\ UNCHANGED <<conn, reader, client, current, past>>

(* asyncio.timeout expires, perhaps just as the answer comes in. *)
TimesOut(c) ==
  LET t == task[c].topic IN
  /\ Waiting(c)
  /\ pending' = [pending EXCEPT ![t] = None]
  /\ callbacks' = IF task[c].at = "subscribing" THEN [callbacks EXCEPT ![t] = None]
                  ELSE callbacks
  /\ Return(c)
  /\ UNCHANGED <<conn, reader, client, current, past>>

(* The waiting task is cancelled: the callback of a subscribe stays. *)
Cancelled(c) ==
  /\ Waiting(c)
  /\ pending' = [pending EXCEPT ![task[c].topic] = None]
  /\ Return(c)
  /\ UNCHANGED <<conn, reader, client, current, callbacks, past>>

----------------------------------------------------------------------------
(* disconnect()                                                            *)

(* It cancels the reader and waits for it, if there is one.  Cancelling    *)
(* the caller meanwhile cancels the reader once more, and is swallowed.    *)
Disconnect(c) ==
  /\ c = Owner /\ task[c].at = "idle"
  /\ current # None \/ client # None
  /\ reader' = IF current # None /\ reader[current] # "done"
                 THEN [reader EXCEPT ![current] =
                         IF @ = "closing" THEN "abandoning" ELSE "cancelling"]
                 ELSE reader
  /\ task' = [task EXCEPT ![c].at = "joining", ![c].ref = current]
  /\ subscribed' = Nobody
  /\ UNCHANGED <<conn, client, current, callbacks, pending, swept, abandoned>>

(* Then it closes the socket, unless it is closed already ... *)
Joined(c) ==
  /\ task[c].at = "joining"
  /\ Stopped(task[c].ref)
  /\ current' = None
  /\ IF client # None /\ conn[client].state \in {"open", "shut"}
       THEN /\ conn' = [conn EXCEPT ![client] = [Closed EXCEPT !.state = "closing"]]
            /\ task' = [task EXCEPT ![c].at = "shutting", ![c].ref = client]
            /\ UNCHANGED <<client, callbacks, pending>>
       ELSE /\ client' = None /\ callbacks' = Nobody /\ pending' = Nobody
            /\ Return(c)
            /\ UNCHANGED conn
  /\ UNCHANGED <<reader, past>>

(* Slip: the requests in flight are not dropped. *)
ShutKeepsPending(c) ==
  /\ task[c].at = "shutting"
  /\ conn' = [conn EXCEPT ![task[c].ref] = Closed]
  /\ client' = None /\ callbacks' = Nobody
  /\ Return(c)
  /\ UNCHANGED <<reader, current, pending, past>>

(* The caller is cancelled: the socket is cut off and disconnect() ends,   *)
(* with the client still there.                                            *)
ShutCancelled(c) ==
  /\ task[c].at = "shutting"
  /\ conn' = [conn EXCEPT ![task[c].ref] = Closed]
  /\ Return(c)
  /\ UNCHANGED <<reader, client, current, callbacks, pending, past>>

(* ... and drops everything. *)
Shut(c) ==
  /\ task[c].at = "shutting"
  /\ conn' = [conn EXCEPT ![task[c].ref] = Closed]
  /\ client' = None /\ callbacks' = Nobody /\ pending' = Nobody
  /\ Return(c)
  /\ UNCHANGED <<reader, current, past>>

----------------------------------------------------------------------------
(* The reader of connection k: _read_messages().                           *)

(* Slip: the callbacks are dropped, and the pending futures not failed.     *)
DropUntold ==
  /\ callbacks' = Nobody
  /\ swept' = Topics
  /\ UNCHANGED task

(* Its last lines: callbacks dropped and pending futures failed, also those *)
(* of a newer connection.                                                  *)
DropSubscriptions ==
  /\ callbacks' = Nobody
  /\ swept' = Topics
  /\ task' = [c \in Tasks |->
       IF task[c].fut = "waiting" /\ \E t \in Topics : pending[t] = c
         THEN [task[c] EXCEPT !.fut = "lost"] ELSE task[c]]

(* Slip: anything on a topic with a pending future resolves it. *)
HandleResultAnyKind(k) ==
  LET m == Head(conn[k].down)
      c == pending[m.topic] IN
  /\ reader[k] = "reading" /\ conn[k].state \in {"open", "shut"}
  /\ conn[k].down # <<>>
  /\ conn' = [conn EXCEPT ![k].down = Tail(@)]
  /\ task' = IF c # None /\ task[c].fut = "waiting"
               THEN [task EXCEPT ![c].fut = m.kind] ELSE task
  /\ UNCHANGED <<reader, client, current, callbacks, pending, past>>

(* A result resolves whatever future is pending for its topic. *)
HandleResult(k) ==
  LET m == Head(conn[k].down)
      c == pending[m.topic] IN
  /\ reader[k] = "reading" /\ conn[k].state \in {"open", "shut"}
  /\ conn[k].down # <<>> /\ m.kind \in {"ok", "rejected"}
  /\ conn' = [conn EXCEPT ![k].down = Tail(@)]
  /\ task' = IF c # None /\ task[c].fut = "waiting"
               THEN [task EXCEPT ![c].fut = m.kind] ELSE task
  /\ UNCHANGED <<reader, client, current, callbacks, pending, past>>

(* Slip: the reader waits for somebody to take the event. *)
HandleEventTaken(k) ==
  LET m == Head(conn[k].down) IN
  /\ reader[k] = "reading" /\ conn[k].state \in {"open", "shut"}
  /\ conn[k].down # <<>> /\ m.kind = "event" /\ callbacks[m.topic] # None
  /\ conn' = [conn EXCEPT ![k].down = Tail(@)]
  /\ UNCHANGED <<reader, client, current, callbacks, pending, task, past>>

(* An event goes to the topic's callback, or nowhere. *)
HandleEvent(k) ==
  LET m == Head(conn[k].down) IN
  /\ reader[k] = "reading" /\ conn[k].state \in {"open", "shut"}
  /\ conn[k].down # <<>> /\ m.kind = "event"
  /\ conn' = [conn EXCEPT ![k].down = Tail(@)]
  /\ UNCHANGED <<reader, client, current, callbacks, pending, task, past>>

(* Slip: a reader that dies leaves its socket open. *)
CallbackRaisesOpen(k) ==
  LET m == Head(conn[k].down) IN
  /\ reader[k] = "reading" /\ conn[k].state \in {"open", "shut"}
  /\ conn[k].down # <<>> /\ m.kind = "event" /\ callbacks[m.topic] \in Raisers
  /\ reader' = [reader EXCEPT ![k] = "done"]
  /\ DropSubscriptions
  /\ subscribed' = Nobody
  /\ UNCHANGED <<conn, client, current, pending, abandoned>>

(* A callback raises.  The reader closes the socket itself, and only when  *)
(* that is done drops the subscriptions.                                   *)
CallbackRaises(k) ==
  LET m == Head(conn[k].down) IN
  /\ reader[k] = "reading" /\ conn[k].state \in {"open", "shut"}
  /\ conn[k].down # <<>> /\ m.kind = "event" /\ callbacks[m.topic] \in Raisers
  /\ conn' = [conn EXCEPT ![k] = [Closed EXCEPT !.state = "closing"]]
  /\ reader' = [reader EXCEPT ![k] = "closing"]
  /\ subscribed' = Nobody
  /\ UNCHANGED <<client, current, callbacks, pending, task, swept, abandoned>>

ReaderClosed(k) ==
  /\ reader[k] = "closing"
  /\ conn' = [conn EXCEPT ![k] = Closed]
  /\ reader' = [reader EXCEPT ![k] = "done"]
  /\ DropSubscriptions
  /\ UNCHANGED <<client, current, pending, subscribed, abandoned>>

(* The charger hung up and everything it sent has been read. *)
ReaderEnds(k) ==
  /\ reader[k] = "reading"
  /\ conn[k].state = "shut" /\ conn[k].down = <<>>
  /\ conn' = [conn EXCEPT ![k] = Closed]
  /\ reader' = [reader EXCEPT ![k] = "done"]
  /\ DropSubscriptions
  /\ subscribed' = Nobody
  /\ UNCHANGED <<client, current, pending, abandoned>>

(* disconnect()'s cancellation arrives while reading ... *)
ReaderCancelled(k) ==
  /\ reader[k] = "cancelling"
  /\ reader' = [reader EXCEPT ![k] = "done"]
  /\ DropSubscriptions
  /\ UNCHANGED <<conn, client, current, pending, subscribed, abandoned>>

(* ... or inside the reader's own close(), which it ends there and then:   *)
(* nothing is dropped and nobody told.                                     *)
CloseAbandoned(k) ==
  /\ reader[k] = "abandoning"
  /\ conn' = [conn EXCEPT ![k] = Closed]
  /\ reader' = [reader EXCEPT ![k] = "done"]
  /\ abandoned' = {c \in Tasks : Waiting(c)}
  /\ UNCHANGED <<client, current, callbacks, pending, task, subscribed, swept>>

----------------------------------------------------------------------------
(* The charger.                                                            *)

(* It answers a request; the current state follows a subscription at once. *)
Answer(k) ==
  LET m == Head(conn[k].up)
      reply(kinds) == [i \in DOMAIN kinds |-> [kind |-> kinds[i], topic |-> m.topic]]
      give(kinds, list) ==
        conn' = [conn EXCEPT ![k].up = Tail(@), ![k].down = @ \o reply(kinds),
                             ![k].list = list] IN
  /\ conn[k].state = "open" /\ conn[k].up # <<>> /\ Len(conn[k].down) < MaxQueue
  /\ \/ m.kind = "subscribe" /\ give(<<"ok", "event">>, conn[k].list \cup {m.topic})
     \/ m.kind = "unsubscribe" /\ give(<<"ok">>, conn[k].list \ {m.topic})
     \/ give(<<"rejected">>, conn[k].list)
  /\ UNCHANGED <<reader, client, current, callbacks, pending, task, past>>

Publish(k) ==
  /\ conn[k].state = "open" /\ Len(conn[k].down) < MaxQueue
  /\ \E t \in conn[k].list :
       conn' = [conn EXCEPT ![k].down = Append(@, [kind |-> "event", topic |-> t])]
  /\ UNCHANGED <<reader, client, current, callbacks, pending, task, past>>

(* It closes the connection, or the network does, losing what was under way.*)
HangUp(k) ==
  /\ conn[k].state = "open"
  /\ \E rest \in {conn[k].down, <<>>} :
       conn' = [conn EXCEPT ![k] = [Closed EXCEPT !.state = "shut", !.down = rest]]
  /\ UNCHANGED <<reader, client, current, callbacks, pending, task, past>>

----------------------------------------------------------------------------
TaskStep(c) ==
  \/ DialSucceeds(c) \/ DialFails(c) \/ Answered(c) \/ TimesOut(c)
  \/ Joined(c) \/ Shut(c)

ReaderStep(k) ==
  \/ HandleResult(k) \/ HandleEvent(k) \/ CallbackRaises(k) \/ ReaderClosed(k)
  \/ ReaderEnds(k) \/ ReaderCancelled(k) \/ CloseAbandoned(k)

Request(c) ==
  \/ Connect(c) \/ Disconnect(c) \/ Cancelled(c) \/ ShutCancelled(c)
  \/ \E t \in Topics : \/ Subscribe(c, t) \/ SubscribeRefused(c, t)
                       \/ SubscribeUnsent(c, t) \/ Unsubscribe(c, t)

Next ==
  \/ \E c \in Tasks : Request(c) \/ TaskStep(c)
  \/ \E k \in Conns : ReaderStep(k) \/ Answer(k) \/ Publish(k) \/ HangUp(k)

(* The event loop runs every task that can run; dialing, requests and the  *)
(* closing handshake are all under a timeout.                              *)
Fairness ==
  /\ \A c \in Tasks : WF_vars(TaskStep(c))
  /\ \A k \in Conns : WF_vars(ReaderStep(k))

Spec == Init /\ [][Next]_vars
FairSpec == Spec /\ Fairness
----------------------------------------------------------------------------
(* Properties.                                                             *)

(* A topic with one subscriber, and one that nobody unsubscribes from. *)
Sole(t) == \A c, d \in Tasks : <<c, t>> \in Uses /\ <<d, t>> \in Uses => c = d
Kept(t) == \A c \in Tasks : <<c, t>> \notin Leaves

(* Types of every variable. *)
TypeOK ==
  /\ \A k \in Conns : /\ conn[k].state \in ConnStates
                      /\ conn[k].up \in Seq(Frames) /\ conn[k].down \in Seq(Frames)
                      /\ conn[k].list \subseteq Topics
  /\ reader \in [Conns -> ReaderStates]
  /\ client \in Conns \cup {None} /\ current \in Conns \cup {None}
  /\ callbacks \in [Topics -> Tasks \cup {None}]
  /\ pending \in [Topics -> Tasks \cup {None}]
  /\ task \in [Tasks -> [at : Places, topic : Topics \cup {None}, fut : Futures,
                          ref : Conns \cup {None}]]
  /\ subscribed \in [Topics -> Tasks \cup {None}]
  /\ swept \subseteq Topics /\ abandoned \subseteq Tasks

(* subscribe() hands "every event to the callback": whoever it told is     *)
(* subscribed stays registered for as long as the websocket is connected.  *)
SubscribedIsRegistered ==
  Connected => \A t \in Topics : subscribed[t] # None => callbacks[t] = subscribed[t]

(* Of a topic with one subscriber, only the end of an older reader takes   *)
(* the callback once the subscriber was told so: no timeout, late answer,  *)
(* cancelled or refused request, and nothing of a connection before.       *)
OnlySweptAreLost ==
  Connected => \A t \in Topics \ swept :
    Sole(t) /\ subscribed[t] # None => callbacks[t] = subscribed[t]

(* The first event comes right behind the acknowledgement, before the      *)
(* subscriber has run again; its callback is already in place by then,     *)
(* unless the end of an older reader or another subscriber came between.   *)
FirstEventIsHeard ==
  \A c \in Tasks :
    Connected /\ task[c].at = "subscribing" /\ task[c].fut = "ok" /\ Sole(task[c].topic)
    => task[c].topic \in swept \/ callbacks[task[c].topic] = c

(* A subscription that was reported as made is one the charger has, unless *)
(* somebody unsubscribes from the topic: results have no number.           *)
SubscribedAtCharger ==
  Connected /\ conn[client].state = "open"
  => \A t \in Topics : Kept(t) /\ subscribed[t] # None => t \in conn[client].list

(* c waits for a result that somebody can still give: its future is the    *)
(* one pending for its topic, and the reader that resolves or fails what   *)
(* is pending has not ended.                                               *)
Attended(c) ==
  Waiting(c) /\ task[c].fut = "waiting"
  => pending[task[c].topic] = c /\ client # None /\ reader[client] # "done"

(* "Nobody is going to answer a pending subscribe any more": a reader that *)
(* ends fails what is pending.  Left waiting are those whose reader was    *)
(* cut short in its close(), by a disconnect(), and who asked beside one.  *)
NoOrphanWaiter == \A c \in Tasks \ abandoned : Attended(c)

(* disconnect() leaves nothing behind: no callback, no pending request to  *)
(* refuse the first one of the next connection, no socket that is open, no *)
(* reader but one on its way out that was there before another connection. *)
NothingLeftBehind ==
  client = None => /\ callbacks = Nobody /\ pending = Nobody
                   /\ \A k \in Conns : reader[k] # "closing" => Free(k)

(* A reader that stops takes its socket with it, "rather than lingering    *)
(* open with no reader".                                                   *)
NoLingeringSocket ==
  \A k \in Conns : conn[k].state \in {"open", "shut"} =>
    reader[k] # "done" \/ task[Owner].at = "joining"

(* Every connect, request and disconnect comes to an end. *)
EveryTaskReturns == \A c \in Tasks : task[c].at # "idle" ~> task[c].at = "idle"

(* A connection the charger dropped does not stay up for ever. *)
HangUpIsNoticed == \A k \in Conns : conn[k].state = "shut" ~> conn[k].state # "shut"
=============================================================================
