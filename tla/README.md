# Verification of python-peblar

TLA+ models of python-peblar, the asyncio client library (and command line) for
Peblar electric-vehicle chargers, with TLC runs on small instances and TLAPS
proofs. Sources are cited as `peblar.py`, `websocket.py`, ... for
`src/src/peblar/<file>`.

## 1. The system

| Component | State | Operations | Talks to |
|---|---|---|---|
| **Web API client** `Peblar` (peblar.py) | `session` (created lazily, perhaps owned), its cookie jar, `_password` | `request` (retry, one re-login), `login`, `logout`, `close`, and about thirty wrappers that make one request | charger over HTTP; shares its session with the websocket |
| **Live event stream** `PeblarWebsocket` (websocket.py) | `_client`, `_reader` task, `_callbacks`, `_pending` | `connect`, `subscribe` (three typed variants), `unsubscribe`, `listen`, `disconnect`, the reader `_read_messages` / `_handle_message` | charger over one TCP connection; calls back into user code |
| **Local REST API client** `PeblarApi` (peblar.py) | `token`, `session` | `request` (retry, one token refresh), `ev_interface`, `set_ev_interface`, `authorize_charge_session`, reads, `close` | charger over HTTP; refreshes its token through `Peblar._refresh_api_token` |
| **Multi-request operations** (peblar.py) | none of their own | `rest_api`, `modbus_api`, `socket_unlock`, `connector`, `api_token` | read, decide, write over `Peblar.request` |
| **Settings writes** (peblar.py, models.py) | none; the charger's configuration | `smart_charging`, `update_user_configuration`, `set_scheduled_charging`, ... | PATCH or POST through `Peblar.request` |
| **Data models** (models.py, const.py) | records | (de)serialisation, the smart charging and LED brightness translations, mutually exclusive fields | everything |
| **Errors and versions** (utils.py, exceptions.py) | none | `build_error_message`, `get_awesome_version` | everything |
| **Command line** (cli/) | none kept | one command per library operation; `meterhistory` (totals), `scan` (zeroconf), `watch` (websocket) | the library |

All of it runs on one asyncio event loop: between two awaits that really suspend
a task, nothing else runs. Concurrency is tasks sharing one client object,
background reader tasks, and the charger, which acts at any time.

### What is hard, and what makes each part correct

* **Web API client.** Retries (three attempts, exponential backoff) wrap a method
  that calls itself through `login` and for the repeat after it. Correct means:
  bounded traffic; every call ends; a forgotten session is recovered without
  showing; only a password the charger accepted is ever sent unasked; `logout`
  and `close` are final.
* **Event stream.** One reader serves every subscription. Callbacks and pending
  requests are shared dictionaries keyed by topic, changed on both sides of
  awaits by several tasks and by readers, and the reader of an old connection may
  still be closing it when a new one is made. Correct means: a subscriber that was
  told it is subscribed is registered here and at the charger; nobody waits for
  an answer that cannot come; nothing of a connection outlives it. All of them have
  exceptions, which section 4 lists.
* **Local REST API.** The same retries, multiplied by those of the web API behind
  the token refresh; a token shared by concurrent requests; a POST that toggles.
* **Multi-request operations and settings.** Read-decide-write across awaits,
  late duplicates of writes that timed out, replacement of whole objects.
* **Data and command line.** Round trips of modes through several raw fields,
  totals over partial data, deduplication of announcements.

## 2. How the models divide the system

The protocols come first: the retrying, re-authenticating clients (`WebClient`,
`LocalApi`), the event stream (`Websocket`) and the writes of the charger's
configuration (`Settings` over the pure translations of `UserConfig`) each have a
module in which every request and every await is a step. `BoundedCall` is the
abstract specification both clients implement. The command line comes on top: in
`Cli` a call of the library is one step, whose inside is the subject of those
modules, and what is checked is how commands put calls, contexts, errors and
messages together; `MeterHistory` is the arithmetic of one of its commands.
`Scan` stands alone, as the command does. Next would be two owners that connect
one event stream.

## 3. Modules

| Module | Models |
|---|---|
| `BoundedCall` | abstract: a call makes at most `Budget` HTTP requests, and returns |
| `WebClient` | `Peblar.request`, `login`, `logout`, `close` and the charger's session handling |
| `MCWebClient` | its instances for TLC |
| `WebClientProofs` | its theorems |
| `Websocket` | `PeblarWebsocket` and the charger's end of the connection |
| `MCWebsocket` | its instances for TLC |
| `WebsocketProofs` | its theorems |
| `LocalApi` | `PeblarApi.request`, its token refresh, `authorize_charge_session`, `close`, and the charger's token |
| `MCLocalApi` | its instances for TLC |
| `LocalApiProofs` | its theorems |
| `UserConfig` | the user configuration, its partial updates and its two readings |
| `Settings` | `update_user_configuration` and its relatives, `rest_api`, `modbus_api`, `connector`, `socket_unlock`, and the charger's configuration and firmware |
| `MCSettings` | its instances for TLC |
| `SettingsProofs` | its theorems, and those of `UserConfig` |
| `MeterHistory` | totals, sums per token and CSV rows of the `meterhistory` command |
| `MeterHistoryProofs` | its theorems, and lemmas about sums over finite sets |
| `Cli` | every command but `scan`: checks, contexts, calls, messages, exit status |
| `MCCli` | its instances for TLC |
| `CliScripts` | what is true of every command's script, for its theorems |
| `CliProofs` | its theorems |
| `Scan` | the `scan` command: zeroconf callbacks, their tasks, the table, Ctrl-C |
| `MCScan` | its instance for TLC |
| `ScanProofs` | its theorems |

### WebClient

`session`, `password` and `cookie` are the object's fields and the cookie in the
jar. `call[c]` is the stack of `request()` frames of task `c`, folded into one
record: `phase` says whether the attempt on the wire is the request itself
(`direct`), the `login()` inside it (`relogin`) or the repeat with
`_relogged_in=True` (`again`); `outer` and `inner` are the attempt counters of
the decorated outer call and of the nested one; `wire` is the state of the
attempt; `sid` the cookie it carries. `Relogin`, `ReloginDone`, `Rejected`,
`RateLimited`, `Refused`, `Lose` are the branches of `request` after an attempt,
each up to and including the next request it sends; `RetryInner`, `RetryOuter`,
`GiveUp` are tenacity. Every method that is not `login` or `logout` is the op
`other`: to `request` they differ in URL and payload only. The charger is
external: it answers with success, 401, 429 or another error, forgets sessions
and changes its password at any time. `accepted`, `loggedOut`, `late`,
`disturbed` and the field `sent` are history: `Observe` records them beside each
step, no guard reads them.

Abstracted: URLs, bodies and error texts; the length of a backoff; cookies are
reused once nobody refers to them (`Known`).

### Websocket

`client`, `current`, `callbacks`, `pending` are `_client`, `_reader`, `_callbacks`
and `_pending`. `conn[k]` is a connection: its state as aiohttp sees it, the
frames in both directions, and the charger's list of subscribed topics;
`reader[k]` is the reader task created with it; `task[c]` says in which await a
task is suspended and holds the state of its future. A task whose future is
resolved runs before the loop looks at the network again (`NoTaskReady`).
`listen()` changes nothing and is no action. `Uses`, `Leaves` and `Raisers` say
who subscribes to what, who unsubscribes from what and whose callbacks may raise. `Connect` tests what
`connect()` tests and no more: while a reader whose callback raised awaits its own
`close()` (`ReaderClosed` is the end of that), the websocket does not count as
connected and the owner may make a second connection next to it. A cancelled
`disconnect()` goes on if it was waiting for the reader, which it cancels again,
and ends where it is if it was closing the socket (`ShutCancelled`).
`subscribed`, `swept` and `abandoned` are history: whom `subscribe()` told it is on,
the topics whose callback the end of a reader dropped since this connection was
made, and the tasks that were waiting when a `disconnect()` cut their reader short,
with whoever asked for the topic of one of them meanwhile.

Abstracted: payloads, non-text frames and unparsable ones (skipped by the
reader), and the three typed subscribe variants, which only wrap the callback.
A frame is sent in one step. A topic is a model value.

### LocalApi

`session`, `token` are the fields of `PeblarApi`; `password` is the `_password`
of the `Peblar` object behind `token_refresh`. `call[c]` folds the frames of a
`request()` as in `WebClient`: `direct` is the request itself, `login` and
`fetch` the two calls of `_refresh_api_token`, `again` the repeat with
`_refreshed=True`. What happens inside those two calls is `WebClient`'s subject:
here each makes at most `LoginBudget` (3) or `FetchBudget` (21, the bound
`WebClient` is shown to keep) requests, `WebRepeats` being any of them but the
first, and ends in its last answer or in one of the errors `WebRaises` lists.
`LoggedIn` stores the password as `login()` does, `Refreshed` stores the token
and sends the repeat in the same step, as the code does between two awaits.
`WebLogin` and `WebLogout` are what other tasks do to the web client meanwhile.

The charger is external: it honours one token, drops it at any time
(`Invalidate`), hands the live one to whoever is logged in, and toggles
`authorized` on every authorization with the live token. `invalidated`,
`overwritten`, `excused` and `toggled` are history, as is `sent`: `excused` says
that at some moment of the call the web client had no valid password (what a
refresh cannot survive), `overwritten` that a token which was live at the
charger was replaced in `self.token` by one that was not.

Abstracted: URLs, bodies, error texts, the length of a backoff; every call but
`authorize_charge_session` is the op `read`. A token is reused once nobody
refers to it (`Known`).

### UserConfig, Settings

`UserConfig` has no state: a configuration is a function from fields to values,
a change has some of the fields (`omit_none`), `Merge` is the charger's PATCH.
`ResolveSmart` and `ResolveLed` are the functions of the same purpose in
models.py, `Expand` the expansion in the two `__post_init__`, `SmartOf` and
`LedOf` the derivation in `__post_deserialize__`.

In `Settings`, `call[c]` is a call of several requests: `step` says which of them
it is at, `wire` how that request stands, `attempt` which one it is; `change` is
the PATCH, `version`, `user` and `older` the local variables that survive an
await. Each request goes through `Peblar.request`, of which only what matters here is
kept (retries, loss, an error that ends the call); sessions are `WebClient`'s.
`Needed` is the comparison that turns a wanted value into None when it is there
already, `Conclude` what follows the PATCH. An attempt given up may leave its
PATCH in `late`, and `HandleLate` applies it at any later time. `socket_unlock` and
`connector` choose their endpoint alike and are one op. `setup` is fixed at the
start: the charger (its firmwares, whether their versions parse, which APIs it
allows) and the calls the tasks make. `held` and `moved` are history.

Abstracted: fields from which nothing is derived (`restAccess` stands for them),
the firmware numbers (0: no local REST API; from 2 on the connector has moved),
the token and the answers to the connector's requests.

### MeterHistory, Cli

A command is a value: `Program(line)` says whether its options are refused
(`bad`), which facts they ask for (`asks`) and which steps it takes (`script`), one
operator per command. A step is a call of the library, the entering or leaving
of a context (`async with Peblar`, of the local client, of the websocket; dump's
`try` is one too), or something said. The process (`setup.line`, `todo`, `open`,
`raised`, `said`, `exit`) runs the script: `Parse` is typer and the checks in
front, `CallReturns` and `CallRaises` a call, with or without its effect at the
charger, `Unwind` the `__aexit__` an exception passes, `Catch` dump's handlers,
`ExitStatus` what asyncio.run, typer and `AsyncTyper.__call__` make of what is
left. A message is not said with `--quiet`, except for a table and `watch`'s banner.
A call that fails may do so at any of its requests, also before it learns that it
is not permitted (`Errors`, `Effects`). `sess` has the clients whose network session is open: opened with the first
request (`Sessions`), closed with the context. `charger` is the part of the
charger commands read and write: settings, and deeds done to it; `Change` is
another client. `held`, `cause` and `disturbed` are history: every fact that was
so at some time, whether anything failed, whether another client wrote.

A call is one step, so a PATCH and the read it depends on are not separated here
(they are in `Settings`); an option's value is `given` or `zero` (a limit of 0, a
flag said with `--no-`), not a number. Ctrl-C (`Interrupt`) comes at any await of the
command and any number of times: during a call, listening, the thread that writes
a file, and while a context closes its session, on the ordinary way out or on that
of an error. Commands that only print have one fact per table that a change could
make wrong.

`MeterHistory` has no state. A history is its sessions, in any order (token, reading at start,
reading at end or None), the corruption flags and whether there is meta data.

### Scan

`made` lists the services tasks were started for, in order; `tasks` is
`background_tasks`, `seen` the hosts remembered, `rows` the table. `Details` is
all of `async_display_service_info` after its only await, `NoDetails` its timeout;
`StopBrowsing`, `Gathered` and `Closed` are the three awaits of the `finally`
block. zeroconf and the network are external: a service is a host, the type it
is announced under, whether the host is called `PBLR-`, and whether its
properties can be decoded. `heard` and `spoiled` are history.

## 4. Runs

| Run | Instance | Shows |
|---|---|---|
| `WebClientSolo` | 1 task, 2 passwords, the code's 3 attempts, all answers | types; `LogoutSticks`; `OnlyAcceptedPasswords`; every call ends; it implements `BoundedCall` with a budget of 21 |
| `WebClientPair` | 2 tasks, 2 attempts, rate limiting, a session of its own | `OneDisturbanceSurvived` through re-logins and backoffs; `NothingSentAfterClose` |
| `WebClientLogout` | 2 tasks, 1 attempt | *violated:* `LogoutSticks` |
| `Websocket` | the owner and another task, a topic they share and one of the other's own, which it leaves again, callbacks that raise, 2 connections, 1 frame per channel, fairness | types; `OnlySweptAreLost`; `FirstEventIsHeard`; `SubscribedAtCharger`; `NoOrphanWaiter`; `NothingLeftBehind`; `NoLingeringSocket`; `EveryTaskReturns`; `HangUpIsNoticed` |
| `WebsocketShared` | two subscribers of one topic, nobody raises | *violated:* `SubscribedIsRegistered` |
| `WebsocketReconnect` | own topics, a callback that raises | *violated:* `SubscribedIsRegistered` |
| `LocalApiSolo` | 1 task, the code's 3 attempts, 2 passwords, 3 tokens, authorizations, all answers, budgets 1 and 2 | types; `InvalidationHandled`; `PresentedOnce`; every call ends; it implements `BoundedCall` |
| `LocalApiPair` | 2 tasks, 2 attempts, 4 tokens, budgets 1 and 1 | `SharedInvalidationHandled` |
| `Settings` | 2 tasks, 2 attempts, 1 late PATCH, five chargers and programs | types; `WantedHeld`; `DenialIsTrue`; `NothingUnasked`; `EndpointFound` |
| `Cli` | 28 commands with their options, over 2,000 meter histories, the local API on, off, forbidden, missing, and toggled by another client, or what `ev` writes changed by one | types; `SuccessIsTrue`; `NoSessionLeft`; `TableShowsTheChange`; `SkippedIsSaid`; `ReportAddsUp`; `TotalCoversSessions`; `OnlyWhatWasAsked` |
| `CliDisable` | `api --disable` with the local API on | *violated:* `DisableSucceeds` |
| `Scan` | 3 announcements of 6 services by 3 hosts | `ListedOnce`; `ChargersAreListed`; `NoTaskOutlives`; `ScanEnds` |

**Bounds.** Four cookies for two tasks: at most three are known at a time, and a
login needs one more. One attempt already lets a re-login and a repeat happen;
two let a disturbance fall into a backoff; three are the code's. Two connections
are the old and the new one; a third would need two readers still closing, and
adds to their steps none that two do not have. A
channel at its bound takes nothing more until something is read; an answer and the
event behind it are put in together, so one frame in `Websocket` means up to two
towards the client, and one request per topic can be under way. A longer queue
holds more of the same frames, and `WebsocketProofs` covers all lengths for the
invariants. `WebClientSolo`,
`WebClientPair` and `LocalApiSolo` start without a session, which `Call` then
creates; the other runs start with a shared one. In `Websocket`
each property speaks of the topics it can be had for: the callback of a shared
topic is lost in another way (`WebsocketShared`), so `OnlySweptAreLost` and
`FirstEventIsHeard` are about topics with one subscriber (`Sole`); and results are
matched by topic alone (websocket.py:312), so the late answer of an unsubscribe that
timed out is taken for that of the subscribe after it, and `SubscribedAtCharger` is
about topics nobody unsubscribes from (`Kept`). For `LocalApi` a token fetch of two requests already differs in every
way from one of a single request, and `LocalApiProofs` proves the budget for all
values; four tokens for two tasks are one more than two tasks and the client can
refer to. In `Settings` one late PATCH at a time suffices to undo what another
task has done, two attempts to apply a PATCH twice, and each program has the
calls that touch the same fields; `SettingsProofs` covers all others. The
programs of that run write modes and levels by name only: a caller that writes
the raw fields can of course put together what has no name.

`Cli` enumerates whole command lines: every combination of a command's options
and `--quiet`, each value given or zero, without those that say nothing more (a
zero where no value is given, a bound that is too low without its option). Two
sessions of every kind show every case of the arithmetic (running, out of order,
meter replaced), and three that of a session in between, in any order. The setups
in which another client changes something are those where a command depends on
what it changes: the local API, and for `ev` what it writes and reads back. Three announcements in
`Scan` are a charger under both services and another host between them, or one
whose first answer cannot be decoded and two more.

**Fairness.** `WebClient`: each task's own steps are weakly fair: the loop runs
it, and `asyncio.timeout` (peblar.py:164) ends an attempt the charger leaves
unanswered. Nothing is assumed of the charger. `LocalApi`: the same, with the
timeout at peblar.py:704; that a call of the web client ends, which its fairness
includes, is what `WebClientSolo` shows. `Websocket`: likewise for the tasks
(websocket.py:237 bounds the wait, aiohttp the dial and the closing handshake)
and for the readers, which the loop runs. `Settings` and `Cli` state no liveness: a command is a
straight line of calls, and that each of those ends is the subject of the other
modules. `Scan`: the command and each task, whose request zeroconf ends after three
seconds (cli/__init__.py:2486).

**Disagreements the runs show** (details in PROJECT.json):

* `WebClientLogout`: `logout()` forgets the password, but a re-login of another task
  that is under way stores it again.
* `WebsocketShared`: `subscribe()` removes the callback of another subscriber of the
  topic when it is refused.
* `WebsocketReconnect`: a reader whose callback raised clears all callbacks after
  awaiting its close (websocket.py:280-282). `connected` is False during it, so
  who reconnects then is told that it is subscribed and loses its callback.
* `CliDisable`: `peblar api --disable` does what it says and then fails.

What remains true of the event stream next to `WebsocketReconnect` is stated by
`OnlySweptAreLost`: the end of an older reader is the only thing that takes a
callback from the one subscriber of a topic.

**Known limitations**, met while modelling and allowed by the property named:

* A result that arrives after its request timed out is taken for the answer of the
  next request on its topic (websocket.py:312). No property forbids it;
  `SubscribedAtCharger` is about topics nobody unsubscribes from.
* A `disconnect()` that cancels a reader inside its own `close()` (websocket.py:280)
  skips the lines that fail the pending requests, though "Nobody is going to answer a
  pending subscribe any more" (websocket.py:284): who waits is left to its own
  timeout, and when that comes it pops the entry of whoever asked for the topic in
  the meantime. `NoOrphanWaiter` says that nobody else is forgotten (`abandoned`).
* `disconnect()` joins the reader of the current connection only
  (websocket.py:205-209); one still closing an older connection, next to which a new
  one was made, goes on after it has returned. `NothingLeftBehind` says that such a
  reader is all that stays.
* The older of two concurrent token refreshes may put a dead token back
  (peblar.py:726); the call whose repeat then carries it fails, although the
  charger dropped its token once. `SharedInvalidationHandled` allows it
  (`overwritten`); with one task it cannot happen.
* An authorization whose answer is lost is presented again by the retry
  (peblar.py:677, 818), which undoes it. `PresentedOnce` demands one presentation
  only of calls that needed no second attempt.
* The properties of a scanned service are decoded after its host was remembered
  (cli/__init__.py:2500-2503): if they cannot be, the charger is not listed at
  all. `ChargersAreListed` allows it (`spoiled`).
* A setting that was written may be overwritten at once, by another task or a late
  PATCH of one that timed out: `WantedHeld` speaks of some moment of the call. What
  a table shows of a setting another client wrote meanwhile is the other's
  (`TableShowsTheChange`, `disturbed`). A firmware update between reading the
  version and using it makes the endpoint wrong (`EndpointFound`, `moved`).

## 5. Proofs

`WebClientProofs` proves for any sets of tasks, passwords and cookies and any
positive `MaxAttempts`, from the assumptions named in `WebClient`:

* `TypeCorrect`: `Spec => []TypeOK`.
* `AcceptedPasswordsOnly`: `Spec => []OnlyAcceptedPasswords`.
* `RequestIsBounded`: `Spec => ImplementsBoundedCall`.
* `SoloLogoutSticks`: with one task, `Spec => []LogoutSticks` (with two it is
  violated, above).
* `ClosedIsSilent`: `Spec => NothingSentAfterClose`, for any number of tasks.
* `OneIsSurvived`: `Spec => OneDisturbanceSurvived`, for any number of tasks.

The inductive invariant `IInv` adds to `TypeOK` what each frame means: which
phases an operation can be in, that a re-login carries an accepted password and
that one on its way home does too, and `SpentOK`: the requests sent so far are
within what the counters `outer`, `inner` and the phase allow (`Allowance`).
The last is what makes the bound inductive: the budget alone says nothing of how
many attempts are still to come. A caller's step changes its own frame only
(`OneFrame`), so each action needs one lemma about one frame. TLC has checked
`IInv` on the small instances too. `SoloLogoutSticks` adds: while `late` holds and
no login has returned, the password is `None`. `OneIsSurvived` adds `Fine`, per
call with less than two disturbances: the client's password is the charger's,
before the first disturbance the cookie is good, and after it the call is either
still in its first request or carries a password or cookie that is. A step can
add at most one disturbance to a call that stays below two (`AtMostOne`), so each
action has two cases: nothing happens to the call, or its only disturbance does.

`WebsocketProofs` proves for any tasks, topics, connections and channel bound, whoever
shares a topic, leaves one or raises:

* `TypeCorrect`: `Spec => []TypeOK`.
* `LeavesNothing`: `Spec => []NothingLeftBehind`.
* `NoneLingers`: `Spec => []NoLingeringSocket`.
* `StaysRegistered`: `Spec => []OnlySweptAreLost`.
* `HearsTheFirst`: `Spec => []FirstEventIsHeard`.
* `ChargerHasIt`: `Spec => []SubscribedAtCharger`.
* `NoneOrphaned`: `Spec => []NoOrphanWaiter`.

None of them has a hypothesis, about when the owner reconnects or anything else.
`IInv` has three parts besides
types. `Core` says who holds the socket: while the owner waits in a connect or a
disconnect, what it found before the await still is so (`Holders`), and what a
reader and its socket say of one another, a reader that is neither the current one
nor done being in its own `close()` (`Socket`); neither part is inductive without
the other, because a reader may finish, raise or be cancelled at every await of
its owner. `Requests`: what is pending belongs to a task that waits for it.
`Emptied`: without a client nothing is registered. Every step is of one of a few
kinds (it hands nothing on, resolves futures, begins or ends one request, ...),
which is shown once per action, and each part is preserved once per kind. `Told`
and `Charged` are added topic by topic (`SoleIsTold`, `KeptIsCharged`). `Cared` says
who is there for a task that waits and does not count as abandoned, and that
while the websocket is connected what is pending is its own until it has run
again, answered or not; it is inductive only with `Alone`, that nobody waits beside
it for the same topic, because who returns pops by topic. `Charged` is about the
channels: while a connection is open all requests on the way to the charger are
subscriptions, and an acknowledgement on the way back is true (`Honest`).

`LocalApiProofs` proves for any sets of tasks, passwords and tokens, any positive
`MaxAttempts` and any positive budgets:

* `TypeCorrect`: `Spec => []TypeOK`.
* `LocalRequestIsBounded`: `Spec => ImplementsBoundedCall`.
* `TokenLossIsSurvived`: if `token_refresh` is given,
  `Spec => SharedInvalidationHandled`, for any number of tasks.
* `TokenIsPresented`: `Spec => PresentedOnce`, for any number of tasks.
* `TokenLossIsSurvivedAlone`: if moreover there is one task,
  `Spec => InvalidationHandled` (with two an older refresh may overtake a newer
  one, see "Known limitations").

`IInv` is built like the one of `WebClient`. The recovery theorems add
`RecoveryInv`, per task: while nothing excuses the call, the client's password is
the charger's and a login under way carries it (`PasswordKnown`); while at most
one token was dropped around the call and none put back, the call is still on
its first request before the drop, and after it a fetched token is the live
one, and so is the one a repeat carries (`Fresh`). `OwnStep` says once what a
task's own step can make of its frame, `OwnFrames` that it leaves the others
alone, `Rejection` how a call can fail for want of a token; none of the ways is
open in a state of `RecoveryInv`. For a single task `NotOvertaken` shows that only
a second invalidation can make a refresh store a dead token. `TokenIsPresented` adds
`PresentedInv`: an answer on its way to a call stands for an authorization made, and
while the call is on its first attempt, before and after a token refresh, for just
one. `AttemptShape` says what a step can make of the attempts of its call.

`SettingsProofs` begins with `WrittenIsRead`, about `UserConfig`: for every
configuration and every accepted change, what was set by field or by name is what
is read afterwards. It rests on `SmartRoundTrip` and `LedRoundTrip`, and on the
disjointness of the fields the two names stand for. Then, for any tasks, chargers,
programs, attempts and late PATCHes:

* `TypeCorrect`: `Spec => []TypeOK`.
* `WantedHolds`: `Spec => WantedHeld`, with `WrittenIsRead`.
* `DenialHolds`: `Spec => DenialIsTrue`.
* `EndpointHolds`: `Spec => EndpointFound`.
* `NobodySurprised`: if every write that is sent sets modes and levels by name,
  `Spec => []NothingUnasked`. It is false without: two writes of raw fields, or one,
  can make up a mode that nobody named.

`IInv` says what a call in progress knows (`CallOK`): the configuration it read
was so (`ReadOK`), its PATCH is what was wanted or the part of it that was not so
(`PatchSays`), and once that is answered all that is wanted was so (`Settled`).
None of it can be undone by other tasks or late PATCHes, because it speaks of
history, which only grows while a call lasts (`KnowledgeStays`). `EndpointsOK` adds
that a call around which the firmware stayed the same knows it. `AskedInv` adds that
whatever may still be applied, by a call in progress or late, `BringsAsked`: it has
all the fields of a name or none of them, so no order of PATCHes mixes two names.

`ScanProofs` proves for any network and any number of announcements:

* `TypeCorrect`: `Spec => []TypeOK`.
* `OneRowEach`: `Spec => []ListedOnce`.
* `ChargersListed`: `Spec => []ChargersAreListed`.
* `TasksEndFirst`: `Spec => []NoTaskOutlives`.

`IInv` adds what ties the parts together: the table has just what `seen` has but
for `spoiled` hosts (`TableOK`), `seen` is just the hosts of accepted answers
(`HeardOK`), and `gather()` waits for every task there is (`TasksOK`).

`CliProofs` proves for any command lines, chargers, histories and other clients:

* `TypeCorrect`: `Spec => []TypeOK`.
* `NoSessionIsLeft`: `Spec => []NoSessionLeft`.
* `SuccessTold`: `Spec => []SuccessIsTrue`.
* `NothingElseChanges`: `Spec => OnlyWhatWasAsked`.
* `TableIsTrue`: `Spec => []TableShowsTheChange`.
* `SkippedIsTold`: `Spec => []SkippedIsSaid`.
* `ReportsAddUp`: `Spec => []ReportAddsUp`.
* `TotalIsTheMeters`: `Spec => []TotalCoversSessions`.

Half of the argument is about the scripts alone and stands in `CliScripts`. A
`Path` leads from contexts with facts still to be done to others: step by step
(`Moves`) contexts are entered and left like brackets, calls are made inside the
context they need and change only what was asked for, a connected websocket is
entered at once, dump's `try` begins when all that was asked for is done, and
success is said when nothing is missing. Paths are put together (`PathConcat`) as
scripts are, so `ScriptsFit` has one lemma per command, for any options: each
script is a path from outside to outside, with nothing left undone. The other
half runs a process on such a path: `IInv` says that the steps left are a path,
from where the process is unless an error is on its way out (`OnPath`), that an
open session belongs to a context entered or entered next (`SessionsHold`), and
what is done by then (`DoneByThen`). An error may leave the path anywhere; it
comes back only through `Catch`, where every path goes through the same contexts.
`TableIsTrue` adds `TableInv`: a command whose options are not refused asks for one
value of each setting (`AsksFit`, again one lemma per command), so what was asked for
and is so stays so (`Stands`) while no other client writes, and a path reads its table
only when nothing is left to do. `SkippedIsTold` adds `SkippedInv`: every file of the
local API is written, or a step still to take writes it (`Due`), or a reason was said.

`ReportInv` says that a report was made, as a whole, of one history the charger
recorded; the rest is arithmetic.

`MeterHistoryProofs` has that arithmetic, for histories of any length whose numbers
are integers (`HistoryOK`, which is also what `Cli` assumes of its `Histories`; a
list of flags may have any length):

* `TotalIsEnough`: if no two sessions ran at once (`OneAtATime`), the total is at least
  what they took, in whatever order they are listed.
* `TotalIsExact`: it is just that if all ended and are listed in order without gaps.
* `TableAddsUp`: the table by token has every session once, and every energy.
* `FileAddsUp`: so has the file, and it fails just the flagged rows.

The library states induction for a property P(_), which the provers cannot
instantiate. Here it is about sets: `LeastNat` is the well-foundedness of `<` on Nat
(`WFMin`, which takes sets), and `CountingUp` and `AddingUp` apply it to the set of
the numbers, and of the subsets of a finite set, that have the property at hand.
By size of the set, there is just one function that meets the recursive equation
behind `MapThenSumSet` (`AddsExists`, `AddsUnique`), so the operator obeys it
(`SumOfRest`), in whatever order it chooses the elements (`SumOfWithout`); sums over
disjoint parts add up (`SumOfUnion`, `SumOfParts`). `TookAdds`, `CountColumn` and
`EnergyColumn` say the same of the sums as `MeterHistory` and `Cli` write them. The
sessions of each token are such parts. For the total, `FitBetween` says that what a
set of sessions took fits between any two readings around them all: one of them
parts the others in those before and those after it (`PartsFit`), so it holds by
the size of the set (`AllFit`), with the first start and the last end as the two
readings. `Telescoped` goes along the list, where there are no gaps.

Only model-checked: the liveness properties (`EveryCallReturns`,
`EveryTaskReturns`, `HangUpIsNoticed`, `ScanEnds`). They rest on
fairness, and so on ENABLED, which is beyond the prover.

## 6. Not modelled

* Wording, layout, units and colours: `utils.build_error_message`, the tables, the
  formatting helpers of the command line, the anonymising of a dump.
* Records without behaviour: most of models.py, which only names fields.
* The comparison of versions, which is AwesomeVersion's; what follows from its
  outcomes is in `Settings` and `Cli`.
* `connect()` by two tasks at once (websocket.py:83), and a websocket `disconnect()`
  during another task's `connect()`.
* `set_scheduled_charging` beyond its being one request: its caller's
  read-change-write lies outside the library.
