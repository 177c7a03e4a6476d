-------------------------------- MODULE Cli --------------------------------
(***************************************************************************)
(* The peblar command (src/src/peblar/cli/): one command line, from        *)
(* parsing its options to its exit status, over the library and a charger  *)
(* that other clients change meanwhile.                                    *)
(*                                                                         *)
(* A command is a straight line of steps between its contexts (async with) *)
(* and awaits: Script.  Every call of the library may raise, with or       *)
(* without having reached the charger; Ctrl-C may come during any of them. *)
(* What a call does on the way is the subject of WebClient, LocalApi,      *)
(* Settings and Websocket: here it is one step.                            *)
(***************************************************************************)
EXTENDS MeterHistory

CONSTANTS
  Setups,     \* command lines and chargers to look at, see SetupOK
  Histories   \* what the charger may have recorded

----------------------------------------------------------------------------
(* Facts: a setting and its value, or a thing done.                        *)

Settings == {"rest", "restAccess", "token", "modbus", "modbusAccess", "household",
             "householdLimit", "chargeLimit", "solar", "smart", "led", "buzzer",
             "lock", "rfid", "evLimit", "singlePhase"}
Contexts == {"peblar", "api", "websocket", "try"}
Deeds == {"identify", "unlock", "reboot", "firmware", "customization", "authorize",
          "subscribe"}
MainFiles == {"system_information", "user_configuration", "versions_current",
              "versions_available", "api_token", "standalonelist"}
LocalFiles == {"health", "system", "meter", "ev_interface"}
Files == MainFiles \cup LocalFiles

Modes == {"default", "fast_solar", "smart_solar", "pure_solar", "custom_solar",
          "scheduled"}
Names == Settings \cup Deeds \cup Files
Values == Modes \cup {"on", "off", "given", "zero", "new", "listed", "absent", "done", "written",
                      "ReadOnly", "ReadWrite", "before"}

Done(deed) == {<<deed, "done">>}
Set(name, value) == {<<name, value>>}
When(condition, facts) == IF condition THEN facts ELSE {}

(* The value an option gives: zero and False are values as any other.      *)
Given(o) == IF "zero" \in o THEN "zero" ELSE "given"

(* Steps. A call is made of the web client, the local client or the        *)
(* websocket, has an effect, and may be one whose answer is shown.  The    *)
(* dump's try statement is entered and left as a context is.               *)
Step(do, of, op, sets, shows) ==
  [do |-> do, of |-> of, op |-> op, sets |-> sets, shows |-> shows]
Call(op, sets) == Step("call", "peblar", op, sets, {})
Show(names) == Step("call", "peblar", "request", {}, names)
Open(what) == Step("open", what, "", {}, {})
Close(what) == Step("close", what, "", {}, {})
Say(text) == Step("say", "peblar", text, {}, {})
Do(what) == Step(what, "peblar", "", {}, {})
Local(step) == [step EXCEPT !.of = "api"]
Live(step) == [step EXCEPT !.of = "websocket"]

Steps ==
  [do : {"call", "open", "close", "say", "parse", "refuse", "summary", "export", "listen"},
   of : Contexts,
   op : {"", "login", "request", "rest", "modbus", "token", "history", "connect",
         "success", "table", "banner", "done"},
   sets : SUBSET (Names \X Values), shows : SUBSET Settings]

If(condition, steps) == IF condition THEN steps ELSE <<>>

WithPeblar(body) ==
  <<Open("peblar"), Call("login", {})>> \o body \o <<Close("peblar")>>
WithApi(body) ==
  <<Call("rest", {}), Open("api")>> \o body \o <<Close("api")>>
WithWebsocket(body) ==
  <<Live(Call("connect", {})), Open("websocket")>> \o body \o <<Close("websocket")>>
Attempt(body) == <<Open("try")>> \o body \o <<Close("try")>>

----------------------------------------------------------------------------
(* The commands: which options they refuse (bad), what their options ask   *)
(* for (asks), and what they do.                                           *)

Command(bad, asks, script) == [bad |-> bad, asks |-> asks, script |-> script]

(* Commands of one call: no options to refuse, success said at the end.    *)
Act(facts) ==
  Command(FALSE, facts, WithPeblar(<<Call("request", facts)>>) \o <<Say("success")>>)

Identify == Act(Done("identify"))
LockCmd == Act(Set("lock", "on"))
Buzzer == Act(Set("buzzer", "given"))
Led == Act(Set("led", "given"))
Reboot == Act(Done("reboot"))
AddRfidToken == Act(Set("rfid", "listed"))
DelRfidToken == Act(Set("rfid", "absent"))

(* Commands that only read and print a table.                              *)
View(calls) ==
  Command(FALSE, {}, WithPeblar([i \in 1..calls |-> Show({})]) \o <<Say("table")>>)
LocalView ==
  Command(FALSE, {}, WithPeblar(WithApi(<<Local(Show({}))>>)) \o <<Say("table")>>)

Versions == View(2)
SystemInformation == View(1)
RfidTokens == View(1)
Status == View(3)
Schedule == View(1)
EnergyHistory == View(1)
Health == LocalView
Meter == LocalView
System == LocalView

UnlockCmd(o) ==
  Command(FALSE,
    Done("unlock") \cup When("persist" \in o, Set("lock", "off")),
    WithPeblar(<<Call("request", Done("unlock"))>>
               \o If("persist" \in o, <<Call("request", Set("lock", "off"))>>))
    \o <<Say("success")>>)

(* Slip: without --enable the limit is sent as disabled. *)
HouseholdLimitOff(o) ==
  LET facts == When("limit" \in o, Set("householdLimit", Given(o)))
               \cup Set("household", IF "enable" \in o THEN "on" ELSE "off") IN
  Command({"enable", "disable"} \subseteq o,
    When("limit" \in o, Set("householdLimit", Given(o)))
    \cup When("enable" \in o, Set("household", "on"))
    \cup When("disable" \in o, Set("household", "off")),
    IF o \cap {"limit", "enable", "disable"} # {}
      THEN WithPeblar(<<Call("request", facts)>>) \o <<Say("success")>>
      ELSE WithPeblar(<<Show({"household", "householdLimit"})>>) \o <<Say("table")>>)

HouseholdLimit(o) ==
  LET facts == When("limit" \in o, Set("householdLimit", Given(o)))
               \cup When("enable" \in o, Set("household", "on"))
               \cup When("disable" \in o, Set("household", "off")) IN
  Command({"enable", "disable"} \subseteq o, facts,
    IF facts # {}
      THEN WithPeblar(<<Call("request", facts)>>) \o <<Say("success")>>
      ELSE WithPeblar(<<Show({"household", "householdLimit"})>>) \o <<Say("table")>>)

Update(o) ==
  LET facts == When("firmware" \in o, Done("firmware"))
               \cup When("customization" \in o, Done("customization")) IN
  Command(Cardinality(facts) # 1, facts,
    WithPeblar(<<Call("request", facts)>>) \o <<Say("success")>>)

(* The access options of api and modbus.                                   *)
AccessClash(o) == {"enable", "disable"} \subseteq o \/ {"read", "write"} \subseteq o

AccessFacts(o, enabled, access) ==
  When("enable" \in o, Set(enabled, "on")) \cup When("disable" \in o, Set(enabled, "off"))
  \cup When("read" \in o, Set(access, "ReadOnly"))
  \cup When("write" \in o, Set(access, "ReadWrite"))

(* One call per option, in this order.                                     *)
AccessCalls(o, op, enabled, access) ==
  If("enable" \in o, <<Call(op, Set(enabled, "on"))>>)
  \o If("disable" \in o, <<Call(op, Set(enabled, "off"))>>)
  \o If("read" \in o, <<Call(op, Set(access, "ReadOnly"))>>)
  \o If("write" \in o, <<Call(op, Set(access, "ReadWrite"))>>)

(* Slip: the table is read before the changes are made. *)
RestApiFirst(o) ==
  LET calls == AccessCalls(o, "rest", "rest", "restAccess") IN
  Command(AccessClash(o),
    AccessFacts(o, "rest", "restAccess") \cup When("generate" \in o, Set("token", "new")),
    WithPeblar(<<Show({"rest", "restAccess"}), Show({"token"})>> \o calls
      \o If("generate" \in o, <<Call("token", Set("token", "new"))>>))
    \o <<Say("table")>>)

RestApi(o) ==
  LET calls == AccessCalls(o, "rest", "rest", "restAccess")
               \o If("generate" \in o, <<Call("token", Set("token", "new"))>>)
      show == <<Show({"rest", "restAccess"}), Show({"token"})>> IN
  Command(AccessClash(o),
    AccessFacts(o, "rest", "restAccess") \cup When("generate" \in o, Set("token", "new")),
    WithPeblar(calls \o If(calls # <<>>, <<Say("success")>>)
               \o If(calls = <<>> \/ "quiet" \notin o, show))
    \o If(calls = <<>> \/ "quiet" \notin o, <<Say("table")>>))

Modbus(o) ==
  LET calls == AccessCalls(o, "modbus", "modbus", "modbusAccess")
      show == <<Show({"modbus", "modbusAccess"})>> IN
  Command(AccessClash(o), AccessFacts(o, "modbus", "modbusAccess"),
    WithPeblar(calls \o If(calls # <<>>, <<Say("success")>>)
               \o If(calls = <<>> \/ "quiet" \notin o, show))
    \o If(calls = <<>> \/ "quiet" \notin o, <<Say("table")>>))

UserConfiguration(o) ==
  LET facts == When("chargeLimit" \in o, Set("chargeLimit", "given"))
               \cup When("solar" \in o, Set("solar", Given(o))) IN
  Command("tooLow" \in o, facts,
    IF facts # {}
      THEN WithPeblar(<<Call("request", facts), Say("success")>>)
      ELSE WithPeblar(<<Show({"chargeLimit", "solar"})>>) \o <<Say("table")>>)

SmartCharging(o) ==
  LET facts == {<<"smart", mode>> : mode \in o \cap Modes} IN
  Command(Cardinality(facts) # 1, facts,
    WithPeblar(<<Call("request", facts)>>) \o <<Say("success")>>)

Ev(o) ==
  LET facts == When("limit" \in o, Set("evLimit", Given(o)))
               \cup When("single" \in o, Set("singlePhase", Given(o)))
      show == <<Local(Show({"evLimit", "singlePhase"}))>> IN
  Command(FALSE, facts,
    WithPeblar(WithApi(
      If(facts # {}, <<Local(Call("request", facts)),
                       Local(Show({})), Say("success")>>)
      \o If(facts = {} \/ "quiet" \notin o, show)))
    \o If(facts = {} \/ "quiet" \notin o, <<Say("table")>>))

Authorize(o) ==
  Command(("uid" \in o) = ("name" \in o), Done("authorize"),
    WithPeblar(WithApi(<<Local(Call("request", Done("authorize")))>>))
    \o <<Say("success")>>)

(* The bounds are read after the login. *)
FetchData(o) ==
  If("badBound" \in o, <<Do("refuse")>>)
  \o <<Call("history", {}), Show({})>>

MeterHistoryCmd(o) ==
  Command(FALSE, {}, WithPeblar(FetchData(o)
    \o <<Do(IF "export" \in o THEN "export" ELSE "summary")>>))

Watch ==
  Command(FALSE, Done("subscribe"),
    WithPeblar(WithWebsocket(<<Say("banner"), Live(Call("request", Done("subscribe"))),
                               Do("listen")>>)))

(* Each answer becomes a file as it comes in. *)
Fetch(file) == Call("request", {<<file, "written">>})

Dump ==
  Command(FALSE, {<<file, "written">> : file \in MainFiles},
    WithPeblar(
      <<Fetch("system_information"), Fetch("user_configuration"),
        Fetch("versions_current"), Fetch("versions_available"),
        Fetch("api_token"), Fetch("standalonelist")>>
      \o Attempt(WithApi(<<Local(Fetch("health")), Local(Fetch("system")),
                           Local(Fetch("meter")), Local(Fetch("ev_interface"))>>)))
    \o <<Say("done")>>)

Program(c) ==
  LET o == c.opts IN
  CASE c.name = "identify" -> Identify       [] c.name = "lock" -> LockCmd
    [] c.name = "unlock" -> UnlockCmd(o)     [] c.name = "buzzer" -> Buzzer
    [] c.name = "led" -> Led                 [] c.name = "reboot" -> Reboot
    [] c.name = "update" -> Update(o)        [] c.name = "api" -> RestApi(o)
    [] c.name = "modbus" -> Modbus(o)        [] c.name = "info" -> SystemInformation
    [] c.name = "config" -> UserConfiguration(o)
    [] c.name = "household-limit" -> HouseholdLimit(o)
    [] c.name = "smart-charging" -> SmartCharging(o)
    [] c.name = "rfid-tokens" -> RfidTokens  [] c.name = "add-rfid-token" -> AddRfidToken
    [] c.name = "del-rfid-token" -> DelRfidToken
    [] c.name = "ev" -> Ev(o)                [] c.name = "authorize" -> Authorize(o)
    [] c.name = "health" -> Health           [] c.name = "meter" -> Meter
    [] c.name = "system" -> System           [] c.name = "status" -> Status
    [] c.name = "schedule" -> Schedule       [] c.name = "history" -> EnergyHistory
    [] c.name = "versions" -> Versions       [] c.name = "watch" -> Watch
    [] c.name = "meterhistory" -> MeterHistoryCmd(o)
    [] c.name = "dump" -> Dump

----------------------------------------------------------------------------
Commands ==
  {"identify", "lock", "unlock", "buzzer", "led", "reboot", "update", "api", "modbus",
   "info", "config", "household-limit", "smart-charging", "rfid-tokens",
   "add-rfid-token", "del-rfid-token", "ev", "authorize", "health", "meter", "system",
   "status", "schedule", "history", "versions", "watch", "meterhistory", "dump"}

(* line: the command and its options; firmware: "old" has no local REST    *)
(* API; allowed: the APIs the device allows; rest: whether the local one   *)
(* is on; others: facts other clients may bring about.                     *)
SetupOK(s) ==
  /\ DOMAIN s = {"line", "firmware", "allowed", "rest", "others"}
  /\ s.line.name \in Commands
  /\ s.firmware \in {"current", "old"} /\ s.rest \in {"on", "off"}
  /\ s.allowed \subseteq {"rest", "modbus"}
  /\ s.others \subseteq Settings \X Values

ASSUME SetupsAssumption == \A s \in Setups : SetupOK(s)
ASSUME HistoriesAssumption == \A h \in Histories : HistoryOK(h)

VARIABLES
  setup,         \* the command line and the charger: never changes
  todo,          \* the steps still to take
  open,          \* the contexts entered, innermost first
  sess,          \* whose network session is open
  raised,        \* the exception on its way, or None
  said,          \* what was printed
  exit,          \* how the process ended, or None
  charger,       \* the charger's settings, and the deeds done to it
  shown,         \* the facts the table shows
  report,        \* what meterhistory reports, and what it was made from
  held,          \* history: the facts that were so at some time
  cause,         \* history: a call was refused or failed, or Ctrl-C came
  disturbed      \* history: another client changed something

vars == <<setup, todo, open, sess, raised, said, exit, charger, shown,
          report, held, cause, disturbed>>

Statuses == {"ok", "panel", "usage", "one", "aborted", "traceback"}
Refusals == {"Connection", "ConnectionTimeout", "Auth", "RateLimit", "BadRequest", "Error"}
LibraryErrors == Refusals \cup {"Unsupported"}
Exceptions == LibraryErrors \cup {"Usage", "Exit", "Interrupt"}
ASSUME NoneAssumption == None \notin Exceptions \cup Statuses

Facts(state) == {<<name, state[name]>> : name \in DOMAIN state}

Applied(state, facts) ==
  [name \in DOMAIN state |->
     IF \E fact \in facts : fact[1] = name
       THEN (CHOOSE fact \in facts : fact[1] = name)[2] ELSE state[name]]

NoReport == [kind |-> "none", of |-> NoSessions]

Init ==
  /\ setup \in Setups
  /\ todo = <<Do("parse")>> /\ open = <<>> /\ sess = {} /\ raised = None
  /\ said = {} /\ exit = None
  /\ charger = [name \in Settings \cup Deeds |->
                  CASE name = "rest" -> setup.rest [] name = "modbus" -> "off"
                    [] name \in {"restAccess", "modbusAccess"} -> "ReadWrite"
                    [] OTHER -> "before"]
  /\ shown = {} /\ report = NoReport
  /\ held = Facts(charger) /\ cause = FALSE /\ disturbed = FALSE

----------------------------------------------------------------------------
(* One step of the process.                                                *)

Quiet == "quiet" \in setup.line.opts
Asked == Program(setup.line).asks

Running(what) == exit = None /\ raised = None /\ todo # <<>> /\ Head(todo).do = what
Advance == todo' = Tail(todo)
Raise(e) == raised' = e
Tell(text) == said' = said \cup {text}

(* The facts a call brings about, at the charger or on disk.               *)
Bring(facts) ==
  /\ charger' = Applied(charger, facts)
  /\ held' = held \cup Facts(charger') \cup facts

(* Option parsing, and the checks each command begins with. *)
Parse ==
  /\ Running("parse")
  /\ IF Program(setup.line).bad
       THEN Raise("Usage") /\ UNCHANGED todo
       ELSE todo' = Program(setup.line).script /\ UNCHANGED raised
  /\ UNCHANGED <<setup, open, sess, said, exit, charger, shown, report,
                 held, cause, disturbed>>

Enter ==
  /\ Running("open")
  /\ open' = <<Head(todo).of>> \o open
  /\ Advance
  /\ UNCHANGED <<setup, sess, raised, said, exit, charger, shown, report,
                 held, cause, disturbed>>

Leave ==
  /\ Running("close")
  /\ open' = Tail(open) /\ sess' = sess \ {Head(open)}
  /\ Advance
  /\ UNCHANGED <<setup, raised, said, exit, charger, shown, report,
                 held, cause, disturbed>>

(* Success is not said with --quiet; tables and watch's banner always are. *)
Talk ==
  /\ Running("say")
  /\ IF Quiet /\ Head(todo).op \notin {"table", "banner"}
       THEN UNCHANGED said ELSE Tell(Head(todo).op)
  /\ Advance
  /\ UNCHANGED <<setup, open, sess, raised, exit, charger, shown, report,
                 held, cause, disturbed>>

----------------------------------------------------------------------------
(* A call of the library.                                                  *)

(* Older firmware has no local REST API, and a device may not allow it.    *)
Permitted(call) ==
  /\ call.op \in {"rest", "modbus"} => call.op \in setup.allowed
  /\ call.op = "rest" => setup.firmware = "current"

(* rest_api() raises whenever the API is off in the end.                   *)
Denied(call) == call.op = "rest" /\ charger'["rest"] = "off"

(* Slip: the local client opens its session when it is made. *)
SessionsEager(call) ==
  sess \cup {call.of} \cup (IF call.op = "rest" THEN {"api"} ELSE {})

(* A client opens its session with its first request.                      *)
Sessions(call) == sess \cup {call.of}

CallReturns ==
  LET call == Head(todo) IN
  /\ Running("call") /\ Permitted(call)
  /\ Bring(call.sets)
  /\ IF Denied(call)
       THEN /\ Raise("Error")
            /\ cause' = (cause \/ <<"rest", "off">> \notin call.sets)
            /\ UNCHANGED <<todo, shown, report>>
       ELSE /\ Advance
            /\ shown' = {fact \in shown : fact[1] \notin call.shows}
                        \cup {fact \in Facts(charger') : fact[1] \in call.shows}
            /\ IF call.op = "history"
                 THEN \E h \in Histories : report' = [NoReport EXCEPT !.of = h]
                 ELSE UNCHANGED report
            /\ UNCHANGED <<raised, cause>>
  /\ sess' = Sessions(call)
  /\ UNCHANGED <<setup, open, said, exit, disturbed>>

(* What the command makes of an error: a time range the charger refuses    *)
(* ends meterhistory with status 1.                                        *)
Translated(call, e) == IF call.op = "history" /\ e = "BadRequest" THEN "Exit" ELSE e

(* Any request of a call may fail, those before it learns that it is not   *)
(* permitted included; old firmware is an error of its own.                *)
Errors(call) ==
  Refusals \cup (IF call.op = "rest" /\ setup.firmware = "old" THEN {"Unsupported"} ELSE {})

(* What a call that does not return has done: nothing, or all of it, if    *)
(* only the answer is lost; files are written from answers.                *)
Effects(call) ==
  {{}} \cup (IF Permitted(call) THEN {{f \in call.sets : f[1] \notin Files}} ELSE {})

CallRaises ==
  LET call == Head(todo) IN
  /\ Running("call")
  /\ \E e \in Errors(call) : Raise(Translated(call, e))
  /\ \E facts \in Effects(call) : Bring(facts)
  /\ cause' = TRUE
  /\ sess' = IF call.op = "connect" THEN sess ELSE Sessions(call)
  /\ UNCHANGED <<setup, todo, open, said, exit, shown, report, disturbed>>

(* A bound nobody can read as a date is a usage error, after the login. *)
Refuse ==
  /\ Running("refuse")
  /\ Raise("Usage")
  /\ UNCHANGED <<setup, todo, open, sess, said, exit, charger, shown, report,
                 held, cause, disturbed>>

(* meterhistory prints its summary or writes its file, if there is         *)
(* anything to report; the file also names the meter.                      *)
Reportable == report.of.sessions # <<>> /\ (Running("summary") \/ report.of.meta)

Reports ==
  report' = [kind |-> Head(todo).do, of |-> report.of,
             says |-> IF Head(todo).do = "summary" THEN Summary(report.of) ELSE Csv(report.of)]

Report ==
  /\ Running("summary") \/ Running("export")
  /\ IF Reportable
       THEN /\ Reports
            /\ UNCHANGED said
       ELSE /\ IF Quiet /\ Running("export") THEN UNCHANGED said ELSE Tell("noSessions")
            /\ UNCHANGED report
  /\ Advance
  /\ UNCHANGED <<setup, open, sess, raised, exit, charger, shown, held,
                 cause, disturbed>>

(* listen() returns when the charger hangs up, or raises what broke it. *)
ListenEnds ==
  /\ Running("listen")
  /\ \/ Advance /\ UNCHANGED <<raised, cause>>
     \/ Raise("Connection") /\ cause' = TRUE /\ UNCHANGED todo
  /\ UNCHANGED <<setup, open, sess, said, exit, charger, shown, report,
                 held, disturbed>>

(* Ctrl-C cancels what is awaited: a call, with its effect or without.     *)
InterruptCall ==
  LET call == Head(todo) IN
  /\ Running("call")
  /\ Raise("Interrupt")
  /\ \E facts \in Effects(call) : Bring(facts)
  /\ sess' = IF call.op = "connect" THEN sess ELSE Sessions(call)
  /\ UNCHANGED <<todo, open, report>>

(* ... the thread that writes the file, which may go on to its end;        *)
InterruptExport ==
  /\ Running("export") /\ Reportable
  /\ Raise("Interrupt")
  /\ Reports \/ UNCHANGED report
  /\ UNCHANGED <<todo, open, sess, charger, held>>

(* ... listening, which watch takes for its end.                           *)
InterruptListen ==
  /\ Running("listen")
  /\ Advance
  /\ UNCHANGED <<open, sess, raised, charger, report, held>>

----------------------------------------------------------------------------
(* The way out.                                                            *)

(* dump goes on without the local API, whatever the library's error was.   *)
Guarded == raised \in LibraryErrors /\ open # <<>> /\ Head(open) = "try"

Reason(e) ==
  CASE e \in {"Connection", "ConnectionTimeout"} -> "skippedConnection"
    [] e = "Unsupported" -> "skippedFirmware"
    [] OTHER -> "skippedDisabled"

(* Slip: a connection error is swallowed without a word. *)
CatchSilently ==
  /\ exit = None /\ Guarded
  /\ IF Quiet \/ Reason(raised) = "skippedConnection" THEN UNCHANGED said
       ELSE Tell(Reason(raised))
  /\ raised' = None
  /\ open' = Tail(open)
  /\ \E i \in DOMAIN todo : /\ todo[i] = Close("try")
                           /\ todo' = SubSeq(todo, i + 1, Len(todo))
  /\ UNCHANGED <<setup, sess, exit, charger, shown, report,
                 held, cause, disturbed>>

Catch ==
  /\ exit = None /\ Guarded
  /\ IF Quiet THEN UNCHANGED said ELSE Tell(Reason(raised))
  /\ raised' = None
  /\ open' = Tail(open)
  /\ \E i \in DOMAIN todo : /\ todo[i] = Close("try")
                           /\ todo' = SubSeq(todo, i + 1, Len(todo))
  /\ UNCHANGED <<setup, sess, exit, charger, shown, report,
                 held, cause, disturbed>>

(* An exception closes the contexts it passes. *)
Unwinding == exit = None /\ raised # None /\ ~Guarded /\ open # <<>>

Unwind ==
  /\ Unwinding
  /\ open' = Tail(open) /\ sess' = sess \ {Head(open)}
  /\ UNCHANGED <<setup, todo, raised, said, exit, charger, shown, report,
                 held, cause, disturbed>>

(* Ctrl-C while a context closes its session, on either way out: the       *)
(* session is closed, and the interrupt takes the place of the error.      *)
(* (disconnect() may also swallow it: that is Leave and Unwind.)           *)
InterruptClose ==
  /\ Running("close") \/ Unwinding
  /\ Head(open) \in sess
  /\ open' = Tail(open) /\ sess' = sess \ {Head(open)}
  /\ Raise("Interrupt")
  /\ UNCHANGED <<todo, charger, report, held>>

Interrupt ==
  /\ InterruptCall \/ InterruptExport \/ InterruptListen \/ InterruptClose
  /\ cause' = TRUE
  /\ UNCHANGED <<setup, said, exit, shown, disturbed>>

(* Handlers are looked up by the exact class of the error; that of         *)
(* connection errors is not registered.                                    *)
Handled == {"Auth", "RateLimit", "Unsupported"}

(* Slip: an error that has a handler counts as taken care of. *)
ExitStatusSmooth(e) ==
  CASE e \in Handled -> "ok" [] e = "Usage" -> "usage" [] e = "Exit" -> "one"
    [] e = "Interrupt" -> "aborted" [] OTHER -> "traceback"

(* Slip: the status is the error itself. *)
ExitStatusRaw(e) == IF e \in Handled THEN "panel" ELSE e

ExitStatus(e) ==
  CASE e \in Handled -> "panel" [] e = "Usage" -> "usage" [] e = "Exit" -> "one"
    [] e = "Interrupt" -> "aborted" [] OTHER -> "traceback"

End ==
  /\ exit = None /\ raised # None /\ open = <<>>
  /\ exit' = ExitStatus(raised)
  /\ UNCHANGED <<setup, todo, open, sess, raised, said, charger, shown,
                 report, held, cause, disturbed>>

Succeed ==
  /\ exit = None /\ raised = None /\ todo = <<>>
  /\ exit' = "ok"
  /\ UNCHANGED <<setup, todo, open, sess, raised, said, charger, shown,
                 report, held, cause, disturbed>>

(* Another client changes the charger. *)
Change ==
  /\ exit = None
  /\ \E fact \in setup.others : /\ Bring({fact})
                             /\ charger' # charger
  /\ disturbed' = TRUE
  /\ UNCHANGED <<setup, todo, open, sess, raised, said, exit, shown, report,
                 cause>>

----------------------------------------------------------------------------
ProcessStep ==
  \/ Parse \/ Enter \/ Leave \/ Talk \/ CallReturns \/ CallRaises
  \/ Refuse \/ Report \/ Catch \/ Unwind \/ End \/ Succeed

Next == ProcessStep \/ ListenEnds \/ Interrupt \/ Change

Spec == Init /\ [][Next]_vars

----------------------------------------------------------------------------
(* Properties.                                                             *)

(* Types of every variable. *)
TypeOK ==
  /\ SetupOK(setup)
  /\ todo \in Seq(Steps)
  /\ open \in Seq(Contexts) /\ sess \subseteq Contexts
  /\ raised \in Exceptions \cup {None}
  /\ exit \in Statuses \cup {None}
  /\ DOMAIN charger = Settings \cup Deeds
  /\ Facts(charger) \subseteq held /\ shown \subseteq held
  /\ cause \in BOOLEAN /\ disturbed \in BOOLEAN

(* A command that ends with status 0, or says it succeeded, has done all   *)
(* its options asked for: each of it was so at some time of the run, every *)
(* file of a dump but those of the local API was written.                  *)
SuccessIsTrue == exit = "ok" \/ "success" \in said => Asked \subseteq held

(* However a command ends (an error, a usage error found after the login,  *)
(* Ctrl-C), it leaves no session and no socket open.                       *)
NoSessionLeft == exit # None => sess = {}

(* A flag that was not given changes nothing: what a command changes is    *)
(* what its options name.                                                  *)
OnlyWhatWasAsked ==
  [][\A name \in DOMAIN charger :
       charger'[name] # charger[name] =>
         <<name, charger'[name]>> \in Asked \cup setup.others]_vars

(* peblar api --disable, "Disable the local REST API", succeeds if nothing *)
(* fails.                                                                  *)
DisableSucceeds ==
  setup.line.name = "api" /\ "disable" \in setup.line.opts /\ exit \notin {None, "ok", "usage"}
  => cause

(* The table a command prints after a change shows that change, unless     *)
(* another client interfered.                                              *)
TableShowsTheChange ==
  "table" \in said /\ ~disturbed =>
    \A fact \in shown, ask \in Asked : fact[1] = ask[1] => fact = ask

(* A dump that ends well has the files of the local API or says that it    *)
(* skipped them, unless it was told to be quiet.                           *)
SkippedIsSaid ==
  setup.line.name = "dump" /\ exit = "ok" =>
    \/ {<<file, "written">> : file \in LocalFiles} \subseteq held
    \/ Quiet \/ said \cap {"skippedConnection", "skippedFirmware", "skippedDisabled"} # {}

(* A report leaves nothing out: the sessions of its rows are those the     *)
(* charger reported, their energy is that of all that ended, and a row of  *)
(* the file fails just if its session was flagged, of a list of flags that *)
(* may be too short or too long.                                           *)
ReportAddsUp ==
  LET of == report.of
      rows == report.says.rows IN
  /\ report.kind = "summary" =>
       /\ MapThenSumSet(LAMBDA t : rows[t].count, DOMAIN rows) = Len(of.sessions)
       /\ MapThenSumSet(LAMBDA t : rows[t].energy, DOMAIN rows) = Sum(of.sessions)
  /\ report.kind = "export" =>
       /\ DOMAIN rows = DOMAIN of.sessions
       /\ MapThenSumSet(LAMBDA i : rows[i].energy, Ended(of.sessions)) = Sum(of.sessions)
       /\ {i \in DOMAIN rows : rows[i].fail} =
            {i \in DOMAIN of.sessions \cap DOMAIN of.corrupted : of.corrupted[i]}

(* The total is that of the meter: if no two sessions ran at once, it is   *)
(* at least what they took, in whatever order they are listed and with     *)
(* some still running, and just that if listed in order without gaps.      *)
TotalCoversSessions ==
  report.kind # "none" /\ OneAtATime(report.of.sessions) =>
    /\ report.says.total >= Sum(report.of.sessions)
    /\ Gapless(report.of.sessions) => report.says.total = Sum(report.of.sessions)
=============================================================================
