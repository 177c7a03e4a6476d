------------------------------ MODULE Settings ------------------------------
(***************************************************************************)
(* The methods of Peblar that change the charger's settings or depend on   *)
(* them: one PATCH (smart_charging, set_led_brightness,                    *)
(* update_user_configuration), or a few requests with decisions between    *)
(* them (rest_api, modbus_api, socket_unlock, connector), called by        *)
(* several asyncio tasks (src/src/peblar/peblar.py).                       *)
(*                                                                         *)
(* Sessions and re-logins are module WebClient's: here a request is        *)
(* attempted up to MaxAttempts times, and a PATCH whose answer nobody      *)
(* waits for any more may still reach the charger, later.                  *)
(***************************************************************************)
EXTENDS UserConfig, FiniteSets

CONSTANTS
  Callers,      \* the tasks
  Setups,       \* the chargers and programs to look at, see SetupOK
  MaxLate,      \* bound: PATCHes under way that were given up
  MaxAttempts   \* stop_after_attempt: 3 in the code

----------------------------------------------------------------------------
(* The calls.                                                              *)

Nothing == [op |-> "none", raw |-> NoChange, smart |-> None, led |-> None,
            enable |-> None, access |-> None]

Write(raw, smart, led) ==
  [Nothing EXCEPT !.op = "write", !.raw = raw, !.smart = smart, !.led = led]
RestApi(enable, access) ==
  [Nothing EXCEPT !.op = "rest", !.enable = enable, !.access = access]
ModbusApi(enable, access) ==
  [Nothing EXCEPT !.op = "modbus", !.enable = enable, !.access = access]
Connector == [Nothing EXCEPT !.op = "connector"]

RequestOK(r) ==
  \/ /\ r = Write(r.raw, r.smart, r.led)
     /\ ChangeOK(r.raw)
     /\ r.smart \in SmartModes \cup {None} /\ r.led \in Levels \cup {None}
  \/ /\ r \in {RestApi(r.enable, r.access), ModbusApi(r.enable, r.access)}
     /\ r.enable \in BOOLEAN \cup {None} /\ r.access \in AccessModes \cup {None}
  \/ r = Connector

(* calls: pairs of a task and a call it makes; configs, firmwares: those   *)
(* the charger may start with, or be updated to; readable: whether the     *)
(* library can read their versions; allowed: the APIs the device allows.   *)
(* Below version 1 there is no local REST API, from 2 on the connector has *)
(* its own endpoints.                                                      *)
SetupOK(s) ==
  /\ \A use \in s.calls : use[1] \in Callers /\ RequestOK(use[2])
  /\ \A start \in s.configs : ConfigOK(start)
  /\ s.firmwares \subseteq Nat
  /\ s.readable \in BOOLEAN
  /\ s.allowed \subseteq {"rest", "modbus"}

ASSUME SetupsAssumption == \A s \in Setups : SetupOK(s)
ASSUME LateAssumption == MaxLate \in Nat
ASSUME AttemptsAssumption == MaxAttempts \in Nat \ {0}

VARIABLES
  setup,     \* the charger and the program: never changes
  cfg,       \* charger: the user configuration
  firmware,  \* charger: its version
  late,      \* PATCHes on their way whose attempt was given up
  call,      \* what each caller is doing
  outcome,   \* the caller whose call the last step ended, and how
  held,      \* history: what held of the settings at some time of the call
  moved      \* history: the firmware changed during the call

chargerVars == <<cfg, firmware>>
historyVars == <<held, moved>>
vars == <<setup, chargerVars, late, call, outcome, historyVars>>

----------------------------------------------------------------------------
(* What a call is after.                                                   *)

EnabledField(op) == IF op = "rest" THEN "restEnabled" ELSE "modbusEnabled"
AccessField(op) == IF op = "rest" THEN "restAccess" ELSE "modbusAccess"

(* What the caller of r wants to be so, as names and values. *)
Wanted(r) ==
  {<<f, r.raw[f]>> : f \in DOMAIN r.raw}
  \cup (IF r.smart = None THEN {} ELSE {<<"smart", r.smart>>})
  \cup (IF r.led = None THEN {} ELSE {<<"led", r.led>>})
  \cup (IF r.enable = None THEN {} ELSE {<<EnabledField(r.op), r.enable>>})
  \cup (IF r.access = None THEN {} ELSE {<<AccessField(r.op), r.access>>})

Watched(r) == {w[1] : w \in Wanted(r)}
              \cup (IF r.op = "rest" THEN {"restEnabled"} ELSE {})

Steps == {"idle", "versions", "config", "patch", "token", "connector"}
Wires == {"none", "sent", "done", "refused", "notFound"}
Results == {"ok", "ValueError", "ConnectionError", "Error", "NotFound",
            "NotEnabled", "UnsupportedFirmware", "Cancelled"}

(* version and user are what the versions and the configuration were when  *)
(* they were read; older chooses the endpoint.                             *)
Unread == [enabled |-> FALSE, access |-> "ReadOnly"]

Idle == [req |-> Nothing, step |-> "idle", wire |-> "none", attempt |-> 1,
         change |-> NoChange, version |-> None, user |-> Unread, older |-> FALSE]

Busy(c) == call[c].step # "idle"

Init ==
  /\ setup \in Setups
  /\ cfg \in setup.configs
  /\ firmware \in setup.firmwares
  /\ late = {}
  /\ call = [c \in Callers |-> Idle]
  /\ outcome = <<None, "none">>
  /\ held = [c \in Callers |-> {}]
  /\ moved = [c \in Callers |-> FALSE]

----------------------------------------------------------------------------
(* Parts of a caller's step.                                               *)

Finish(c, r) ==
  /\ call' = [call EXCEPT ![c] = Idle]
  /\ outcome' = <<c, r>>

GoesOn == outcome' = <<None, "none">>

(* The next request of the call, its first attempt. *)
Ask(c, f, step, change) ==
  /\ call' = [call EXCEPT ![c] =
       [f EXCEPT !.step = step, !.wire = "sent", !.attempt = 1, !.change = change]]
  /\ GoesOn

(* Slip: the attempts are not counted up to a limit. *)
BackoffForever(c) ==
  /\ call' = [call EXCEPT ![c].wire = "none", ![c].attempt = @ + 1]
  /\ GoesOn

Backoff(c) ==
  LET f == call[c] IN
  /\ f.attempt < MaxAttempts
  /\ call' = [call EXCEPT ![c].wire = "none", ![c].attempt = @ + 1]
  /\ GoesOn

GiveUp(c) ==
  /\ call[c].attempt = MaxAttempts
  /\ Finish(c, "ConnectionError")

(* Nobody waits for the attempt any more: its PATCH may come too late. *)
Abandon(f) ==
  \/ UNCHANGED late
  \/ /\ f.step = "patch" /\ f.wire = "sent"
     /\ late' = late \cup {f.change}
     /\ Cardinality(late') <= MaxLate

Done(c, step) == call[c].step = step /\ call[c].wire = "done"

(* Slip: the minimum itself is taken for too old. *)
OlderOrEqual(version, minimum) == version # None /\ version <= minimum

Older(version, minimum) == version # None /\ version < minimum

----------------------------------------------------------------------------
(* The callers.                                                            *)

(* A conflicting update is refused before anything is sent. *)
Call(c, r) ==
  LET f == [Idle EXCEPT !.req = r] IN
  /\ ~Busy(c)
  /\ CASE r.op = "write" ->
            IF Conflicting(r.raw, r.smart, r.led)
              THEN Finish(c, "ValueError")
              ELSE Ask(c, f, "patch", Expand(r.raw, r.smart, r.led))
       [] r.op = "modbus" -> Ask(c, f, "config", NoChange)
       [] OTHER -> Ask(c, f, "versions", NoChange)
  /\ UNCHANGED <<chargerVars, late>>

VersionsRead(c) ==
  LET f == call[c] IN
  /\ Done(c, "versions")
  /\ CASE f.req.op = "rest" /\ Older(f.version, 1) -> Finish(c, "UnsupportedFirmware")
       [] f.req.op = "rest" /\ ~Older(f.version, 1) -> Ask(c, f, "config", NoChange)
       [] OTHER -> Ask(c, [f EXCEPT !.older = Older(f.version, 2)], "connector", NoChange)
  /\ UNCHANGED <<chargerVars, late>>

(* rest_api() goes on to the token if the API is enabled, as far as it     *)
(* knows; modbus_api() is done.                                            *)
Conclude(c, enabled) ==
  LET f == call[c] IN
  CASE f.req.op = "rest" /\ enabled -> Ask(c, f, "token", NoChange)
    [] f.req.op = "rest" /\ ~enabled -> Finish(c, "NotEnabled")
    [] OTHER -> Finish(c, "ok")

(* Slip: an API already in the wanted state keeps its access mode. *)
NeededIfEnabling(r, user) ==
  IF r.enable = None \/ r.enable = user.enabled THEN NoChange
    ELSE Over([f \in {EnabledField(r.op)} |-> r.enable],
              IF r.access = None THEN NoChange
                ELSE [f \in {AccessField(r.op)} |-> r.access])

(* Only what differs is written. *)
Needed(r, user) ==
  Over(IF r.enable = None \/ r.enable = user.enabled THEN NoChange
         ELSE [f \in {EnabledField(r.op)} |-> r.enable],
       IF r.access = None \/ r.access = user.access THEN NoChange
         ELSE [f \in {AccessField(r.op)} |-> r.access])

ConfigRead(c) ==
  LET f == call[c]
      change == Needed(f.req, f.user) IN
  /\ Done(c, "config")
  /\ CASE f.req.op \notin setup.allowed -> Finish(c, "Error")
       [] f.req.op \in setup.allowed /\ change = NoChange -> Conclude(c, f.user.enabled)
       [] OTHER -> Ask(c, f, "patch", change)
  /\ UNCHANGED <<chargerVars, late>>

(* Slip: a PATCH without the field is taken for one that turns it off. *)
PatchedWithout(c) ==
  LET f == call[c] IN
  /\ Done(c, "patch")
  /\ Conclude(c, EnabledField(f.req.op) \in DOMAIN f.change /\ f.change[EnabledField(f.req.op)])
  /\ UNCHANGED <<chargerVars, late>>

Patched(c) ==
  LET f == call[c] IN
  /\ Done(c, "patch")
  /\ Conclude(c, IF EnabledField(f.req.op) \in DOMAIN f.change
                   THEN f.change[EnabledField(f.req.op)] ELSE f.user.enabled)
  /\ UNCHANGED <<chargerVars, late>>

Answered(c) ==
  /\ Done(c, "token") \/ Done(c, "connector")
  /\ Finish(c, "ok")
  /\ UNCHANGED <<chargerVars, late>>

(* An answer other than 200 and 429 is not retried. *)
Refused(c) ==
  /\ call[c].wire \in {"refused", "notFound"}
  /\ Finish(c, IF call[c].wire = "refused" THEN "Error" ELSE "NotFound")
  /\ UNCHANGED <<chargerVars, late>>

(* The attempt times out, its connection breaks, or it is rate limited. *)
Lose(c) ==
  /\ Busy(c) /\ call[c].wire # "none"
  /\ Backoff(c) \/ GiveUp(c)
  /\ Abandon(call[c])
  /\ UNCHANGED chargerVars

Resend(c) ==
  /\ Busy(c) /\ call[c].wire = "none"
  /\ call' = [call EXCEPT ![c].wire = "sent"]
  /\ GoesOn
  /\ UNCHANGED <<chargerVars, late>>

Cancel(c) ==
  /\ Busy(c)
  /\ Finish(c, "Cancelled")
  /\ Abandon(call[c])
  /\ UNCHANGED chargerVars

----------------------------------------------------------------------------
(* The charger.                                                            *)

Answer(c, f) == call' = [call EXCEPT ![c] = [f EXCEPT !.wire = "done"]]

HandleVersions(c) ==
  LET f == call[c] IN
  /\ f.step = "versions" /\ f.wire = "sent"
  /\ Answer(c, [f EXCEPT !.version = IF setup.readable THEN firmware ELSE None])
  /\ GoesOn
  /\ UNCHANGED <<chargerVars, late>>

HandleConfig(c) ==
  LET f == call[c] IN
  /\ f.step = "config" /\ f.wire = "sent"
  /\ Answer(c, [f EXCEPT !.user = [enabled |-> cfg[EnabledField(f.req.op)],
                                   access |-> cfg[AccessField(f.req.op)]]])
  /\ GoesOn
  /\ UNCHANGED <<chargerVars, late>>

HandlePatch(c) ==
  LET f == call[c] IN
  /\ f.step = "patch" /\ f.wire = "sent"
  /\ cfg' = Merge(cfg, f.change)
  /\ Answer(c, f)
  /\ GoesOn
  /\ UNCHANGED <<firmware, late>>

HandleToken(c) ==
  LET f == call[c] IN
  /\ f.step = "token" /\ f.wire = "sent"
  /\ Answer(c, f)
  /\ GoesOn
  /\ UNCHANGED <<chargerVars, late>>

(* The endpoints moved with version 2; the others answer 404. *)
HandleConnector(c) ==
  LET f == call[c] IN
  /\ f.step = "connector" /\ f.wire = "sent"
  /\ IF f.older <=> firmware < 2
       THEN Answer(c, f)
       ELSE call' = [call EXCEPT ![c].wire = "notFound"]
  /\ GoesOn
  /\ UNCHANGED <<chargerVars, late>>

Refuse(c) ==
  /\ Busy(c) /\ call[c].wire = "sent"
  /\ call' = [call EXCEPT ![c].wire = "refused"]
  /\ GoesOn
  /\ UNCHANGED <<chargerVars, late>>

(* A PATCH arrives after its attempt was given up. *)
HandleLate ==
  /\ \E change \in late : /\ cfg' = Merge(cfg, change)
                          /\ late' = late \ {change}
  /\ GoesOn
  /\ UNCHANGED <<firmware, call>>

Update ==
  /\ firmware' \in setup.firmwares \ {firmware}
  /\ GoesOn
  /\ UNCHANGED <<cfg, late, call>>

----------------------------------------------------------------------------
(* History, recorded beside every step and read by none.                   *)

Observe ==
  /\ held' = [c \in Callers |->
       IF call'[c].step = "idle" THEN {}
       ELSE (IF Busy(c) THEN held[c] ELSE {})
            \cup {<<name, View(cfg', name)>> : name \in Watched(call'[c].req)}]
  /\ moved' = [c \in Callers |->
       /\ call'[c].step # "idle"
       /\ firmware' # firmware \/ (Busy(c) /\ moved[c])]

----------------------------------------------------------------------------
CallerStep(c) ==
  \/ VersionsRead(c) \/ ConfigRead(c) \/ Patched(c) \/ Answered(c)
  \/ Refused(c) \/ Lose(c) \/ Resend(c)

ChargerStep ==
  \/ \E c \in Callers :
       \/ HandleVersions(c) \/ HandleConfig(c) \/ HandlePatch(c)
       \/ HandleToken(c) \/ HandleConnector(c) \/ Refuse(c)
  \/ HandleLate \/ Update

Next ==
  /\ \/ \E c \in Callers :
          CallerStep(c) \/ Cancel(c)
     \/ \E use \in setup.calls : Call(use[1], use[2])
     \/ ChargerStep
  /\ Observe
  /\ UNCHANGED setup

Spec == Init /\ [][Next]_vars
----------------------------------------------------------------------------
(* Properties.                                                             *)

FrameOK(f) ==
  /\ DOMAIN f = DOMAIN Idle
  /\ f.req = Nothing \/ RequestOK(f.req)
  /\ f.step \in Steps /\ f.wire \in Wires /\ f.attempt \in 1..MaxAttempts
  /\ ChangeOK(f.change)
  /\ f.version \in Nat \cup {None} /\ f.older \in BOOLEAN
  /\ f.user \in [enabled : BOOLEAN, access : AccessModes]

(* Types of every variable: the configuration stays one the charger may    *)
(* have, and no request is attempted more often than the limit.            *)
TypeOK ==
  /\ setup \in Setups
  /\ ConfigOK(cfg)
  /\ firmware \in setup.firmwares
  /\ \A change \in late : ChangeOK(change)
  /\ DOMAIN call = Callers /\ \A c \in Callers : FrameOK(call[c])
  /\ outcome \in {<<None, "none">>} \cup (Callers \X Results)

Ends(c, r) == Busy(c) /\ call'[c].step = "idle" /\ outcome' = <<c, r>>

(* A call that returns has not lied: every setting it was asked to make,   *)
(* by its raw field or by its name, was so at some moment during the call, *)
(* whatever the other tasks wrote and however many of its attempts were    *)
(* lost; and a local REST API is handed out only if it was enabled.        *)
WantedHeld ==
  [][\A c \in Callers :
       LET r == call[c].req IN
       Ends(c, "ok") =>
         /\ Wanted(r) \subseteq held[c]
         /\ r.op = "rest" => <<"restEnabled", TRUE>> \in held[c]]_vars

(* "The local REST API is not enabled" is said only if it was not; after   *)
(* rest_api(enable=False) that is what was asked for.                      *)
DenialIsTrue ==
  [][\A c \in Callers :
       Ends(c, "NotEnabled") => <<"restEnabled", FALSE>> \in held[c]]_vars

Askable == (UNION {Wanted(use[2]) : use \in setup.calls})
           \cup {<<name, View(start, name)>> : name \in Views, start \in setup.configs}

(* Nothing visible comes about that nobody asked for: a smart charging     *)
(* mode or LED level put together from the fields of two writes, or a      *)
(* field that a write of others drags along.                               *)
NothingUnasked ==
  \A name \in Views \ (SmartFields \cup LedFields) :
    <<name, View(cfg, name)>> \in Askable

(* connector() and socket_unlock() find their endpoint, unless the         *)
(* firmware changed meanwhile or its version cannot be read.               *)
EndpointFound ==
  [][\A c \in Callers : Ends(c, "NotFound") => moved[c] \/ ~setup.readable]_vars
=============================================================================
