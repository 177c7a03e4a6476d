------------------------------- MODULE MCCli -------------------------------
(* Small instances of Cli for TLC.                                         *)
EXTENDS Cli, TLC

CONSTANT t

(* Every combination of the options that makes sense: zero is the value of *)
(* a limit or a target, tooLow that of a charge limit.                     *)
Lines(name, options) ==
  {line \in {[name |-> name, opts |-> o] : o \in SUBSET options} :
     /\ "zero" \in line.opts => line.opts \cap {"limit", "solar", "single"} # {}
     /\ "tooLow" \in line.opts => "chargeLimit" \in line.opts}

(* Commands that have nothing to do with the local REST API.               *)
WebLines ==
  UNION {Lines(name, {"quiet"}) : name \in
           {"identify", "lock", "buzzer", "led", "reboot", "info", "rfid-tokens",
            "add-rfid-token", "del-rfid-token", "status", "schedule", "history",
            "versions", "watch"}}
  \cup Lines("unlock", {"persist", "quiet"})
  \cup Lines("update", {"firmware", "customization", "quiet"})
  \cup Lines("household-limit", {"limit", "zero", "enable", "disable", "quiet"})
  \cup Lines("config", {"chargeLimit", "tooLow", "solar", "zero", "quiet"})
  \cup Lines("smart-charging", Modes \cup {"quiet"})
  \cup Lines("modbus", {"enable", "disable", "read", "write", "quiet"})
  \cup Lines("meterhistory", {"badBound", "export", "quiet"})

(* Commands that use it. *)
EvLines == Lines("ev", {"limit", "single", "zero", "quiet"})
RestLines ==
  UNION {Lines(name, {"quiet"}) : name \in {"health", "meter", "system"}}
  \cup Lines("api", {"enable", "disable", "read", "write", "generate", "quiet"})
  \cup EvLines
  \cup Lines("authorize", {"uid", "name", "quiet"})
  \cup Lines("dump", {"quiet"})

Charger(line) == [line |-> line, firmware |-> "current", allowed |-> {"rest", "modbus"},
                  rest |-> "on", others |-> {}]

(* The local API on or off, and another client that turns it on or off.    *)
Toggled(line) ==
  {[Charger(line) EXCEPT !.rest = r, !.others = {<<"rest", "on">>, <<"rest", "off">>}] :
     r \in {"on", "off"}}

(* Another client that writes the settings of ev.                          *)
Disturbed(line) ==
  [Charger(line) EXCEPT !.others = {<<"evLimit", "new">>, <<"singlePhase", "new">>}]

AllSetups ==
  {Charger(line) : line \in WebLines}
  \cup {Disturbed(line) : line \in EvLines}
  \cup {[Charger(line) EXCEPT !.allowed = {}] : line \in Lines("modbus", {"enable"})}
  \cup UNION {Toggled(line) : line \in RestLines}
  \cup {[Charger(line) EXCEPT !.allowed = {}] : line \in RestLines}
  \cup {[Charger(line) EXCEPT !.firmware = "old"] : line \in RestLines}

(* The API on, and everything that turns it off. *)
Disablings == {Charger(line) : line \in Lines("api", {"disable", "read", "generate"})}

(* Up to two sessions of any kind, three of one token one at a time, in    *)
(* any order.                                                              *)
Session(token, start, end) == [token |-> token, start |-> start, end |-> end]
AnySession == {Session(token, start, end) : token \in {t, None}, start \in 0..2,
                                            end \in {None, 0, 1, 2}}
SomeSession == {Session(t, start, end) : start \in 0..2, end \in {None, 1, 2}}

AllHistories ==
  {[sessions |-> s, corrupted |-> <<TRUE>>, meta |-> TRUE] :
     s \in UNION {[1..n -> AnySession] : n \in 1..2}}
  \cup {[sessions |-> s, corrupted |-> <<FALSE, TRUE>>, meta |-> TRUE] :
         s \in {q \in [1..3 -> SomeSession] : OneAtATime(q)}}
  \cup {NoSessions, [sessions |-> <<Session(t, 0, 2)>>, corrupted |-> <<>>, meta |-> FALSE],
         [sessions |-> <<Session(t, 0, 2)>>, corrupted |-> <<FALSE, TRUE>>, meta |-> TRUE]}
=============================================================================
