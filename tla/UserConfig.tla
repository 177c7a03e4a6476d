----------------------------- MODULE UserConfig -----------------------------
(***************************************************************************)
(* The settings of the user configuration and their two readings: the      *)
(* charger keeps raw fields, the library speaks of a smart charging mode   *)
(* and an LED brightness, as the charger's own web interface does          *)
(* (src/src/peblar/models.py).                                             *)
(***************************************************************************)
EXTENDS Integers

CONSTANT None   \* Python's None

SolarModes == {"MaxSolar", "OptimizedSolar", "PureSolar", "CustomSolar"}
AccessModes == {"ReadOnly", "ReadWrite"}

(* What the charger keeps, and what each field may be.  The fields left    *)
(* out are like restAccess: nothing is derived from them.                  *)
Values == [scheduled |-> BOOLEAN, solar |-> BOOLEAN, solarMode |-> SolarModes,
           ledMode |-> {"Auto", "Fixed"}, ledManual |-> Int,
           restEnabled |-> BOOLEAN, restAccess |-> AccessModes,
           modbusEnabled |-> BOOLEAN, modbusAccess |-> AccessModes]

Fields == DOMAIN Values
SmartFields == {"scheduled", "solar", "solarMode"}
LedFields == {"ledMode", "ledManual"}

(* A change has some of the fields, as a PATCH does: unset ones are not in *)
(* the request at all.  A configuration has them all.                      *)
ChangeOK(change) ==
  DOMAIN change \subseteq Fields /\ \A f \in DOMAIN change : change[f] \in Values[f]

ConfigOK(cfg) == ChangeOK(cfg) /\ DOMAIN cfg = Fields

NoChange == [f \in {} |-> None]

Merge(cfg, change) ==
  [f \in DOMAIN cfg |-> IF f \in DOMAIN change THEN change[f] ELSE cfg[f]]

Over(w, v) ==
  [f \in DOMAIN w \cup DOMAIN v |-> IF f \in DOMAIN v THEN v[f] ELSE w[f]]

----------------------------------------------------------------------------
(* From the names of the web interface to the fields.                      *)

SolarModeOf == [fast_solar |-> "MaxSolar", smart_solar |-> "OptimizedSolar",
                pure_solar |-> "PureSolar", custom_solar |-> "CustomSolar"]

SmartModes == {"default", "scheduled"} \cup DOMAIN SolarModeOf

Automatic == -1
Levels == {Automatic, 0, 2, 22, 100}   \* LedBrightness

ASSUME NoneAssumption == /\ None \notin BOOLEAN /\ None \notin Int
                         /\ None \notin SmartModes \cup AccessModes

(* Slip: a schedule set before stays on. *)
ResolveSmartKeeps(mode) ==
  CASE mode = "default" -> [scheduled |-> FALSE, solar |-> FALSE]
    [] mode = "scheduled" -> [scheduled |-> TRUE, solar |-> FALSE]
    [] OTHER -> [solar |-> TRUE, solarMode |-> SolarModeOf[mode]]

ResolveSmart(mode) ==
  CASE mode = "default" -> [scheduled |-> FALSE, solar |-> FALSE]
    [] mode = "scheduled" -> [scheduled |-> TRUE, solar |-> FALSE]
    [] OTHER -> [scheduled |-> FALSE, solar |-> TRUE,
                 solarMode |-> SolarModeOf[mode]]

ResolveLed(level) ==
  IF level = Automatic THEN [ledMode |-> "Auto"]
                       ELSE [ledMode |-> "Fixed", ledManual |-> level]

(* A user's change: raw fields, and the two names.  A name next to one of  *)
(* the fields it stands for is refused.                                    *)
Conflicting(raw, smart, led) ==
  \/ smart # None /\ DOMAIN raw \cap SmartFields # {}
  \/ led # None /\ DOMAIN raw \cap LedFields # {}

Expand(raw, smart, led) ==
  Over(Over(raw, IF smart = None THEN NoChange ELSE ResolveSmart(smart)),
       IF led = None THEN NoChange ELSE ResolveLed(led))

----------------------------------------------------------------------------
(* And back.                                                               *)

(* Nothing if both are on: the web interface has no name for that. *)
SmartOf(cfg) ==
  CASE ~cfg.scheduled /\ ~cfg.solar -> "default"
    [] cfg.scheduled /\ ~cfg.solar -> "scheduled"
    [] ~cfg.scheduled /\ cfg.solar ->
         CHOOSE mode \in DOMAIN SolarModeOf : SolarModeOf[mode] = cfg.solarMode
    [] OTHER -> None

LedOf(cfg) ==
  CASE cfg.ledMode = "Auto" -> Automatic
    [] cfg.ledMode # "Auto" /\ cfg.ledManual \in Levels -> cfg.ledManual
    [] OTHER -> None

(* What a caller sees of a configuration. *)
Views == Fields \cup {"smart", "led"}

View(cfg, name) ==
  CASE name = "smart" -> SmartOf(cfg)
    [] name = "led" -> LedOf(cfg)
    [] OTHER -> cfg[name]
=============================================================================
