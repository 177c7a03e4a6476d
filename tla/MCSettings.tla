----------------------------- MODULE MCSettings -----------------------------
(* Small instances of Settings for TLC.                                    *)
EXTENDS Settings, TLC

CONSTANTS a, b

Plain == [scheduled |-> FALSE, solar |-> FALSE, solarMode |-> "MaxSolar",
          ledMode |-> "Auto", ledManual |-> 50,
          restEnabled |-> TRUE, restAccess |-> "ReadOnly",
          modbusEnabled |-> FALSE, modbusAccess |-> "ReadOnly"]

Charger == [calls |-> {}, configs |-> {Plain}, firmwares |-> {2},
            readable |-> TRUE, allowed |-> {"rest", "modbus"}]

(* Modes and levels, by name and field by field, one call refused.         *)
Modes == [Charger EXCEPT !.calls =
  {<<a, Write(NoChange, "scheduled", None)>>,
   <<a, Write([solar |-> TRUE], "default", None)>>,
   <<b, Write([restAccess |-> "ReadWrite"], "pure_solar", 22)>>,
   <<b, Write(NoChange, "default", Automatic)>>}]

(* One task turns the local REST API off while another wants it.           *)
RestApis == [Charger EXCEPT !.firmwares = {1}, !.calls =
  {<<a, RestApi(FALSE, None)>>,
   <<b, RestApi(TRUE, "ReadWrite")>>}]

(* The same of the Modbus API, and the connector across an update.         *)
Others == [Charger EXCEPT !.firmwares = {1, 2}, !.calls =
  {<<a, Write([modbusAccess |-> "ReadOnly"], None, None)>>,
   <<a, Connector>>,
   <<b, ModbusApi(TRUE, "ReadWrite")>>}]

(* A device that allows neither API, updated from a firmware without one.  *)
Denied == [Charger EXCEPT !.firmwares = {0, 1}, !.allowed = {}, !.calls =
  {<<a, RestApi(None, None)>>, <<b, ModbusApi(TRUE, None)>>}]

(* A firmware with a version nobody can read, before and after the move.   *)
Unreadable == [Charger EXCEPT !.firmwares = {1, 2}, !.readable = FALSE, !.calls =
  {<<a, RestApi(None, None)>>, <<b, Connector>>}]

AllSetups == {Modes, RestApis, Others, Denied, Unreadable}
=============================================================================
