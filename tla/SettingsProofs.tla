--------------------------- MODULE SettingsProofs ---------------------------
(***************************************************************************)
(* Theorems about Settings, for any number of tasks, any chargers and      *)
(* programs, and any number of attempts and late PATCHes; first those      *)
(* about UserConfig: what a change asks for, by field or by name, is what  *)
(* a caller reads once the charger has applied it.                         *)
(***************************************************************************)
EXTENDS Settings, TLAPS

LEMMA FieldValues ==
  /\ SmartFields \cup LedFields \cup
     {"restEnabled", "restAccess", "modbusEnabled", "modbusAccess"} = Fields
  /\ Values["scheduled"] = BOOLEAN /\ Values["solar"] = BOOLEAN
  /\ Values["solarMode"] = SolarModes
  /\ Values["restEnabled"] = BOOLEAN /\ Values["modbusEnabled"] = BOOLEAN
  /\ Values["restAccess"] = AccessModes /\ Values["modbusAccess"] = AccessModes
BY DEF Fields, Values, SmartFields, LedFields

(* Every change made of legal values and names is one the charger can      *)
(* apply.                                                                  *)
LEMMA ResolvedOK ==
  /\ \A mode \in SmartModes : /\ ChangeOK(ResolveSmart(mode))
                              /\ DOMAIN ResolveSmart(mode) \subseteq SmartFields
  /\ \A level \in Levels : /\ ChangeOK(ResolveLed(level))
                           /\ DOMAIN ResolveLed(level) \subseteq LedFields
<1>1. ASSUME NEW mode \in SmartModes
      PROVE  /\ ChangeOK(ResolveSmart(mode))
             /\ DOMAIN ResolveSmart(mode) \subseteq SmartFields
  <2>1. CASE mode \in DOMAIN SolarModeOf
    <3>1. SolarModeOf[mode] \in SolarModes
      BY <2>1 DEF SolarModeOf, SolarModes
    <3>2. ResolveSmart(mode) = [scheduled |-> FALSE, solar |-> TRUE,
                                solarMode |-> SolarModeOf[mode]]
      BY <2>1 DEF ResolveSmart, SolarModeOf
    <3>3. DOMAIN ResolveSmart(mode) = SmartFields
      BY <3>2 DEF SmartFields
    <3>4. /\ ResolveSmart(mode)["scheduled"] = FALSE
          /\ ResolveSmart(mode)["solar"] = TRUE
          /\ ResolveSmart(mode)["solarMode"] = SolarModeOf[mode]
      BY <3>2
    <3>5. \A f \in SmartFields : ResolveSmart(mode)[f] \in Values[f]
      BY <3>1, <3>4, FieldValues DEF SmartFields
    <3> QED
      BY <3>3, <3>5, FieldValues DEF ChangeOK
  <2>2. CASE mode \in {"default", "scheduled"}
    <3>1. /\ DOMAIN ResolveSmart(mode) = {"scheduled", "solar"}
          /\ ResolveSmart(mode)["scheduled"] \in BOOLEAN
          /\ ResolveSmart(mode)["solar"] = FALSE
      BY <2>2 DEF ResolveSmart
    <3>2. \A f \in {"scheduled", "solar"} : ResolveSmart(mode)[f] \in Values[f]
      BY <3>1, FieldValues
    <3> QED
      BY <3>1, <3>2, FieldValues DEF ChangeOK, SmartFields
  <2> QED
    BY <2>1, <2>2 DEF SmartModes
<1>2. ASSUME NEW level \in Levels
      PROVE  /\ ChangeOK(ResolveLed(level))
             /\ DOMAIN ResolveLed(level) \subseteq LedFields
  BY <1>2 DEF ResolveLed, ChangeOK, LedFields, Levels, Automatic, Fields, Values
<1> QED
  BY <1>1, <1>2

LEMMA OverOK ==
  ASSUME NEW w, NEW v, ChangeOK(w), ChangeOK(v)
  PROVE  ChangeOK(Over(w, v))
BY DEF Over, ChangeOK

LEMMA NoChangeOK == ChangeOK(NoChange)
BY DEF ChangeOK, NoChange

LEMMA ExpandOK ==
  ASSUME NEW raw, ChangeOK(raw),
         NEW smart \in SmartModes \cup {None}, NEW led \in Levels \cup {None}
  PROVE  ChangeOK(Expand(raw, smart, led))
<1>1. ChangeOK(IF smart = None THEN NoChange ELSE ResolveSmart(smart))
  BY ResolvedOK, NoChangeOK
<1>2. ChangeOK(IF led = None THEN NoChange ELSE ResolveLed(led))
  BY ResolvedOK, NoChangeOK
<1> QED
  BY <1>1, <1>2, OverOK DEF Expand

(* A configuration stays one under every change.                           *)
LEMMA MergeOK ==
  ASSUME NEW conf, ConfigOK(conf), NEW change, ChangeOK(change)
  PROVE  ConfigOK(Merge(conf, change))
BY DEF Merge, ConfigOK, ChangeOK

----------------------------------------------------------------------------
(* The two translations undo each other: a mode that is written is the     *)
(* mode that is read, whatever was configured before.                      *)

LEMMA SmartRoundTrip ==
  ASSUME NEW conf, NEW mode \in SmartModes,
         \A f \in DOMAIN ResolveSmart(mode) : conf[f] = ResolveSmart(mode)[f]
  PROVE  SmartOf(conf) = mode
<1>1. CASE mode \in DOMAIN SolarModeOf
  <2>1. /\ ~conf.scheduled /\ conf.solar
        /\ conf.solarMode = SolarModeOf[mode]
    BY <1>1 DEF ResolveSmart, SolarModeOf
  <2>2. \A other \in DOMAIN SolarModeOf :
          SolarModeOf[other] = SolarModeOf[mode] => other = mode
    BY <1>1 DEF SolarModeOf
  <2>3. (CHOOSE other \in DOMAIN SolarModeOf : SolarModeOf[other] = conf.solarMode) = mode
    BY <1>1, <2>1, <2>2
  <2> QED
    BY <2>1, <2>3 DEF SmartOf
<1>2. CASE mode \in {"default", "scheduled"}
  BY <1>2 DEF ResolveSmart, SmartOf
<1> QED
  BY <1>1, <1>2 DEF SmartModes

LEMMA LedRoundTrip ==
  ASSUME NEW conf, NEW level \in Levels,
         \A f \in DOMAIN ResolveLed(level) : conf[f] = ResolveLed(level)[f]
  PROVE  LedOf(conf) = level
BY DEF ResolveLed, LedOf, Levels, Automatic

(* What is written is read back: once the charger has merged an accepted   *)
(* change (PeblarSetUserConfiguration's expansion), each raw field, the    *)
(* smart charging mode and the LED brightness that were set are what       *)
(* PeblarUserConfiguration shows, whatever was configured before.          *)
THEOREM WrittenIsRead ==
  ASSUME NEW conf, ConfigOK(conf), NEW raw, ChangeOK(raw),
         NEW smart \in SmartModes \cup {None}, NEW led \in Levels \cup {None},
         ~Conflicting(raw, smart, led)
  PROVE  LET new == Merge(conf, Expand(raw, smart, led)) IN
         /\ \A f \in DOMAIN raw : View(new, f) = raw[f]
         /\ smart # None => View(new, "smart") = smart
         /\ led # None => View(new, "led") = led
<1> DEFINE s == IF smart = None THEN NoChange ELSE ResolveSmart(smart)
           l == IF led = None THEN NoChange ELSE ResolveLed(led)
           new == Merge(conf, Expand(raw, smart, led))
<1>1. DOMAIN s \subseteq SmartFields /\ DOMAIN l \subseteq LedFields
  BY ResolvedOK DEF NoChange
<1>2. SmartFields \cap LedFields = {} /\ "smart" \notin Fields /\ "led" \notin Fields
  BY DEF SmartFields, LedFields, Fields, Values
<1>3. SmartFields \subseteq Fields /\ LedFields \subseteq Fields /\ DOMAIN conf = Fields
  BY DEF SmartFields, LedFields, Fields, Values, ConfigOK
<1>4. \A f \in DOMAIN s : new[f] = s[f]
  BY <1>1, <1>2, <1>3 DEF Merge, Expand, Over
<1>5. \A f \in DOMAIN l : new[f] = l[f]
  BY <1>1, <1>2, <1>3 DEF Merge, Expand, Over
<1>6. ASSUME NEW f \in DOMAIN raw
      PROVE  View(new, f) = raw[f]
  <2>1. f \in Fields
    BY DEF ChangeOK
  <2>2. f \notin DOMAIN s /\ f \notin DOMAIN l
    BY <1>1 DEF Conflicting, NoChange
  <2>3. new[f] = raw[f]
    BY <2>1, <2>2, <1>3 DEF Merge, Expand, Over
  <2> QED
    BY <2>1, <2>3, <1>2 DEF View
<1>7. smart # None => View(new, "smart") = smart
  BY <1>4, SmartRoundTrip DEF View
<1>8. led # None => View(new, "led") = led
  BY <1>5, LedRoundTrip DEF View
<1> QED
  BY <1>6, <1>7, <1>8

----------------------------------------------------------------------------
(* Calls.                                                                  *)

Apis == {"rest", "modbus"}

(* What a call in progress knows.  h is what held since it began.          *)

(* The configuration it read was so. *)
ReadOK(f, h) ==
  /\ EnabledField(f.req.op) \in Watched(f.req) => <<EnabledField(f.req.op), f.user.enabled>> \in h
  /\ AccessField(f.req.op) \in Watched(f.req) => <<AccessField(f.req.op), f.user.access>> \in h

(* Its PATCH says what is wanted, or the part of it that was not so. *)
PatchSays(f) ==
  \/ /\ f.req.op = "write"
     /\ ~Conflicting(f.req.raw, f.req.smart, f.req.led)
     /\ f.change = Expand(f.req.raw, f.req.smart, f.req.led)
  \/ /\ f.req.op \in Apis
     /\ f.change = Needed(f.req, f.user)

(* Once it is answered, all that is wanted was so, and the last step can   *)
(* only tell the truth about the API.                                      *)
EnabledAfter(r, change, user) ==
  IF EnabledField(r.op) \in DOMAIN change THEN change[EnabledField(r.op)]
                                          ELSE user.enabled

Settled(r, enabled, h) ==
  /\ Wanted(r) \subseteq h
  /\ r.op = "rest" => <<"restEnabled", enabled>> \in h

CallOK(f, h) ==
  /\ RequestOK(f.req)
  /\ f.step = "versions" => f.req.op \in {"rest", "connector"}
  /\ f.step = "config" => /\ f.req.op \in Apis
                          /\ f.wire = "done" => ReadOK(f, h)
  /\ f.step = "patch" => /\ PatchSays(f)
                         /\ f.req.op \in Apis => ReadOK(f, h)
                         /\ f.wire = "done" => Settled(f.req, EnabledAfter(f.req, f.change, f.user), h)
  /\ f.step = "token" => f.req.op = "rest" /\ Settled(f.req, TRUE, h)
  /\ f.step = "connector" => f.req = Connector

CallsOK == \A c \in Callers : Busy(c) => CallOK(call[c], held[c])

IInv == TypeOK /\ CallsOK

----------------------------------------------------------------------------
(* History only grows while a call lasts.                                  *)

LEMMA Observed ==
  ASSUME Observe, NEW c \in Callers, call'[c].step # "idle"
  PROVE  /\ \A name \in Watched(call'[c].req) : <<name, View(cfg', name)>> \in held'[c]
         /\ Busy(c) => held[c] \subseteq held'[c]
BY DEF Observe, Busy

LEMMA KnowledgeStays ==
  ASSUME NEW f, NEW h, NEW k, h \subseteq k, CallOK(f, h)
  PROVE  CallOK(f, k)
<1>1. ReadOK(f, h) => ReadOK(f, k)
  BY DEF ReadOK
<1>2. \A enabled : Settled(f.req, enabled, h) => Settled(f.req, enabled, k)
  BY DEF Settled
<1> QED
  BY <1>1, <1>2 DEF CallOK

(* A step changes what one caller is doing, and leaves it in order. *)
Effect(c) ==
  /\ call' = [call EXCEPT ![c] = call'[c]]
  /\ FrameOK(call'[c])
  /\ call'[c].step # "idle" => CallOK(call'[c], held'[c])

CallTypeOK == DOMAIN call = Callers /\ \A c \in Callers : FrameOK(call[c])

LEMMA OthersStay ==
  ASSUME IInv, Observe, NEW c \in Callers, call'[c] = call[c]
  PROVE  FrameOK(call'[c]) /\ (Busy(c)' => CallOK(call'[c], held'[c]))
<1>1. FrameOK(call[c]) /\ (Busy(c) => CallOK(call[c], held[c]))
  BY DEF IInv, TypeOK, CallsOK
<1>2. CASE Busy(c)
  <2>1. held[c] \subseteq held'[c]
    BY <1>2, Observed DEF Busy
  <2> QED
    BY <1>1, <1>2, <2>1, KnowledgeStays
<1>3. CASE ~Busy(c)
  BY <1>1, <1>3 DEF Busy
<1> QED
  BY <1>2, <1>3

LEMMA OneCall ==
  ASSUME IInv, Observe, NEW c \in Callers, Effect(c)
  PROVE  CallTypeOK' /\ CallsOK'
<1>1. DOMAIN call = Callers
  BY DEF IInv, TypeOK
<1>2. DOMAIN call' = Callers
  BY <1>1 DEF Effect
<1>3. ASSUME NEW d \in Callers
      PROVE  FrameOK(call'[d]) /\ (Busy(d)' => CallOK(call'[d], held'[d]))
  <2>1. CASE d = c
    BY <2>1 DEF Effect, Busy
  <2>2. CASE d # c
    <3>1. call'[d] = call[d]
      BY <1>1, <2>2 DEF Effect
    <3> QED
      BY <3>1, OthersStay
  <2> QED
    BY <2>1, <2>2
<1> QED
  BY <1>2, <1>3 DEF CallTypeOK, CallsOK

LEMMA NoCall ==
  ASSUME IInv, Observe, call' = call
  PROVE  CallTypeOK' /\ CallsOK'
<1>1. DOMAIN call' = Callers
  BY DEF IInv, TypeOK
<1>2. ASSUME NEW d \in Callers
      PROVE  FrameOK(call'[d]) /\ (Busy(d)' => CallOK(call'[d], held'[d]))
  BY OthersStay
<1> QED
  BY <1>1, <1>2 DEF CallTypeOK, CallsOK

----------------------------------------------------------------------------
(* What the parts of a caller's step do.                                   *)

(* No call ends with a lie: the two properties, of one step. *)
Truthful(c) ==
  /\ Ends(c, "ok") => /\ Wanted(call[c].req) \subseteq held[c]
                      /\ call[c].req.op = "rest" => <<"restEnabled", TRUE>> \in held[c]
  /\ Ends(c, "NotEnabled") => <<"restEnabled", FALSE>> \in held[c]

AllTruthful == \A c \in Callers : Truthful(c)

LEMMA IdleOK == FrameOK(Idle)
<1>1. MaxAttempts \in Nat \ {0}
  BY AttemptsAssumption
<1> QED
  BY <1>1, NoChangeOK DEF FrameOK, Idle, Steps, Wires, Unread, AccessModes

LEMMA NothingSaid ==
  ASSUME GoesOn
  PROVE  AllTruthful
BY DEF AllTruthful, Truthful, Ends, GoesOn

LEMMA Finished ==
  ASSUME IInv, NEW c \in Callers, NEW r, Finish(c, r)
  PROVE  /\ Effect(c)
         /\ \A s : \A d \in Callers : Ends(d, s) => d = c /\ s = r
<1>1. call'[c] = Idle /\ call' = [call EXCEPT ![c] = call'[c]]
  BY DEF IInv, TypeOK, Finish
<1>2. call'[c].step = "idle"
  BY <1>1 DEF Idle
<1> QED
  BY <1>1, <1>2, IdleOK DEF Effect, Finish, Ends

LEMMA Raised ==
  ASSUME IInv, NEW c \in Callers, NEW r, Finish(c, r), r \notin {"ok", "NotEnabled"}
  PROVE  Effect(c) /\ AllTruthful
BY Finished DEF AllTruthful, Truthful

(* The fields of the frame after the next request went out. *)
LEMMA Asked ==
  ASSUME IInv, NEW c \in Callers, NEW f, FrameOK(f),
         NEW step \in Steps, NEW change, ChangeOK(change), Ask(c, f, step, change)
  PROVE  /\ FrameOK(call'[c]) /\ call' = [call EXCEPT ![c] = call'[c]]
         /\ call'[c].req = f.req /\ call'[c].step = step /\ call'[c].wire = "sent"
         /\ call'[c].change = change /\ call'[c].user = f.user
         /\ call'[c].version = f.version /\ call'[c].older = f.older
         /\ AllTruthful
<1> DEFINE g == [f EXCEPT !.step = step, !.wire = "sent", !.attempt = 1, !.change = change]
<1>1. call'[c] = g /\ call' = [call EXCEPT ![c] = call'[c]]
  BY DEF IInv, TypeOK, Ask
<1>2. DOMAIN f = DOMAIN Idle
  BY DEF FrameOK
<1>3. {"req", "step", "wire", "attempt", "change", "version", "user", "older"} = DOMAIN Idle
  BY DEF Idle
<1>4. /\ DOMAIN g = DOMAIN Idle
      /\ g.req = f.req /\ g.step = step /\ g.wire = "sent" /\ g.attempt = 1
      /\ g.change = change /\ g.version = f.version /\ g.user = f.user /\ g.older = f.older
  BY <1>2, <1>3
<1>5. 1 \in 1..MaxAttempts /\ "sent" \in Wires
  BY AttemptsAssumption DEF Wires
<1>6. FrameOK(g)
  <2> HIDE DEF g
  <2> QED
    BY <1>4, <1>5 DEF FrameOK
<1>7. AllTruthful
  BY NothingSaid DEF Ask
<1> HIDE DEF g
<1> QED
  BY <1>1, <1>4, <1>6, <1>7
----------------------------------------------------------------------------
(* The requests.                                                           *)

LEMMA RequestKinds ==
  ASSUME NEW r, RequestOK(r)
  PROVE  /\ r.op \in {"write", "rest", "modbus", "connector"}
         /\ r.op = "write" => /\ ChangeOK(r.raw)
                             /\ r.smart \in SmartModes \cup {None}
                             /\ r.led \in Levels \cup {None}
                             /\ r.enable = None /\ r.access = None
         /\ r.op \in Apis => /\ r.raw = NoChange /\ r.smart = None /\ r.led = None
                            /\ r.enable \in BOOLEAN \cup {None}
                            /\ r.access \in AccessModes \cup {None}
         /\ r.op = "connector" => r = Connector
<1>1. CASE r = Write(r.raw, r.smart, r.led) /\ ChangeOK(r.raw)
           /\ r.smart \in SmartModes \cup {None} /\ r.led \in Levels \cup {None}
  <2>1. r.op = "write" /\ r.enable = None /\ r.access = None
    BY <1>1 DEF Write, Nothing
  <2> QED
    BY <1>1, <2>1 DEF Apis
<1>2. CASE r \in {RestApi(r.enable, r.access), ModbusApi(r.enable, r.access)}
           /\ r.enable \in BOOLEAN \cup {None} /\ r.access \in AccessModes \cup {None}
  <2>1. /\ r.op \in Apis
        /\ r.raw = NoChange /\ r.smart = None /\ r.led = None
    BY <1>2 DEF RestApi, ModbusApi, Nothing, Apis
  <2> QED
    BY <1>2, <2>1 DEF Apis
<1>3. CASE r = Connector
  <2>1. r.op = "connector"
    BY <1>3 DEF Connector, Nothing
  <2> QED
    BY <1>3, <2>1 DEF Apis
<1> QED
  BY <1>1, <1>2, <1>3 DEF RequestOK

(* An API's two fields, and which of them are written. *)
LEMMA ApiFields ==
  ASSUME NEW op \in Apis
  PROVE  /\ EnabledField(op) \in Fields /\ AccessField(op) \in Fields
         /\ EnabledField(op) # AccessField(op)
         /\ Values[EnabledField(op)] = BOOLEAN /\ Values[AccessField(op)] = AccessModes
         /\ \A cfg1 : /\ View(cfg1, EnabledField(op)) = cfg1[EnabledField(op)]
                      /\ View(cfg1, AccessField(op)) = cfg1[AccessField(op)]
BY FieldValues DEF Apis, EnabledField, AccessField, View

LEMMA NeededIs ==
  ASSUME NEW r, RequestOK(r), r.op \in Apis,
         NEW user \in [enabled : BOOLEAN, access : AccessModes]
  PROVE  LET change == Needed(r, user)
             e == EnabledField(r.op)
             a == AccessField(r.op) IN
         /\ ChangeOK(change)
         /\ DOMAIN change \subseteq {e, a}
         /\ e \in DOMAIN change <=> r.enable # None /\ r.enable # user.enabled
         /\ e \in DOMAIN change => change[e] = r.enable
         /\ a \in DOMAIN change <=> r.access # None /\ r.access # user.access
         /\ a \in DOMAIN change => change[a] = r.access
<1> DEFINE e == EnabledField(r.op)
           a == AccessField(r.op)
           ve == IF r.enable = None \/ r.enable = user.enabled THEN NoChange
                   ELSE [f \in {e} |-> r.enable]
           va == IF r.access = None \/ r.access = user.access THEN NoChange
                   ELSE [f \in {a} |-> r.access]
<1>1. /\ r.enable \in BOOLEAN \cup {None} /\ r.access \in AccessModes \cup {None}
      /\ e \in Fields /\ a \in Fields /\ e # a
      /\ Values[e] = BOOLEAN /\ Values[a] = AccessModes
  BY RequestKinds, ApiFields
<1>2. /\ DOMAIN ve = IF r.enable = None \/ r.enable = user.enabled THEN {} ELSE {e}
      /\ \A f \in DOMAIN ve : ve[f] = r.enable
  BY DEF NoChange
<1>3. /\ DOMAIN va = IF r.access = None \/ r.access = user.access THEN {} ELSE {a}
      /\ \A f \in DOMAIN va : va[f] = r.access
  BY DEF NoChange
<1>4. ChangeOK(ve) /\ ChangeOK(va)
  BY <1>1, <1>2, <1>3 DEF ChangeOK
<1>5. Needed(r, user) = Over(ve, va)
  BY DEF Needed
<1> HIDE DEF e, a, ve, va
<1>6. ChangeOK(Needed(r, user))
  BY <1>4, <1>5, OverOK
<1>7. /\ DOMAIN Needed(r, user) = DOMAIN ve \cup DOMAIN va
      /\ e \in DOMAIN ve => Needed(r, user)[e] = ve[e]
      /\ a \in DOMAIN va => Needed(r, user)[a] = va[a]
  BY <1>1, <1>2, <1>3, <1>5 DEF Over
<1>8. /\ DOMAIN Needed(r, user) \subseteq {e, a}
      /\ e \in DOMAIN Needed(r, user) <=> r.enable # None /\ r.enable # user.enabled
      /\ e \in DOMAIN Needed(r, user) => Needed(r, user)[e] = r.enable
      /\ a \in DOMAIN Needed(r, user) <=> r.access # None /\ r.access # user.access
      /\ a \in DOMAIN Needed(r, user) => Needed(r, user)[a] = r.access
  BY <1>1, <1>2, <1>3, <1>7
<1> QED
  BY <1>6, <1>8 DEF e, a

(* What was read and what was written together are all that is wanted. *)
LEMMA ApiWanted ==
  ASSUME NEW r, RequestOK(r), r.op \in Apis
  PROVE  /\ Wanted(r) = (IF r.enable = None THEN {} ELSE {<<EnabledField(r.op), r.enable>>})
                        \cup (IF r.access = None THEN {} ELSE {<<AccessField(r.op), r.access>>})
         /\ r.enable # None \/ r.op = "rest" => EnabledField(r.op) \in Watched(r)
         /\ r.access # None => AccessField(r.op) \in Watched(r)
<1>1. r.raw = NoChange /\ r.smart = None /\ r.led = None
  BY RequestKinds
<1>2. Wanted(r) = (IF r.enable = None THEN {} ELSE {<<EnabledField(r.op), r.enable>>})
                  \cup (IF r.access = None THEN {} ELSE {<<AccessField(r.op), r.access>>})
  BY <1>1 DEF Wanted, NoChange
<1>3. r.enable # None => EnabledField(r.op) \in Watched(r)
  <2>1. r.enable # None => <<EnabledField(r.op), r.enable>> \in Wanted(r)
    BY <1>2
  <2> QED
    BY <2>1 DEF Watched
<1>4. r.access # None => AccessField(r.op) \in Watched(r)
  <2>1. r.access # None => <<AccessField(r.op), r.access>> \in Wanted(r)
    BY <1>2
  <2> QED
    BY <2>1 DEF Watched
<1>5. r.op = "rest" => EnabledField(r.op) \in Watched(r)
  BY DEF Watched, EnabledField
<1> QED
  BY <1>2, <1>3, <1>4, <1>5

LEMMA SettledByBoth ==
  ASSUME NEW f, FrameOK(f), RequestOK(f.req), f.req.op \in Apis, NEW h, ReadOK(f, h),
         NEW change, change = Needed(f.req, f.user),
         \A field \in DOMAIN change : <<field, change[field]>> \in h
  PROVE  Settled(f.req, EnabledAfter(f.req, change, f.user), h)
<1> DEFINE e == EnabledField(f.req.op)
           a == AccessField(f.req.op)
<1>1. f.user \in [enabled : BOOLEAN, access : AccessModes]
  BY DEF FrameOK
<1>2. /\ e \in DOMAIN change <=> f.req.enable # None /\ f.req.enable # f.user.enabled
      /\ e \in DOMAIN change => change[e] = f.req.enable
      /\ a \in DOMAIN change <=> f.req.access # None /\ f.req.access # f.user.access
      /\ a \in DOMAIN change => change[a] = f.req.access
  BY <1>1, NeededIs
<1>3. f.req.enable # None => <<e, f.req.enable>> \in h
  BY <1>2, ApiWanted DEF ReadOK
<1>4. f.req.access # None => <<a, f.req.access>> \in h
  BY <1>2, ApiWanted DEF ReadOK
<1>5. Wanted(f.req) \subseteq h
  BY <1>3, <1>4, ApiWanted
<1>6. f.req.op = "rest" => <<"restEnabled", EnabledAfter(f.req, change, f.user)>> \in h
  BY ApiWanted DEF ReadOK, EnabledAfter, EnabledField
<1> QED
  BY <1>5, <1>6 DEF Settled
----------------------------------------------------------------------------
(* The callers' steps.                                                     *)

LEMMA StepsAre ==
  {"idle", "versions", "config", "patch", "token", "connector"} = Steps
BY DEF Steps

LEMMA BusyOK ==
  ASSUME IInv, NEW c \in Callers
  PROVE  FrameOK(call[c]) /\ (Busy(c) => CallOK(call[c], held[c]))
BY DEF IInv, TypeOK, CallsOK

LEMMA Concluded ==
  ASSUME IInv, Observe, NEW c \in Callers, Busy(c), NEW enabled \in BOOLEAN,
         Settled(call[c].req, enabled, held[c]), Conclude(c, enabled)
  PROVE  Effect(c) /\ AllTruthful
<1> DEFINE f == call[c]
<1>1. FrameOK(f) /\ CallOK(f, held[c]) /\ RequestOK(f.req)
  BY BusyOK DEF CallOK
<1>2. CASE f.req.op = "rest" /\ enabled
  <2>1. Ask(c, f, "token", NoChange)
    BY <1>2 DEF Conclude
  <2>2. /\ FrameOK(call'[c]) /\ call' = [call EXCEPT ![c] = call'[c]]
        /\ call'[c].req = f.req /\ call'[c].step = "token"
        /\ AllTruthful
    BY <1>1, <2>1, Asked, NoChangeOK, StepsAre
  <2>3. held[c] \subseteq held'[c]
    BY <2>2, Observed
  <2>4. CallOK(call'[c], held'[c])
    BY <1>1, <1>2, <2>2, <2>3 DEF CallOK, Settled
  <2> QED
    BY <2>2, <2>4 DEF Effect
<1>3. CASE f.req.op = "rest" /\ ~enabled
  <2>1. Finish(c, "NotEnabled")
    BY <1>3 DEF Conclude
  <2>2. <<"restEnabled", FALSE>> \in held[c]
    BY <1>3 DEF Settled
  <2> QED
    BY <2>1, <2>2, Finished DEF AllTruthful, Truthful
<1>4. CASE f.req.op # "rest"
  <2>1. Finish(c, "ok")
    BY <1>4 DEF Conclude
  <2> QED
    BY <1>4, <2>1, Finished DEF AllTruthful, Truthful, Settled
<1> QED
  BY <1>2, <1>3, <1>4

LEMMA CallKeeps ==
  ASSUME IInv, Observe, NEW c \in Callers, NEW r, RequestOK(r), Call(c, r)
  PROVE  Effect(c) /\ AllTruthful
<1> DEFINE f == [Idle EXCEPT !.req = r]
<1>1. FrameOK(f) /\ f.req = r
  <2>1. /\ DOMAIN f = DOMAIN Idle /\ f.req = r
        /\ f.step = Idle.step /\ f.wire = Idle.wire /\ f.attempt = Idle.attempt
        /\ f.change = Idle.change /\ f.version = Idle.version /\ f.user = Idle.user
        /\ f.older = Idle.older
    BY DEF Idle
  <2> HIDE DEF f
  <2> QED
    BY <2>1, IdleOK DEF FrameOK
<1>2. CASE r.op = "write" /\ Conflicting(r.raw, r.smart, r.led)
  BY <1>2, Raised DEF Call
<1>3. CASE r.op = "write" /\ ~Conflicting(r.raw, r.smart, r.led)
  <2> DEFINE change == Expand(r.raw, r.smart, r.led)
  <2>1. ChangeOK(change)
    BY <1>3, RequestKinds, ExpandOK
  <2>2. Ask(c, f, "patch", change)
    BY <1>3 DEF Call
  <2> HIDE DEF f, change
  <2>3. /\ FrameOK(call'[c]) /\ call' = [call EXCEPT ![c] = call'[c]]
        /\ call'[c].req = r /\ call'[c].step = "patch" /\ call'[c].wire = "sent"
        /\ call'[c].change = change
        /\ AllTruthful
    BY <1>1, <2>1, <2>2, Asked, StepsAre
  <2>4. PatchSays(call'[c])
    BY <1>3, <2>3 DEF PatchSays, change
  <2>5. CallOK(call'[c], held'[c])
    BY <1>3, <2>3, <2>4 DEF CallOK, Apis
  <2> QED
    BY <2>3, <2>5 DEF Effect
<1>4. CASE r.op = "modbus"
  <2>1. Ask(c, f, "config", NoChange)
    BY <1>4 DEF Call
  <2> HIDE DEF f
  <2>2. /\ FrameOK(call'[c]) /\ call' = [call EXCEPT ![c] = call'[c]]
        /\ call'[c].req = r /\ call'[c].step = "config" /\ call'[c].wire = "sent"
        /\ AllTruthful
    BY <1>1, <2>1, NoChangeOK, Asked, StepsAre
  <2>3. CallOK(call'[c], held'[c])
    BY <1>4, <2>2 DEF CallOK, Apis
  <2> QED
    BY <2>2, <2>3 DEF Effect
<1>5. CASE r.op \in {"rest", "connector"}
  <2>1. Ask(c, f, "versions", NoChange)
    BY <1>5 DEF Call
  <2> HIDE DEF f
  <2>2. /\ FrameOK(call'[c]) /\ call' = [call EXCEPT ![c] = call'[c]]
        /\ call'[c].req = r /\ call'[c].step = "versions"
        /\ AllTruthful
    BY <1>1, <2>1, NoChangeOK, Asked, StepsAre
  <2>3. CallOK(call'[c], held'[c])
    BY <1>5, <2>2 DEF CallOK
  <2> QED
    BY <2>2, <2>3 DEF Effect
<1> QED
  BY <1>2, <1>3, <1>4, <1>5, RequestKinds

LEMMA VersionsReadKeeps ==
  ASSUME IInv, Observe, NEW c \in Callers, VersionsRead(c)
  PROVE  Effect(c) /\ AllTruthful
<1> DEFINE f == call[c]
<1>1. Busy(c) /\ f.step = "versions"
  BY DEF VersionsRead, Done, Busy
<1>2. FrameOK(f) /\ RequestOK(f.req) /\ f.req.op \in {"rest", "connector"}
  BY <1>1, BusyOK DEF CallOK
<1>3. CASE f.req.op = "rest" /\ Older(f.version, 1)
  <2>1. Finish(c, "UnsupportedFirmware")
    BY <1>3 DEF VersionsRead
  <2> QED
    BY <2>1, Raised
<1>4. CASE f.req.op = "rest" /\ ~Older(f.version, 1)
  <2>1. Ask(c, f, "config", NoChange)
    BY <1>4 DEF VersionsRead
  <2>2. /\ FrameOK(call'[c]) /\ call' = [call EXCEPT ![c] = call'[c]]
        /\ call'[c].req = f.req /\ call'[c].step = "config" /\ call'[c].wire = "sent"
        /\ AllTruthful
    BY <1>2, <2>1, NoChangeOK, Asked, StepsAre
  <2>3. CallOK(call'[c], held'[c])
    BY <1>2, <1>4, <2>2 DEF CallOK, Apis
  <2> QED
    BY <2>2, <2>3 DEF Effect
<1>5. CASE f.req.op = "connector"
  <2> DEFINE g == [f EXCEPT !.older = Older(f.version, 2)]
  <2>1. Ask(c, g, "connector", NoChange)
    BY <1>5 DEF VersionsRead
  <2>2. DOMAIN f = DOMAIN Idle
    BY <1>2 DEF FrameOK
  <2>3. {"req", "step", "wire", "attempt", "change", "version", "user", "older"} = DOMAIN Idle
    BY DEF Idle
  <2>4. /\ DOMAIN g = DOMAIN Idle /\ g.req = f.req
        /\ g.step = f.step /\ g.wire = f.wire /\ g.attempt = f.attempt
        /\ g.change = f.change /\ g.version = f.version /\ g.user = f.user
        /\ g.older \in BOOLEAN
    BY <2>2, <2>3 DEF Older
  <2> HIDE DEF g
  <2>5. FrameOK(g)
    BY <1>2, <2>4 DEF FrameOK
  <2>6. /\ FrameOK(call'[c]) /\ call' = [call EXCEPT ![c] = call'[c]]
        /\ call'[c].req = f.req /\ call'[c].step = "connector"
        /\ AllTruthful
    BY <2>1, <2>4, <2>5, NoChangeOK, Asked, StepsAre
  <2>7. f.req = Connector
    BY <1>2, <1>5, RequestKinds
  <2>8. CallOK(call'[c], held'[c])
    BY <1>2, <2>6, <2>7 DEF CallOK
  <2> QED
    BY <2>6, <2>8 DEF Effect
<1> QED
  BY <1>2, <1>3, <1>4, <1>5
LEMMA ConfigReadKeeps ==
  ASSUME IInv, Observe, NEW c \in Callers, ConfigRead(c)
  PROVE  Effect(c) /\ AllTruthful
<1> DEFINE f == call[c]
           change == Needed(f.req, f.user)
<1>1. Busy(c) /\ f.step = "config" /\ f.wire = "done"
  BY DEF ConfigRead, Done, Busy
<1>2. FrameOK(f) /\ RequestOK(f.req) /\ f.req.op \in Apis /\ ReadOK(f, held[c])
  BY <1>1, BusyOK DEF CallOK
<1>3. f.user \in [enabled : BOOLEAN, access : AccessModes]
  BY <1>2 DEF FrameOK
<1>4. CASE f.req.op \notin setup.allowed
  <2>1. Finish(c, "Error")
    BY <1>4 DEF ConfigRead
  <2> QED
    BY <2>1, Raised
<1>5. CASE f.req.op \in setup.allowed /\ change = NoChange
  <2>1. Conclude(c, f.user.enabled)
    BY <1>5 DEF ConfigRead
  <2>2. DOMAIN change = {}
    BY <1>5 DEF NoChange
  <2>3. Settled(f.req, EnabledAfter(f.req, change, f.user), held[c])
    BY <1>2, <2>2, SettledByBoth
  <2>4. Settled(f.req, f.user.enabled, held[c])
    BY <2>2, <2>3 DEF EnabledAfter
  <2>5. f.user.enabled \in BOOLEAN
    BY <1>3
  <2> QED
    BY <1>1, <2>1, <2>4, <2>5, Concluded
<1>6. CASE f.req.op \in setup.allowed /\ change # NoChange
  <2>1. Ask(c, f, "patch", change)
    BY <1>6 DEF ConfigRead
  <2>2. ChangeOK(change)
    BY <1>2, <1>3, NeededIs
  <2> HIDE DEF change
  <2>3. /\ FrameOK(call'[c]) /\ call' = [call EXCEPT ![c] = call'[c]]
        /\ call'[c].req = f.req /\ call'[c].step = "patch" /\ call'[c].wire = "sent"
        /\ call'[c].change = change /\ call'[c].user = f.user
        /\ AllTruthful
    BY <1>2, <2>1, <2>2, Asked, StepsAre
  <2>4. held[c] \subseteq held'[c]
    BY <1>1, <2>3, Observed
  <2>5. ReadOK(call'[c], held'[c])
    BY <1>2, <2>3, <2>4 DEF ReadOK
  <2>6. PatchSays(call'[c])
    BY <1>2, <2>3 DEF PatchSays, change
  <2>7. CallOK(call'[c], held'[c])
    BY <1>2, <2>3, <2>5, <2>6 DEF CallOK
  <2> QED
    BY <2>3, <2>7 DEF Effect
<1> QED
  BY <1>4, <1>5, <1>6

LEMMA PatchedKeeps ==
  ASSUME IInv, Observe, NEW c \in Callers, Patched(c)
  PROVE  Effect(c) /\ AllTruthful
<1> DEFINE f == call[c]
           enabled == EnabledAfter(f.req, f.change, f.user)
<1>1. Busy(c) /\ f.step = "patch" /\ f.wire = "done"
  BY DEF Patched, Done, Busy
<1>2. FrameOK(f) /\ Settled(f.req, enabled, held[c])
  BY <1>1, BusyOK DEF CallOK
<1>3. Conclude(c, enabled)
  BY DEF Patched, EnabledAfter
<1>4. enabled \in BOOLEAN
  <2>1. f.user.enabled \in BOOLEAN /\ ChangeOK(f.change)
    BY <1>2 DEF FrameOK
  <2>2. Values[EnabledField(f.req.op)] = BOOLEAN
    BY FieldValues DEF EnabledField
  <2> QED
    BY <2>1, <2>2 DEF EnabledAfter, ChangeOK
<1> QED
  BY <1>1, <1>2, <1>3, <1>4, Concluded

LEMMA AnsweredKeeps ==
  ASSUME IInv, Observe, NEW c \in Callers, Answered(c)
  PROVE  Effect(c) /\ AllTruthful
<1> DEFINE f == call[c]
<1>1. Finish(c, "ok")
  BY DEF Answered
<1>2. Settled(f.req, TRUE, held[c])
  <2>1. CASE f.step = "token"
    BY <2>1, BusyOK DEF CallOK, Busy
  <2>2. CASE f.step = "connector"
    <3>1. f.req = Connector
      BY <2>2, BusyOK DEF CallOK, Busy
    <3> QED
      BY <3>1 DEF Settled, Wanted, Connector, Nothing, NoChange
  <2> QED
    BY <2>1, <2>2 DEF Answered, Done
<1> QED
  BY <1>1, <1>2, Finished DEF AllTruthful, Truthful, Settled

LEMMA RefusedKeeps ==
  ASSUME IInv, NEW c \in Callers, Refused(c)
  PROVE  Effect(c) /\ AllTruthful
BY Raised DEF Refused

LEMMA CancelKeeps ==
  ASSUME IInv, NEW c \in Callers, Cancel(c)
  PROVE  Effect(c) /\ AllTruthful
BY Raised DEF Cancel

(* A frame whose attempt is not answered, and that has learned nothing. *)
LEMMA Unanswered ==
  ASSUME IInv, Observe, NEW c \in Callers, Busy(c), NEW g,
         call' = [call EXCEPT ![c] = g],
         DOMAIN g = DOMAIN Idle,
         g.req = call[c].req, g.step = call[c].step, g.change = call[c].change,
         g.version = call[c].version, g.user = call[c].user, g.older = call[c].older,
         g.wire \in Wires \ {"done"}, g.attempt \in 1..MaxAttempts
  PROVE  Effect(c)
<1>1. call'[c] = g /\ call' = [call EXCEPT ![c] = call'[c]]
  BY DEF IInv, TypeOK
<1>2. FrameOK(call[c]) /\ CallOK(call[c], held[c])
  BY BusyOK
<1>3. FrameOK(g)
  BY <1>2 DEF FrameOK
<1>4. held[c] \subseteq held'[c]
  BY <1>1, Observed DEF Busy
<1>5. CallOK(call[c], held'[c])
  BY <1>2, <1>4, KnowledgeStays
<1>6. CallOK(g, held'[c])
  BY <1>5 DEF CallOK, PatchSays, ReadOK, Settled
<1> QED
  BY <1>1, <1>3, <1>6 DEF Effect

LEMMA LoseKeeps ==
  ASSUME IInv, Observe, NEW c \in Callers, Lose(c)
  PROVE  Effect(c) /\ AllTruthful
<1>1. CASE Backoff(c)
  <2> DEFINE f == call[c]
             g == [f EXCEPT !.wire = "none", !.attempt = @ + 1]
  <2>1. FrameOK(f) /\ f.attempt < MaxAttempts
    BY <1>1, BusyOK DEF Backoff
  <2>2. call' = [call EXCEPT ![c] = g]
    BY <1>1 DEF Backoff, IInv, TypeOK
  <2>3. {"req", "step", "wire", "attempt", "change", "version", "user", "older"} = DOMAIN f
    BY <2>1 DEF Idle, FrameOK
  <2>4. /\ DOMAIN g = DOMAIN Idle
        /\ g.req = f.req /\ g.step = f.step /\ g.change = f.change
        /\ g.version = f.version /\ g.user = f.user /\ g.older = f.older
        /\ g.wire = "none" /\ g.attempt = f.attempt + 1
    BY <2>1, <2>3 DEF FrameOK
  <2>5. g.attempt \in 1..MaxAttempts /\ g.wire \in Wires \ {"done"}
    BY <2>1, <2>4, AttemptsAssumption DEF FrameOK, Wires
  <2> HIDE DEF g
  <2>6. Effect(c)
    BY <2>2, <2>4, <2>5, Unanswered DEF Lose
  <2> QED
    BY <1>1, <2>6, NothingSaid DEF Backoff
<1>2. CASE GiveUp(c)
  BY <1>2, Raised DEF GiveUp
<1> QED
  BY <1>1, <1>2 DEF Lose

LEMMA WireKeeps ==
  ASSUME IInv, Observe, NEW c \in Callers, Busy(c), NEW wire \in Wires \ {"done"},
         call' = [call EXCEPT ![c].wire = wire]
  PROVE  Effect(c)
<1> DEFINE f == call[c]
           g == [f EXCEPT !.wire = wire]
<1>1. FrameOK(f)
  BY BusyOK
<1>2. call' = [call EXCEPT ![c] = g]
  BY DEF IInv, TypeOK
<1>3. {"req", "step", "wire", "attempt", "change", "version", "user", "older"} = DOMAIN f
  BY <1>1 DEF Idle, FrameOK
<1>4. /\ DOMAIN g = DOMAIN Idle
      /\ g.req = f.req /\ g.step = f.step /\ g.change = f.change
      /\ g.version = f.version /\ g.user = f.user /\ g.older = f.older
      /\ g.wire = wire /\ g.attempt = f.attempt
  BY <1>1, <1>3 DEF FrameOK
<1>5. g.attempt \in 1..MaxAttempts
  BY <1>1, <1>4 DEF FrameOK
<1> HIDE DEF g
<1> QED
  BY <1>2, <1>4, <1>5, Unanswered

LEMMA ResendKeeps ==
  ASSUME IInv, Observe, NEW c \in Callers, Resend(c)
  PROVE  Effect(c) /\ AllTruthful
<1>1. "sent" \in Wires \ {"done"}
  BY DEF Wires
<1> QED
  BY <1>1, WireKeeps, NothingSaid DEF Resend

LEMMA RefuseKeeps ==
  ASSUME IInv, Observe, NEW c \in Callers, Refuse(c)
  PROVE  Effect(c) /\ AllTruthful
<1>1. "refused" \in Wires \ {"done"}
  BY DEF Wires
<1> QED
  BY <1>1, WireKeeps, NothingSaid DEF Refuse
----------------------------------------------------------------------------
(* The charger's steps.                                                    *)

(* The frame of an answered attempt, where f is what the task then knows. *)
LEMMA Handled ==
  ASSUME IInv, Observe, NEW c \in Callers, Busy(c), NEW f, FrameOK(f), Answer(c, f),
         f.step = call[c].step, f.req = call[c].req
  PROVE  /\ FrameOK(call'[c]) /\ call' = [call EXCEPT ![c] = call'[c]]
         /\ call'[c].req = f.req /\ call'[c].step = f.step /\ call'[c].wire = "done"
         /\ call'[c].change = f.change /\ call'[c].user = f.user
         /\ call'[c].version = f.version /\ call'[c].older = f.older
         /\ held[c] \subseteq held'[c]
         /\ \A name \in Watched(f.req) : <<name, View(cfg', name)>> \in held'[c]
<1> DEFINE g == [f EXCEPT !.wire = "done"]
<1>1. call'[c] = g /\ call' = [call EXCEPT ![c] = call'[c]]
  BY DEF IInv, TypeOK, Answer
<1>2. {"req", "step", "wire", "attempt", "change", "version", "user", "older"} = DOMAIN f
  BY DEF Idle, FrameOK
<1>3. /\ DOMAIN g = DOMAIN Idle
      /\ g.req = f.req /\ g.step = f.step /\ g.wire = "done" /\ g.attempt = f.attempt
      /\ g.change = f.change /\ g.version = f.version /\ g.user = f.user /\ g.older = f.older
  BY <1>2 DEF FrameOK
<1>4. "done" \in Wires
  BY DEF Wires
<1> HIDE DEF g
<1>5. FrameOK(g)
  BY <1>3, <1>4 DEF FrameOK
<1> QED
  BY <1>1, <1>3, <1>5, Observed DEF Busy

LEMMA HandleVersionsKeeps ==
  ASSUME IInv, Observe, NEW c \in Callers, HandleVersions(c)
  PROVE  Effect(c) /\ AllTruthful
<1> DEFINE version == IF setup.readable THEN firmware ELSE None
           f == [call[c] EXCEPT !.version = version]
<1>1. Busy(c) /\ FrameOK(call[c]) /\ CallOK(call[c], held[c])
  BY BusyOK DEF HandleVersions, Busy
<1>2. version \in Nat \cup {None}
  BY SetupsAssumption DEF IInv, TypeOK, SetupOK
<1>3. {"req", "step", "wire", "attempt", "change", "version", "user", "older"} = DOMAIN call[c]
  BY <1>1 DEF Idle, FrameOK
<1>4. /\ DOMAIN f = DOMAIN Idle
      /\ f.req = call[c].req /\ f.step = call[c].step /\ f.wire = call[c].wire
      /\ f.attempt = call[c].attempt /\ f.change = call[c].change
      /\ f.version = version /\ f.user = call[c].user /\ f.older = call[c].older
  BY <1>1, <1>3 DEF FrameOK
<1>5. Answer(c, f) /\ f.step = "versions"
  BY <1>4 DEF HandleVersions
<1> HIDE DEF f, version
<1>6. FrameOK(f)
  BY <1>1, <1>2, <1>4 DEF FrameOK
<1>7. /\ FrameOK(call'[c]) /\ call' = [call EXCEPT ![c] = call'[c]]
      /\ call'[c].req = call[c].req /\ call'[c].step = "versions"
  BY <1>1, <1>4, <1>5, <1>6, Handled
<1>8. CallOK(call'[c], held'[c])
  BY <1>1, <1>4, <1>5, <1>7 DEF CallOK
<1> QED
  BY <1>7, <1>8, NothingSaid DEF Effect, HandleVersions

LEMMA HandleConfigKeeps ==
  ASSUME IInv, Observe, NEW c \in Callers, HandleConfig(c)
  PROVE  Effect(c) /\ AllTruthful
<1> DEFINE e == EnabledField(call[c].req.op)
           a == AccessField(call[c].req.op)
           user == [enabled |-> cfg[e], access |-> cfg[a]]
           f == [call[c] EXCEPT !.user = user]
<1>1. Busy(c) /\ FrameOK(call[c]) /\ RequestOK(call[c].req) /\ call[c].req.op \in Apis
  BY BusyOK DEF HandleConfig, Busy, CallOK
<1>2. user \in [enabled : BOOLEAN, access : AccessModes]
  <2>1. cfg[e] \in BOOLEAN /\ cfg[a] \in AccessModes
    BY <1>1, ApiFields DEF IInv, TypeOK, ConfigOK, ChangeOK
  <2> QED
    BY <2>1
<1>3. {"req", "step", "wire", "attempt", "change", "version", "user", "older"} = DOMAIN call[c]
  BY <1>1 DEF Idle, FrameOK
<1>4. /\ DOMAIN f = DOMAIN Idle
      /\ f.req = call[c].req /\ f.step = call[c].step /\ f.wire = call[c].wire
      /\ f.attempt = call[c].attempt /\ f.change = call[c].change
      /\ f.version = call[c].version /\ f.user = user /\ f.older = call[c].older
  BY <1>1, <1>3 DEF FrameOK
<1>5. Answer(c, f) /\ f.step = "config" /\ cfg' = cfg
  BY <1>4 DEF HandleConfig, chargerVars
<1>6. user.enabled = cfg[e] /\ user.access = cfg[a]
  OBVIOUS
<1> HIDE DEF f, user
<1>7. FrameOK(f)
  BY <1>1, <1>2, <1>4 DEF FrameOK
<1>8. /\ FrameOK(call'[c]) /\ call' = [call EXCEPT ![c] = call'[c]]
      /\ call'[c].req = call[c].req /\ call'[c].step = "config" /\ call'[c].user = user
      /\ \A name \in Watched(call[c].req) : <<name, View(cfg', name)>> \in held'[c]
  BY <1>1, <1>4, <1>5, <1>7, Handled
<1>9. ReadOK(call'[c], held'[c])
  BY <1>1, <1>5, <1>6, <1>8, ApiFields DEF ReadOK
<1>10. CallOK(call'[c], held'[c])
  BY <1>1, <1>8, <1>9 DEF CallOK
<1> QED
  BY <1>8, <1>10, NothingSaid DEF Effect, HandleConfig

LEMMA HandlePatchKeeps ==
  ASSUME IInv, Observe, NEW c \in Callers, HandlePatch(c)
  PROVE  Effect(c) /\ AllTruthful
<1> DEFINE f == call[c]
           r == call[c].req
<1>1. Busy(c) /\ f.step = "patch" /\ FrameOK(f) /\ CallOK(f, held[c])
  BY BusyOK DEF HandlePatch, Busy
<1>2. RequestOK(r) /\ PatchSays(f) /\ (r.op \in Apis => ReadOK(f, held[c]))
  BY <1>1 DEF CallOK
<1>3. ConfigOK(cfg) /\ ChangeOK(f.change) /\ cfg' = Merge(cfg, f.change)
  BY <1>1 DEF IInv, TypeOK, FrameOK, HandlePatch
<1>4. Answer(c, f)
  BY DEF HandlePatch
<1>5. /\ FrameOK(call'[c]) /\ call' = [call EXCEPT ![c] = call'[c]]
      /\ call'[c].req = r /\ call'[c].step = "patch" /\ call'[c].wire = "done"
      /\ call'[c].change = f.change /\ call'[c].user = f.user
      /\ held[c] \subseteq held'[c]
      /\ \A name \in Watched(r) : <<name, View(cfg', name)>> \in held'[c]
  BY <1>1, <1>4, Handled
<1>6. PatchSays(call'[c])
  BY <1>2, <1>5 DEF PatchSays
<1>7. r.op \in Apis => ReadOK(call'[c], held'[c])
  BY <1>2, <1>5 DEF ReadOK
<1>8. Settled(r, EnabledAfter(r, f.change, f.user), held'[c])
  <2>1. CASE r.op = "write"
    <3>1. /\ ChangeOK(r.raw)
          /\ r.smart \in SmartModes \cup {None} /\ r.led \in Levels \cup {None}
          /\ r.enable = None /\ r.access = None
      BY <1>2, <2>1, RequestKinds
    <3>2. /\ ~Conflicting(r.raw, r.smart, r.led)
          /\ cfg' = Merge(cfg, Expand(r.raw, r.smart, r.led))
      BY <1>2, <1>3, <2>1 DEF PatchSays, Apis
    <3>3. /\ \A field \in DOMAIN r.raw : View(cfg', field) = r.raw[field]
          /\ r.smart # None => View(cfg', "smart") = r.smart
          /\ r.led # None => View(cfg', "led") = r.led
      BY <1>3, <3>1, <3>2, WrittenIsRead
    <3>4. Wanted(r) = {<<field, r.raw[field]>> : field \in DOMAIN r.raw}
                      \cup (IF r.smart = None THEN {} ELSE {<<"smart", r.smart>>})
                      \cup (IF r.led = None THEN {} ELSE {<<"led", r.led>>})
      BY <3>1 DEF Wanted
    <3>5. \A want \in Wanted(r) : /\ want = <<want[1], want[2]>>
                                  /\ View(cfg', want[1]) = want[2]
      BY <3>3, <3>4
    <3>6. \A want \in Wanted(r) : want[1] \in Watched(r)
      BY DEF Watched
    <3>7. Wanted(r) \subseteq held'[c]
      BY <1>5, <3>5, <3>6
    <3> QED
      BY <2>1, <3>7 DEF Settled
  <2>2. CASE r.op \in Apis
    <3>1. f.change = Needed(r, f.user)
      BY <1>2, <2>2 DEF PatchSays, Apis
    <3>2. f.user \in [enabled : BOOLEAN, access : AccessModes]
      BY <1>1 DEF FrameOK
    <3>3. \A field \in DOMAIN f.change : field \in Watched(r) /\ View(cfg', field) = f.change[field]
      <4>1. /\ DOMAIN f.change \subseteq {EnabledField(r.op), AccessField(r.op)}
            /\ EnabledField(r.op) \in DOMAIN f.change => EnabledField(r.op) \in Watched(r)
            /\ AccessField(r.op) \in DOMAIN f.change => AccessField(r.op) \in Watched(r)
        BY <1>2, <2>2, <3>1, <3>2, NeededIs, ApiWanted
      <4>2. \A field \in DOMAIN f.change : cfg'[field] = f.change[field]
        BY <1>3 DEF Merge, ConfigOK, ChangeOK
      <4>3. \A field \in {EnabledField(r.op), AccessField(r.op)} :
              View(cfg', field) = cfg'[field]
        BY <2>2, ApiFields
      <4> QED
        BY <4>1, <4>2, <4>3
    <3>4. \A field \in DOMAIN f.change : <<field, f.change[field]>> \in held'[c]
      BY <1>5, <3>3
    <3>5. ReadOK(f, held'[c])
      BY <1>2, <1>5, <2>2 DEF ReadOK
    <3> QED
      BY <1>1, <1>2, <2>2, <3>1, <3>4, <3>5, SettledByBoth
  <2> QED
    BY <1>2, <2>1, <2>2 DEF PatchSays
<1>9. CallOK(call'[c], held'[c])
  BY <1>2, <1>5, <1>6, <1>7, <1>8 DEF CallOK
<1> QED
  BY <1>5, <1>9, NothingSaid DEF Effect, HandlePatch

LEMMA HandleTokenKeeps ==
  ASSUME IInv, Observe, NEW c \in Callers, HandleToken(c)
  PROVE  Effect(c) /\ AllTruthful
<1>1. Busy(c) /\ call[c].step = "token" /\ FrameOK(call[c]) /\ CallOK(call[c], held[c])
  BY BusyOK DEF HandleToken, Busy
<1>2. /\ FrameOK(call'[c]) /\ call' = [call EXCEPT ![c] = call'[c]]
      /\ call'[c].req = call[c].req /\ call'[c].step = "token"
      /\ held[c] \subseteq held'[c]
  BY <1>1, Handled DEF HandleToken
<1>3. CallOK(call'[c], held'[c])
  BY <1>1, <1>2 DEF CallOK, Settled
<1> QED
  BY <1>2, <1>3, NothingSaid DEF Effect, HandleToken

LEMMA HandleConnectorKeeps ==
  ASSUME IInv, Observe, NEW c \in Callers, HandleConnector(c)
  PROVE  Effect(c) /\ AllTruthful
<1>1. Busy(c) /\ call[c].step = "connector" /\ FrameOK(call[c]) /\ CallOK(call[c], held[c])
  BY BusyOK DEF HandleConnector, Busy
<1>2. CASE Answer(c, call[c])
  <2>1. /\ FrameOK(call'[c]) /\ call' = [call EXCEPT ![c] = call'[c]]
        /\ call'[c].req = call[c].req /\ call'[c].step = "connector"
    BY <1>1, <1>2, Handled
  <2>2. CallOK(call'[c], held'[c])
    BY <1>1, <2>1 DEF CallOK
  <2> QED
    BY <2>1, <2>2, NothingSaid DEF Effect, HandleConnector
<1>3. CASE call' = [call EXCEPT ![c].wire = "notFound"]
  <2>1. "notFound" \in Wires \ {"done"}
    BY DEF Wires
  <2> QED
    BY <1>1, <1>3, <2>1, WireKeeps, NothingSaid DEF HandleConnector
<1> QED
  BY <1>2, <1>3 DEF HandleConnector
----------------------------------------------------------------------------
(* The variables beside the callers'.                                      *)

Outcomes == {<<None, "none">>} \cup (Callers \X Results)

RestOK ==
  /\ ConfigOK(cfg) /\ firmware \in setup.firmwares
  /\ \A change \in late : ChangeOK(change)
  /\ outcome \in Outcomes

LEMMA Said ==
  /\ GoesOn => outcome' \in Outcomes
  /\ \A c \in Callers, r \in Results : Finish(c, r) => outcome' \in Outcomes
BY DEF GoesOn, Finish, Outcomes

LEMMA ConcludedSays ==
  ASSUME NEW c \in Callers, NEW enabled, Conclude(c, enabled)
  PROVE  outcome' \in Outcomes
<1>1. "ok" \in Results /\ "NotEnabled" \in Results
  BY DEF Results
<1> QED
  BY <1>1, Said DEF Conclude, Ask

LEMMA CallerSays ==
  ASSUME NEW c \in Callers,
         CallerStep(c) \/ Cancel(c) \/ (\E r : Call(c, r))
  PROVE  outcome' \in Outcomes
<1>1. {"ok", "ValueError", "ConnectionError", "Error", "NotFound",
       "NotEnabled", "UnsupportedFirmware", "Cancelled"} = Results
  BY DEF Results
<1>2. CASE VersionsRead(c)
  BY <1>1, <1>2, Said DEF VersionsRead, Ask
<1>3. CASE ConfigRead(c)
  BY <1>1, <1>3, Said, ConcludedSays DEF ConfigRead, Ask
<1>4. CASE Patched(c)
  BY <1>4, ConcludedSays DEF Patched
<1>5. CASE Answered(c)
  BY <1>1, <1>5, Said DEF Answered
<1>6. CASE Refused(c)
  BY <1>1, <1>6, Said DEF Refused
<1>7. CASE Lose(c)
  BY <1>1, <1>7, Said DEF Lose, Backoff, GiveUp
<1>8. CASE Resend(c)
  BY <1>8, Said DEF Resend
<1>9. CASE Cancel(c)
  BY <1>1, <1>9, Said DEF Cancel
<1>10. ASSUME NEW r, Call(c, r)
       PROVE  outcome' \in Outcomes
  BY <1>1, <1>10, Said DEF Call, Ask
<1> QED
  BY <1>2, <1>3, <1>4, <1>5, <1>6, <1>7, <1>8, <1>9, <1>10 DEF CallerStep

LEMMA CallerKeepsRest ==
  ASSUME IInv, UNCHANGED setup, NEW c \in Callers,
         CallerStep(c) \/ Cancel(c) \/ (\E r : Call(c, r))
  PROVE  RestOK'
<1>1. UNCHANGED chargerVars
  BY DEF CallerStep, Cancel, Call, VersionsRead, ConfigRead, Patched, Answered,
         Refused, Lose, Resend
<1>2. UNCHANGED late \/ (Abandon(call[c]) /\ (Lose(c) \/ Cancel(c)))
  BY DEF CallerStep, Cancel, Call, VersionsRead, ConfigRead, Patched, Answered,
         Refused, Lose, Resend
<1>3. \A change \in late' : ChangeOK(change)
  <2>1. ChangeOK(call[c].change)
    BY BusyOK DEF FrameOK
  <2> QED
    BY <1>2, <2>1 DEF Abandon, IInv, TypeOK
<1> QED
  BY <1>1, <1>3, CallerSays DEF RestOK, IInv, TypeOK, chargerVars

LEMMA ChargerKeepsRest ==
  ASSUME IInv, UNCHANGED setup, ChargerStep
  PROVE  RestOK'
<1>1. outcome' \in Outcomes
  BY Said DEF ChargerStep, HandleVersions, HandleConfig, HandlePatch, HandleToken,
              HandleConnector, Refuse, HandleLate, Update
<1>2. CASE UNCHANGED <<chargerVars, late>>
  BY <1>1, <1>2 DEF RestOK, IInv, TypeOK, chargerVars
<1>3. ASSUME NEW c \in Callers, HandlePatch(c)
      PROVE  RestOK'
  <2>1. ChangeOK(call[c].change)
    BY BusyOK DEF FrameOK
  <2>2. ConfigOK(cfg')
    BY <1>3, <2>1, MergeOK DEF HandlePatch, IInv, TypeOK
  <2> QED
    BY <1>1, <1>3, <2>2 DEF HandlePatch, RestOK, IInv, TypeOK
<1>4. CASE HandleLate
  <2>1. PICK change \in late : cfg' = Merge(cfg, change) /\ late' = late \ {change}
    BY <1>4 DEF HandleLate
  <2>2. ConfigOK(cfg')
    BY <2>1, MergeOK DEF IInv, TypeOK
  <2> QED
    BY <1>1, <1>4, <2>1, <2>2 DEF HandleLate, RestOK, IInv, TypeOK
<1>5. CASE Update
  BY <1>1, <1>5 DEF Update, RestOK, IInv, TypeOK
<1> QED
  BY <1>2, <1>3, <1>4, <1>5 DEF ChargerStep, HandleVersions, HandleConfig, HandleToken,
                                HandleConnector, Refuse

----------------------------------------------------------------------------
(* The invariant.                                                          *)

LEMMA Initially == Init => IInv
<1> SUFFICES ASSUME Init PROVE IInv
  OBVIOUS
<1>1. setup \in Setups /\ SetupOK(setup)
  BY SetupsAssumption DEF Init
<1>2. ConfigOK(cfg)
  BY <1>1 DEF Init, SetupOK
<1>3. DOMAIN call = Callers /\ \A c \in Callers : FrameOK(call[c]) /\ ~Busy(c)
  BY IdleOK DEF Init, Busy, Idle
<1>4. firmware \in setup.firmwares /\ late = {} /\ outcome = <<None, "none">>
  BY DEF Init
<1>5. TypeOK
  BY <1>1, <1>2, <1>3, <1>4 DEF TypeOK
<1>6. CallsOK
  BY <1>3 DEF CallsOK
<1> QED
  BY <1>5, <1>6 DEF IInv

LEMMA StepKeeps ==
  ASSUME IInv, Next
  PROVE  IInv' /\ AllTruthful
<1>1. Observe /\ UNCHANGED setup
  BY DEF Next
<1>2. ASSUME NEW c \in Callers, CallerStep(c) \/ Cancel(c)
      PROVE  RestOK' /\ CallTypeOK' /\ CallsOK' /\ AllTruthful
  <2>1. Effect(c) /\ AllTruthful
    BY <1>1, <1>2, VersionsReadKeeps, ConfigReadKeeps, PatchedKeeps, AnsweredKeeps,
       RefusedKeeps, LoseKeeps, ResendKeeps, CancelKeeps DEF CallerStep
  <2> QED
    BY <1>1, <1>2, <2>1, OneCall, CallerKeepsRest
<1>3. ASSUME NEW use \in setup.calls, Call(use[1], use[2])
      PROVE  RestOK' /\ CallTypeOK' /\ CallsOK' /\ AllTruthful
  <2>1. use[1] \in Callers /\ RequestOK(use[2])
    BY SetupsAssumption DEF IInv, TypeOK, SetupOK
  <2>2. Effect(use[1]) /\ AllTruthful
    BY <1>1, <1>3, <2>1, CallKeeps
  <2> QED
    BY <1>1, <1>3, <2>1, <2>2, OneCall, CallerKeepsRest
<1>4. ASSUME ChargerStep
      PROVE  RestOK' /\ CallTypeOK' /\ CallsOK' /\ AllTruthful
  <2>1. RestOK'
    BY <1>1, <1>4, ChargerKeepsRest
  <2>2. ASSUME NEW c \in Callers,
               \/ HandleVersions(c) \/ HandleConfig(c) \/ HandlePatch(c)
               \/ HandleToken(c) \/ HandleConnector(c) \/ Refuse(c)
        PROVE  CallTypeOK' /\ CallsOK' /\ AllTruthful
    <3>1. Effect(c) /\ AllTruthful
      BY <1>1, <2>2, HandleVersionsKeeps, HandleConfigKeeps, HandlePatchKeeps,
         HandleTokenKeeps, HandleConnectorKeeps, RefuseKeeps
    <3> QED
      BY <1>1, <3>1, OneCall
  <2>3. ASSUME HandleLate \/ Update
        PROVE  CallTypeOK' /\ CallsOK' /\ AllTruthful
    <3>1. call' = call /\ GoesOn
      BY <2>3 DEF HandleLate, Update
    <3> QED
      BY <1>1, <3>1, NoCall, NothingSaid
  <2> QED
    <3>1. CallTypeOK' /\ CallsOK' /\ AllTruthful
      BY <1>4, <2>2, <2>3 DEF ChargerStep
    <3> QED
      BY <2>1, <3>1
<1>5. RestOK' /\ CallTypeOK' /\ CallsOK' /\ AllTruthful
  BY <1>2, <1>3, <1>4 DEF Next
<1>6. TypeOK'
  BY <1>1, <1>5 DEF TypeOK, RestOK, CallTypeOK, Outcomes, IInv
<1> QED
  BY <1>5, <1>6 DEF IInv

LEMMA StutterKeeps ==
  ASSUME IInv, UNCHANGED vars
  PROVE  IInv' /\ AllTruthful
<1>1. IInv'
  BY DEF IInv, TypeOK, CallsOK, Busy, vars, chargerVars, historyVars
<1>2. AllTruthful
  BY DEF AllTruthful, Truthful, Ends, Busy, vars
<1> QED
  BY <1>1, <1>2

LEMMA IInvHolds == Spec => []IInv
<1>1. IInv /\ [Next]_vars => IInv'
  BY StepKeeps, StutterKeeps
<1> QED
  BY <1>1, Initially, PTL DEF Spec

----------------------------------------------------------------------------
(* Every reachable state is well typed: whatever is written, late or by    *)
(* several tasks, the charger's configuration stays one it may have, and   *)
(* no request is attempted more than MaxAttempts times.                    *)
THEOREM TypeCorrect == Spec => []TypeOK
<1>1. IInv => TypeOK
  BY DEF IInv
<1> QED
  BY <1>1, IInvHolds, PTL

(* A settings call, rest_api() or modbus_api() that returns has not lied:  *)
(* everything asked for was so at some moment during the call.             *)
THEOREM WantedHolds == Spec => WantedHeld
<1>1. IInv /\ [Next]_vars
        => [\A c \in Callers :
              LET r == call[c].req IN
              Ends(c, "ok") =>
                /\ Wanted(r) \subseteq held[c]
                /\ r.op = "rest" => <<"restEnabled", TRUE>> \in held[c]]_vars
  BY StepKeeps DEF AllTruthful, Truthful
<1> QED
  BY <1>1, IInvHolds, PTL DEF Spec, WantedHeld

(* rest_api() denies only what was off at some moment during the call.     *)
THEOREM DenialHolds == Spec => DenialIsTrue
<1>1. IInv /\ [Next]_vars
        => [\A c \in Callers :
              Ends(c, "NotEnabled") => <<"restEnabled", FALSE>> \in held[c]]_vars
  BY StepKeeps DEF AllTruthful, Truthful
<1> QED
  BY <1>1, IInvHolds, PTL DEF Spec, DenialIsTrue

(* Every step is one caller's, the charger's answer to it included, or     *)
(* leaves what they all do alone.                                          *)
Acts(c) ==
  \/ CallerStep(c) \/ Cancel(c)
  \/ \E use \in setup.calls : use[1] = c /\ Call(c, use[2])
  \/ HandleVersions(c) \/ HandleConfig(c) \/ HandlePatch(c)
  \/ HandleToken(c) \/ HandleConnector(c) \/ Refuse(c)

LEMMA OneActs ==
  ASSUME IInv, Next
  PROVE  \/ \E c \in Callers : Acts(c) /\ Effect(c)
         \/ call' = call
<1>1. Observe
  BY DEF Next
<1>2. \A use \in setup.calls : use[1] \in Callers /\ RequestOK(use[2])
  BY SetupsAssumption DEF IInv, TypeOK, SetupOK
<1>3. ASSUME NEW c \in Callers, Acts(c)
      PROVE  Effect(c)
  BY <1>1, <1>2, <1>3, VersionsReadKeeps, ConfigReadKeeps, PatchedKeeps, AnsweredKeeps,
     RefusedKeeps, LoseKeeps, ResendKeeps, CancelKeeps, CallKeeps,
     HandleVersionsKeeps, HandleConfigKeeps, HandlePatchKeeps,
     HandleTokenKeeps, HandleConnectorKeeps, RefuseKeeps DEF CallerStep, Acts
<1>4. (\E c \in Callers : Acts(c)) \/ call' = call
  BY <1>2 DEF Next, ChargerStep, HandleLate, Update, Acts
<1> QED
  BY <1>3, <1>4

----------------------------------------------------------------------------
(* The endpoint.                                                           *)

(* While the firmware stays and its version can be read, a call knows it,  *)
(* and so asks where the firmware answers.                                 *)
EndpointOK(f) ==
  /\ f.step = "versions" /\ f.wire = "done" => f.version = firmware
  /\ f.step = "connector" => (f.older <=> firmware < 2)
  /\ f.wire # "notFound"

EndpointsOK ==
  setup.readable => \A c \in Callers : Busy(c) /\ ~moved[c] => EndpointOK(call[c])

NoneMissed == \A c \in Callers : Ends(c, "NotFound") => moved[c] \/ ~setup.readable

LEMMA Unmoved ==
  ASSUME Observe, NEW c \in Callers, Busy(c)', ~moved'[c]
  PROVE  firmware' = firmware /\ (Busy(c) => ~moved[c])
BY DEF Observe, Busy

LEMMA EndpointStays ==
  ASSUME EndpointsOK, UNCHANGED setup, Observe, setup.readable,
         NEW c \in Callers, call'[c] = call[c], Busy(c)', ~moved'[c]
  PROVE  EndpointOK(call[c])'
<1>1. firmware' = firmware /\ EndpointOK(call[c])
  BY Unmoved DEF EndpointsOK, Busy
<1> QED
  BY <1>1 DEF EndpointOK

(* A request that goes out, or comes back, leaves the choice as it was. *)
LEMMA AskedElsewhere ==
  ASSUME IInv, NEW c \in Callers, NEW f, FrameOK(f),
         NEW step \in Steps \ {"connector"}, NEW change, ChangeOK(change),
         Ask(c, f, step, change)
  PROVE  EndpointOK(call[c])'
<1>1. call'[c].step = step /\ call'[c].wire = "sent"
  BY Asked
<1> QED
  BY <1>1 DEF EndpointOK

LEMMA WireFields ==
  ASSUME IInv, NEW c \in Callers, NEW wire, call' = [call EXCEPT ![c].wire = wire]
  PROVE  /\ call'[c].wire = wire
         /\ call'[c].step = call[c].step /\ call'[c].older = call[c].older
<1>1. FrameOK(call[c]) /\ DOMAIN call = Callers
  BY BusyOK DEF IInv, TypeOK
<1>2. {"req", "step", "wire", "attempt", "change", "version", "user", "older"} = DOMAIN call[c]
  BY <1>1 DEF Idle, FrameOK
<1> QED
  BY <1>1, <1>2

LEMMA ConcludeEndpoint ==
  ASSUME IInv, NEW c \in Callers, NEW enabled \in BOOLEAN, Conclude(c, enabled), Busy(c)'
  PROVE  EndpointOK(call[c])'
<1>1. ASSUME NEW r, Finish(c, r)
      PROVE  FALSE
  BY <1>1 DEF Finish, Busy, Idle, IInv, TypeOK
<1>2. Ask(c, call[c], "token", NoChange)
  BY <1>1 DEF Conclude
<1>3. "token" \in Steps \ {"connector"}
  BY StepsAre
<1> QED
  BY <1>2, <1>3, AskedElsewhere, NoChangeOK, BusyOK

LEMMA OwnEndpoint ==
  ASSUME IInv, EndpointsOK, Next, setup.readable,
         NEW c \in Callers, Busy(c)', ~moved'[c], Acts(c)
  PROVE  EndpointOK(call[c])'
<1>1. Observe /\ UNCHANGED setup
  BY DEF Next
<1>2. firmware' = firmware /\ FrameOK(call[c])
  BY <1>1, Unmoved, BusyOK
<1>3. Busy(c) => EndpointOK(call[c])
  BY <1>1, Unmoved DEF EndpointsOK
<1>4. ASSUME NEW r, Finish(c, r)
      PROVE  FALSE
  BY <1>4 DEF Finish, Busy, Idle, IInv, TypeOK
<1>5. \A step \in {"versions", "config", "patch", "token"} : step \in Steps \ {"connector"}
  BY StepsAre
<1>6. ASSUME NEW r, RequestOK(r), Call(c, r)
      PROVE  EndpointOK(call[c])'
  <2> DEFINE f == [Idle EXCEPT !.req = r]
  <2>1. FrameOK(f)
    <3>1. /\ DOMAIN f = DOMAIN Idle /\ f.req = r
          /\ f.step = Idle.step /\ f.wire = Idle.wire /\ f.attempt = Idle.attempt
          /\ f.change = Idle.change /\ f.version = Idle.version /\ f.user = Idle.user
          /\ f.older = Idle.older
      BY DEF Idle
    <3> HIDE DEF f
    <3> QED
      BY <1>6, <3>1, IdleOK DEF FrameOK
  <2>2. \/ r.op = "write" /\ Ask(c, f, "patch", Expand(r.raw, r.smart, r.led))
        \/ Ask(c, f, "config", NoChange)
        \/ Ask(c, f, "versions", NoChange)
    BY <1>4, <1>6 DEF Call
  <2> HIDE DEF f
  <2>3. r.op = "write" => ChangeOK(Expand(r.raw, r.smart, r.led))
    BY <1>6, RequestKinds, ExpandOK
  <2> QED
    BY <1>5, <2>1, <2>2, <2>3, AskedElsewhere, NoChangeOK
<1>7. CASE VersionsRead(c)
  <2>1. CASE Ask(c, call[c], "config", NoChange)
    BY <1>2, <1>5, <2>1, AskedElsewhere, NoChangeOK
  <2> DEFINE f == call[c]
             g == [f EXCEPT !.older = Older(f.version, 2)]
  <2>2. CASE Ask(c, g, "connector", NoChange)
    <3>1. f.version = firmware
      BY <1>3, <1>7 DEF VersionsRead, Done, Busy, EndpointOK
    <3>2. firmware \in Nat
      BY SetupsAssumption DEF IInv, TypeOK, SetupOK
    <3>3. Older(f.version, 2) <=> firmware < 2
      BY <3>1, <3>2, NoneAssumption DEF Older
    <3>4. {"req", "step", "wire", "attempt", "change", "version", "user", "older"} = DOMAIN f
      BY <1>2 DEF Idle, FrameOK
    <3>5. /\ DOMAIN g = DOMAIN Idle /\ g.req = f.req
          /\ g.step = f.step /\ g.wire = f.wire /\ g.attempt = f.attempt
          /\ g.change = f.change /\ g.version = f.version /\ g.user = f.user
          /\ g.older = Older(f.version, 2) /\ Older(f.version, 2) \in BOOLEAN
      BY <1>2, <3>4 DEF FrameOK, Older
    <3> HIDE DEF g
    <3>6. FrameOK(g)
      BY <1>2, <3>5 DEF FrameOK
    <3>7. /\ call'[c].step = "connector" /\ call'[c].wire = "sent"
          /\ call'[c].older = Older(f.version, 2)
      BY <2>2, <3>5, <3>6, NoChangeOK, Asked, StepsAre
    <3> QED
      BY <1>2, <3>3, <3>7 DEF EndpointOK
  <2> QED
    BY <1>4, <1>7, <2>1, <2>2 DEF VersionsRead
<1>8. CASE ConfigRead(c)
  <2> DEFINE f == call[c]
  <2>1. /\ RequestOK(f.req) /\ f.req.op \in Apis
        /\ f.user \in [enabled : BOOLEAN, access : AccessModes]
    BY <1>2, <1>8, BusyOK DEF ConfigRead, Done, Busy, CallOK, FrameOK
  <2>2. f.user.enabled \in BOOLEAN /\ ChangeOK(Needed(f.req, f.user))
    BY <2>1, NeededIs
  <2>3. \/ Conclude(c, f.user.enabled)
        \/ Ask(c, f, "patch", Needed(f.req, f.user))
    BY <1>4, <1>8 DEF ConfigRead
  <2> QED
    BY <1>2, <1>5, <2>2, <2>3, ConcludeEndpoint, AskedElsewhere
<1>9. CASE Patched(c)
  <2>1. PICK enabled \in BOOLEAN : Conclude(c, enabled)
    <3> DEFINE f == call[c]
               enabled == EnabledAfter(f.req, f.change, f.user)
    <3>1. enabled \in BOOLEAN
      BY <1>2, FieldValues DEF EnabledAfter, FrameOK, ChangeOK, EnabledField
    <3> QED
      BY <1>9, <3>1 DEF Patched, EnabledAfter
  <2> QED
    BY <2>1, ConcludeEndpoint
<1>10. CASE Answered(c) \/ Refused(c) \/ Cancel(c)
  BY <1>4, <1>10 DEF Answered, Refused, Cancel
<1>11. CASE Lose(c)
  <2> DEFINE f == call[c]
             g == [f EXCEPT !.wire = "none", !.attempt = @ + 1]
  <2>1. Backoff(c) /\ Busy(c)
    BY <1>4, <1>11 DEF Lose, GiveUp
  <2>2. call'[c] = g
    BY <2>1 DEF Backoff, IInv, TypeOK
  <2>3. {"req", "step", "wire", "attempt", "change", "version", "user", "older"} = DOMAIN f
    BY <1>2 DEF Idle, FrameOK
  <2>4. g.wire = "none" /\ g.step = f.step /\ g.older = f.older
    BY <2>3
  <2> HIDE DEF g
  <2> QED
    BY <1>2, <1>3, <2>1, <2>2, <2>4 DEF EndpointOK
<1>12. ASSUME NEW wire \in {"sent", "refused"}, Busy(c),
              call' = [call EXCEPT ![c].wire = wire]
       PROVE  EndpointOK(call[c])'
  BY <1>2, <1>3, <1>12, WireFields DEF EndpointOK
<1>13. CASE Resend(c) \/ Refuse(c)
  BY <1>12, <1>13 DEF Resend, Refuse
<1>14. CASE HandleVersions(c)
  <2> DEFINE f == call[c]
             g == [f EXCEPT !.version = firmware]
             k == [g EXCEPT !.wire = "done"]
  <2>1. call'[c] = k
    BY <1>14 DEF HandleVersions, Answer, IInv, TypeOK
  <2>2. {"req", "step", "wire", "attempt", "change", "version", "user", "older"} = DOMAIN f
    BY <1>2 DEF Idle, FrameOK
  <2>3. k.wire = "done" /\ k.step = f.step /\ k.version = firmware
    BY <2>2
  <2> HIDE DEF k
  <2> QED
    BY <1>2, <1>14, <2>1, <2>3 DEF EndpointOK, HandleVersions
<1>15. ASSUME HandleConfig(c) \/ HandlePatch(c) \/ HandleToken(c)
       PROVE  EndpointOK(call[c])'
  <2>1. call'[c].step = call[c].step /\ call'[c].wire = "done"
    <3>1. {"req", "step", "wire", "attempt", "change", "version", "user", "older"} = DOMAIN call[c]
      BY <1>2 DEF Idle, FrameOK
    <3>2. CASE HandleConfig(c)
      <4> DEFINE r == call[c].req
                 user == [enabled |-> cfg[EnabledField(r.op)], access |-> cfg[AccessField(r.op)]]
                 k == [[call[c] EXCEPT !.user = user] EXCEPT !.wire = "done"]
      <4>1. call'[c] = k
        BY <3>2 DEF HandleConfig, Answer, IInv, TypeOK
      <4>2. k.wire = "done" /\ k.step = call[c].step
        BY <3>1
      <4> HIDE DEF k
      <4> QED
        BY <4>1, <4>2
    <3>3. CASE HandlePatch(c) \/ HandleToken(c)
      <4>1. call'[c] = [call[c] EXCEPT !.wire = "done"]
        BY <3>3 DEF HandlePatch, HandleToken, Answer, IInv, TypeOK
      <4> QED
        BY <3>1, <4>1
    <3> QED
      BY <1>15, <3>2, <3>3
  <2>2. call[c].step \in {"config", "patch", "token"}
    BY <1>15 DEF HandleConfig, HandlePatch, HandleToken
  <2> QED
    BY <2>1, <2>2 DEF EndpointOK
<1>16. CASE HandleConnector(c)
  <2>1. Busy(c) /\ call[c].step = "connector" /\ (call[c].older <=> firmware < 2)
    BY <1>3, <1>16 DEF HandleConnector, Busy, EndpointOK
  <2>2. Answer(c, call[c])
    BY <1>16, <2>1 DEF HandleConnector
  <2>3. /\ call'[c].step = "connector" /\ call'[c].wire = "done"
        /\ call'[c].older = call[c].older
    <3>1. {"req", "step", "wire", "attempt", "change", "version", "user", "older"} = DOMAIN call[c]
      BY <1>2 DEF Idle, FrameOK
    <3> QED
      BY <2>1, <2>2, <3>1 DEF Answer, IInv, TypeOK
  <2> QED
    BY <1>2, <2>1, <2>3 DEF EndpointOK
<1>17. \A use \in setup.calls : RequestOK(use[2])
  BY SetupsAssumption DEF IInv, TypeOK, SetupOK
<1> QED
  BY <1>6, <1>7, <1>8, <1>9, <1>10, <1>11, <1>13, <1>14, <1>15, <1>16, <1>17 DEF CallerStep, Acts

LEMMA EndpointStep ==
  ASSUME IInv, EndpointsOK, Next
  PROVE  EndpointsOK' /\ NoneMissed
<1>1. Observe /\ UNCHANGED setup
  BY DEF Next
<1>2. DOMAIN call = Callers
  BY DEF IInv, TypeOK
<1>3. ASSUME setup.readable, NEW c \in Callers, Busy(c)', ~moved'[c]
      PROVE  EndpointOK(call[c])'
  <2>1. CASE call'[c] = call[c]
    BY <1>1, <1>3, <2>1, EndpointStays DEF EndpointOK
  <2>2. CASE Acts(c)
    BY <1>3, <2>2, OwnEndpoint
  <2>3. ASSUME NEW d \in Callers, Effect(d), d # c
        PROVE  call'[c] = call[c]
    BY <1>2, <2>3 DEF Effect
  <2> QED
    BY <2>1, <2>2, <2>3, OneActs
<1>4. ASSUME NEW c \in Callers, Ends(c, "NotFound"), ~moved[c], setup.readable
      PROVE  FALSE
  <2>1. call[c].wire # "notFound"
    BY <1>4 DEF EndpointsOK, Ends, EndpointOK
  <2>2. ASSUME NEW d \in Callers, NEW r, Finish(d, r)
        PROVE  d = c /\ r = "NotFound"
    BY <1>4, <2>2 DEF Finish, Ends
  <2>3. ~GoesOn
    BY <1>4 DEF GoesOn, Ends
  <2>4. ASSUME NEW d \in Callers, NEW enabled, Conclude(d, enabled)
        PROVE  FALSE
    BY <2>2, <2>3, <2>4 DEF Conclude, Ask
  <2>5. ~ChargerStep
    BY <2>3 DEF ChargerStep, HandleVersions, HandleConfig, HandlePatch, HandleToken,
                HandleConnector, Refuse, HandleLate, Update
  <2>6. ASSUME NEW d \in Callers, NEW r, Call(d, r)
        PROVE  FALSE
    BY <2>2, <2>3, <2>6 DEF Call, Ask
  <2>7. ASSUME NEW d \in Callers, CallerStep(d) \/ Cancel(d)
        PROVE  FALSE
    <3>1. CASE VersionsRead(d)
      BY <2>2, <2>3, <3>1 DEF VersionsRead, Ask
    <3>2. CASE ConfigRead(d) \/ Patched(d)
      BY <2>2, <2>3, <2>4, <3>2 DEF ConfigRead, Patched, Ask
    <3>3. CASE Answered(d) \/ Cancel(d)
      BY <2>2, <3>3 DEF Answered, Cancel
    <3>4. CASE Refused(d)
      BY <2>1, <2>2, <3>4 DEF Refused
    <3>5. CASE Lose(d) \/ Resend(d)
      BY <2>2, <2>3, <3>5 DEF Lose, Resend, Backoff, GiveUp
    <3> QED
      BY <2>7, <3>1, <3>2, <3>3, <3>4, <3>5 DEF CallerStep
  <2>8. \A use \in setup.calls : use[1] \in Callers
    BY SetupsAssumption DEF IInv, TypeOK, SetupOK
  <2> QED
    BY <2>5, <2>6, <2>7, <2>8 DEF Next
<1> QED
  BY <1>1, <1>3, <1>4 DEF EndpointsOK, NoneMissed

(* connector() and socket_unlock() ask where the firmware answers, unless  *)
(* it changed during the call or its version could not be read.            *)
THEOREM EndpointHolds == Spec => EndpointFound
<1>1. Init => EndpointsOK
  <2> SUFFICES ASSUME Init PROVE EndpointsOK
    OBVIOUS
  <2>1. \A c \in Callers : ~Busy(c)
    BY DEF Init, Busy, Idle
  <2> QED
    BY <2>1 DEF EndpointsOK
<1>2. IInv /\ EndpointsOK /\ UNCHANGED vars => EndpointsOK' /\ NoneMissed
  <2> SUFFICES ASSUME IInv, EndpointsOK, UNCHANGED vars PROVE EndpointsOK' /\ NoneMissed
    OBVIOUS
  <2>1. EndpointsOK'
    BY DEF EndpointsOK, EndpointOK, Busy, vars, chargerVars, historyVars
  <2>2. NoneMissed
    BY DEF NoneMissed, Ends, Busy, vars
  <2> QED
    BY <2>1, <2>2
<1>3. IInv /\ EndpointsOK /\ [Next]_vars => EndpointsOK' /\ NoneMissed
  BY <1>2, EndpointStep
<1>4. IInv /\ EndpointsOK /\ [Next]_vars => EndpointsOK'
  BY <1>3
<1>5. IInv /\ EndpointsOK /\ [Next]_vars
        => [\A c \in Callers : Ends(c, "NotFound") => moved[c] \/ ~setup.readable]_vars
  BY <1>3 DEF NoneMissed
<1>6. Spec => []EndpointsOK
  BY <1>1, <1>4, IInvHolds, PTL DEF Spec
<1> QED
  BY <1>5, <1>6, IInvHolds, PTL DEF Spec, EndpointFound
----------------------------------------------------------------------------
(* What is asked for.                                                      *)

(* A write that is sent sets the mode and the LED by their names: field by *)
(* field, a caller can make up a mode that nobody named.                   *)
ByName(r) ==
  r.op = "write" /\ ~Conflicting(r.raw, r.smart, r.led)
    => DOMAIN r.raw \cap (SmartFields \cup LedFields) = {}

(* A change that brings about, on every configuration, only what is asked  *)
(* for: a name's fields come all together or not at all.                   *)
BringsAsked(change) ==
  /\ \A f \in DOMAIN change \ (SmartFields \cup LedFields) : <<f, change[f]>> \in Askable
  /\ \/ DOMAIN change \cap SmartFields = {}
     \/ \E mode \in SmartModes :
          /\ <<"smart", mode>> \in Askable
          /\ \A f \in DOMAIN ResolveSmart(mode) :
               f \in DOMAIN change /\ change[f] = ResolveSmart(mode)[f]
  /\ \/ DOMAIN change \cap LedFields = {}
     \/ \E level \in Levels :
          /\ <<"led", level>> \in Askable
          /\ \A f \in DOMAIN ResolveLed(level) :
               f \in DOMAIN change /\ change[f] = ResolveLed(level)[f]

CallsAsked == \A c \in Callers : Busy(c) => \E use \in setup.calls : use[2] = call[c].req
LateAsked == \A change \in late : BringsAsked(change)
AskedInv == CallsAsked /\ LateAsked /\ NothingUnasked

LEMMA AskableStays == setup' = setup => Askable' = Askable
BY DEF Askable

LEMMA BringsStays ==
  ASSUME UNCHANGED setup, NEW change, BringsAsked(change)
  PROVE  BringsAsked(change)'
BY AskableStays DEF BringsAsked

LEMMA MergeBrings ==
  ASSUME ConfigOK(cfg), NothingUnasked, UNCHANGED setup,
         NEW change, BringsAsked(change), cfg' = Merge(cfg, change)
  PROVE  NothingUnasked'
<1> DEFINE plain == Fields \ (SmartFields \cup LedFields)
<1>1. /\ DOMAIN cfg = Fields /\ DOMAIN cfg' = Fields
      /\ \A f \in Fields : cfg'[f] = IF f \in DOMAIN change THEN change[f] ELSE cfg[f]
  BY DEF ConfigOK, Merge
<1>2. /\ "smart" \notin Fields /\ "led" \notin Fields
      /\ SmartFields \subseteq Fields /\ LedFields \subseteq Fields
  BY DEF Fields, Values, SmartFields, LedFields
<1>3. Views \ (SmartFields \cup LedFields) = plain \cup {"smart", "led"}
  BY <1>2 DEF Views
<1>4. \A name \in plain \cup {"smart", "led"} : <<name, View(cfg, name)>> \in Askable
  BY <1>3 DEF NothingUnasked
<1>5. ASSUME NEW name \in plain
      PROVE  <<name, View(cfg', name)>> \in Askable
  <2>1. View(cfg', name) = cfg'[name] /\ View(cfg, name) = cfg[name]
    BY <1>2 DEF View
  <2>2. CASE name \in DOMAIN change
    <3>1. cfg'[name] = change[name]
      BY <1>1, <2>2
    <3>2. <<name, change[name]>> \in Askable
      BY <2>2 DEF BringsAsked
    <3> QED
      BY <2>1, <3>1, <3>2
  <2>3. CASE name \notin DOMAIN change
    <3>1. cfg'[name] = cfg[name]
      BY <1>1, <2>3
    <3> QED
      BY <1>4, <2>1, <3>1
  <2> QED
    BY <2>2, <2>3
<1>6. <<"smart", SmartOf(cfg')>> \in Askable
  <2>1. CASE DOMAIN change \cap SmartFields = {}
    <3>1. \A f \in SmartFields : cfg'[f] = cfg[f]
      BY <1>1, <1>2, <2>1
    <3>2. cfg'.scheduled = cfg.scheduled /\ cfg'.solar = cfg.solar /\ cfg'.solarMode = cfg.solarMode
      BY <3>1 DEF SmartFields
    <3>3. SmartOf(cfg') = SmartOf(cfg)
      BY <3>2 DEF SmartOf
    <3> QED
      BY <1>4, <3>3 DEF View
  <2>2. ASSUME NEW mode \in SmartModes, <<"smart", mode>> \in Askable,
               \A f \in DOMAIN ResolveSmart(mode) :
                 f \in DOMAIN change /\ change[f] = ResolveSmart(mode)[f]
        PROVE  <<"smart", SmartOf(cfg')>> \in Askable
    <3>1. DOMAIN ResolveSmart(mode) \subseteq Fields
      BY <1>2, ResolvedOK
    <3>2. \A f \in DOMAIN ResolveSmart(mode) : cfg'[f] = ResolveSmart(mode)[f]
      BY <1>1, <2>2, <3>1
    <3>3. SmartOf(cfg') = mode
      BY <3>2, SmartRoundTrip
    <3> QED
      BY <2>2, <3>3
  <2> QED
    BY <2>1, <2>2 DEF BringsAsked
<1>7. <<"led", LedOf(cfg')>> \in Askable
  <2>1. CASE DOMAIN change \cap LedFields = {}
    <3>1. \A f \in LedFields : cfg'[f] = cfg[f]
      BY <1>1, <1>2, <2>1
    <3>2. cfg'.ledMode = cfg.ledMode /\ cfg'.ledManual = cfg.ledManual
      BY <3>1 DEF LedFields
    <3>3. LedOf(cfg') = LedOf(cfg)
      BY <3>2 DEF LedOf
    <3> QED
      BY <1>4, <3>3 DEF View
  <2>2. ASSUME NEW level \in Levels, <<"led", level>> \in Askable,
               \A f \in DOMAIN ResolveLed(level) :
                 f \in DOMAIN change /\ change[f] = ResolveLed(level)[f]
        PROVE  <<"led", LedOf(cfg')>> \in Askable
    <3>1. DOMAIN ResolveLed(level) \subseteq Fields
      BY <1>2, ResolvedOK
    <3>2. \A f \in DOMAIN ResolveLed(level) : cfg'[f] = ResolveLed(level)[f]
      BY <1>1, <2>2, <3>1
    <3>3. LedOf(cfg') = level
      BY <3>2, LedRoundTrip
    <3> QED
      BY <2>2, <3>3
  <2> QED
    BY <2>1, <2>2 DEF BringsAsked
<1>8. \A name \in plain \cup {"smart", "led"} : <<name, View(cfg', name)>> \in Askable
  BY <1>5, <1>6, <1>7 DEF View
<1>9. Askable' = Askable
  BY AskableStays
<1> QED
  BY <1>3, <1>8, <1>9 DEF NothingUnasked

(* What a PATCH says is asked for: an expanded write has each name's       *)
(* fields, and rest_api() and modbus_api() write what they were told.      *)
LEMMA PatchBrings ==
  ASSUME NEW f, NEW use \in setup.calls, use[2] = f.req, ByName(f.req),
         RequestOK(f.req), f.user \in [enabled : BOOLEAN, access : AccessModes],
         PatchSays(f)
  PROVE  BringsAsked(f.change)
<1> DEFINE r == f.req
           change == f.change
<1>1. Wanted(r) \subseteq Askable
  BY DEF Askable
<1>2. CASE r.op = "write"
  <2> DEFINE s == IF r.smart = None THEN NoChange ELSE ResolveSmart(r.smart)
             l == IF r.led = None THEN NoChange ELSE ResolveLed(r.led)
  <2>1. /\ ~Conflicting(r.raw, r.smart, r.led)
        /\ change = Expand(r.raw, r.smart, r.led)
    BY <1>2 DEF PatchSays, Apis
  <2>2. r.smart \in SmartModes \cup {None} /\ r.led \in Levels \cup {None}
    BY <1>2, RequestKinds
  <2>3. DOMAIN s \subseteq SmartFields /\ DOMAIN l \subseteq LedFields
    BY <2>2, ResolvedOK DEF NoChange
  <2>4. DOMAIN r.raw \cap (SmartFields \cup LedFields) = {}
    BY <1>2, <2>1 DEF ByName
  <2>5. SmartFields \cap LedFields = {}
    BY DEF SmartFields, LedFields
  <2>6. /\ DOMAIN change = (DOMAIN r.raw \cup DOMAIN s) \cup DOMAIN l
        /\ \A g \in DOMAIN change :
             change[g] = IF g \in DOMAIN l THEN l[g]
                         ELSE IF g \in DOMAIN s THEN s[g] ELSE r.raw[g]
    BY <2>1 DEF Expand, Over
  <2> HIDE DEF s, l
  <2>7. ASSUME NEW g \in DOMAIN change \ (SmartFields \cup LedFields)
        PROVE  <<g, change[g]>> \in Askable
    <3>1. g \in DOMAIN r.raw /\ change[g] = r.raw[g]
      BY <2>3, <2>6
    <3>2. <<g, r.raw[g]>> \in Wanted(r)
      BY <3>1 DEF Wanted
    <3> QED
      BY <1>1, <3>1, <3>2
  <2>8. \/ DOMAIN change \cap SmartFields = {}
        \/ \E mode \in SmartModes :
             /\ <<"smart", mode>> \in Askable
             /\ \A g \in DOMAIN ResolveSmart(mode) :
                  g \in DOMAIN change /\ change[g] = ResolveSmart(mode)[g]
    <3>1. CASE r.smart = None
      <4>1. DOMAIN s = {}
        BY <3>1 DEF s, NoChange
      <4> QED
        BY <2>3, <2>4, <2>5, <2>6, <4>1
    <3>2. CASE r.smart # None
      <4>1. r.smart \in SmartModes /\ s = ResolveSmart(r.smart)
        BY <2>2, <3>2 DEF s
      <4>2. <<"smart", r.smart>> \in Askable
        BY <1>1, <3>2 DEF Wanted
      <4>3. \A g \in DOMAIN s : g \in DOMAIN change /\ change[g] = s[g]
        BY <2>3, <2>5, <2>6
      <4> QED
        BY <4>1, <4>2, <4>3
    <3> QED
      BY <3>1, <3>2
  <2>9. \/ DOMAIN change \cap LedFields = {}
        \/ \E level \in Levels :
             /\ <<"led", level>> \in Askable
             /\ \A g \in DOMAIN ResolveLed(level) :
                  g \in DOMAIN change /\ change[g] = ResolveLed(level)[g]
    <3>1. CASE r.led = None
      <4>1. DOMAIN l = {}
        BY <3>1 DEF l, NoChange
      <4> QED
        BY <2>3, <2>4, <2>5, <2>6, <4>1
    <3>2. CASE r.led # None
      <4>1. r.led \in Levels /\ l = ResolveLed(r.led)
        BY <2>2, <3>2 DEF l
      <4>2. <<"led", r.led>> \in Askable
        BY <1>1, <3>2 DEF Wanted
      <4>3. \A g \in DOMAIN l : g \in DOMAIN change /\ change[g] = l[g]
        BY <2>6
      <4> QED
        BY <4>1, <4>2, <4>3
    <3> QED
      BY <3>1, <3>2
  <2> QED
    BY <2>7, <2>8, <2>9 DEF BringsAsked
<1>3. CASE r.op \in Apis
  <2> DEFINE e == EnabledField(r.op)
             a == AccessField(r.op)
  <2>1. change = Needed(r, f.user)
    BY <1>3 DEF PatchSays, Apis
  <2>2. /\ DOMAIN change \subseteq {e, a}
        /\ e \in DOMAIN change => r.enable # None /\ change[e] = r.enable
        /\ a \in DOMAIN change => r.access # None /\ change[a] = r.access
    BY <1>3, <2>1, NeededIs
  <2>3. r.enable # None => <<e, r.enable>> \in Askable
    BY <1>1 DEF Wanted
  <2>4. r.access # None => <<a, r.access>> \in Askable
    BY <1>1 DEF Wanted
  <2>5. {e, a} \cap (SmartFields \cup LedFields) = {}
    BY <1>3 DEF EnabledField, AccessField, SmartFields, LedFields, Apis
  <2>6. \A g \in DOMAIN change : <<g, change[g]>> \in Askable
    BY <2>2, <2>3, <2>4
  <2>7. DOMAIN change \cap SmartFields = {} /\ DOMAIN change \cap LedFields = {}
    BY <2>2, <2>5
  <2> QED
    BY <2>6, <2>7 DEF BringsAsked
<1> QED
  BY <1>2, <1>3 DEF PatchSays

LEMMA SentBrings ==
  ASSUME IInv, CallsAsked, \A use \in setup.calls : ByName(use[2]),
         NEW c \in Callers, call[c].step = "patch"
  PROVE  BringsAsked(call[c].change)
<1>1. Busy(c)
  BY DEF Busy
<1>2. PICK use \in setup.calls : use[2] = call[c].req
  BY <1>1 DEF CallsAsked
<1>3. FrameOK(call[c]) /\ CallOK(call[c], held[c])
  BY <1>1, BusyOK
<1>4. RequestOK(call[c].req) /\ PatchSays(call[c])
  BY <1>3 DEF CallOK
<1>5. call[c].user \in [enabled : BOOLEAN, access : AccessModes]
  BY <1>3 DEF FrameOK
<1>6. ByName(call[c].req)
  BY <1>2
<1> QED
  BY <1>2, <1>4, <1>5, <1>6, PatchBrings


(* The request of a call in progress is the one it was called with. *)
LEMMA RequestKept ==
  ASSUME IInv, Observe, NEW c \in Callers, Acts(c), Busy(c)'
  PROVE  \/ Busy(c) /\ call'[c].req = call[c].req
         \/ \E use \in setup.calls : use[2] = call'[c].req
<1> DEFINE f == call[c]
<1>1. FrameOK(f) /\ DOMAIN call = Callers
  BY BusyOK DEF IInv, TypeOK
<1>2. {"req", "step", "wire", "attempt", "change", "version", "user", "older"} = DOMAIN f
  BY <1>1 DEF Idle, FrameOK
<1>3. ASSUME NEW r, Finish(c, r)
      PROVE  FALSE
  BY <1>1, <1>3 DEF Finish, Busy, Idle
<1>4. ASSUME NEW g, g.req = f.req, DOMAIN g = DOMAIN f, NEW step, NEW change,
             Ask(c, g, step, change)
      PROVE  call'[c].req = f.req
  <2> DEFINE k == [g EXCEPT !.step = step, !.wire = "sent", !.attempt = 1,
                            !.change = change]
  <2>1. call'[c] = k
    BY <1>1, <1>4 DEF Ask
  <2>2. k.req = g.req
    BY <1>2, <1>4
  <2> QED
    BY <1>4, <2>1, <2>2
<1>5. ASSUME NEW enabled, Conclude(c, enabled)
      PROVE  call'[c].req = f.req
  BY <1>3, <1>4, <1>5 DEF Conclude
<1>6. ASSUME NEW g, g.req = f.req, DOMAIN g = DOMAIN f, Answer(c, g)
      PROVE  call'[c].req = f.req
  <2> DEFINE k == [g EXCEPT !.wire = "done"]
  <2>1. call'[c] = k
    BY <1>1, <1>6 DEF Answer
  <2>2. k.req = g.req
    BY <1>2, <1>6
  <2> QED
    BY <1>6, <2>1, <2>2
<1>7. ASSUME NEW wire, call' = [call EXCEPT ![c].wire = wire]
      PROVE  call'[c].req = f.req
  BY <1>1, <1>2, <1>7
<1>8. ASSUME NEW use \in setup.calls, Call(c, use[2])
      PROVE  use[2] = call'[c].req
  <2> DEFINE g == [Idle EXCEPT !.req = use[2]]
  <2>1. g.req = use[2] /\ DOMAIN g = DOMAIN f
    BY <1>1 DEF Idle, FrameOK
  <2>2. PICK step, change : Ask(c, g, step, change)
    BY <1>3, <1>8 DEF Call
  <2> HIDE DEF g
  <2> DEFINE k == [g EXCEPT !.step = step, !.wire = "sent", !.attempt = 1,
                            !.change = change]
  <2>3. call'[c] = k
    BY <1>1, <2>2 DEF Ask
  <2>4. k.req = g.req
    BY <1>2, <2>1
  <2> HIDE DEF k
  <2> QED
    BY <2>1, <2>3, <2>4
<1>9. ASSUME CallerStep(c) \/ HandleVersions(c) \/ HandleConfig(c) \/ HandlePatch(c)
             \/ HandleToken(c) \/ HandleConnector(c) \/ Refuse(c)
      PROVE  Busy(c) /\ call'[c].req = call[c].req
  <2>1. Busy(c)
    <3>1. ~Refused(c)
      BY <1>3 DEF Refused
    <3>2. CASE CallerStep(c)
      BY <3>1, <3>2 DEF CallerStep, VersionsRead, ConfigRead, Patched, Answered,
         Lose, Resend, Done, Busy
    <3>3. CASE \/ HandleVersions(c) \/ HandleConfig(c) \/ HandlePatch(c)
               \/ HandleToken(c) \/ HandleConnector(c) \/ Refuse(c)
      BY <3>3 DEF HandleVersions, HandleConfig, HandlePatch, HandleToken, HandleConnector,
         Refuse, Busy
    <3> QED
      BY <1>9, <3>2, <3>3
  <2>2. CASE VersionsRead(c)
    <3> DEFINE g == [f EXCEPT !.older = Older(f.version, 2)]
    <3>1. g.req = f.req /\ DOMAIN g = DOMAIN f
      BY <1>2
    <3>2. \/ Ask(c, f, "config", NoChange)
          \/ Ask(c, g, "connector", NoChange)
      BY <1>3, <2>2 DEF VersionsRead
    <3> HIDE DEF g
    <3> QED
      BY <1>4, <2>1, <3>1, <3>2
  <2>3. CASE ConfigRead(c)
    BY <1>3, <1>4, <1>5, <2>1, <2>3 DEF ConfigRead
  <2>4. CASE Patched(c)
    BY <1>5, <2>1, <2>4 DEF Patched
  <2>5. CASE Answered(c) \/ Refused(c)
    BY <1>3, <2>5 DEF Answered, Refused
  <2>6. CASE Lose(c)
    <3> DEFINE g == [f EXCEPT !.wire = "none", !.attempt = @ + 1]
    <3>1. call'[c] = g
      BY <1>1, <1>3, <2>6 DEF Lose, GiveUp, Backoff
    <3>2. g.req = f.req
      BY <1>2
    <3> QED
      BY <2>1, <3>1, <3>2
  <2>7. CASE Resend(c) \/ Refuse(c)
    BY <1>7, <2>1, <2>7 DEF Resend, Refuse
  <2>8. CASE HandleVersions(c)
    <3> DEFINE g == [f EXCEPT !.version = IF setup.readable THEN firmware ELSE None]
    <3>1. g.req = f.req /\ DOMAIN g = DOMAIN f
      BY <1>2
    <3>2. Answer(c, g)
      BY <2>8 DEF HandleVersions
    <3> HIDE DEF g
    <3> QED
      BY <1>6, <2>1, <3>1, <3>2
  <2>9. CASE HandleConfig(c)
    <3> DEFINE g == [f EXCEPT !.user = [enabled |-> cfg[EnabledField(f.req.op)],
                                        access |-> cfg[AccessField(f.req.op)]]]
    <3>1. g.req = f.req /\ DOMAIN g = DOMAIN f
      BY <1>2
    <3>2. Answer(c, g)
      BY <2>9 DEF HandleConfig
    <3> HIDE DEF g
    <3> QED
      BY <1>6, <2>1, <3>1, <3>2
  <2>10. CASE HandlePatch(c) \/ HandleToken(c)
    BY <1>6, <2>1, <2>10 DEF HandlePatch, HandleToken
  <2>11. CASE HandleConnector(c)
    BY <1>6, <1>7, <2>1, <2>11 DEF HandleConnector
  <2> QED
    BY <1>9, <2>2, <2>3, <2>4, <2>5, <2>6, <2>7, <2>8, <2>9, <2>10, <2>11 DEF CallerStep
<1>10. ~Cancel(c)
  BY <1>3 DEF Cancel
<1> QED
  BY <1>8, <1>9, <1>10 DEF Acts

LEMMA CallsAskedStays ==
  ASSUME IInv, CallsAsked, Next
  PROVE  CallsAsked'
<1>1. Observe /\ UNCHANGED setup
  BY DEF Next
<1>2. ASSUME NEW c \in Callers, Busy(c)', call'[c] = call[c]
      PROVE  \E use \in setup.calls : use[2] = call'[c].req
  BY <1>2 DEF CallsAsked, Busy
<1>3. ASSUME NEW c \in Callers, Busy(c)', Acts(c)
      PROVE  \E use \in setup.calls : use[2] = call'[c].req
  <2>1. CASE Busy(c) /\ call'[c].req = call[c].req
    <3>1. PICK use \in setup.calls : use[2] = call[c].req
      BY <2>1 DEF CallsAsked
    <3> QED
      BY <2>1, <3>1
  <2> QED
    BY <1>1, <1>3, <2>1, RequestKept
<1>4. ASSUME NEW c \in Callers, NEW d \in Callers, Effect(d), c # d
      PROVE  call'[c] = call[c]
  BY <1>4 DEF Effect, IInv, TypeOK
<1> QED
  BY <1>1, <1>2, <1>3, <1>4, OneActs DEF CallsAsked

LEMMA AskedStep ==
  ASSUME IInv, AskedInv, \A use \in setup.calls : ByName(use[2]), Next
  PROVE  AskedInv'
<1>1. UNCHANGED setup /\ ConfigOK(cfg)
  BY DEF Next, IInv, TypeOK
<1>2. CallsAsked'
  BY CallsAskedStays DEF AskedInv
<1>3. \A c \in Callers : call[c].step = "patch" => BringsAsked(call[c].change)
  BY SentBrings DEF AskedInv
<1>4. late' \subseteq late \/ \E c \in Callers : Abandon(call[c])
  <2>1. \A use \in setup.calls : use[1] \in Callers
    BY SetupsAssumption DEF IInv, TypeOK, SetupOK
  <2>2. ASSUME NEW c \in Callers, CallerStep(c) \/ Cancel(c)
        PROVE  late' = late \/ Abandon(call[c])
    BY <2>2 DEF CallerStep, Cancel, VersionsRead, ConfigRead, Patched, Answered, Refused,
       Lose, Resend
  <2>3. ASSUME NEW c, NEW r, Call(c, r)
        PROVE  late' = late
    BY <2>3 DEF Call
  <2>4. ASSUME ChargerStep
        PROVE  late' \subseteq late
    BY <2>4 DEF ChargerStep, HandleVersions, HandleConfig, HandlePatch, HandleToken,
       HandleConnector, Refuse, HandleLate, Update
  <2> QED
    BY <2>1, <2>2, <2>3, <2>4 DEF Next
<1>5. LateAsked'
  <2>1. ASSUME NEW change \in late'
        PROVE  BringsAsked(change)
    <3>1. CASE change \in late
      BY <3>1 DEF AskedInv, LateAsked
    <3>2. CASE change \notin late
      <4>1. PICK c \in Callers : Abandon(call[c])
        BY <1>4, <2>1, <3>2
      <4>2. call[c].step = "patch" /\ change = call[c].change
        BY <2>1, <3>2, <4>1 DEF Abandon
      <4> QED
        BY <1>3, <4>2
    <3> QED
      BY <3>1, <3>2
  <2>2. \A change \in late' : BringsAsked(change)'
    BY <1>1, <2>1, BringsStays
  <2> QED
    BY <2>2 DEF LateAsked
<1>6. \/ cfg' = cfg
      \/ \E change : BringsAsked(change) /\ cfg' = Merge(cfg, change)
  <2>1. ASSUME NEW c \in Callers, HandlePatch(c)
        PROVE  \E change : BringsAsked(change) /\ cfg' = Merge(cfg, change)
    BY <1>3, <2>1 DEF HandlePatch
  <2>2. ASSUME HandleLate
        PROVE  \E change : BringsAsked(change) /\ cfg' = Merge(cfg, change)
    BY <2>2 DEF HandleLate, AskedInv, LateAsked
  <2>3. ASSUME NEW c, \/ CallerStep(c) \/ Cancel(c) \/ \E r : Call(c, r)
                      \/ HandleVersions(c) \/ HandleConfig(c) \/ HandleToken(c)
                      \/ HandleConnector(c) \/ Refuse(c) \/ Update
        PROVE  cfg' = cfg
    BY <2>3 DEF CallerStep, Cancel, Call, VersionsRead, ConfigRead, Patched, Answered,
       Refused, Lose, Resend, HandleVersions, HandleConfig, HandleToken, HandleConnector,
       Refuse, Update, chargerVars
  <2> QED
    BY <2>1, <2>2, <2>3 DEF Next, ChargerStep
<1>7. NothingUnasked'
  <2>1. CASE cfg' = cfg
    BY <1>1, <2>1, AskableStays DEF AskedInv, NothingUnasked
  <2>2. ASSUME NEW change, BringsAsked(change), cfg' = Merge(cfg, change)
        PROVE  NothingUnasked'
    BY <1>1, <2>2, MergeBrings DEF AskedInv
  <2> QED
    BY <1>6, <2>1, <2>2
<1> QED
  BY <1>2, <1>5, <1>7 DEF AskedInv

(* If modes and LED levels are set by their names, the charger never shows *)
(* a mode, a level or a field's value that nobody asked for, whatever      *)
(* several tasks write at once and however late a lost PATCH arrives.      *)
THEOREM NobodySurprised ==
  ASSUME \A s \in Setups : \A use \in s.calls : ByName(use[2])
  PROVE  Spec => []NothingUnasked
<1>1. Init => AskedInv
  <2> SUFFICES ASSUME Init PROVE AskedInv
    OBVIOUS
  <2>1. \A c \in Callers : ~Busy(c)
    BY DEF Init, Busy, Idle
  <2>2. ASSUME NEW name \in Views
        PROVE  <<name, View(cfg, name)>> \in Askable
    <3>1. cfg \in setup.configs
      BY DEF Init
    <3> DEFINE views == {<<n, View(start, n)>> : n \in Views, start \in setup.configs}
    <3>2. <<name, View(cfg, name)>> \in views
      BY <3>1
    <3>3. views \subseteq Askable
      BY DEF Askable
    <3> HIDE DEF views
    <3> QED
      BY <3>2, <3>3
  <2>3. LateAsked
    BY DEF Init, LateAsked
  <2> QED
    BY <2>1, <2>2, <2>3 DEF AskedInv, CallsAsked, NothingUnasked
<1>2. IInv /\ AskedInv /\ Next => AskedInv'
  <2> SUFFICES ASSUME IInv, AskedInv, Next PROVE AskedInv'
    OBVIOUS
  <2>1. \A use \in setup.calls : ByName(use[2])
    BY DEF IInv, TypeOK
  <2> QED
    BY <2>1, AskedStep
<1>3. IInv /\ AskedInv /\ UNCHANGED vars => AskedInv'
  <2> SUFFICES ASSUME AskedInv, UNCHANGED vars PROVE AskedInv'
    OBVIOUS
  <2>1. UNCHANGED <<setup, cfg, late, call>>
    BY DEF vars, chargerVars
  <2>2. CallsAsked'
    BY <2>1 DEF AskedInv, CallsAsked, Busy
  <2>3. LateAsked'
    BY <2>1, BringsStays DEF AskedInv, LateAsked
  <2>4. NothingUnasked'
    BY <2>1, AskableStays DEF AskedInv, NothingUnasked
  <2> QED
    BY <2>2, <2>3, <2>4 DEF AskedInv
<1>4. IInv /\ AskedInv /\ [Next]_vars => AskedInv'
  BY <1>2, <1>3
<1>5. AskedInv => NothingUnasked
  BY DEF AskedInv
<1> QED
  BY <1>1, <1>4, <1>5, IInvHolds, PTL DEF Spec
=============================================================================
