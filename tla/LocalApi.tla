------------------------------ MODULE LocalApi ------------------------------
(***************************************************************************)
(* The client of the charger's local REST API: PeblarApi.request with its  *)
(* retries and its one token refresh, shared by several asyncio tasks, and *)
(* authorize_charge_session, whose request the charger does not answer     *)
(* twice the same way (src/src/peblar/peblar.py).                          *)
(*                                                                         *)
(* A refresh is two calls of the web client: login() and api_token().      *)
(* Module WebClient models what happens inside them; here such a call      *)
(* makes any number of requests up to its bound, the charger acts on each, *)
(* and the call returns the last answer or raises.                         *)
(*                                                                         *)
(* One action is the code between two awaits that really suspend.          *)
(***************************************************************************)
EXTENDS Naturals

CONSTANTS
  Callers,      \* the tasks that share the client
  Passwords,
  Tokens,       \* values of the charger's API token
  None,         \* Python's None
  Ops,          \* the calls the tasks make, of "read", "authorize"
  Refusals,     \* how the charger turns requests away: "limited", "refused"
  Given,        \* the session the client starts with: "none" or "shared"
  CanRefresh,   \* token_refresh is given, as rest_api() does
  LoginBudget,  \* the most HTTP requests of a login(): 3 in the code
  FetchBudget,  \* of an api_token(): HttpBudget of WebClient, 21 in the code
  MaxAttempts   \* stop_after_attempt: 3 in the code

ASSUME NoneAssumption == None \notin Passwords \cup Tokens
ASSUME OpsAssumption == Ops \subseteq {"read", "authorize"}
ASSUME RefusalsAssumption == Refusals \subseteq {"limited", "refused"}
ASSUME GivenAssumption == Given \subseteq {"none", "shared"}
ASSUME RefreshAssumption == CanRefresh \in BOOLEAN
ASSUME BudgetAssumption == LoginBudget \in Nat \ {0} /\ FetchBudget \in Nat \ {0}
ASSUME AttemptsAssumption == MaxAttempts \in Nat \ {0}

VARIABLES
  live,         \* charger: the API token it honours
  secret,       \* charger: the password of its web interface
  authorized,   \* charger: the charge session is authorized
  password,     \* the web client's _password
  session,      \* self.session: "none", "own", "shared" or "closed"
  token,        \* self.token
  call,         \* the request() frames of each caller
  result,       \* how each caller's last call ended
  invalidated,  \* history: tokens the charger dropped on each call (0, 1, more)
  overwritten,  \* history: during the call an older token replaced a live one
  excused,      \* history: during the call the web client could not log in
  toggled       \* history: how often the call authorized or deauthorized

chargerVars == <<live, secret, authorized>>
clientVars == <<session, token>>
historyVars == <<invalidated, overwritten, excused, toggled>>
vars == <<chargerVars, password, clientVars, call, result, historyVars>>

----------------------------------------------------------------------------
(* Types and helpers.                                                      *)

(* "direct": the request itself; "login", "fetch": the refresh after a     *)
(* 401; "again": the nested request(..., _refreshed=True).                 *)
Phases == {"idle", "direct", "login", "fetch", "again"}

(* The attempt, or the web client's call: none while backing off, sent, or *)
(* answered.                                                               *)
Wires == {"none", "sent", "ok", "unauthorized", "limited", "refused"}

Results == {"none", "ok", "AuthenticationError", "RateLimitError",
            "ConnectionError", "Error", "RuntimeError", "Cancelled"}

Frames == [op : Ops \cup {"none"}, phase : Phases,
           outer : 1..MaxAttempts, inner : 1..MaxAttempts,
           wire : Wires, tok : Tokens \cup {None}, pw : Passwords \cup {None},
           web : Nat, sent : Nat]

Idle == [op |-> "none", phase |-> "idle", outer |-> 1, inner |-> 1,
         wire |-> "none", tok |-> None, pw |-> None, web |-> 0, sent |-> 0]

Busy(c) == call[c].phase # "idle"
Local(f) == f.phase \in {"direct", "again"}
Web(f) == f.phase \in {"login", "fetch"}

WebBudget(phase) == IF phase = "login" THEN LoginBudget ELSE FetchBudget

(* Tokens the client or a request still refers to.                         *)
Known == {token} \cup {call[c].tok : c \in Callers}

Init ==
  /\ live \in Tokens
  /\ secret \in Passwords
  /\ authorized = FALSE
  /\ password \in Passwords \cup {None}
  /\ session \in Given
  /\ token \in Tokens
  /\ call = [c \in Callers |-> Idle]
  /\ result = [c \in Callers |-> "none"]
  /\ invalidated = [c \in Callers |-> 0]
  /\ overwritten = [c \in Callers |-> FALSE]
  /\ excused = [c \in Callers |-> FALSE]
  /\ toggled = [c \in Callers |-> 0]

----------------------------------------------------------------------------
(* Parts of a caller's step.                                               *)

(* The call returns or raises: all its frames are gone. *)
Finish(c, r) ==
  /\ call' = [call EXCEPT ![c] = Idle]
  /\ result' = [result EXCEPT ![c] = r]

(* One attempt, with the token the client has at that moment. *)
Attempt(c, f, tok) ==
  IF session = "closed"
    THEN Finish(c, "RuntimeError")
    ELSE /\ call' = [call EXCEPT ![c] = [f EXCEPT !.wire = "sent", !.tok = tok,
                                                  !.sent = @ + 1]]
         /\ result' = [result EXCEPT ![c] = "none"]

(* The web client's call begins. *)
AskWeb(c, f, phase, pw) ==
  /\ call' = [call EXCEPT ![c] = [f EXCEPT !.phase = phase, !.wire = "sent",
                !.tok = None, !.pw = pw, !.web = 1, !.sent = @ + 1]]
  /\ UNCHANGED result

(* tenacity sleeps before the next attempt. *)
Backoff(c, f) ==
  /\ call' = [call EXCEPT ![c] = [f EXCEPT !.wire = "none", !.tok = None]]
  /\ UNCHANGED result

RetryInner(c) ==
  LET f == call[c] IN
  /\ f.phase = "again" /\ f.inner < MaxAttempts
  /\ Backoff(c, [f EXCEPT !.inner = @ + 1])

(* Slip: one attempt too many. *)
RetryOuterOnceMore(c) ==
  LET f == call[c] IN
  /\ f.phase = "again" => f.inner = MaxAttempts
  /\ f.outer <= MaxAttempts
  /\ Backoff(c, [f EXCEPT !.outer = @ + 1, !.inner = 1, !.phase = "direct",
                          !.pw = None, !.web = 0])

(* The outer request() starts over, allowed to refresh again. *)
RetryOuter(c) ==
  LET f == call[c] IN
  /\ f.phase = "again" => f.inner = MaxAttempts
  /\ f.outer < MaxAttempts
  /\ Backoff(c, [f EXCEPT !.outer = @ + 1, !.inner = 1, !.phase = "direct",
                          !.pw = None, !.web = 0])

GiveUp(c, error) ==
  LET f == call[c] IN
  /\ f.phase = "again" => f.inner = MaxAttempts
  /\ f.outer = MaxAttempts
  /\ Finish(c, error)

AttemptFails(c, error) == RetryInner(c) \/ RetryOuter(c) \/ GiveUp(c, error)

----------------------------------------------------------------------------
(* The callers.                                                            *)

Call(c, op) ==
  /\ ~Busy(c)
  /\ session' = IF session = "none" THEN "own" ELSE session
  /\ Attempt(c, [Idle EXCEPT !.op = op, !.phase = "direct"], token)
  /\ UNCHANGED <<chargerVars, password, token>>

Resend(c) ==
  /\ Busy(c) /\ call[c].wire = "none"
  /\ Attempt(c, call[c], token)
  /\ UNCHANGED <<chargerVars, password, clientVars>>

ReceiveOk(c) ==
  /\ Local(call[c]) /\ call[c].wire = "ok"
  /\ Finish(c, "ok")
  /\ UNCHANGED <<chargerVars, password, clientVars>>

RateLimited(c) ==
  /\ Local(call[c]) /\ call[c].wire = "limited"
  /\ AttemptFails(c, "RateLimitError")
  /\ UNCHANGED <<chargerVars, password, clientVars>>

(* Slip: a status in the 400s is taken for an answer. *)
RefusedReturns(c) ==
  /\ Local(call[c]) /\ call[c].wire = "refused"
  /\ Finish(c, "ok")
  /\ UNCHANGED <<chargerVars, password, clientVars>>

Refused(c) ==
  /\ Local(call[c]) /\ call[c].wire = "refused"
  /\ Finish(c, "Error")
  /\ UNCHANGED <<chargerVars, password, clientVars>>

(* Slip: no timeout, so a charger that says nothing is waited for. *)
LoseUntimed(c) ==
  /\ Local(call[c]) /\ call[c].wire \notin {"none", "sent"}
  /\ AttemptFails(c, "ConnectionError")
  /\ UNCHANGED <<chargerVars, password, clientVars>>

(* The attempt times out or its connection breaks, whether or not the      *)
(* charger has acted on it.                                                *)
Lose(c) ==
  /\ Local(call[c]) /\ call[c].wire # "none"
  /\ AttemptFails(c, "ConnectionError")
  /\ UNCHANGED <<chargerVars, password, clientVars>>

(* Slip: the repeated request may refresh again, without end. *)
MayRefreshAlways(f) == f.phase \in {"direct", "again"} /\ CanRefresh

(* A 401 is answered with one refresh, by the request itself only. *)
MayRefresh(f) == f.phase = "direct" /\ CanRefresh

Rejected(c) ==
  /\ Local(call[c]) /\ call[c].wire = "unauthorized"
  /\ ~MayRefresh(call[c])
  /\ Finish(c, "AuthenticationError")
  /\ UNCHANGED <<chargerVars, password, clientVars>>

(* The refresh logs in with the password the web client has now ... *)
Refresh(c) ==
  LET f == call[c] IN
  /\ f.wire = "unauthorized" /\ MayRefresh(f)
  /\ IF password = None THEN Finish(c, "AuthenticationError")
                        ELSE AskWeb(c, f, "login", password)
  /\ UNCHANGED <<chargerVars, password, clientVars>>

(* ... and asks for the token as soon as it is in ... *)
LoggedIn(c) ==
  LET f == call[c] IN
  /\ f.phase = "login" /\ f.wire = "ok"
  /\ password' = f.pw
  /\ AskWeb(c, f, "fetch", None)
  /\ UNCHANGED <<chargerVars, clientVars>>

(* Slip: the new token is used once and not kept. *)
RefreshedUnstored(c) ==
  LET f == call[c] IN
  /\ f.phase = "fetch" /\ f.wire = "ok"
  /\ Attempt(c, [f EXCEPT !.phase = "again", !.inner = 1, !.web = 0], f.tok)
  /\ UNCHANGED <<chargerVars, password, clientVars>>

(* Slip: the repeat goes out with the token that was turned down. *)
RefreshedOldToken(c) ==
  LET f == call[c] IN
  /\ f.phase = "fetch" /\ f.wire = "ok"
  /\ token' = f.tok
  /\ Attempt(c, [f EXCEPT !.phase = "again", !.inner = 1, !.web = 0], token)
  /\ UNCHANGED <<chargerVars, password, session>>

(* ... with which the request goes out again, in the same step. *)
Refreshed(c) ==
  LET f == call[c] IN
  /\ f.phase = "fetch" /\ f.wire = "ok"
  /\ token' = f.tok
  /\ Attempt(c, [f EXCEPT !.phase = "again", !.inner = 1, !.web = 0], f.tok)
  /\ UNCHANGED <<chargerVars, password, session>>

(* The web client repeats a request of its own. *)
WebRepeats(c) ==
  LET f == call[c] IN
  /\ Web(f) /\ f.web < WebBudget(f.phase)
  /\ call' = [call EXCEPT ![c] = [f EXCEPT !.wire = "sent", !.tok = None,
                                           !.web = @ + 1, !.sent = @ + 1]]
  /\ UNCHANGED <<chargerVars, password, clientVars, result>>

(* The web client gives up with an error the outer request() retries, or   *)
(* with one it does not.  A login() fails to authenticate only if its      *)
(* password was turned down.                                               *)
WebRaises(c) ==
  LET f == call[c] IN
  /\ Web(f)
  /\ \/ \E error \in {"ConnectionError", "RateLimitError"} : AttemptFails(c, error)
     \/ \E error \in {"Error", "RuntimeError"} : Finish(c, error)
     \/ /\ f.phase = "fetch" \/ f.wire = "unauthorized"
        /\ Finish(c, "AuthenticationError")
  /\ UNCHANGED <<chargerVars, password, clientVars>>

Cancel(c) ==
  /\ Busy(c)
  /\ Finish(c, "Cancelled")
  /\ UNCHANGED <<chargerVars, password, clientVars>>

Close ==
  /\ session = "own"
  /\ session' = "closed"
  /\ UNCHANGED <<chargerVars, password, token, call, result>>

(* A login() or logout() on the web client, by anybody. *)
WebLogin ==
  /\ password' = secret
  /\ UNCHANGED <<chargerVars, clientVars, call, result>>

WebLogout ==
  /\ password' = None
  /\ UNCHANGED <<chargerVars, clientVars, call, result>>

----------------------------------------------------------------------------
(* The charger, as the client sees it.                                     *)

Answer(c, w, tok) == call' = [call EXCEPT ![c].wire = w, ![c].tok = tok]

(* A request needs the live token; each authorization toggles. *)
HandleLocal(c) ==
  LET f == call[c] IN
  /\ Local(f) /\ f.wire = "sent"
  /\ IF f.tok = live
       THEN /\ authorized' = IF f.op = "authorize" THEN ~authorized ELSE authorized
            /\ Answer(c, "ok", f.tok)
       ELSE /\ Answer(c, "unauthorized", f.tok)
            /\ UNCHANGED authorized
  /\ UNCHANGED <<live, secret, password, clientVars, result>>

HandleWeb(c) ==
  LET f == call[c] IN
  /\ Web(f) /\ f.wire = "sent"
  /\ CASE f.phase = "fetch" -> Answer(c, "ok", live)
       [] f.phase = "login" /\ f.pw = secret -> Answer(c, "ok", None)
       [] OTHER -> Answer(c, "unauthorized", None)
  /\ UNCHANGED <<chargerVars, password, clientVars, result>>

Refuse(c) ==
  /\ Local(call[c]) /\ call[c].wire = "sent"
  /\ \E w \in Refusals : Answer(c, w, call[c].tok)
  /\ UNCHANGED <<chargerVars, password, clientVars, result>>

(* A reboot, an update, or somebody asking for a new token. *)
Invalidate ==
  /\ live' \in Tokens \ (Known \cup {live})
  /\ UNCHANGED <<secret, authorized, password, clientVars, call, result>>

ChangePassword ==
  /\ secret' \in Passwords \ {secret}
  /\ UNCHANGED <<live, authorized, password, clientVars, call, result>>

----------------------------------------------------------------------------
(* History, recorded beside every step and read by none.                   *)

Begins(c) == ~Busy(c) /\ call'[c].phase # "idle"
Returns(c) == Busy(c) /\ call'[c].phase = "idle" /\ result'[c] = "ok"
AtMostTwo(n) == IF n > 2 THEN 2 ELSE n

Observe ==
  /\ invalidated' = [c \in Callers |->
       CASE call'[c].phase = "idle" -> 0
         [] Begins(c) -> IF token = live THEN 0 ELSE 1
         [] OTHER -> AtMostTwo(invalidated[c] + IF live' # live THEN 1 ELSE 0)]
  /\ overwritten' = [c \in Callers |->
       /\ Busy(c) /\ call'[c].phase # "idle"
       /\ \/ overwritten[c]
          \/ token = live /\ live' = live /\ token' # live]
  /\ excused' = [c \in Callers |->
       /\ call'[c].phase # "idle"
       /\ \/ password' # secret'
          \/ Busy(c) /\ excused[c]]
  /\ toggled' = [c \in Callers |->
       IF call'[c].phase = "idle" THEN 0
       ELSE AtMostTwo(toggled[c] +
              IF /\ call[c].wire = "sent" /\ call'[c].wire = "ok"
                 /\ Local(call[c]) /\ call[c].op = "authorize" THEN 1 ELSE 0)]

----------------------------------------------------------------------------
CallerStep(c) ==
  \/ Resend(c) \/ ReceiveOk(c) \/ RateLimited(c) \/ Refused(c) \/ Lose(c)
  \/ Rejected(c) \/ Refresh(c) \/ LoggedIn(c) \/ Refreshed(c) \/ WebRaises(c)

ChargerStep ==
  \/ \E c \in Callers : HandleLocal(c) \/ HandleWeb(c) \/ Refuse(c)
  \/ Invalidate \/ ChangePassword

Next ==
  /\ \/ \E c \in Callers :
          \/ \E op \in Ops : Call(c, op)
          \/ CallerStep(c) \/ WebRepeats(c) \/ Cancel(c)
     \/ Close \/ WebLogin \/ WebLogout
     \/ ChargerStep
  /\ Observe

(* The event loop keeps running and every attempt is under a timeout; that *)
(* a call of the web client ends is WebClient's EveryCallReturns.          *)
Fairness == \A c \in Callers : WF_vars(CallerStep(c) /\ Observe)

Spec == Init /\ [][Next]_vars
FairSpec == Spec /\ Fairness
----------------------------------------------------------------------------
(* Properties.                                                             *)

(* Types of every variable. *)
TypeOK ==
  /\ live \in Tokens
  /\ secret \in Passwords
  /\ authorized \in BOOLEAN
  /\ password \in Passwords \cup {None}
  /\ session \in {"none", "own", "shared", "closed"}
  /\ token \in Tokens
  /\ call \in [Callers -> Frames]
  /\ result \in [Callers -> Results]
  /\ invalidated \in [Callers -> 0..2]
  /\ overwritten \in [Callers -> BOOLEAN]
  /\ excused \in [Callers -> BOOLEAN]
  /\ toggled \in [Callers -> 0..2]

(* A call ends for want of a valid token.  An error of api_token() itself  *)
(* is the web client's, and OneDisturbanceSurvived of WebClient is about   *)
(* that.                                                                   *)
TokenRejected(c) ==
  /\ call[c].phase \in {"direct", "login", "again"}
  /\ call'[c].phase = "idle" /\ result'[c] = "AuthenticationError"

(* The refresh "handles token invalidation after charger reboots": a call  *)
(* around which the charger drops its token once, while the web client     *)
(* knows the password, does not fail to authenticate, however many of its  *)
(* attempts are lost or refused on the way.                                *)
InvalidationHandled ==
  [][\A c \in Callers :
       TokenRejected(c) => excused[c] \/ invalidated[c] = 2]_vars

(* The same for tasks that share the client, as long as none of them puts  *)
(* an older token back in place of the live one meanwhile.                 *)
SharedInvalidationHandled ==
  [][\A c \in Callers :
       TokenRejected(c) => excused[c] \/ invalidated[c] = 2 \/ overwritten[c]]_vars

(* authorize_charge_session "presents a token ... as if it were held       *)
(* against the reader": when it returns, the charger has toggled, and just *)
(* once if no attempt had to be repeated; a token refresh is no repeat.    *)
PresentedOnce ==
  [][\A c \in Callers :
       Returns(c) /\ call[c].op = "authorize" =>
         /\ toggled[c] >= 1
         /\ call[c].outer = 1 /\ call[c].inner = 1 => toggled[c] = 1]_vars

(* Every call ends, whatever the charger does. *)
EveryCallReturns == \A c \in Callers : Busy(c) ~> ~Busy(c)

(* One call costs at most MaxAttempts times: one attempt, one login(), one *)
(* api_token() and MaxAttempts repeats; 84 HTTP requests in the code.      *)
CallBudget == MaxAttempts * (1 + LoginBudget + FetchBudget + MaxAttempts)

Bounded == INSTANCE BoundedCall
             WITH Budget <- CallBudget, used <- [c \in Callers |-> call[c].sent]

ImplementsBoundedCall == Bounded!Spec
=============================================================================
