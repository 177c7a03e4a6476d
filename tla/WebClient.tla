----------------------------- MODULE WebClient -----------------------------
(***************************************************************************)
(* The client of the charger's web API: Peblar.request with its retries    *)
(* and its one re-login, login, logout, close, and every other method as   *)
(* the single request "other" (src/src/peblar/peblar.py).                  *)
(*                                                                         *)
(* Several asyncio tasks share one client.  A task runs without            *)
(* interruption from one suspension to the next, so one action here is the *)
(* code between two awaits that really suspend: handling an answer and, in *)
(* the same step, sending the request that follows from it.  The charger   *)
(* answers a request in a step of its own; an attempt may time out or lose *)
(* its connection before or after that, and the charger may forget every   *)
(* session or get a new password at any time.                              *)
(***************************************************************************)
EXTENDS Naturals

CONSTANTS
  Callers,      \* the tasks that share the client
  Passwords,    \* passwords a user may know or the charger may have
  Sessions,     \* values of the charger's session cookie
  None,         \* Python's None
  Ops,          \* the calls the tasks make, of "login", "logout", "other"
  Refusals,     \* how the charger turns requests away: "limited", "refused"
  Given,        \* the session the client starts with: "none" or "shared"
  MaxAttempts   \* stop_after_attempt: 3 in the code

ASSUME NoneAssumption == None \notin Passwords \cup Sessions
ASSUME OpsAssumption == Ops \subseteq {"login", "logout", "other"}
ASSUME RefusalsAssumption == Refusals \subseteq {"limited", "refused"}
ASSUME GivenAssumption == Given \subseteq {"none", "shared"}
ASSUME AttemptsAssumption == MaxAttempts \in Nat \ {0}

VARIABLES
  secret,     \* charger: its current password
  sessions,   \* charger: the cookies it still honours
  session,    \* self.session: "none", "own", "shared" or "closed"
  password,   \* self._password
  cookie,     \* the cookie in the session's jar
  call,       \* the request() frames of each caller
  result,     \* how each caller's last call ended
  accepted,   \* history: the passwords the charger has accepted
  loggedOut,  \* history: the last login() or logout() to return was a logout()
  late,       \* history: the call began after such a logout, no login() since
  disturbed   \* history: what went wrong around each call (0, 1 or more)

chargerVars == <<secret, sessions>>
clientVars == <<session, password, cookie>>
historyVars == <<accepted, loggedOut, late, disturbed>>
vars == <<chargerVars, clientVars, call, result, historyVars>>

----------------------------------------------------------------------------
(* Types and helpers.                                                      *)

(* "direct": the request itself; "relogin": the login() inside it after a  *)
(* 401; "again": the nested request(..., _relogged_in=True).               *)
Phases == {"idle", "direct", "relogin", "again"}

(* The attempt on the wire: none while backing off, sent, or answered. *)
Wires == {"none", "sent", "ok", "unauthorized", "limited", "refused"}

Results == {"none", "ok", "AuthenticationError", "RateLimitError",
            "ConnectionError", "Error", "RuntimeError", "Cancelled"}

Frames == [op : Ops \cup {"none"}, pw : Passwords \cup {None}, phase : Phases,
           outer : 1..MaxAttempts, inner : 1..MaxAttempts,
           wire : Wires, sid : Sessions \cup {None}, sent : Nat]

Idle == [op |-> "none", pw |-> None, phase |-> "idle", outer |-> 1, inner |-> 1,
         wire |-> "none", sid |-> None, sent |-> 0]

Busy(c) == call[c].phase # "idle"
Nested(f) == f.phase \in {"relogin", "again"}
IsLogin(f) == f.op = "login" \/ f.phase = "relogin"

(* Every cookie the client or a request in flight still refers to.  A      *)
(* session outside this set can no longer be told from a forgotten one.    *)
Known == {cookie} \cup {call[c].sid : c \in Callers}

Init ==
  /\ secret \in Passwords
  /\ sessions = {}
  /\ session \in Given
  /\ password = None
  /\ cookie = None
  /\ call = [c \in Callers |-> Idle]
  /\ result = [c \in Callers |-> "none"]
  /\ accepted = {}
  /\ loggedOut = FALSE
  /\ late = [c \in Callers |-> FALSE]
  /\ disturbed = [c \in Callers |-> 0]

----------------------------------------------------------------------------
(* Parts of a caller's step.                                               *)

(* The call returns or raises: all its frames are gone. *)
Finish(c, r) ==
  /\ call' = [call EXCEPT ![c] = Idle]
  /\ result' = [result EXCEPT ![c] = r]

(* Slip: a session that was closed is simply opened again. *)
AttemptReopens(c, f, jar) ==
  /\ call' = [call EXCEPT ![c] = [f EXCEPT !.wire = "sent", !.sid = jar,
                                           !.sent = @ + 1]]
  /\ result' = [result EXCEPT ![c] = "none"]

(* One attempt: session.request() with the cookie that is in the jar now.  *)
(* On a closed session aiohttp raises a RuntimeError nothing here catches. *)
Attempt(c, f, jar) ==
  IF session = "closed"
    THEN Finish(c, "RuntimeError")
    ELSE /\ call' = [call EXCEPT ![c] = [f EXCEPT !.wire = "sent", !.sid = jar,
                                                  !.sent = @ + 1]]
         /\ result' = [result EXCEPT ![c] = "none"]

(* tenacity sleeps before the next attempt. *)
Backoff(c, f) ==
  /\ call' = [call EXCEPT ![c] = [f EXCEPT !.wire = "none", !.sid = None]]
  /\ UNCHANGED result

(* An attempt raised a retryable error.  The innermost decorated request() *)
(* retries first; when its attempts are used up the error reaches the      *)
(* outer request(), which retries too, from the start and allowed to log   *)
(* in again.                                                               *)
RetryInner(c) ==
  LET f == call[c] IN
  /\ Nested(f) /\ f.inner < MaxAttempts
  /\ Backoff(c, [f EXCEPT !.inner = @ + 1])

(* Slip: one attempt too many. *)
RetryOuterOnceMore(c) ==
  LET f == call[c] IN
  /\ Nested(f) => f.inner = MaxAttempts
  /\ f.outer <= MaxAttempts
  /\ Backoff(c, [f EXCEPT !.outer = @ + 1, !.inner = 1, !.phase = "direct",
                          !.pw = IF f.op = "login" THEN @ ELSE None])

RetryOuter(c) ==
  LET f == call[c] IN
  /\ Nested(f) => f.inner = MaxAttempts
  /\ f.outer < MaxAttempts
  /\ Backoff(c, [f EXCEPT !.outer = @ + 1, !.inner = 1, !.phase = "direct",
                          !.pw = IF f.op = "login" THEN @ ELSE None])

GiveUp(c, error) ==
  LET f == call[c] IN
  /\ Nested(f) => f.inner = MaxAttempts
  /\ f.outer = MaxAttempts
  /\ Finish(c, error)

AttemptFails(c, error) == RetryInner(c) \/ RetryOuter(c) \/ GiveUp(c, error)

----------------------------------------------------------------------------
(* The callers.                                                            *)

(* Slip: login() stores the password before the charger has accepted it. *)
CallStoresPassword(c, op, pw) ==
  /\ ~Busy(c)
  /\ (op = "login") <=> (pw # None)
  /\ session' = IF session = "none" THEN "own" ELSE session
  /\ password' = IF op = "login" THEN pw ELSE password
  /\ Attempt(c, [Idle EXCEPT !.op = op, !.pw = pw, !.phase = "direct"], cookie)
  /\ UNCHANGED <<chargerVars, cookie>>

(* A caller makes a call; the first request creates the session. *)
Call(c, op, pw) ==
  /\ ~Busy(c)
  /\ (op = "login") <=> (pw # None)
  /\ session' = IF session = "none" THEN "own" ELSE session
  /\ Attempt(c, [Idle EXCEPT !.op = op, !.pw = pw, !.phase = "direct"], cookie)
  /\ UNCHANGED <<chargerVars, password, cookie>>

(* The backoff is over. *)
Resend(c) ==
  /\ Busy(c) /\ call[c].wire = "none"
  /\ Attempt(c, call[c], cookie)
  /\ UNCHANGED <<chargerVars, clientVars>>

(* Slip: logout() does not forget the password. *)
ReceiveOkRemembers(c) ==
  LET f == call[c] IN
  /\ f.wire = "ok" /\ f.phase # "relogin"
  /\ password' = IF f.op = "login" THEN f.pw ELSE password
  /\ cookie' = IF f.op = "login" THEN f.sid ELSE cookie
  /\ Finish(c, "ok")
  /\ UNCHANGED <<chargerVars, session>>

(* login() or logout() was answered, so the call is over; a login's answer *)
(* carries the new cookie.                                                 *)
ReceiveOk(c) ==
  LET f == call[c] IN
  /\ f.wire = "ok" /\ f.phase # "relogin"
  /\ password' = CASE f.op = "login" -> f.pw
                   [] f.op = "logout" -> None
                   [] OTHER -> password
  /\ cookie' = IF f.op = "login" THEN f.sid ELSE cookie
  /\ Finish(c, "ok")
  /\ UNCHANGED <<chargerVars, session>>

(* Slip: the request is repeated with the cookie it failed with. *)
ReloginDoneOldCookie(c) ==
  LET f == call[c] IN
  /\ f.wire = "ok" /\ f.phase = "relogin"
  /\ password' = f.pw
  /\ cookie' = f.sid
  /\ Attempt(c, [f EXCEPT !.phase = "again", !.inner = 1, !.pw = None], cookie)
  /\ UNCHANGED <<chargerVars, session>>

(* The login() inside request() returned: the password is stored, and the  *)
(* original request goes out again in the same step.                       *)
ReloginDone(c) ==
  LET f == call[c] IN
  /\ f.wire = "ok" /\ f.phase = "relogin"
  /\ password' = f.pw
  /\ cookie' = f.sid
  /\ Attempt(c, [f EXCEPT !.phase = "again", !.inner = 1, !.pw = None], f.sid)
  /\ UNCHANGED <<chargerVars, session>>

(* Slip: the repeated request may log in again, without end. *)
MayReloginAlways(f) ==
  f.phase \in {"direct", "again"} /\ f.op # "login" /\ password # None

(* A 401 on the first try of a request that is not a login, with a known   *)
(* password: log in again, with the password as it is now.                 *)
MayRelogin(f) == f.phase = "direct" /\ f.op # "login" /\ password # None

Relogin(c) ==
  LET f == call[c] IN
  /\ f.wire = "unauthorized" /\ MayRelogin(f)
  /\ Attempt(c, [f EXCEPT !.phase = "relogin", !.inner = 1, !.pw = password], cookie)
  /\ UNCHANGED <<chargerVars, clientVars>>

(* Any other 401 is an authentication error, and is not retried. *)
Rejected(c) ==
  /\ call[c].wire = "unauthorized" /\ ~MayRelogin(call[c])
  /\ Finish(c, "AuthenticationError")
  /\ UNCHANGED <<chargerVars, clientVars>>

RateLimited(c) ==
  /\ call[c].wire = "limited"
  /\ AttemptFails(c, "RateLimitError")
  /\ UNCHANGED <<chargerVars, clientVars>>

Refused(c) ==
  /\ call[c].wire = "refused"
  /\ Finish(c, "Error")
  /\ UNCHANGED <<chargerVars, clientVars>>

(* Slip: no timeout, so a charger that says nothing is waited for. *)
LoseUntimed(c) ==
  LET f == call[c]
      answered == IF f.wire = "ok" /\ IsLogin(f) THEN {f.sid} ELSE {} IN
  /\ f.wire \notin {"none", "sent"}
  /\ AttemptFails(c, "ConnectionError")
  /\ cookie' \in {cookie} \cup answered
  /\ UNCHANGED <<chargerVars, session, password>>

(* The attempt times out or its connection breaks, whether or not the      *)
(* charger has acted on it.  The cookie of an accepted login comes with    *)
(* the headers, so it may be in the jar before the body is lost.           *)
Lose(c) ==
  LET f == call[c]
      answered == IF f.wire = "ok" /\ IsLogin(f) THEN {f.sid} ELSE {} IN
  /\ f.wire # "none"
  /\ AttemptFails(c, "ConnectionError")
  /\ cookie' \in {cookie} \cup answered
  /\ UNCHANGED <<chargerVars, session, password>>

(* The task is cancelled at the await it is suspended in. *)
Cancel(c) ==
  /\ Busy(c)
  /\ Finish(c, "Cancelled")
  /\ UNCHANGED <<chargerVars, clientVars>>

(* close() closes a session the client created itself, and keeps it. *)
Close ==
  /\ session = "own"
  /\ session' = "closed"
  /\ UNCHANGED <<chargerVars, password, cookie, call, result>>

----------------------------------------------------------------------------
(* The charger, as the client sees it.                                     *)

Answer(c, w, sid) == call' = [call EXCEPT ![c].wire = w, ![c].sid = sid]

(* A login with the right password opens a session. *)
HandleLogin(c) ==
  LET f == call[c] IN
  /\ f.wire = "sent" /\ IsLogin(f)
  /\ \/ /\ f.pw = secret
        /\ \E s \in Sessions \ Known :
             /\ sessions' = (sessions \cap Known) \cup {s}
             /\ Answer(c, "ok", s)
     \/ /\ f.pw # secret
        /\ Answer(c, "unauthorized", f.sid)
        /\ UNCHANGED sessions
  /\ UNCHANGED <<secret, clientVars, result>>

(* Any other request needs a live session; logout ends it. *)
HandleOther(c) ==
  LET f == call[c] IN
  /\ f.wire = "sent" /\ ~IsLogin(f)
  /\ \/ /\ f.sid \in sessions
        /\ sessions' = IF f.op = "logout" THEN sessions \ {f.sid} ELSE sessions
        /\ Answer(c, "ok", f.sid)
     \/ /\ f.sid \notin sessions
        /\ Answer(c, "unauthorized", f.sid)
        /\ UNCHANGED sessions
  /\ UNCHANGED <<secret, clientVars, result>>

(* The charger turns the request away: 429, or 400, 404, 5xx. *)
Refuse(c) ==
  /\ call[c].wire = "sent"
  /\ \E w \in Refusals : Answer(c, w, call[c].sid)
  /\ UNCHANGED <<chargerVars, clientVars, result>>

(* A reboot or a network blip: every session is forgotten. *)
Reboot ==
  /\ sessions # {}
  /\ sessions' = {}
  /\ UNCHANGED <<secret, clientVars, call, result>>

(* Somebody changes the charger's password. *)
ChangePassword ==
  /\ secret' \in Passwords \ {secret}
  /\ UNCHANGED <<sessions, clientVars, call, result>>

----------------------------------------------------------------------------
(* History, recorded beside every step and read by none.                   *)

Returns(c, op) ==
  Busy(c) /\ call[c].op = op /\ call'[c].phase = "idle" /\ result'[c] = "ok"

Begins(c) == ~Busy(c) /\ call'[c].phase # "idle"

(* A session in use died, or the jar took a dead cookie for a live one. *)
SessionHurt ==
  \/ \E s \in Known \cap sessions : s \notin sessions'
  \/ cookie \in sessions /\ cookie' \notin sessions'

(* The client no longer knows the charger's password. *)
PasswordHurt == password' # secret' /\ (password = secret)

AtMostTwo(n) == IF n > 2 THEN 2 ELSE n

Disturbance(c) ==
  (IF PasswordHurt THEN 2 ELSE 0)
  + (IF SessionHurt THEN 1 ELSE 0)
  + (IF call[c].wire # "none" /\ call'[c].wire = "none" THEN 1 ELSE 0)

Observe ==
  /\ accepted' = accepted \cup
       {call[c].pw : c \in {d \in Callers : /\ IsLogin(call[d])
                                            /\ call[d].wire = "sent"
                                            /\ call'[d].wire = "ok"}}
  /\ loggedOut' = \/ \E c \in Callers : Returns(c, "logout")
                  \/ loggedOut /\ \A c \in Callers : ~Returns(c, "login")
  /\ late' = [c \in Callers |->
                /\ call'[c].phase # "idle" /\ loggedOut'
                /\ Begins(c) \/ late[c]]
  /\ disturbed' = [c \in Callers |->
       IF call'[c].phase = "idle" THEN 0
       ELSE IF Begins(c)
         THEN IF password # secret THEN 2
              ELSE IF cookie \in sessions THEN 0 ELSE 1
       ELSE AtMostTwo(disturbed[c] + Disturbance(c))]

----------------------------------------------------------------------------

(* What the event loop runs for a busy caller. *)
CallerStep(c) ==
  \/ Resend(c) \/ ReceiveOk(c) \/ ReloginDone(c) \/ Relogin(c) \/ Rejected(c)
  \/ RateLimited(c) \/ Refused(c) \/ Lose(c)

ChargerStep ==
  \/ \E c \in Callers : HandleLogin(c) \/ HandleOther(c) \/ Refuse(c)
  \/ Reboot \/ ChangePassword

Next ==
  /\ \/ \E c \in Callers :
          \/ \E op \in Ops, pw \in Passwords \cup {None} : Call(c, op, pw)
          \/ CallerStep(c)
          \/ Cancel(c)
     \/ Close
     \/ ChargerStep
  /\ Observe

(* The event loop keeps running, and asyncio.timeout ends every attempt    *)
(* the charger leaves unanswered.  Nothing is assumed of the charger.      *)
Fairness == \A c \in Callers : WF_vars(CallerStep(c) /\ Observe)

Spec == Init /\ [][Next]_vars
FairSpec == Spec /\ Fairness

----------------------------------------------------------------------------
(* Properties.                                                             *)

(* Types of every variable. *)
TypeOK ==
  /\ secret \in Passwords
  /\ sessions \subseteq Sessions
  /\ session \in {"none", "own", "shared", "closed"}
  /\ password \in Passwords \cup {None}
  /\ cookie \in Sessions \cup {None}
  /\ call \in [Callers -> Frames]
  /\ result \in [Callers -> Results]
  /\ accepted \subseteq Passwords
  /\ loggedOut \in BOOLEAN
  /\ late \in [Callers -> BOOLEAN]
  /\ disturbed \in [Callers -> 0..2]

(* login() stores the password only after the charger accepted it, so the  *)
(* password a 401 makes request() log in with, on its own and up to three  *)
(* times, is never one the charger has not accepted before: a wrong        *)
(* password typed once is not hammered at the charger behind the user's    *)
(* back.                                                                   *)
OnlyAcceptedPasswords ==
  /\ password \in accepted \cup {None}
  /\ \A c \in Callers : call[c].phase = "relogin" => call[c].pw \in accepted

(* One disturbance is survived: when the client knows the charger's        *)
(* password, a single lost session (a reboot, another task's logout, a     *)
(* cookie overwritten by a stale answer) or a single lost attempt never    *)
(* surfaces as an authentication error; request() logs in and repeats.     *)
OneDisturbanceSurvived ==
  [][\A c \in Callers :
       /\ call[c].op = "other"
       /\ result'[c] = "AuthenticationError" /\ result[c] = "none"
       => disturbed[c] = 2]_vars

(* logout() "also forgets the stored password, so a later request will not *)
(* quietly log back in again".                                             *)
LogoutSticks == \A c \in Callers : late[c] => call[c].phase # "relogin"

(* After close(), no task's retry or re-login puts a request on the wire.  *)
NothingSentAfterClose ==
  [][session = "closed" => \A c \in Callers : call'[c].sent <= call[c].sent]_vars

(* Every call ends, whatever the charger does. *)
EveryCallReturns == \A c \in Callers : Busy(c) ~> ~Busy(c)

(* One call costs at most MaxAttempts * (1 + MaxAttempts + MaxAttempts)    *)
(* HTTP requests: each outer attempt may send itself once, log in          *)
(* MaxAttempts times and be repeated MaxAttempts times.                    *)
HttpBudget == MaxAttempts * (2 * MaxAttempts + 1)

Bounded == INSTANCE BoundedCall
             WITH Budget <- HttpBudget, used <- [c \in Callers |-> call[c].sent]

ImplementsBoundedCall == Bounded!Spec
=============================================================================
