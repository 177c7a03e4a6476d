--------------------------- MODULE LocalApiProofs ---------------------------
(***************************************************************************)
(* Theorems about LocalApi, for every set of callers, passwords and tokens *)
(* and every number of attempts.                                           *)
(***************************************************************************)
EXTENDS LocalApi, TLAPS

(* The shape of a caller's frames. *)
FrameOK(f) ==
  /\ f.phase = "idle" => f = Idle
  /\ f.phase = "login" => f.pw \in Passwords
  /\ f.phase = "fetch" /\ f.wire = "ok" => f.tok \in Tokens
  /\ Web(f) => f.wire # "none" /\ f.web \in 1..WebBudget(f.phase)

(* What one attempt of the outer request() costs at most. *)
Round == 1 + LoginBudget + FetchBudget + MaxAttempts

(* The requests made in the current round by the point it has reached. *)
InRound(f) ==
  CASE f.phase = "login" -> 1 + f.web
    [] f.phase = "fetch" -> 1 + LoginBudget + f.web
    [] f.phase = "again" -> LoginBudget + FetchBudget + f.inner
                            + (IF f.wire = "none" THEN 0 ELSE 1)
    [] OTHER -> IF f.wire = "none" THEN 0 ELSE 1

SpentOK(f) ==
  /\ f.sent <= (f.outer - 1) * Round + InRound(f)
  /\ f.phase # "idle" => f.sent > 0

CallInv == \A c \in Callers : FrameOK(call[c]) /\ SpentOK(call[c])

IInv == TypeOK /\ CallInv

Assumptions == /\ None \notin Passwords \cup Tokens
               /\ Ops \subseteq {"read", "authorize"}
               /\ Refusals \subseteq {"limited", "refused"}
               /\ LoginBudget \in Nat \ {0} /\ FetchBudget \in Nat \ {0}
               /\ MaxAttempts \in Nat \ {0}

LEMMA AssumptionsHold == Assumptions
  BY NoneAssumption, OpsAssumption, RefusalsAssumption, BudgetAssumption,
     AttemptsAssumption DEF Assumptions

----------------------------------------------------------------------------
(* One step changes the frames of one caller and adds at most one request. *)

CountStep(c) ==
  \E n \in {0, call[c].sent, call[c].sent + 1} :
    [d \in Callers |-> call'[d].sent]
      = [[d \in Callers |-> call[d].sent] EXCEPT ![c] = n]

FramesOK(c) == CallInv' /\ call' \in [Callers -> Frames] /\ CountStep(c)

LEMMA OneFrame ==
  ASSUME IInv, NEW c \in Callers, NEW f \in Frames,
         call' = [call EXCEPT ![c] = f],
         FrameOK(f), SpentOK(f),
         f.sent \in {0, call[c].sent, call[c].sent + 1}
  PROVE  FramesOK(c)
<1>1. call' \in [Callers -> Frames]
  BY DEF IInv, TypeOK
<1>2. \A d \in Callers : call'[d] = IF d = c THEN f ELSE call[d]
  BY DEF IInv, TypeOK
<1>3. \A d \in Callers : FrameOK(call'[d]) /\ SpentOK(call'[d])
  BY <1>2 DEF IInv, CallInv
<1>4. CallInv'
  BY <1>3 DEF CallInv, FrameOK, SpentOK, InRound, Web, WebBudget, Round
<1>5. CountStep(c)
  <2> DEFINE old == [d \in Callers |-> call[d].sent]
  <2>1. [d \in Callers |-> call'[d].sent]
          = [d \in Callers |-> IF d = c THEN f.sent ELSE old[d]]
    <3>1. \A d \in Callers : call'[d].sent = IF d = c THEN f.sent ELSE old[d]
      BY <1>2
    <3> HIDE DEF old
    <3> QED
      BY <3>1
  <2>2. [old EXCEPT ![c] = f.sent] = [d \in Callers |-> IF d = c THEN f.sent ELSE old[d]]
    OBVIOUS
  <2> QED
    BY <2>1, <2>2 DEF CountStep
<1> QED
  BY <1>1, <1>4, <1>5 DEF FramesOK

LEMMA IdleOK ==
  ASSUME Assumptions
  PROVE  Idle \in Frames /\ FrameOK(Idle) /\ SpentOK(Idle)
<1>1. Idle \in Frames
  BY DEF Idle, Frames, Phases, Wires, Assumptions
<1>2. (1 - 1) * Round = 0
  BY DEF Round, Assumptions
<1> QED
  BY <1>1, <1>2 DEF Idle, FrameOK, SpentOK, InRound, Web

LEMMA FinishOK ==
  ASSUME Assumptions, IInv, NEW c \in Callers, NEW r \in Results, Finish(c, r)
  PROVE  FramesOK(c) /\ result' \in [Callers -> Results]
<1>1. Idle.sent = 0
  BY DEF Idle
<1>2. FramesOK(c)
  BY <1>1, IdleOK, OneFrame DEF Finish
<1> QED
  BY <1>2 DEF Finish, IInv, TypeOK

LEMMA AttemptOK ==
  ASSUME Assumptions, IInv, NEW c \in Callers, NEW f \in Frames, NEW tok \in Tokens,
         f.phase \in {"direct", "again"}, f.sent = call[c].sent,
         f.sent + 1 <= (f.outer - 1) * Round + InRound([f EXCEPT !.wire = "sent"]),
         Attempt(c, f, tok)
  PROVE  FramesOK(c) /\ result' \in [Callers -> Results]
<1>1. CASE session = "closed"
  <2>1. Finish(c, "RuntimeError")
    BY <1>1 DEF Attempt
  <2> QED
    BY <2>1, FinishOK DEF Results
<1>2. CASE session # "closed"
  <2> DEFINE g == [f EXCEPT !.wire = "sent", !.tok = tok, !.sent = @ + 1]
  <2>1. g \in Frames /\ g.sent = call[c].sent + 1
    <3>1. f.sent + 1 \in Nat /\ "sent" \in Wires
      BY DEF Frames, Wires
    <3> QED
      BY <3>1 DEF Frames
  <2>2. call' = [call EXCEPT ![c] = g] /\ result' = [result EXCEPT ![c] = "none"]
    BY <1>2 DEF Attempt
  <2>3. FrameOK(g)
    BY DEF FrameOK, Frames, Web
  <2>4. SpentOK(g)
    BY DEF SpentOK, InRound, Frames
  <2>5. FramesOK(c)
    <3> HIDE DEF g
    <3> QED BY <2>1, <2>2, <2>3, <2>4, OneFrame
  <2> QED
    BY <2>2, <2>5 DEF IInv, TypeOK, Results
<1> QED
  BY <1>1, <1>2

LEMMA AskWebOK ==
  ASSUME Assumptions, IInv, NEW c \in Callers, NEW phase \in {"login", "fetch"},
         NEW pw \in Passwords \cup {None}, phase = "login" => pw \in Passwords,
         call[c].sent + 1
           <= (call[c].outer - 1) * Round
              + (IF phase = "login" THEN 2 ELSE 2 + LoginBudget),
         AskWeb(c, call[c], phase, pw)
  PROVE  FramesOK(c) /\ result' \in [Callers -> Results]
<1> DEFINE f == call[c]
           g == [f EXCEPT !.phase = phase, !.wire = "sent", !.tok = None,
                          !.pw = pw, !.web = 1, !.sent = @ + 1]
<1>1. f \in Frames
  BY DEF IInv, TypeOK
<1>2. g \in Frames /\ g.sent = call[c].sent + 1
  <2>1. f.sent + 1 \in Nat /\ "sent" \in Wires /\ phase \in Phases
    BY <1>1 DEF Frames, Wires, Phases
  <2> QED
    BY <1>1, <2>1 DEF Frames
<1>3. FrameOK(g)
  BY <1>1 DEF FrameOK, Frames, Web, WebBudget, Assumptions
<1>4. SpentOK(g)
  BY <1>1 DEF SpentOK, InRound, Frames, Assumptions
<1>5. call' = [call EXCEPT ![c] = g] /\ result' = result
  BY DEF AskWeb
<1>6. FramesOK(c)
  <2> HIDE DEF g
  <2> QED BY <1>2, <1>3, <1>4, <1>5, OneFrame
<1> QED
  BY <1>5, <1>6 DEF IInv, TypeOK

LEMMA BackoffOK ==
  ASSUME Assumptions, IInv, NEW c \in Callers, NEW f \in Frames,
         f.phase \in {"direct", "again"}, f.sent = call[c].sent, f.sent > 0,
         f.sent <= (f.outer - 1) * Round + InRound([f EXCEPT !.wire = "none"]),
         Backoff(c, f)
  PROVE  FramesOK(c) /\ result' \in [Callers -> Results]
<1> DEFINE g == [f EXCEPT !.wire = "none", !.tok = None]
<1>1. g \in Frames /\ g.sent = call[c].sent
  BY DEF Frames, Wires
<1>2. call' = [call EXCEPT ![c] = g] /\ result' = result
  BY DEF Backoff
<1>3. FrameOK(g)
  BY DEF FrameOK, Frames, Web
<1>4. SpentOK(g)
  BY DEF SpentOK, InRound, Frames
<1>5. FramesOK(c)
  <2> HIDE DEF g
  <2> QED BY <1>1, <1>2, <1>3, <1>4, OneFrame
<1> QED
  BY <1>2, <1>5 DEF IInv, TypeOK
LEMMA AttemptFailsOK ==
  ASSUME Assumptions, IInv, NEW c \in Callers, NEW e \in Results,
         call[c].wire # "none", AttemptFails(c, e)
  PROVE  FramesOK(c) /\ result' \in [Callers -> Results]
<1> DEFINE f == call[c]
<1>1. f \in Frames /\ FrameOK(f) /\ SpentOK(f) /\ Round \in Nat \ {0}
  BY DEF IInv, TypeOK, CallInv, Round, Assumptions
<1>2. f.phase # "idle" /\ f.sent > 0
  BY <1>1 DEF FrameOK, SpentOK, Idle
<1>3. CASE RetryInner(c)
  <2> DEFINE g == [f EXCEPT !.inner = @ + 1]
  <2>1. g \in Frames /\ Backoff(c, g) /\ g.phase = "again" /\ g.sent = f.sent
    BY <1>1, <1>3 DEF RetryInner, Frames, Assumptions
  <2>2. g.sent <= (g.outer - 1) * Round + InRound([g EXCEPT !.wire = "none"])
    BY <1>1, <1>3 DEF SpentOK, InRound, Frames, RetryInner, Assumptions
  <2> HIDE DEF g
  <2> QED
    BY <1>2, <2>1, <2>2, BackoffOK
<1>4. CASE RetryOuter(c)
  <2> DEFINE g == [f EXCEPT !.outer = @ + 1, !.inner = 1, !.phase = "direct",
                            !.pw = None, !.web = 0]
  <2>1. g \in Frames
    <3>1. f.outer + 1 \in 1..MaxAttempts /\ 1 \in 1..MaxAttempts /\ "direct" \in Phases
      BY <1>1, <1>4 DEF RetryOuter, Frames, Phases, Assumptions
    <3> QED
      BY <1>1, <3>1 DEF Frames
  <2>2. Backoff(c, g) /\ g.phase = "direct" /\ g.sent = f.sent
    BY <1>1, <1>4 DEF RetryOuter, Frames
  <2>3. InRound(f) <= Round
    BY <1>1, <1>4 DEF InRound, Round, RetryOuter, FrameOK, Web, WebBudget,
                      Frames, Assumptions
  <2>4. InRound(f) \in Nat
    BY <1>1 DEF InRound, Frames, Assumptions
  <2>5. g.sent <= (g.outer - 1) * Round + InRound([g EXCEPT !.wire = "none"])
    <3>1. f.outer * Round = (f.outer - 1) * Round + Round
      BY <1>1 DEF Frames
    <3>2. (f.outer - 1) * Round \in Nat /\ f.sent \in Nat
      BY <1>1 DEF Frames
    <3>3. f.sent <= f.outer * Round
      <4> HIDE DEF f
      <4> QED BY <1>1, <2>3, <2>4, <3>1, <3>2 DEF SpentOK
    <3>4. g.outer - 1 = f.outer /\ InRound([g EXCEPT !.wire = "none"]) = 0
      BY <1>1 DEF InRound, Frames
    <3>5. f.outer * Round \in Nat
      BY <1>1 DEF Frames
    <3> HIDE DEF f, g
    <3> QED
      BY <2>2, <3>3, <3>4, <3>5
  <2> HIDE DEF g
  <2> QED
    BY <1>2, <2>1, <2>2, <2>5, BackoffOK
<1>5. CASE GiveUp(c, e)
  BY <1>5, FinishOK DEF GiveUp
<1> QED
  BY <1>3, <1>4, <1>5 DEF AttemptFails

LEMMA AnswerOK ==
  ASSUME Assumptions, IInv, NEW c \in Callers, NEW w \in Wires \ {"none"},
         NEW tok \in Tokens \cup {None}, call[c].wire = "sent",
         call[c].phase = "fetch" /\ w = "ok" => tok \in Tokens,
         Answer(c, w, tok)
  PROVE  FramesOK(c)
<1> DEFINE f == call[c]
           g == [f EXCEPT !.wire = w, !.tok = tok]
<1>1. f \in Frames /\ FrameOK(f) /\ SpentOK(f)
  BY DEF IInv, TypeOK, CallInv
<1>2. g \in Frames /\ g.sent = call[c].sent
  BY <1>1 DEF Frames
<1>3. call' = [call EXCEPT ![c] = g]
  BY <1>1 DEF Answer, IInv, TypeOK, Frames
<1>4. FrameOK(g)
  BY <1>1 DEF FrameOK, Frames, Idle, Web
<1>5. SpentOK(g)
  BY <1>1 DEF SpentOK, InRound, Frames
<1> HIDE DEF g
<1> QED
  BY <1>2, <1>3, <1>4, <1>5, OneFrame
----------------------------------------------------------------------------
(* What one step leaves in order, beside the history variables.            *)

ClientOK ==
  /\ live \in Tokens
  /\ secret \in Passwords
  /\ authorized \in BOOLEAN
  /\ password \in Passwords \cup {None}
  /\ session \in {"none", "own", "shared", "closed"}
  /\ token \in Tokens

StepOK ==
  /\ ClientOK'
  /\ CallInv'
  /\ call' \in [Callers -> Frames]
  /\ result' \in [Callers -> Results]
  /\ call' = call \/ \E c \in Callers : CountStep(c)

LEMMA CallerStepOK ==
  ASSUME Assumptions, IInv, NEW c \in Callers, CallerStep(c)
  PROVE  StepOK
<1> DEFINE f == call[c]
<1> USE DEF Assumptions
<1>1. /\ f \in Frames /\ FrameOK(f) /\ SpentOK(f) /\ ClientOK
      /\ 1 \in 1..MaxAttempts
  BY DEF IInv, TypeOK, CallInv, ClientOK
<1>2. f.wire # "none" => f.phase # "idle"
  BY <1>1 DEF FrameOK, Idle
<1>3. ASSUME FramesOK(c), result' \in [Callers -> Results],
             UNCHANGED <<chargerVars, session>>,
             password' \in Passwords \cup {None}, token' \in Tokens
      PROVE  StepOK
  BY <1>1, <1>3 DEF StepOK, FramesOK, ClientOK, chargerVars
<1>4. password \in Passwords \cup {None} /\ token \in Tokens
  BY <1>1 DEF ClientOK
<1>5. CASE Resend(c)
  <2>1. f.phase \in {"direct", "again"}
    BY <1>1, <1>5 DEF Resend, Busy, FrameOK, Web, Frames, Phases
  <2>2. f.sent + 1 <= (f.outer - 1) * Round + InRound([f EXCEPT !.wire = "sent"])
    BY <1>1, <1>5, <2>1 DEF SpentOK, InRound, Frames, Resend, Round
  <2>3. Attempt(c, f, token)
    BY <1>5 DEF Resend
  <2>4. FramesOK(c) /\ result' \in [Callers -> Results]
    BY <1>1, <1>4, <2>1, <2>2, <2>3, AttemptOK
  <2> QED
    BY <1>3, <1>4, <1>5, <2>4 DEF Resend, clientVars
<1>6. CASE ReceiveOk(c) \/ Refused(c) \/ Rejected(c)
  <2>1. FramesOK(c) /\ result' \in [Callers -> Results]
    BY <1>6, FinishOK DEF ReceiveOk, Refused, Rejected, Results
  <2> QED
    BY <1>3, <1>4, <1>6, <2>1 DEF ReceiveOk, Refused, Rejected, clientVars
<1>7. CASE RateLimited(c) \/ Lose(c)
  <2>1. FramesOK(c) /\ result' \in [Callers -> Results]
    BY <1>7, AttemptFailsOK DEF RateLimited, Lose, Results
  <2> QED
    BY <1>3, <1>4, <1>7, <2>1 DEF RateLimited, Lose, clientVars
<1>8. CASE Refresh(c)
  <2>1. CASE password = None
    BY <1>3, <1>4, <1>8, <2>1, FinishOK DEF Refresh, Results, clientVars
  <2>2. CASE password # None
    <3>1. f.sent + 1 <= (f.outer - 1) * Round + 2
      BY <1>1, <1>8 DEF SpentOK, InRound, Frames, Refresh, MayRefresh, Round
    <3>3. AskWeb(c, f, "login", password) /\ password \in Passwords
      BY <1>4, <1>8, <2>2 DEF Refresh
    <3>2. FramesOK(c) /\ result' \in [Callers -> Results]
      BY <3>1, <3>3, AskWebOK
    <3> QED
      BY <1>3, <1>4, <1>8, <3>2 DEF Refresh, clientVars
  <2> QED
    BY <2>1, <2>2
<1>9. CASE LoggedIn(c)
  <2>1. f.sent + 1 <= (f.outer - 1) * Round + (2 + LoginBudget)
    BY <1>1, <1>9 DEF SpentOK, InRound, Frames, LoggedIn, FrameOK, Web, WebBudget, Round
  <2>4. AskWeb(c, call[c], "fetch", None)
    BY <1>9 DEF LoggedIn
  <2>2. FramesOK(c) /\ result' \in [Callers -> Results]
    BY <2>1, <2>4, AskWebOK
  <2>3. password' \in Passwords
    BY <1>1, <1>9 DEF LoggedIn, FrameOK
  <2> QED
    BY <1>3, <1>4, <1>9, <2>2, <2>3 DEF LoggedIn, clientVars
<1>10. CASE Refreshed(c)
  <2> DEFINE g == [f EXCEPT !.phase = "again", !.inner = 1, !.web = 0]
  <2>1. g \in Frames /\ g.phase = "again" /\ g.sent = f.sent
    <3>1. "again" \in Phases
      BY DEF Phases
    <3> QED
      BY <1>1, <3>1 DEF Frames
  <2>2. g.sent + 1 <= (g.outer - 1) * Round + InRound([g EXCEPT !.wire = "sent"])
    BY <1>1, <1>10
    DEF SpentOK, InRound, Frames, Refreshed, FrameOK, Web, WebBudget, Round
  <2>3. Attempt(c, g, f.tok) /\ f.tok \in Tokens
    BY <1>1, <1>10 DEF Refreshed, FrameOK
  <2>4. FramesOK(c) /\ result' \in [Callers -> Results]
    <3> HIDE DEF g
    <3> QED BY <2>1, <2>2, <2>3, AttemptOK
  <2> QED
    BY <1>3, <1>4, <1>10, <2>3, <2>4 DEF Refreshed
<1>11. CASE WebRaises(c)
  <2>1. f.wire # "none"
    BY <1>1, <1>11 DEF WebRaises, FrameOK
  <2>2. FramesOK(c) /\ result' \in [Callers -> Results]
    <3>1. ASSUME NEW e \in {"ConnectionError", "RateLimitError"}, AttemptFails(c, e)
          PROVE  FramesOK(c) /\ result' \in [Callers -> Results]
      BY <2>1, <3>1, AttemptFailsOK DEF Results
    <3>2. ASSUME NEW e \in {"Error", "RuntimeError", "AuthenticationError"}, Finish(c, e)
          PROVE  FramesOK(c) /\ result' \in [Callers -> Results]
      BY <3>2, FinishOK DEF Results
    <3> QED
      BY <1>11, <3>1, <3>2 DEF WebRaises
  <2> QED
    BY <1>3, <1>4, <1>11, <2>2 DEF WebRaises, clientVars
<1> QED
  BY <1>5, <1>6, <1>7, <1>8, <1>9, <1>10, <1>11 DEF CallerStep

LEMMA WebRepeatsOK ==
  ASSUME Assumptions, IInv, NEW c \in Callers, WebRepeats(c)
  PROVE  StepOK
<1> DEFINE f == call[c]
           g == [f EXCEPT !.wire = "sent", !.tok = None, !.web = @ + 1, !.sent = @ + 1]
<1>1. f \in Frames /\ FrameOK(f) /\ SpentOK(f) /\ ClientOK
  BY DEF IInv, TypeOK, CallInv, ClientOK
<1>2. g \in Frames /\ g.sent = f.sent + 1
  <2>1. f.sent + 1 \in Nat /\ f.web + 1 \in Nat /\ "sent" \in Wires
    BY <1>1 DEF Frames, Wires
  <2> QED
    BY <1>1, <2>1 DEF Frames
<1>3. FrameOK(g)
  BY <1>1 DEF FrameOK, Frames, WebRepeats, Web, WebBudget, Assumptions
<1>4. SpentOK(g)
  <2>1. f.sent \in Nat /\ f.web \in Nat /\ (f.outer - 1) * Round \in Nat
    BY <1>1 DEF Frames, Round, Assumptions
  <2>2. InRound(g) = InRound(f) + 1 /\ InRound(f) \in Nat
    BY <1>1, <2>1 DEF InRound, WebRepeats, Web, Frames, Assumptions
  <2>3. g.outer = f.outer
    BY <1>1 DEF Frames
  <2> HIDE DEF f, g
  <2> QED
    BY <1>1, <1>2, <2>1, <2>2, <2>3 DEF SpentOK
<1>5. call' = [call EXCEPT ![c] = g]
  BY DEF WebRepeats
<1>6. FramesOK(c)
  <2> HIDE DEF g
  <2> QED BY <1>2, <1>3, <1>4, <1>5, OneFrame
<1> QED
  BY <1>1, <1>6
  DEF StepOK, FramesOK, WebRepeats, ClientOK, chargerVars, clientVars, IInv, TypeOK

LEMMA CallOK ==
  ASSUME Assumptions, IInv, NEW c \in Callers, NEW op \in Ops, Call(c, op)
  PROVE  StepOK
<1> DEFINE g == [Idle EXCEPT !.op = op, !.phase = "direct"]
<1>1. g \in Frames /\ g.phase = "direct" /\ g.sent = 0
  BY IdleOK DEF Frames, Phases, Idle
<1>2. g.sent = call[c].sent
  BY <1>1 DEF IInv, CallInv, FrameOK, Call, Busy, Idle
<1>3. g.sent + 1 <= (g.outer - 1) * Round + InRound([g EXCEPT !.wire = "sent"])
  <2>1. (1 - 1) * Round = 0
    BY DEF Round, Assumptions
  <2> QED
    BY <2>1 DEF InRound, Idle
<1>4. Attempt(c, g, token) /\ token \in Tokens
  BY DEF Call, IInv, TypeOK
<1>5. FramesOK(c) /\ result' \in [Callers -> Results]
  <2> HIDE DEF g
  <2> QED BY <1>1, <1>2, <1>3, <1>4, AttemptOK
<1> QED
  BY <1>5 DEF StepOK, FramesOK, Call, ClientOK, chargerVars, IInv, TypeOK

LEMMA ChargerStepOK ==
  ASSUME Assumptions, IInv, ChargerStep
  PROVE  StepOK
<1>1. /\ ClientOK /\ CallInv /\ result \in [Callers -> Results]
      /\ call \in [Callers -> Frames]
  BY DEF IInv, TypeOK, ClientOK
<1>2. \A c \in Callers : call[c].tok \in Tokens \cup {None}
  BY <1>1 DEF Frames
<1>3. ASSUME NEW c \in Callers, HandleLocal(c)
      PROVE  StepOK
  <2>1. \E w \in Wires \ {"none"} : Answer(c, w, call[c].tok)
    BY <1>3 DEF HandleLocal, Wires
  <2>2. FramesOK(c)
    BY <1>2, <1>3, <2>1, AnswerOK DEF HandleLocal, Local
  <2> QED
    BY <1>1, <1>3, <2>2 DEF StepOK, FramesOK, HandleLocal, ClientOK, clientVars
<1>4. ASSUME NEW c \in Callers, HandleWeb(c)
      PROVE  StepOK
  <2>1. \/ Answer(c, "ok", live)
        \/ call[c].phase = "login" /\ Answer(c, "ok", None)
        \/ Answer(c, "unauthorized", None)
    BY <1>4 DEF HandleWeb, Web
  <2>2. FramesOK(c)
    BY <1>1, <1>4, <2>1, AnswerOK DEF HandleWeb, Wires, ClientOK
  <2> QED
    BY <1>1, <1>4, <2>2 DEF StepOK, FramesOK, HandleWeb, ClientOK, chargerVars, clientVars
<1>5. ASSUME NEW c \in Callers, Refuse(c)
      PROVE  StepOK
  <2>1. PICK w \in Refusals : Answer(c, w, call[c].tok)
    BY <1>5 DEF Refuse
  <2>2. w \in Wires \ {"none"} /\ w # "ok"
    BY DEF Assumptions, Wires
  <2>3. FramesOK(c)
    BY <1>2, <1>5, <2>1, <2>2, AnswerOK DEF Refuse
  <2> QED
    BY <1>1, <1>5, <2>3 DEF StepOK, FramesOK, Refuse, ClientOK, chargerVars, clientVars
<1>6. CASE Invalidate \/ ChangePassword
  <2>1. call' = call /\ result' = result
    BY <1>6 DEF Invalidate, ChangePassword
  <2>2. CallInv'
    BY <1>1, <2>1
    DEF CallInv, FrameOK, SpentOK, InRound, Round, Web, WebBudget
  <2>3. ClientOK'
    BY <1>1, <1>6 DEF Invalidate, ChangePassword, ClientOK, clientVars
  <2> QED
    BY <1>1, <2>1, <2>2, <2>3 DEF StepOK
<1> QED
  BY <1>3, <1>4, <1>5, <1>6 DEF ChargerStep

LEMMA OthersOK ==
  ASSUME Assumptions, IInv,
         Close \/ WebLogin \/ WebLogout \/ \E c \in Callers : Cancel(c)
  PROVE  StepOK
<1>1. /\ ClientOK /\ CallInv /\ result \in [Callers -> Results]
      /\ call \in [Callers -> Frames]
  BY DEF IInv, TypeOK, ClientOK
<1>2. CASE Close \/ WebLogin \/ WebLogout
  <2>1. call' = call /\ result' = result
    BY <1>2 DEF Close, WebLogin, WebLogout
  <2>2. CallInv'
    BY <1>1, <2>1
    DEF CallInv, FrameOK, SpentOK, InRound, Round, Web, WebBudget
  <2>3. ClientOK'
    BY <1>1, <1>2 DEF Close, WebLogin, WebLogout, ClientOK, chargerVars, clientVars
  <2> QED
    BY <1>1, <2>1, <2>2, <2>3 DEF StepOK
<1>3. ASSUME NEW c \in Callers, Cancel(c)
      PROVE  StepOK
  <2>1. FramesOK(c) /\ result' \in [Callers -> Results]
    BY <1>3, FinishOK DEF Cancel, Results
  <2> QED
    BY <1>1, <1>3, <2>1 DEF StepOK, FramesOK, Cancel, ClientOK, chargerVars, clientVars
<1> QED
  BY <1>2, <1>3

(* The history variables stay well typed.                                  *)
LEMMA ObserveOK ==
  ASSUME IInv, Observe
  PROVE  /\ invalidated' \in [Callers -> 0..2]
         /\ overwritten' \in [Callers -> BOOLEAN]
         /\ excused' \in [Callers -> BOOLEAN]
         /\ toggled' \in [Callers -> 0..2]
<1>1. \A n \in 0..2 : \A k \in {0, 1} : AtMostTwo(n + k) \in 0..2
  BY DEF AtMostTwo
<1>2. \A c \in Callers : invalidated[c] \in 0..2 /\ toggled[c] \in 0..2
  BY DEF IInv, TypeOK
<1>3. invalidated' \in [Callers -> 0..2]
  <2> DEFINE new(c) == CASE call'[c].phase = "idle" -> 0
                         [] Begins(c) -> IF token = live THEN 0 ELSE 1
                         [] OTHER -> AtMostTwo(invalidated[c] + IF live' # live THEN 1 ELSE 0)
  <2>1. \A c \in Callers : new(c) \in 0..2
    BY <1>1, <1>2
  <2>2. invalidated' = [c \in Callers |-> new(c)]
    BY DEF Observe
  <2> HIDE DEF new
  <2> QED
    BY <2>1, <2>2
<1>4. toggled' \in [Callers -> 0..2]
  <2> DEFINE more(c) == /\ call[c].wire = "sent" /\ call'[c].wire = "ok"
                        /\ Local(call[c]) /\ call[c].op = "authorize"
             new(c) == IF call'[c].phase = "idle" THEN 0
                       ELSE AtMostTwo(toggled[c] + IF more(c) THEN 1 ELSE 0)
  <2>1. \A c \in Callers : new(c) \in 0..2
    <3> HIDE DEF more
    <3> QED BY <1>1, <1>2
  <2>2. toggled' = [c \in Callers |-> new(c)]
    BY DEF Observe
  <2> HIDE DEF new
  <2> QED
    BY <2>1, <2>2
<1>5. overwritten' \in [Callers -> BOOLEAN] /\ excused' \in [Callers -> BOOLEAN]
  BY DEF Observe
<1> QED
  BY <1>3, <1>4, <1>5

----------------------------------------------------------------------------
(* The inductive invariant.                                                *)

LEMMA InitIInv == Init => IInv
<1> SUFFICES ASSUME Init PROVE IInv
  OBVIOUS
<1>1. Idle \in Frames /\ FrameOK(Idle) /\ SpentOK(Idle)
  BY AssumptionsHold, IdleOK
<1>2. session \in {"none", "own", "shared", "closed"}
  BY GivenAssumption DEF Init
<1>3. call \in [Callers -> Frames] /\ result \in [Callers -> Results]
  BY <1>1 DEF Init, Results
<1>4. /\ invalidated \in [Callers -> 0..2] /\ toggled \in [Callers -> 0..2]
      /\ overwritten \in [Callers -> BOOLEAN] /\ excused \in [Callers -> BOOLEAN]
  BY DEF Init
<1>5. TypeOK
  BY <1>2, <1>3, <1>4 DEF Init, TypeOK
<1> QED
  BY <1>1, <1>5 DEF IInv, CallInv, Init

LEMMA NextStepOK ==
  ASSUME IInv, Next
  PROVE  StepOK
<1>1. ASSUME NEW c \in Callers, NEW op \in Ops, Call(c, op)
      PROVE  StepOK
  BY <1>1, CallOK, AssumptionsHold
<1>2. ASSUME NEW c \in Callers, CallerStep(c)
      PROVE  StepOK
  BY <1>2, CallerStepOK, AssumptionsHold
<1>3. ASSUME NEW c \in Callers, WebRepeats(c)
      PROVE  StepOK
  BY <1>3, WebRepeatsOK, AssumptionsHold
<1>4. CASE ChargerStep
  BY <1>4, ChargerStepOK, AssumptionsHold
<1>5. CASE Close \/ WebLogin \/ WebLogout \/ \E c \in Callers : Cancel(c)
  BY <1>5, OthersOK, AssumptionsHold
<1> QED
  BY <1>1, <1>2, <1>3, <1>4, <1>5, Zenon DEF Next

LEMMA NextIInv == IInv /\ [Next]_vars => IInv'
<1> SUFFICES ASSUME IInv, [Next]_vars PROVE IInv'
  OBVIOUS
<1>1. CASE Next
  <2>1. StepOK /\ Observe
    BY <1>1, NextStepOK DEF Next
  <2>2. TypeOK'
    BY <2>1, ObserveOK DEF StepOK, ClientOK, TypeOK
  <2> QED
    BY <2>1, <2>2 DEF StepOK, IInv
<1>2. CASE UNCHANGED vars
  <2>1. UNCHANGED <<live, secret, authorized, password, session, token, call,
                    result, invalidated, overwritten, excused, toggled>>
    BY <1>2 DEF vars, chargerVars, clientVars, historyVars
  <2>2. TypeOK'
    BY <2>1 DEF IInv, TypeOK
  <2>3. CallInv'
    BY <2>1 DEF IInv, CallInv, FrameOK, SpentOK, InRound, Round, Web, WebBudget
  <2> QED
    BY <2>2, <2>3 DEF IInv
<1> QED
  BY <1>1, <1>2

THEOREM IInvHolds == Spec => []IInv
  BY InitIInv, NextIInv, PTL DEF Spec

(* Every variable keeps its type: no counter of attempts leaves its range. *)
THEOREM TypeCorrect == Spec => []TypeOK
<1>1. IInv => TypeOK
  BY DEF IInv
<1> QED
  BY <1>1, IInvHolds, PTL

----------------------------------------------------------------------------
(* The HTTP traffic of one call.                                           *)

CountsOK == \A c \in Callers : call[c].sent \in 0..CallBudget

LEMMA WithinBudget == IInv => CountsOK
<1> SUFFICES ASSUME IInv, NEW c \in Callers
             PROVE  call[c].sent \in 0..CallBudget
  BY DEF CountsOK
<1> DEFINE f == call[c]
<1>1. f \in Frames /\ SpentOK(f) /\ FrameOK(f) /\ Assumptions
  BY AssumptionsHold DEF IInv, TypeOK, CallInv
<1>2. /\ f.outer \in 1..MaxAttempts /\ f.inner \in 1..MaxAttempts
      /\ f.sent \in Nat /\ Round \in Nat /\ MaxAttempts \in Nat
  BY <1>1 DEF Frames, Round, Assumptions
<1>3. InRound(f) <= Round /\ InRound(f) \in Nat
  BY <1>1, <1>2 DEF InRound, Round, FrameOK, Web, WebBudget, Frames, Assumptions
<1>4. (f.outer - 1) * Round + Round <= MaxAttempts * Round
  <2>1. \A m, n, p \in Nat : m <= n => m * p <= n * p
    OBVIOUS
  <2>2. f.outer * Round = (f.outer - 1) * Round + Round
    BY <1>2
  <2> HIDE DEF f
  <2> QED
    BY <1>2, <2>1, <2>2
<1>5. (f.outer - 1) * Round \in Nat /\ MaxAttempts * Round \in Nat
  BY <1>2
<1>6. f.sent <= MaxAttempts * Round
  <2> HIDE DEF f
  <2> QED
    BY <1>1, <1>2, <1>3, <1>4, <1>5 DEF SpentOK
<1> QED
  BY <1>2, <1>6 DEF CallBudget, Round

(* PeblarApi.request() implements the bounded call: refreshes included, one *)
(* public call makes at most MaxAttempts * (1 + LoginBudget + FetchBudget   *)
(* + MaxAttempts) HTTP requests, whatever the charger and other tasks do.   *)
THEOREM LocalRequestIsBounded == Spec => ImplementsBoundedCall
<1> DEFINE count == [c \in Callers |-> call[c].sent]
<1>1. Init => Bounded!Init
  BY DEF Init, Bounded!Init, Idle
<1>2. IInv /\ CountsOK /\ CountsOK' /\ [Next]_vars => [Bounded!Next]_count
  <2> SUFFICES ASSUME IInv, CountsOK, CountsOK', [Next]_vars
               PROVE  Bounded!Next \/ UNCHANGED count
    OBVIOUS
  <2>1. CASE call' = call
    BY <2>1
  <2>2. ASSUME NEW c \in Callers, CountStep(c)
        PROVE  Bounded!Next \/ UNCHANGED count
    <3>1. PICK n \in {0, call[c].sent, call[c].sent + 1} :
            count' = [count EXCEPT ![c] = n]
      BY <2>2 DEF CountStep
    <3>2. call[c].sent \in Nat /\ count[c] = call[c].sent /\ count'[c] = n
      BY <3>1 DEF CountsOK
    <3>3. call'[c].sent = n /\ n \in 0..CallBudget
      BY <3>2 DEF CountsOK
    <3>4. CASE n = call[c].sent
      BY <3>1, <3>4
    <3>5. CASE n # call[c].sent /\ n = 0
      <4>1. Bounded!Return(c)
        BY <3>1, <3>2, <3>5 DEF Bounded!Return
      <4> QED
        BY <4>1 DEF Bounded!Next
    <3>6. CASE n = call[c].sent + 1 /\ call[c].sent = 0
      <4>1. Bounded!Start(c)
        BY <3>1, <3>2, <3>6 DEF Bounded!Start
      <4> QED
        BY <4>1 DEF Bounded!Next
    <3>7. CASE n = call[c].sent + 1 /\ call[c].sent # 0
      <4>1. CallBudget \in Nat
        BY AssumptionsHold DEF CallBudget, Assumptions
      <4>2. count[c] \in 1..(CallBudget - 1) /\ count' = [count EXCEPT ![c] = count[c] + 1]
        BY <3>1, <3>2, <3>3, <3>7, <4>1
      <4>3. Bounded!Spend(c)
        BY <4>2 DEF Bounded!Spend
      <4> QED
        BY <4>3 DEF Bounded!Next
    <3> QED
      BY <3>1, <3>4, <3>5, <3>6, <3>7
  <2>3. CASE Next
    BY <2>1, <2>2, <2>3, NextStepOK DEF StepOK
  <2>4. CASE UNCHANGED vars
    BY <2>1, <2>4 DEF vars
  <2> QED
    BY <2>3, <2>4
<1> QED
  BY <1>1, <1>2, IInvHolds, WithinBudget, PTL
  DEF ImplementsBoundedCall, Bounded!Spec, Spec

----------------------------------------------------------------------------
(* Recovery from an invalidated token.                                     *)

(* While nothing excuses the call, the refresh logs in with the right      *)
(* password.                                                               *)
PasswordKnown(c) ==
  ~excused[c] /\ Busy(c) =>
  /\ password = secret
  /\ call[c].phase = "login" =>
       call[c].pw = secret /\ call[c].wire # "unauthorized"

(* While the charger has dropped at most one token around the call, and no *)
(* task has put an older one back: before the drop the call is still on    *)
(* its first request with the live token, and after it a refreshed request *)
(* carries the live token.                                                 *)
Fresh(c) ==
  Busy(c) /\ ~overwritten[c] /\ invalidated[c] # 2 =>
  /\ invalidated[c] = 0 => call[c].phase = "direct"
  /\ call[c].phase = "fetch" /\ call[c].wire = "ok" => call[c].tok = live
  /\ invalidated[c] = 0 \/ call[c].phase = "again" =>
       /\ token = live
       /\ call[c].wire # "unauthorized"
       /\ call[c].wire # "none" => call[c].tok = live

(* What the tasks do, each to its own frames. *)
TaskAction(d) ==
  \/ \E op \in Ops : Call(d, op)
  \/ CallerStep(d) \/ WebRepeats(d) \/ Cancel(d)
  \/ HandleLocal(d) \/ HandleWeb(d) \/ Refuse(d)

LEMMA OwnFrames ==
  ASSUME IInv, NEW c \in Callers, NEW d \in Callers, c # d, TaskAction(d)
  PROVE  call'[c] = call[c]
<1>1. \A f : call' = [call EXCEPT ![d] = f] => call'[c] = call[c]
  BY DEF IInv, TypeOK
<1>2. \A r : Finish(d, r) => call'[c] = call[c]
  BY <1>1 DEF Finish
<1>3. \A f, tok : Attempt(d, f, tok) => call'[c] = call[c]
  BY <1>1, <1>2 DEF Attempt
<1>4. \A f, phase, pw : AskWeb(d, f, phase, pw) => call'[c] = call[c]
  BY <1>1 DEF AskWeb
<1>5. \A f : Backoff(d, f) => call'[c] = call[c]
  BY <1>1 DEF Backoff
<1>6. \A e : AttemptFails(d, e) => call'[c] = call[c]
  BY <1>2, <1>5 DEF AttemptFails, RetryInner, RetryOuter, GiveUp
<1>7. \A w, tok : Answer(d, w, tok) => call'[c] = call[c]
  BY DEF Answer, IInv, TypeOK
<1>8. CallerStep(d) => call'[c] = call[c]
  BY <1>2, <1>3, <1>4, <1>6
  DEF CallerStep, Resend, ReceiveOk, RateLimited, Refused, Lose, Rejected,
      Refresh, LoggedIn, Refreshed, WebRaises
<1>9. HandleLocal(d) \/ HandleWeb(d) \/ Refuse(d) => call'[c] = call[c]
  BY <1>7 DEF HandleLocal, HandleWeb, Refuse
<1>10. WebRepeats(d) => call'[c] = call[c]
  BY <1>1 DEF WebRepeats
<1>11. Cancel(d) \/ (\E op \in Ops : Call(d, op)) => call'[c] = call[c]
  BY <1>2, <1>3 DEF Cancel, Call
<1> QED
  BY <1>8, <1>9, <1>10, <1>11 DEF TaskAction

(* What a task's own step can make of its frame. *)
Began(f, g) ==
  f.phase = "idle" /\ g.phase = "direct" /\ g.wire = "sent" /\ g.tok = token
  /\ token' = token
Sent(f, g) ==
  Local(f) /\ g.phase = f.phase /\ g.wire = "sent" /\ g.tok = token
BackedOff(f, g) ==
  /\ f.phase # "idle" /\ g.wire = "none"
  /\ \/ g.phase = "direct"
     \/ f.phase = "again" /\ g.phase = "again"
AskedIn(f, g) ==
  \/ /\ f.phase = "direct" /\ f.wire = "unauthorized"
     /\ g.phase = "login" /\ g.wire = "sent" /\ g.pw = password
  \/ f.phase = "login" /\ g.phase = "fetch" /\ g.wire = "sent"
  \/ Web(f) /\ g.phase = f.phase /\ g.pw = f.pw /\ g.wire = "sent"
Repeated(f, g) ==
  /\ f.phase = "fetch" /\ f.wire = "ok" /\ token' = f.tok
  /\ g.phase = "again" /\ g.wire = "sent" /\ g.tok = f.tok
Answered(f, g) ==
  /\ f.phase # "idle" /\ g.phase = f.phase /\ g.wire # "none"
  /\ Local(f) => /\ f.wire = "sent" /\ g.tok = f.tok
                 /\ g.wire = "unauthorized" => f.tok # live
  /\ f.phase = "fetch" /\ g.wire = "ok" => g.tok = live
  /\ f.phase = "login" => /\ g.pw = f.pw
                          /\ g.wire = "unauthorized" => f.pw # secret

OwnShape(f, g) ==
  \/ g.phase = "idle"
  \/ Began(f, g) \/ Sent(f, g) \/ BackedOff(f, g) \/ AskedIn(f, g)
  \/ Repeated(f, g) \/ Answered(f, g)

LEMMA OwnStep ==
  ASSUME IInv, NEW c \in Callers, TaskAction(c)
  PROVE  OwnShape(call[c], call'[c])
<1> DEFINE f == call[c]
           g == call'[c]
<1>1. f \in Frames /\ FrameOK(f) /\ (Busy(c) <=> f.phase # "idle")
  BY DEF IInv, TypeOK, CallInv, Busy
<1>2. ASSUME NEW h, call' = [call EXCEPT ![c] = h]
      PROVE  g = h
  BY <1>2 DEF IInv, TypeOK
<1>3. ASSUME NEW r, Finish(c, r)
      PROVE  g.phase = "idle"
  <2>1. g = Idle
    BY <1>2, <1>3 DEF Finish
  <2> QED
    BY <2>1 DEF Idle
<1>4. ASSUME NEW h \in Frames, NEW tok, Attempt(c, h, tok)
      PROVE  \/ g.phase = "idle"
             \/ g.phase = h.phase /\ g.wire = "sent" /\ g.tok = tok
  <2>1. CASE session = "closed"
    BY <1>3, <1>4, <2>1 DEF Attempt
  <2>2. CASE session # "closed"
    <3> DEFINE k == [h EXCEPT !.wire = "sent", !.tok = tok, !.sent = @ + 1]
    <3>1. g = k
      BY <1>2, <1>4, <2>2 DEF Attempt
    <3>2. k.phase = h.phase /\ k.wire = "sent" /\ k.tok = tok
      BY DEF Frames
    <3> QED
      BY <3>1, <3>2
  <2> QED
    BY <2>1, <2>2
<1>5. ASSUME NEW phase, NEW pw, AskWeb(c, f, phase, pw)
      PROVE  g.phase = phase /\ g.wire = "sent" /\ g.pw = pw
  <2> DEFINE h == [f EXCEPT !.phase = phase, !.wire = "sent", !.tok = None,
                            !.pw = pw, !.web = 1, !.sent = @ + 1]
  <2>1. g = h
    BY <1>2, <1>5 DEF AskWeb
  <2>2. h.phase = phase /\ h.wire = "sent" /\ h.pw = pw
    BY <1>1 DEF Frames
  <2> QED
    BY <2>1, <2>2
<1>6. ASSUME NEW e, f.wire # "none", AttemptFails(c, e)
      PROVE  \/ g.phase = "idle"
             \/ f.phase = "again" /\ g.phase = "again" /\ g.wire = "none"
             \/ f.phase # "idle" /\ g.phase = "direct" /\ g.wire = "none"
  <2>1. f.phase # "idle"
    BY <1>1, <1>6 DEF FrameOK, Idle
  <2>2. CASE RetryInner(c)
    <3> DEFINE h == [[f EXCEPT !.inner = @ + 1] EXCEPT !.wire = "none", !.tok = None]
    <3>1. g = h /\ f.phase = "again"
      BY <1>2, <2>2 DEF RetryInner, Backoff
    <3>2. h.phase = f.phase /\ h.wire = "none"
      BY <1>1 DEF Frames
    <3> QED
      BY <3>1, <3>2
  <2>3. CASE RetryOuter(c)
    <3> DEFINE k == [f EXCEPT !.outer = @ + 1, !.inner = 1, !.phase = "direct",
                              !.pw = None, !.web = 0]
               h == [k EXCEPT !.wire = "none", !.tok = None]
    <3>1. g = h
      BY <1>2, <2>3 DEF RetryOuter, Backoff
    <3>2. h.phase = "direct" /\ h.wire = "none"
      BY <1>1 DEF Frames
    <3> QED
      BY <2>1, <3>1, <3>2
  <2>4. CASE GiveUp(c, e)
    BY <1>3, <2>4 DEF GiveUp
  <2> QED
    BY <1>6, <2>2, <2>3, <2>4 DEF AttemptFails
<1>7. \A w, tok : Answer(c, w, tok)
        => g.phase = f.phase /\ g.wire = w /\ g.tok = tok /\ g.pw = f.pw
  BY <1>1 DEF Answer, IInv, TypeOK, Frames
<1> SUFFICES \/ g.phase = "idle"
             \/ Began(f, g) \/ Sent(f, g) \/ BackedOff(f, g) \/ AskedIn(f, g)
             \/ Repeated(f, g) \/ Answered(f, g)
  BY DEF OwnShape
<1>8. CASE \E op \in Ops : Call(c, op)
  <2>1. PICK op \in Ops : Call(c, op)
    BY <1>8
  <2> DEFINE h == [Idle EXCEPT !.op = op, !.phase = "direct"]
  <2>2. h \in Frames /\ h.phase = "direct" /\ Attempt(c, h, token)
    BY <2>1, IdleOK, AssumptionsHold DEF Frames, Phases, Idle, Call
  <2>3. f.phase = "idle" /\ token' = token
    BY <1>1, <2>1 DEF Call
  <2> HIDE DEF h
  <2> QED
    BY <1>4, <2>2, <2>3 DEF Began
<1>9. CASE Resend(c)
  <2>1. Local(f)
    BY <1>1, <1>9 DEF Resend, FrameOK, Web, Local, Frames, Phases
  <2> QED
    BY <1>1, <1>4, <1>9, <2>1 DEF Resend, Sent
<1>10. CASE ReceiveOk(c) \/ Refused(c) \/ Rejected(c) \/ Cancel(c)
  BY <1>3, <1>10 DEF ReceiveOk, Refused, Rejected, Cancel
<1>11. CASE RateLimited(c) \/ Lose(c)
  <2>1. f.wire # "none"
    BY <1>11 DEF RateLimited, Lose
  <2>2. CASE AttemptFails(c, "RateLimitError")
    BY <1>6, <2>1, <2>2 DEF BackedOff
  <2>3. CASE AttemptFails(c, "ConnectionError")
    BY <1>6, <2>1, <2>3 DEF BackedOff
  <2> QED
    BY <1>11, <2>2, <2>3 DEF RateLimited, Lose
<1>12. CASE Refresh(c)
  BY <1>3, <1>5, <1>12 DEF Refresh, MayRefresh, AskedIn
<1>13. CASE LoggedIn(c)
  BY <1>5, <1>13 DEF LoggedIn, AskedIn
<1>14. CASE Refreshed(c)
  <2> DEFINE h == [f EXCEPT !.phase = "again", !.inner = 1, !.web = 0]
  <2>1. h \in Frames /\ h.phase = "again"
    <3>1. "again" \in Phases /\ 1 \in 1..MaxAttempts
      BY AssumptionsHold DEF Phases, Assumptions
    <3> QED
      BY <1>1, <3>1 DEF Frames
  <2>2. /\ Attempt(c, h, f.tok)
        /\ f.phase = "fetch" /\ f.wire = "ok" /\ token' = f.tok
    BY <1>14 DEF Refreshed
  <2> HIDE DEF h
  <2> QED
    BY <1>4, <2>1, <2>2 DEF Repeated
<1>15. CASE WebRaises(c)
  <2>1. f.wire # "none"
    BY <1>1, <1>15 DEF WebRaises, FrameOK
  <2>2. CASE \E e : AttemptFails(c, e)
    <3>1. PICK e : AttemptFails(c, e)
      BY <2>2
    <3> QED
      BY <1>6, <2>1, <3>1 DEF BackedOff
  <2>3. CASE \E e : Finish(c, e)
    <3>1. PICK e : Finish(c, e)
      BY <2>3
    <3> QED
      BY <1>3, <3>1
  <2> QED
    BY <1>15, <2>2, <2>3 DEF WebRaises
<1>16. CASE WebRepeats(c)
  <2> DEFINE h == [f EXCEPT !.wire = "sent", !.tok = None,
                            !.web = @ + 1, !.sent = @ + 1]
  <2>1. g = h /\ Web(f)
    BY <1>2, <1>16 DEF WebRepeats
  <2>2. h.phase = f.phase /\ h.pw = f.pw /\ h.wire = "sent"
    BY <1>1 DEF Frames
  <2> QED
    BY <2>1, <2>2 DEF AskedIn
<1>17. CASE HandleLocal(c)
  <2>1. Local(f) /\ f.wire = "sent"
    BY <1>17 DEF HandleLocal
  <2>2. \/ f.tok = live /\ Answer(c, "ok", f.tok)
        \/ f.tok # live /\ Answer(c, "unauthorized", f.tok)
    BY <1>17 DEF HandleLocal
  <2> QED
    BY <1>7, <2>1, <2>2 DEF Answered, Local
<1>18. CASE HandleWeb(c)
  <2>1. Web(f) /\ f.wire = "sent"
    BY <1>18 DEF HandleWeb
  <2>2. \/ f.phase = "fetch" /\ Answer(c, "ok", live)
        \/ f.phase = "login" /\ f.pw = secret /\ Answer(c, "ok", None)
        \/ f.phase = "login" /\ f.pw # secret /\ Answer(c, "unauthorized", None)
    BY <1>18, <2>1 DEF HandleWeb, Web
  <2> QED
    BY <1>7, <2>1, <2>2 DEF Answered, Local, Web
<1>19. CASE Refuse(c)
  <2>1. Local(f) /\ f.wire = "sent"
        /\ \E w \in {"limited", "refused"} : Answer(c, w, f.tok)
    BY <1>19, AssumptionsHold DEF Refuse, Assumptions
  <2> QED
    BY <1>7, <2>1 DEF Answered, Local
<1> QED
  BY <1>8, <1>9, <1>10, <1>11, <1>12, <1>13, <1>14, <1>15, <1>16, <1>17, <1>18, <1>19
  DEF TaskAction, CallerStep

(* What Observe records of a step during which the call goes on. *)
LEMMA Observed ==
  ASSUME IInv, NEW c \in Callers, Observe, call'[c].phase # "idle"
  PROVE  /\ ~Busy(c) => /\ invalidated'[c] = IF token = live THEN 0 ELSE 1
                        /\ ~excused'[c] => password' = secret'
         /\ Busy(c) =>
              /\ live' = live => invalidated'[c] = invalidated[c]
              /\ live' # live => invalidated'[c] = IF invalidated[c] = 0 THEN 1 ELSE 2
              /\ ~overwritten'[c] =>
                   /\ ~overwritten[c]
                   /\ token = live /\ live' = live => token' = live
              /\ ~excused'[c] => ~excused[c] /\ password' = secret'
<1>1. invalidated[c] \in 0..2 /\ (Busy(c) <=> call[c].phase # "idle")
  BY DEF IInv, TypeOK, Busy
<1>2. ~Busy(c) => Begins(c)
  BY DEF Begins
<1>3. Busy(c) => ~Begins(c)
  BY DEF Begins
<1>4. ~excused'[c] => password' = secret' /\ (Busy(c) => ~excused[c])
  BY DEF Observe
<1>5. Busy(c) /\ ~overwritten'[c] => /\ ~overwritten[c]
                                     /\ token = live /\ live' = live => token' = live
  BY DEF Observe
<1>6. Begins(c) => invalidated'[c] = IF token = live THEN 0 ELSE 1
  BY DEF Observe
<1>7. ~Begins(c) =>
        invalidated'[c] = AtMostTwo(invalidated[c] + IF live' # live THEN 1 ELSE 0)
  BY DEF Observe
<1>8. AtMostTwo(invalidated[c]) = invalidated[c]
      /\ AtMostTwo(invalidated[c] + 0) = invalidated[c]
      /\ AtMostTwo(invalidated[c] + 1) = IF invalidated[c] = 0 THEN 1 ELSE 2
  BY <1>1 DEF AtMostTwo
<1>9. /\ live' = live /\ ~Begins(c) => invalidated'[c] = invalidated[c]
      /\ live' # live /\ ~Begins(c) =>
           invalidated'[c] = IF invalidated[c] = 0 THEN 1 ELSE 2
  BY <1>7, <1>8
<1>10. CASE Busy(c)
  BY <1>3, <1>4, <1>5, <1>9, <1>10
<1>11. CASE ~Busy(c)
  BY <1>2, <1>4, <1>6, <1>11
<1> QED
  BY <1>10, <1>11

RecoveryInv == \A c \in Callers : PasswordKnown(c) /\ Fresh(c)

(* A task's own step keeps it on course. *)
LEMMA OwnStepRecovers ==
  ASSUME IInv, NEW c \in Callers, TaskAction(c), Observe, live' = live,
         secret' = secret, PasswordKnown(c), Fresh(c)
  PROVE  PasswordKnown(c)' /\ Fresh(c)'
<1> DEFINE f == call[c]
           g == call'[c]
<1>1. OwnShape(f, g)
  BY OwnStep
<1>2. CASE g.phase = "idle"
  BY <1>2 DEF PasswordKnown, Fresh, Busy
<1>3. CASE g.phase # "idle"
  <2>1. ~Busy(c) => /\ invalidated'[c] = IF token = live THEN 0 ELSE 1
                    /\ ~excused'[c] => password' = secret'
    BY <1>3, Observed
  <2>2. Busy(c) => /\ invalidated'[c] = invalidated[c]
                   /\ ~overwritten'[c] =>
                        ~overwritten[c] /\ (token = live => token' = live)
                   /\ ~excused'[c] => ~excused[c] /\ password' = secret'
    BY <1>3, Observed
  <2>3. (Busy(c) <=> f.phase # "idle") /\ (Web(f) <=> f.phase \in {"login", "fetch"})
        /\ (Local(f) <=> f.phase \in {"direct", "again"})
    BY DEF Busy, Web, Local
  <2>4. CASE Began(f, g)
    <3>1. ~Busy(c) /\ g.phase = "direct" /\ g.wire = "sent" /\ g.tok = token
          /\ token' = token
      BY <2>3, <2>4 DEF Began
    <3> QED
      BY <2>1, <3>1 DEF PasswordKnown, Fresh
  <2>5. CASE Sent(f, g)
    <3>1. Busy(c) /\ g.phase = f.phase /\ f.phase \in {"direct", "again"}
          /\ g.wire = "sent" /\ g.tok = token
      BY <2>3, <2>5 DEF Sent
    <3> QED
      BY <2>2, <3>1 DEF PasswordKnown, Fresh
  <2>6. CASE BackedOff(f, g)
    <3>1. Busy(c) /\ g.wire = "none"
          /\ (g.phase = "direct" \/ (f.phase = "again" /\ g.phase = "again"))
      BY <2>3, <2>6 DEF BackedOff
    <3> QED
      BY <2>2, <3>1 DEF PasswordKnown, Fresh
  <2>7. CASE AskedIn(f, g)
    <3>1. Busy(c) /\ g.wire = "sent" /\ g.phase \in {"login", "fetch"}
      BY <2>3, <2>7 DEF AskedIn
    <3>2. PasswordKnown(c)'
      BY <2>2, <2>3, <2>7, <3>1 DEF AskedIn, PasswordKnown
    <3>3. Fresh(c)'
      BY <2>2, <2>3, <2>7, <3>1 DEF AskedIn, Fresh
    <3> QED
      BY <3>2, <3>3
  <2>8. CASE Repeated(f, g)
    BY <2>2, <2>3, <2>8 DEF Repeated, PasswordKnown, Fresh
  <2>9. CASE Answered(f, g)
    <3>1. PasswordKnown(c)'
      BY <2>2, <2>3, <2>9 DEF Answered, PasswordKnown
    <3>2. Fresh(c)'
      BY <2>2, <2>3, <2>9 DEF Answered, Fresh
    <3> QED
      BY <3>1, <3>2
  <2> QED
    BY <1>1, <1>3, <2>4, <2>5, <2>6, <2>7, <2>8, <2>9 DEF OwnShape
<1> QED
  BY <1>2, <1>3

(* So does every step that leaves its frames alone, the charger's drop of  *)
(* a token among them.                                                     *)
LEMMA OtherStepRecovers ==
  ASSUME IInv, NEW c \in Callers, Observe, call'[c] = call[c],
         live' = live \/ token' = token, secret' = secret \/ password' = password,
         PasswordKnown(c), Fresh(c)
  PROVE  PasswordKnown(c)' /\ Fresh(c)'
<1>1. CASE ~Busy(c)
  BY <1>1 DEF Busy, PasswordKnown, Fresh
<1>2. CASE Busy(c)
  <2>1. Busy(c)' /\ call'[c].phase # "idle"
    BY <1>2 DEF Busy
  <2>2. /\ live' = live => invalidated'[c] = invalidated[c]
        /\ live' # live => invalidated'[c] = IF invalidated[c] = 0 THEN 1 ELSE 2
        /\ ~overwritten'[c] =>
             ~overwritten[c] /\ (token = live /\ live' = live => token' = live)
        /\ ~excused'[c] => ~excused[c] /\ password' = secret'
    BY <1>2, <2>1, Observed
  <2>3. PasswordKnown(c)'
    BY <1>2, <2>2 DEF PasswordKnown
  <2>4. CASE live' = live
    BY <1>2, <2>2, <2>3, <2>4 DEF Fresh
  <2>5. CASE live' # live
    BY <1>2, <2>2, <2>3, <2>5 DEF Fresh
  <2> QED
    BY <2>4, <2>5
<1> QED
  BY <1>1, <1>2

LEMMA InitRecovers == Init => RecoveryInv
<1> SUFFICES ASSUME Init, NEW c \in Callers
             PROVE  PasswordKnown(c) /\ Fresh(c)
  BY DEF RecoveryInv
<1>1. ~Busy(c)
  BY DEF Init, Busy, Idle
<1> QED
  BY <1>1 DEF PasswordKnown, Fresh

LEMMA NextRecovers == IInv /\ RecoveryInv /\ [Next]_vars => RecoveryInv'
<1> SUFFICES ASSUME IInv, RecoveryInv, [Next]_vars, NEW c \in Callers
             PROVE  PasswordKnown(c)' /\ Fresh(c)'
  BY DEF RecoveryInv
<1>1. PasswordKnown(c) /\ Fresh(c)
  BY DEF RecoveryInv
<1>2. CASE UNCHANGED vars
  BY <1>1, <1>2
  DEF vars, chargerVars, clientVars, historyVars, PasswordKnown, Fresh, Busy
<1>3. CASE Observe /\ \E d \in Callers : TaskAction(d)
  <2>1. PICK d \in Callers : TaskAction(d)
    BY <1>3
  <2>2. live' = live /\ secret' = secret
    BY <2>1
    DEF TaskAction, CallerStep, Call, Resend, ReceiveOk, RateLimited, Refused, Lose,
        Rejected, Refresh, LoggedIn, Refreshed, WebRaises, WebRepeats, Cancel,
        HandleLocal, HandleWeb, Refuse, chargerVars
  <2>3. CASE c = d
    BY <1>1, <1>3, <2>1, <2>2, <2>3, OwnStepRecovers
  <2>4. CASE c # d
    <3>1. call'[c] = call[c]
      BY <2>1, <2>4, OwnFrames
    <3> QED
      BY <1>1, <1>3, <2>2, <3>1, OtherStepRecovers
  <2> QED
    BY <2>3, <2>4
<1>4. CASE Observe /\ (Close \/ WebLogin \/ WebLogout \/ Invalidate \/ ChangePassword)
  <2>1. call' = call /\ token' = token /\ (secret' = secret \/ password' = password)
    BY <1>4
    DEF Close, WebLogin, WebLogout, Invalidate, ChangePassword, chargerVars, clientVars
  <2> QED
    BY <1>1, <1>4, <2>1, OtherStepRecovers
<1> QED
  BY <1>2, <1>3, <1>4 DEF Next, TaskAction, ChargerStep

(* How a call can end for want of a valid token. *)
LEMMA Rejection ==
  ASSUME IInv, CanRefresh = TRUE, [Next]_vars, NEW c \in Callers, TokenRejected(c)
  PROVE  /\ call[c].wire = "unauthorized"
         /\ \/ call[c].phase \in {"again", "login"}
            \/ password = None
<1>1. Busy(c) /\ call'[c] # call[c]
  BY DEF TokenRejected, Busy
<1>2. Observe /\ TaskAction(c)
  <2>1. call' # call
    BY <1>1
  <2>2. CASE UNCHANGED vars
    BY <2>1, <2>2 DEF vars
  <2>3. CASE Close \/ WebLogin \/ WebLogout \/ Invalidate \/ ChangePassword
    BY <2>1, <2>3 DEF Close, WebLogin, WebLogout, Invalidate, ChangePassword
  <2>4. CASE Observe /\ \E d \in Callers : TaskAction(d)
    BY <1>1, <2>4, OwnFrames
  <2> QED
    BY <2>2, <2>3, <2>4 DEF Next, TaskAction, ChargerStep
<1>3. ASSUME NEW r, r # "AuthenticationError", Finish(c, r)
      PROVE  FALSE
  BY <1>3 DEF Finish, TokenRejected, IInv, TypeOK
<1>4. ASSUME NEW h, NEW tok, Attempt(c, h, tok), h \in Frames, h.phase # "idle"
      PROVE  FALSE
  <2>1. CASE session = "closed"
    BY <1>3, <1>4, <2>1 DEF Attempt
  <2>2. CASE session # "closed"
    BY <1>4, <2>2 DEF Attempt, Frames, TokenRejected, IInv, TypeOK
  <2> QED
    BY <2>1, <2>2
<1>5. call[c] \in Frames
  BY DEF IInv, TypeOK
<1>6. ASSUME NEW phase \in {"login", "fetch"}, NEW pw, AskWeb(c, call[c], phase, pw)
      PROVE  FALSE
  BY <1>5, <1>6 DEF AskWeb, Frames, TokenRejected, IInv, TypeOK
<1>7. ASSUME NEW e, e # "AuthenticationError", AttemptFails(c, e)
      PROVE  FALSE
  <2>1. CASE RetryInner(c)
    BY <1>5, <2>1 DEF RetryInner, Backoff, Frames, TokenRejected, IInv, TypeOK
  <2>2. CASE RetryOuter(c)
    BY <1>5, <2>2 DEF RetryOuter, Backoff, Frames, TokenRejected, IInv, TypeOK
  <2>3. CASE GiveUp(c, e)
    BY <1>3, <1>7, <2>3 DEF GiveUp
  <2> QED
    BY <1>7, <2>1, <2>2, <2>3 DEF AttemptFails
<1>8. ASSUME NEW w, NEW tok, Answer(c, w, tok)
      PROVE  FALSE
  BY <1>5, <1>8 DEF Answer, Frames, TokenRejected, IInv, TypeOK
<1>9. ~\E op \in Ops : Call(c, op)
  BY <1>1 DEF Call
<1>10. ~Resend(c)
  BY <1>1, <1>4, <1>5 DEF Resend, Busy
<1>11. ~ReceiveOk(c) /\ ~Refused(c) /\ ~Cancel(c)
  BY <1>3 DEF ReceiveOk, Refused, Cancel
<1>12. ~RateLimited(c) /\ ~Lose(c)
  BY <1>7 DEF RateLimited, Lose
<1>13. ~LoggedIn(c)
  BY <1>6 DEF LoggedIn
<1>14. ~Refreshed(c)
  BY DEF Refreshed, TokenRejected
<1>15. ~WebRepeats(c)
  <2> DEFINE h == [call[c] EXCEPT !.wire = "sent", !.tok = None,
                                  !.web = @ + 1, !.sent = @ + 1]
  <2>1. ASSUME WebRepeats(c)
        PROVE  call'[c] = h /\ Web(call[c])
    BY <2>1 DEF WebRepeats, IInv, TypeOK
  <2>2. h.phase = call[c].phase
    BY <1>5 DEF Frames
  <2> QED
    BY <2>1, <2>2 DEF Web, TokenRejected
<1>16. ~HandleLocal(c) /\ ~HandleWeb(c) /\ ~Refuse(c)
  BY <1>8 DEF HandleLocal, HandleWeb, Refuse
<1>17. CASE Rejected(c)
  BY <1>17 DEF Rejected, MayRefresh, TokenRejected
<1>18. CASE Refresh(c)
  BY <1>6, <1>18 DEF Refresh
<1>19. CASE WebRaises(c)
  <2>1. CASE \E e \in {"ConnectionError", "RateLimitError"} : AttemptFails(c, e)
    BY <1>7, <2>1
  <2>2. CASE \E e \in {"Error", "RuntimeError"} : Finish(c, e)
    BY <1>3, <2>2
  <2> QED
    BY <1>19, <2>1, <2>2 DEF WebRaises, Web, TokenRejected
<1> QED
  BY <1>2, <1>9, <1>10, <1>11, <1>12, <1>13, <1>14, <1>15, <1>16, <1>17, <1>18, <1>19
  DEF TaskAction, CallerStep

LEMMA RejectedOnlyIf ==
  ASSUME CanRefresh = TRUE, IInv, RecoveryInv, [Next]_vars,
         NEW c \in Callers, TokenRejected(c)
  PROVE  excused[c] \/ invalidated[c] = 2 \/ overwritten[c]
<1>1. /\ call[c].wire = "unauthorized"
      /\ \/ call[c].phase \in {"again", "login"}
         \/ password = None
  BY Rejection
<1>2. Busy(c) /\ PasswordKnown(c) /\ Fresh(c)
  BY DEF TokenRejected, Busy, RecoveryInv
<1>3. secret # None
  BY AssumptionsHold DEF Assumptions, IInv, TypeOK
<1> QED
  BY <1>1, <1>2, <1>3 DEF PasswordKnown, Fresh

(* A call around which the charger drops its token once, while the web     *)
(* client knows the password, does not fail to authenticate, as long as no *)
(* other task puts an older token back: what token_refresh of request()    *)
(* promises, for any number of tasks and attempts.                         *)
THEOREM TokenLossIsSurvived ==
  ASSUME CanRefresh = TRUE
  PROVE  Spec => SharedInvalidationHandled
<1>1. IInv /\ RecoveryInv /\ [Next]_vars
        => [\A c \in Callers :
              TokenRejected(c) =>
                excused[c] \/ invalidated[c] = 2 \/ overwritten[c]]_vars
  BY RejectedOnlyIf
<1>2. Spec => []RecoveryInv
  BY InitRecovers, NextRecovers, IInvHolds, PTL DEF Spec
<1> QED
  BY <1>1, <1>2, IInvHolds, PTL DEF SharedInvalidationHandled, Spec

(* A task that has the client for itself cannot be overtaken.              *)
NotOvertaken == \A c \in Callers : overwritten[c] => invalidated[c] = 2

LEMMA NextNotOvertaken ==
  ASSUME NEW c, Callers = {c}
  PROVE  IInv /\ RecoveryInv /\ NotOvertaken /\ [Next]_vars => NotOvertaken'
<1> SUFFICES ASSUME IInv, RecoveryInv, NotOvertaken, [Next]_vars, overwritten'[c]
             PROVE  invalidated'[c] = 2
  BY DEF NotOvertaken
<1>1. c \in Callers /\ Fresh(c) /\ (overwritten[c] => invalidated[c] = 2)
  BY DEF RecoveryInv, NotOvertaken
<1>2. CASE UNCHANGED vars
  BY <1>1, <1>2 DEF vars, historyVars
<1>3. CASE Next
  <2>1. Observe
    BY <1>3 DEF Next
  <2>2. /\ Busy(c) /\ call'[c].phase # "idle"
        /\ \/ overwritten[c]
           \/ token = live /\ live' = live /\ token' # live
    BY <1>1, <2>1 DEF Observe
  <2>3. /\ live' = live => invalidated'[c] = invalidated[c]
        /\ live' # live => invalidated'[c] = IF invalidated[c] = 0 THEN 1 ELSE 2
    BY <1>1, <2>1, <2>2, Observed
  <2>4. CASE overwritten[c]
    BY <1>1, <2>3, <2>4
  <2>5. CASE ~overwritten[c] /\ token = live /\ live' = live /\ token' # live
    <3>1. Refreshed(c)
      BY <1>1, <1>3, <2>5
      DEF Next, CallerStep, ChargerStep, Call, Resend, ReceiveOk, RateLimited, Refused,
          Lose, Rejected, Refresh, LoggedIn, WebRaises, WebRepeats, Cancel, Close,
          WebLogin, WebLogout, HandleLocal, HandleWeb, Refuse, Invalidate,
          ChangePassword, clientVars
    <3>2. call[c].phase = "fetch" /\ call[c].wire = "ok" /\ call[c].tok # live
      BY <2>5, <3>1 DEF Refreshed
    <3> QED
      BY <1>1, <2>2, <2>3, <2>5, <3>2 DEF Fresh
  <2> QED
    BY <2>2, <2>4, <2>5
<1> QED
  BY <1>2, <1>3

(* For a task that has the client for itself the promise needs no such     *)
(* condition: one invalidation is always handled.                          *)
THEOREM TokenLossIsSurvivedAlone ==
  ASSUME CanRefresh = TRUE, NEW me, Callers = {me}
  PROVE  Spec => InvalidationHandled
<1>1. Init => NotOvertaken
  BY DEF Init, NotOvertaken
<1>2. Spec => []RecoveryInv
  BY InitRecovers, NextRecovers, IInvHolds, PTL DEF Spec
<1>3. IInv /\ RecoveryInv /\ NotOvertaken /\ [Next]_vars => NotOvertaken'
  BY NextNotOvertaken
<1>4. IInv /\ RecoveryInv /\ NotOvertaken /\ [Next]_vars
        => [\A c \in Callers :
              TokenRejected(c) => excused[c] \/ invalidated[c] = 2]_vars
  BY RejectedOnlyIf DEF NotOvertaken
<1> QED
  BY <1>1, <1>2, <1>3, <1>4, IInvHolds, PTL DEF InvalidationHandled, Spec

----------------------------------------------------------------------------
(* What the charger makes of one call that authorizes.                     *)

(* The charger has acted on the call's attempt and its answer is under way. *)
Landed(f) == Local(f) /\ f.wire = "ok"

FirstAttempt(f) == f.outer = 1 /\ f.inner = 1

(* An answer counts for one authorization at least, and for just one while *)
(* the call is at its first attempt, before and after a token refresh.     *)
Presented(c) ==
  LET f == call[c] IN
  /\ f.phase # "again" => f.inner = 1
  /\ f.phase = "idle" => toggled[c] = 0
  /\ f.op = "authorize" =>
       /\ Landed(f) => toggled[c] >= 1
       /\ FirstAttempt(f) => toggled[c] = IF Landed(f) THEN 1 ELSE 0

PresentedInv == \A c \in Callers : Presented(c)

(* What a task's own step can make of the attempts of its call.            *)
Landing(f, g) == Local(f) /\ f.wire = "sent" /\ g.wire = "ok"

Opens(f, g) ==
  f.phase = "idle" /\ g.phase = "direct" /\ FirstAttempt(g) /\ ~Landed(g)
Lands(f, g) ==
  /\ Landing(f, g) /\ g.phase = f.phase
  /\ g.op = f.op /\ g.outer = f.outer /\ g.inner = f.inner
Proceeds(f, g) ==
  /\ f.phase # "idle" /\ g.phase # "idle" /\ (f.phase = "again" => g.phase = "again")
  /\ ~Landed(f) /\ ~Landed(g) /\ ~Landing(f, g)
  /\ g.op = f.op /\ g.outer = f.outer
  /\ \/ g.inner = f.inner
     \/ f.phase = "fetch" /\ g.inner = 1
Retries(f, g) ==
  /\ f.phase # "idle" /\ g.phase # "idle"
  /\ g.wire = "none" /\ ~FirstAttempt(g) /\ g.op = f.op
  /\ g.phase # "again" => g.inner = 1

AttemptShape(c, f, g) ==
  \/ g.phase = "idle" /\ (result'[c] = "ok" => f.phase = "idle" \/ Landed(f))
  \/ Opens(f, g) \/ Lands(f, g) \/ Proceeds(f, g) \/ Retries(f, g)

LEMMA OwnAttempt ==
  ASSUME IInv, NEW c \in Callers, TaskAction(c)
  PROVE  AttemptShape(c, call[c], call'[c])
<1> DEFINE f == call[c]
           g == call'[c]
<1>1. /\ f \in Frames /\ FrameOK(f) /\ (Busy(c) <=> f.phase # "idle")
      /\ (Web(f) <=> f.phase \in {"login", "fetch"})
      /\ (Local(f) <=> f.phase \in {"direct", "again"})
      /\ f.outer \in 1..MaxAttempts /\ f.inner \in 1..MaxAttempts
      /\ MaxAttempts \in Nat \ {0} /\ 1 \in 1..MaxAttempts
  BY AssumptionsHold DEF IInv, TypeOK, CallInv, Busy, Web, Local, Frames, Assumptions
<1>2. ASSUME NEW h, call' = [call EXCEPT ![c] = h]
      PROVE  g = h
  BY <1>2 DEF IInv, TypeOK
<1>3. ASSUME NEW r, Finish(c, r)
      PROVE  g.phase = "idle" /\ result'[c] = r
  <2>1. g = Idle /\ result'[c] = r
    BY <1>2, <1>3 DEF Finish, IInv, TypeOK
  <2> QED
    BY <2>1 DEF Idle
<1>4. ASSUME NEW h \in Frames, NEW tok, Attempt(c, h, tok)
      PROVE  \/ g.phase = "idle" /\ result'[c] # "ok"
             \/ /\ g.phase = h.phase /\ g.wire = "sent" /\ g.op = h.op
                /\ g.outer = h.outer /\ g.inner = h.inner
  <2>1. CASE session = "closed"
    BY <1>3, <1>4, <2>1 DEF Attempt
  <2>2. CASE session # "closed"
    <3> DEFINE k == [h EXCEPT !.wire = "sent", !.tok = tok, !.sent = @ + 1]
    <3>1. g = k
      BY <1>2, <1>4, <2>2 DEF Attempt
    <3>2. /\ k.phase = h.phase /\ k.wire = "sent" /\ k.op = h.op
          /\ k.outer = h.outer /\ k.inner = h.inner
      BY DEF Frames
    <3> QED
      BY <3>1, <3>2
  <2> QED
    BY <2>1, <2>2
<1>5. ASSUME NEW e, e # "ok", f.wire # "none", AttemptFails(c, e)
      PROVE  (g.phase = "idle" /\ result'[c] # "ok") \/ Retries(f, g)
  <2>1. f.phase # "idle"
    BY <1>1, <1>5 DEF FrameOK, Idle
  <2>2. CASE RetryInner(c)
    <3> DEFINE h == [[f EXCEPT !.inner = @ + 1] EXCEPT !.wire = "none", !.tok = None]
    <3>1. g = h /\ f.phase = "again"
      BY <1>2, <2>2 DEF RetryInner, Backoff
    <3>2. h.phase = f.phase /\ h.wire = "none" /\ h.op = f.op /\ h.inner = f.inner + 1
      BY <1>1 DEF Frames
    <3>3. h.inner # 1
      BY <1>1, <3>2
    <3> HIDE DEF h
    <3> QED
      BY <2>1, <3>1, <3>2, <3>3 DEF Retries, FirstAttempt
  <2>3. CASE RetryOuter(c)
    <3> DEFINE k == [f EXCEPT !.outer = @ + 1, !.inner = 1, !.phase = "direct",
                              !.pw = None, !.web = 0]
               h == [k EXCEPT !.wire = "none", !.tok = None]
    <3>1. g = h
      BY <1>2, <2>3 DEF RetryOuter, Backoff
    <3>2. /\ h.phase = "direct" /\ h.wire = "none" /\ h.op = f.op
          /\ h.inner = 1 /\ h.outer = f.outer + 1
      BY <1>1 DEF Frames
    <3>3. h.outer # 1
      BY <1>1, <3>2
    <3> HIDE DEF h, k
    <3> QED
      BY <2>1, <3>1, <3>2, <3>3 DEF Retries, FirstAttempt
  <2>4. CASE GiveUp(c, e)
    BY <1>3, <1>5, <2>4 DEF GiveUp
  <2> QED
    BY <1>5, <2>2, <2>3, <2>4 DEF AttemptFails
<1>6. ASSUME NEW phase \in {"login", "fetch"}, NEW pw, AskWeb(c, f, phase, pw),
             f.phase \in {"direct", "login"}, f.wire # "ok" \/ f.phase = "login"
      PROVE  Proceeds(f, g)
  <2> DEFINE h == [f EXCEPT !.phase = phase, !.wire = "sent", !.tok = None,
                            !.pw = pw, !.web = 1, !.sent = @ + 1]
  <2>1. g = h
    BY <1>2, <1>6 DEF AskWeb
  <2>2. /\ h.phase = phase /\ h.wire = "sent" /\ h.op = f.op
        /\ h.outer = f.outer /\ h.inner = f.inner
    BY <1>1 DEF Frames
  <2> HIDE DEF h
  <2> QED
    BY <1>1, <1>6, <2>1, <2>2 DEF Proceeds, Landed, Landing, Local
<1>7. \A w, tok : Answer(c, w, tok) =>
        /\ g.phase = f.phase /\ g.wire = w /\ g.op = f.op
        /\ g.outer = f.outer /\ g.inner = f.inner
  BY <1>1 DEF Answer, IInv, TypeOK, Frames
<1> SUFFICES \/ g.phase = "idle" /\ (result'[c] = "ok" => f.phase = "idle" \/ Landed(f))
             \/ Opens(f, g) \/ Lands(f, g) \/ Proceeds(f, g) \/ Retries(f, g)
  BY DEF AttemptShape
<1>8. CASE \E op \in Ops : Call(c, op)
  <2>1. PICK op \in Ops : Call(c, op)
    BY <1>8
  <2> DEFINE h == [Idle EXCEPT !.op = op, !.phase = "direct"]
  <2>2. /\ h \in Frames /\ h.phase = "direct" /\ FirstAttempt(h)
        /\ Attempt(c, h, token)
    BY <2>1, IdleOK, AssumptionsHold DEF Frames, Phases, Idle, Call, FirstAttempt
  <2>3. f.phase = "idle"
    BY <1>1, <2>1 DEF Call
  <2> HIDE DEF h
  <2> QED
    BY <1>4, <2>2, <2>3 DEF Opens, FirstAttempt, Landed
<1>9. CASE Resend(c)
  <2>1. Local(f) /\ f.wire = "none" /\ Attempt(c, f, token)
    BY <1>1, <1>9 DEF Resend, FrameOK, Frames, Phases
  <2> QED
    BY <1>1, <1>4, <2>1 DEF Proceeds, Landed, Landing
<1>10. CASE ReceiveOk(c)
  BY <1>3, <1>10 DEF ReceiveOk, Landed
<1>11. CASE Refused(c) \/ Rejected(c) \/ Cancel(c)
  BY <1>3, <1>11 DEF Refused, Rejected, Cancel
<1>12. CASE RateLimited(c) \/ Lose(c)
  <2>1. f.wire # "none"
    BY <1>12 DEF RateLimited, Lose
  <2>2. \E e : e # "ok" /\ AttemptFails(c, e)
    <3>1. CASE AttemptFails(c, "RateLimitError")
      BY <3>1
    <3>2. CASE AttemptFails(c, "ConnectionError")
      BY <3>2
    <3> QED
      BY <1>12, <3>1, <3>2 DEF RateLimited, Lose
  <2> QED
    BY <1>5, <2>1, <2>2
<1>13. CASE Refresh(c)
  <2>1. f.phase = "direct" /\ f.wire # "ok"
    BY <1>13 DEF Refresh, MayRefresh
  <2>2. CASE password = None
    BY <1>3, <1>13, <2>2 DEF Refresh
  <2>3. CASE password # None
    <3>1. AskWeb(c, f, "login", password)
      BY <1>13, <2>3 DEF Refresh
    <3> QED
      BY <1>6, <2>1, <3>1
  <2> QED
    BY <2>2, <2>3
<1>14. CASE LoggedIn(c)
  <2>1. f.phase = "login" /\ AskWeb(c, f, "fetch", None)
    BY <1>14 DEF LoggedIn
  <2> QED
    BY <1>6, <2>1
<1>15. CASE Refreshed(c)
  <2> DEFINE h == [f EXCEPT !.phase = "again", !.inner = 1, !.web = 0]
  <2>1. /\ h \in Frames /\ h.phase = "again" /\ h.inner = 1
        /\ h.op = f.op /\ h.outer = f.outer
    <3>1. "again" \in Phases
      BY DEF Phases
    <3> QED
      BY <1>1, <3>1 DEF Frames
  <2>2. Attempt(c, h, f.tok) /\ f.phase = "fetch"
    BY <1>15 DEF Refreshed
  <2> HIDE DEF h
  <2>3. \/ g.phase = "idle" /\ result'[c] # "ok"
        \/ /\ g.phase = "again" /\ g.wire = "sent" /\ g.op = f.op
           /\ g.outer = f.outer /\ g.inner = 1
    BY <1>4, <2>1, <2>2
  <2> QED
    BY <1>1, <2>2, <2>3 DEF Proceeds, Landed, Landing
<1>16. CASE WebRaises(c)
  <2>1. f.wire # "none"
    BY <1>1, <1>16 DEF WebRaises, FrameOK
  <2>2. CASE \E e \in {"ConnectionError", "RateLimitError"} : AttemptFails(c, e)
    BY <1>5, <2>1, <2>2
  <2>3. CASE \E e \in {"Error", "RuntimeError", "AuthenticationError"} : Finish(c, e)
    BY <1>3, <2>3
  <2> QED
    BY <1>16, <2>2, <2>3 DEF WebRaises
<1>17. CASE WebRepeats(c)
  <2> DEFINE h == [f EXCEPT !.wire = "sent", !.tok = None,
                            !.web = @ + 1, !.sent = @ + 1]
  <2>1. g = h /\ Web(f)
    BY <1>2, <1>17 DEF WebRepeats
  <2>2. /\ h.phase = f.phase /\ h.wire = "sent" /\ h.op = f.op
        /\ h.outer = f.outer /\ h.inner = f.inner
    BY <1>1 DEF Frames
  <2> HIDE DEF h
  <2> QED
    BY <1>1, <2>1, <2>2 DEF Proceeds, Landed, Landing
<1>18. CASE HandleLocal(c)
  <2>1. Local(f) /\ f.wire = "sent"
    BY <1>18 DEF HandleLocal
  <2>2. Answer(c, "ok", f.tok) \/ Answer(c, "unauthorized", f.tok)
    BY <1>18 DEF HandleLocal
  <2> QED
    BY <1>1, <1>7, <2>1, <2>2 DEF Lands, Proceeds, Landed, Landing
<1>19. CASE HandleWeb(c)
  <2>1. Web(f) /\ \E w, tok : Answer(c, w, tok)
    BY <1>19 DEF HandleWeb
  <2> QED
    BY <1>1, <1>7, <2>1 DEF Proceeds, Landed, Landing, Local
<1>20. CASE Refuse(c)
  <2>1. /\ Local(f) /\ f.wire = "sent"
        /\ \E w \in {"limited", "refused"} : Answer(c, w, f.tok)
    BY <1>20, AssumptionsHold DEF Refuse, Assumptions
  <2> QED
    BY <1>1, <1>7, <2>1 DEF Proceeds, Landed, Landing
<1> QED
  BY <1>8, <1>9, <1>10, <1>11, <1>12, <1>13, <1>14, <1>15, <1>16, <1>17, <1>18,
     <1>19, <1>20
  DEF TaskAction, CallerStep

(* What Observe counts of a step during which the call goes on.            *)
LEMMA Toggled ==
  ASSUME IInv, NEW c \in Callers, Observe
  PROVE  /\ call'[c].phase = "idle" => toggled'[c] = 0
         /\ call'[c].phase # "idle" =>
              LET more == Landing(call[c], call'[c]) /\ call[c].op = "authorize"
              IN  /\ more => toggled'[c] = AtMostTwo(toggled[c] + 1)
                  /\ ~more => toggled'[c] = toggled[c]
<1>1. toggled[c] \in 0..2 /\ AtMostTwo(toggled[c] + 0) = toggled[c]
  BY DEF IInv, TypeOK, AtMostTwo
<1>2. toggled'[c] =
        IF call'[c].phase = "idle" THEN 0
        ELSE AtMostTwo(toggled[c] +
               IF /\ call[c].wire = "sent" /\ call'[c].wire = "ok"
                  /\ Local(call[c]) /\ call[c].op = "authorize" THEN 1 ELSE 0)
  BY DEF Observe
<1> QED
  BY <1>1, <1>2 DEF Landing

LEMMA OwnStepPresents ==
  ASSUME IInv, NEW c \in Callers, TaskAction(c), Observe, Presented(c)
  PROVE  Presented(c)'
<1> DEFINE f == call[c]
           g == call'[c]
<1>1. AttemptShape(c, f, g)
  BY OwnAttempt
<1>2. toggled[c] \in 0..2
  BY DEF IInv, TypeOK
<1>3. FrameOK(g) /\ (g.phase = "idle" => g = Idle)
  <2>1. CallInv'
    <3>1. IInv'
      <4>1. Next
        BY DEF Next, TaskAction, ChargerStep
      <4> QED
        BY <4>1, NextIInv
    <3> QED
      BY <3>1 DEF IInv
  <2>2. FrameOK(g)
    BY <2>1 DEF CallInv, FrameOK, Web, WebBudget
  <2> QED
    BY <2>2 DEF FrameOK
<1>4. CASE g.phase = "idle"
  <2>1. g.op = "none" /\ g.inner = 1 /\ toggled'[c] = 0
    BY <1>3, <1>4, Toggled DEF Idle
  <2> QED
    BY <1>4, <2>1 DEF Presented
<1>5. CASE g.phase # "idle" /\ ~Landing(f, g)
  <2>1. toggled'[c] = toggled[c]
    BY <1>5, Toggled
  <2>2. CASE Opens(f, g)
    BY <1>5, <2>1, <2>2 DEF Opens, Presented, FirstAttempt, Landed
  <2>3. CASE Proceeds(f, g)
    <3>1. g.inner = f.inner /\ g.outer = f.outer /\ g.op = f.op
      BY <2>3 DEF Proceeds, Presented
    <3> QED
      BY <1>5, <2>1, <2>3, <3>1 DEF Proceeds, Presented, FirstAttempt
  <2>4. CASE Retries(f, g)
    BY <1>5, <2>1, <2>4 DEF Retries, Presented, Landed
  <2> QED
    BY <1>1, <1>5, <2>2, <2>3, <2>4 DEF AttemptShape, Lands
<1>6. CASE g.phase # "idle" /\ Landing(f, g)
  <2>1. Lands(f, g)
    BY <1>1, <1>6 DEF AttemptShape, Opens, Proceeds, Retries, Landing, Local
  <2>2. f.op = "authorize" => toggled'[c] = AtMostTwo(toggled[c] + 1)
    BY <1>6, Toggled
  <2>3. /\ g.phase = f.phase /\ g.op = f.op /\ g.outer = f.outer
        /\ g.inner = f.inner /\ Landed(g) /\ ~Landed(f)
    BY <2>1 DEF Lands, Landing, Landed, Local
  <2> QED
    BY <1>2, <1>6, <2>2, <2>3 DEF Presented, FirstAttempt, AtMostTwo
<1> QED
  BY <1>4, <1>5, <1>6

LEMMA OtherStepPresents ==
  ASSUME IInv, NEW c \in Callers, Observe, call'[c] = call[c], Presented(c)
  PROVE  Presented(c)'
<1>1. ~Landing(call[c], call'[c])
  BY DEF Landing
<1>2. toggled'[c] = toggled[c]
  BY <1>1, Toggled DEF Presented
<1> QED
  BY <1>2 DEF Presented

(* Whose step it was. *)
LEMMA WhoseStep ==
  ASSUME IInv, [Next]_vars, NEW c \in Callers
  PROVE  \/ UNCHANGED vars
         \/ Observe /\ TaskAction(c)
         \/ Observe /\ call'[c] = call[c]
<1>1. CASE Observe /\ \E d \in Callers : TaskAction(d)
  BY <1>1, OwnFrames
<1>2. CASE Observe /\ (Close \/ WebLogin \/ WebLogout \/ Invalidate \/ ChangePassword)
  BY <1>2 DEF Close, WebLogin, WebLogout, Invalidate, ChangePassword
<1> QED
  BY <1>1, <1>2 DEF Next, TaskAction, ChargerStep

LEMMA InitPresents == Init => PresentedInv
<1> SUFFICES ASSUME Init, NEW c \in Callers PROVE Presented(c)
  BY DEF PresentedInv
<1>1. call[c] = Idle /\ toggled[c] = 0
  BY DEF Init
<1>2. call[c].op = "none" /\ call[c].inner = 1
  BY <1>1 DEF Idle
<1> QED
  BY <1>1, <1>2 DEF Presented

LEMMA NextPresents == IInv /\ PresentedInv /\ [Next]_vars => PresentedInv'
<1> SUFFICES ASSUME IInv, PresentedInv, [Next]_vars, NEW c \in Callers
             PROVE  Presented(c)'
  BY DEF PresentedInv
<1>1. Presented(c)
  BY DEF PresentedInv
<1>2. CASE UNCHANGED vars
  BY <1>1, <1>2 DEF vars, historyVars, Presented
<1>3. CASE Observe /\ TaskAction(c)
  BY <1>1, <1>3, OwnStepPresents
<1>4. CASE Observe /\ call'[c] = call[c]
  BY <1>1, <1>4, OtherStepPresents
<1> QED
  BY <1>2, <1>3, <1>4, WhoseStep

LEMMA ReturnsPresented ==
  ASSUME IInv, PresentedInv, [Next]_vars, NEW c \in Callers,
         Returns(c), call[c].op = "authorize"
  PROVE  /\ toggled[c] >= 1
         /\ call[c].outer = 1 /\ call[c].inner = 1 => toggled[c] = 1
<1>1. /\ call[c].phase # "idle" /\ call'[c].phase = "idle" /\ result'[c] = "ok"
  BY DEF Returns, Busy
<1>2. TaskAction(c)
  BY <1>1, WhoseStep DEF vars
<1>3. AttemptShape(c, call[c], call'[c])
  BY <1>2, OwnAttempt
<1>4. Landed(call[c])
  BY <1>1, <1>3 DEF AttemptShape, Opens, Lands, Proceeds, Retries
<1> QED
  BY <1>4 DEF PresentedInv, Presented, FirstAttempt

(* authorize_charge_session() presents its token: when the call returns    *)
(* the charger has toggled the session, and once only if no attempt had to *)
(* be repeated, a token refresh being no repeat. For any number of tasks   *)
(* and attempts, whatever is lost, refused or invalidated on the way.      *)
THEOREM TokenIsPresented == Spec => PresentedOnce
<1>1. IInv /\ PresentedInv /\ [Next]_vars
        => [\A c \in Callers :
              Returns(c) /\ call[c].op = "authorize" =>
                /\ toggled[c] >= 1
                /\ call[c].outer = 1 /\ call[c].inner = 1 => toggled[c] = 1]_vars
  BY ReturnsPresented
<1>2. Spec => []PresentedInv
  BY InitPresents, NextPresents, IInvHolds, PTL DEF Spec
<1> QED
  BY <1>1, <1>2, IInvHolds, PTL DEF PresentedOnce, Spec
=============================================================================
