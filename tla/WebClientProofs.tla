-------------------------- MODULE WebClientProofs --------------------------
(***************************************************************************)
(* Theorems about WebClient, for every set of callers, passwords and       *)
(* cookies and every number of attempts.                                   *)
(***************************************************************************)
EXTENDS WebClient, TLAPS

(* The shape of a caller's frames. *)
FrameOK(f) ==
  /\ f.phase = "idle" => f = Idle
  /\ f.phase # "idle" => f.op # "none"
  /\ f.op = "login" => f.phase = "direct" /\ f.pw # None

(* A re-login, and a login whose answer is on its way, carries a password  *)
(* the charger has accepted.                                               *)
PasswordOK(f) ==
  /\ f.phase = "relogin" => f.pw \in accepted
  /\ IsLogin(f) /\ f.wire = "ok" => f.pw \in accepted

(* The requests a call may have made by the point it has reached. *)
Allowance(f) ==
  (f.outer - 1) * (2 * MaxAttempts + 1)
  + (IF f.phase = "relogin" THEN f.inner
     ELSE IF f.phase = "again" THEN MaxAttempts + f.inner ELSE 0)
  + (IF f.wire = "none" THEN 0 ELSE 1)

SpentOK(f) == f.sent <= Allowance(f) /\ (f.phase # "idle" => f.sent > 0)

CallInv == \A c \in Callers : /\ FrameOK(call[c])
                              /\ PasswordOK(call[c])
                              /\ SpentOK(call[c])

IInv == TypeOK /\ password \in accepted \cup {None} /\ CallInv

Assumptions == /\ None \notin Passwords \cup Sessions
               /\ Ops \subseteq {"login", "logout", "other"}
               /\ Refusals \subseteq {"limited", "refused"}
               /\ MaxAttempts \in Nat \ {0}

----------------------------------------------------------------------------
(* One step changes the frames of one caller: if the new frame is in       *)
(* order, all are.                                                         *)

LEMMA OneFrame ==
  ASSUME IInv, accepted \subseteq accepted',
         NEW c \in Callers, NEW f \in Frames,
         call' = [call EXCEPT ![c] = f],
         FrameOK(f), PasswordOK(f)', SpentOK(f)
  PROVE  CallInv' /\ call' \in [Callers -> Frames]
<1>1. call' \in [Callers -> Frames]
  BY DEF IInv, TypeOK
<1>2. ASSUME NEW d \in Callers
      PROVE  FrameOK(call'[d]) /\ PasswordOK(call[d])' /\ SpentOK(call'[d])
  <2>1. CASE d = c
    <3>1. call'[d] = f
      BY <2>1 DEF IInv, TypeOK
    <3> QED
      BY <3>1 DEF PasswordOK, IsLogin
  <2>2. CASE d # c
    <3>1. call'[d] = call[d]
      BY <2>2 DEF IInv, TypeOK
    <3>2. FrameOK(call[d]) /\ PasswordOK(call[d]) /\ SpentOK(call[d])
      BY DEF IInv, CallInv
    <3> QED
      BY <3>1, <3>2 DEF PasswordOK, IsLogin
  <2> QED
    BY <2>1, <2>2
<1> QED
  BY <1>1, <1>2 DEF CallInv, FrameOK, PasswordOK, SpentOK, Allowance, IsLogin

LEMMA IdleOK ==
  ASSUME MaxAttempts \in Nat \ {0}
  PROVE  Idle \in Frames /\ FrameOK(Idle) /\ PasswordOK(Idle) /\ SpentOK(Idle)
<1>1. Idle \in Frames
  BY DEF Idle, Frames, Phases, Wires
<1>2. (1 - 1) * (2 * MaxAttempts + 1) = 0
  OBVIOUS
<1> QED
  BY <1>1, <1>2 DEF Idle, FrameOK, PasswordOK, SpentOK, Allowance, IsLogin

LEMMA FinishOK ==
  ASSUME IInv, accepted \subseteq accepted', MaxAttempts \in Nat \ {0},
         NEW c \in Callers, NEW r \in Results, Finish(c, r)
  PROVE  /\ CallInv' /\ call' \in [Callers -> Frames]
         /\ result' \in [Callers -> Results]
<1>1. PasswordOK(Idle)'
  BY DEF PasswordOK, Idle, IsLogin
<1>2. CallInv' /\ call' \in [Callers -> Frames]
  BY <1>1, IdleOK, OneFrame DEF Finish
<1> QED
  BY <1>2 DEF Finish, IInv, TypeOK

LEMMA AttemptOK ==
  ASSUME IInv, accepted \subseteq accepted', MaxAttempts \in Nat \ {0},
         NEW c \in Callers, NEW f \in Frames, NEW jar \in Sessions \cup {None},
         f.phase # "idle", FrameOK(f),
         f.phase = "relogin" => f.pw \in accepted,
         f.sent + 1 <= Allowance([f EXCEPT !.wire = "sent"]),
         Attempt(c, f, jar)
  PROVE  /\ CallInv' /\ call' \in [Callers -> Frames]
         /\ result' \in [Callers -> Results]
<1>1. CASE session = "closed"
  <2>1. Finish(c, "RuntimeError")
    BY <1>1 DEF Attempt
  <2> QED
    BY <2>1, FinishOK DEF Results
<1>2. CASE session # "closed"
  <2> DEFINE g == [f EXCEPT !.wire = "sent", !.sid = jar, !.sent = @ + 1]
  <2>1. g \in Frames
    <3>1. f.sent + 1 \in Nat
      BY DEF Frames
    <3> QED
      BY <3>1 DEF Frames, Wires
  <2>2. call' = [call EXCEPT ![c] = g] /\ result' = [result EXCEPT ![c] = "none"]
    BY <1>2 DEF Attempt
  <2>3. FrameOK(g) /\ PasswordOK(g)'
    BY DEF FrameOK, PasswordOK, Frames, IsLogin
  <2>4. SpentOK(g)
    BY DEF SpentOK, Allowance, Frames
  <2>5. CallInv' /\ call' \in [Callers -> Frames]
    <3> HIDE DEF g
    <3> QED BY <2>1, <2>2, <2>3, <2>4, OneFrame
  <2> QED
    BY <2>2, <2>5 DEF IInv, TypeOK, Results
<1> QED
  BY <1>1, <1>2

LEMMA BackoffOK ==
  ASSUME IInv, accepted \subseteq accepted', MaxAttempts \in Nat \ {0},
         NEW c \in Callers, NEW f \in Frames,
         f.phase # "idle", FrameOK(f), f.sent > 0,
         f.phase = "relogin" => f.pw \in accepted,
         f.sent <= Allowance([f EXCEPT !.wire = "none"]),
         Backoff(c, f)
  PROVE  /\ CallInv' /\ call' \in [Callers -> Frames]
         /\ result' \in [Callers -> Results]
<1> DEFINE g == [f EXCEPT !.wire = "none", !.sid = None]
<1>1. g \in Frames
  BY DEF Frames, Wires
<1>2. call' = [call EXCEPT ![c] = g] /\ result' = result
  BY DEF Backoff
<1>3. FrameOK(g) /\ PasswordOK(g)'
  BY DEF FrameOK, PasswordOK, Frames, IsLogin
<1>4. SpentOK(g)
  BY DEF SpentOK, Allowance, Frames
<1>5. CallInv' /\ call' \in [Callers -> Frames]
  <2> HIDE DEF g
  <2> QED BY <1>1, <1>2, <1>3, <1>4, OneFrame
<1> QED
  BY <1>2, <1>5 DEF IInv, TypeOK

LEMMA AttemptFailsOK ==
  ASSUME IInv, accepted \subseteq accepted', MaxAttempts \in Nat \ {0},
         None \notin Passwords \cup Sessions,
         NEW c \in Callers, NEW e \in Results, call[c].wire # "none",
         AttemptFails(c, e)
  PROVE  /\ CallInv' /\ call' \in [Callers -> Frames]
         /\ result' \in [Callers -> Results]
<1> DEFINE f == call[c]
<1>1. /\ f \in Frames /\ FrameOK(f) /\ SpentOK(f)
      /\ f.phase = "relogin" => f.pw \in accepted
  BY DEF IInv, TypeOK, CallInv, PasswordOK
<1>2. f.phase # "idle"
  BY <1>1 DEF FrameOK, Idle
<1>3. CASE RetryInner(c)
  <2> DEFINE g == [f EXCEPT !.inner = @ + 1]
  <2>1. g \in Frames /\ Backoff(c, g)
    BY <1>1, <1>3 DEF RetryInner, Frames
  <2>2. g.phase # "idle" /\ FrameOK(g) /\ g.sent > 0
    BY <1>1, <1>2 DEF FrameOK, SpentOK, Frames
  <2>3. g.phase = "relogin" => g.pw \in accepted
    BY <1>1 DEF Frames
  <2>4. g.sent <= Allowance([g EXCEPT !.wire = "none"])
    BY <1>1, <1>3 DEF SpentOK, Allowance, Frames, RetryInner, Nested
  <2> HIDE DEF g
  <2> QED
    BY <2>1, <2>2, <2>3, <2>4, BackoffOK
<1>4. CASE RetryOuter(c)
  <2> DEFINE g == [f EXCEPT !.outer = @ + 1, !.inner = 1, !.phase = "direct",
                            !.pw = IF f.op = "login" THEN @ ELSE None]
  <2>1. g \in Frames
    <3>1. f.outer + 1 \in 1..MaxAttempts /\ 1 \in 1..MaxAttempts
      BY <1>1, <1>4 DEF RetryOuter, Frames
    <3>2. (IF f.op = "login" THEN f.pw ELSE None) \in Passwords \cup {None}
      BY <1>1 DEF Frames
    <3> QED
      BY <1>1, <3>1, <3>2 DEF Frames, Phases
  <2>5. Backoff(c, g)
    BY <1>4 DEF RetryOuter
  <2>2. g.phase # "idle" /\ FrameOK(g) /\ g.sent > 0 /\ g.phase # "relogin"
    BY <1>1, <1>2 DEF FrameOK, SpentOK, Frames
  <2>3. g.sent <= Allowance([g EXCEPT !.wire = "none"])
    <3>1. f.outer * (2 * MaxAttempts + 1)
            = (f.outer - 1) * (2 * MaxAttempts + 1) + (2 * MaxAttempts + 1)
      BY <1>1 DEF Frames
    <3>2. f.sent <= (f.outer - 1) * (2 * MaxAttempts + 1) + (2 * MaxAttempts + 1)
      BY <1>1, <1>4 DEF SpentOK, Allowance, Frames
    <3>3. Allowance([g EXCEPT !.wire = "none"]) = f.outer * (2 * MaxAttempts + 1)
      BY <1>1 DEF Allowance, Frames
    <3> QED
      BY <3>1, <3>2, <3>3, <1>1 DEF Frames
  <2> HIDE DEF g
  <2> QED
    BY <2>1, <2>2, <2>3, <2>5, BackoffOK
<1>5. CASE GiveUp(c, e)
  BY <1>5, FinishOK DEF GiveUp
<1> QED
  BY <1>3, <1>4, <1>5 DEF AttemptFails
----------------------------------------------------------------------------
(* The history variables stay well typed, and accepted only grows.         *)

LEMMA ObserveOK ==
  ASSUME IInv, None \notin Passwords \cup Sessions, Observe
  PROVE  /\ accepted \subseteq accepted' /\ accepted' \subseteq Passwords
         /\ loggedOut' \in BOOLEAN
         /\ late' \in [Callers -> BOOLEAN]
         /\ disturbed' \in [Callers -> 0..2]
<1>1. accepted' \subseteq Passwords
  <2>1. ASSUME NEW c \in Callers, IsLogin(call[c])
        PROVE  call[c].pw \in Passwords
    BY <2>1 DEF IInv, TypeOK, CallInv, FrameOK, PasswordOK, IsLogin, Frames
  <2> QED
    BY <2>1 DEF Observe, IInv, TypeOK
<1>2. loggedOut' \in BOOLEAN /\ late' \in [Callers -> BOOLEAN]
  BY DEF Observe
<1>3. disturbed' \in [Callers -> 0..2]
  <2>1. \A n \in Nat : AtMostTwo(n) \in 0..2
    BY DEF AtMostTwo
  <2>2. \A c \in Callers : disturbed[c] \in Nat
    BY DEF IInv, TypeOK
  <2>3. ASSUME NEW c \in Callers
        PROVE  disturbed[c] + Disturbance(c) \in Nat
    <3>1. Disturbance(c) \in {0, 1, 2, 3, 4}
      BY DEF Disturbance
    <3>2. disturbed[c] \in Nat
      BY <2>2
    <3> QED BY <3>1, <3>2, SMT
  <2>4. \A c \in Callers : AtMostTwo(disturbed[c] + Disturbance(c)) \in 0..2
    BY <2>1, <2>3
  <2>5. 0 \in 0..2 /\ 1 \in 0..2 /\ 2 \in 0..2
    OBVIOUS
  <2> DEFINE new(c) == IF call'[c].phase = "idle" THEN 0
                       ELSE IF Begins(c)
                         THEN IF password # secret THEN 2
                              ELSE IF cookie \in sessions THEN 0 ELSE 1
                       ELSE AtMostTwo(disturbed[c] + Disturbance(c))
  <2>6. \A c \in Callers : new(c) \in 0..2
    BY <2>4, <2>5
  <2>7. disturbed' = [c \in Callers |-> new(c)]
    BY DEF Observe
  <2> HIDE DEF new
  <2> QED
    BY <2>6, <2>7
<1> QED
  BY <1>1, <1>2, <1>3 DEF Observe

----------------------------------------------------------------------------
(* What one step leaves in order, beside the history variables.            *)

ClientOK ==
  /\ secret \in Passwords
  /\ sessions \subseteq Sessions
  /\ session \in {"none", "own", "shared", "closed"}
  /\ password \in Passwords \cup {None}
  /\ cookie \in Sessions \cup {None}

StepOK ==
  /\ ClientOK'
  /\ password' \in accepted' \cup {None}
  /\ CallInv'
  /\ call' \in [Callers -> Frames]
  /\ result' \in [Callers -> Results]

LEMMA CallerStepOK ==
  ASSUME Assumptions, IInv, accepted \subseteq accepted',
         NEW c \in Callers, CallerStep(c)
  PROVE  StepOK
<1> DEFINE f == call[c]
<1> USE DEF Assumptions
<1>1. /\ f \in Frames /\ FrameOK(f) /\ PasswordOK(f) /\ SpentOK(f)
      /\ ClientOK /\ password \in accepted \cup {None}
  BY DEF IInv, TypeOK, CallInv, ClientOK
<1>2. f.wire # "none" => f.phase # "idle"
  BY <1>1 DEF FrameOK, Idle
<1>3. CASE Resend(c)
  <2>1. f.phase # "idle" /\ (f.phase = "relogin" => f.pw \in accepted)
    BY <1>1, <1>3 DEF Resend, PasswordOK, Busy
  <2>2. f.sent + 1 <= Allowance([f EXCEPT !.wire = "sent"])
    BY <1>1, <1>3 DEF SpentOK, Allowance, Frames, Resend
  <2>3. Attempt(c, f, cookie)
    BY <1>3 DEF Resend
  <2>4. CallInv' /\ call' \in [Callers -> Frames] /\ result' \in [Callers -> Results]
    BY <1>1, <2>1, <2>2, <2>3, AttemptOK DEF ClientOK
  <2> QED
    BY <1>1, <1>3, <2>4 DEF StepOK, Resend, ClientOK, clientVars, chargerVars
<1>4. CASE ReceiveOk(c)
  <2>1. CallInv' /\ call' \in [Callers -> Frames] /\ result' \in [Callers -> Results]
    BY <1>4, FinishOK DEF ReceiveOk, Results
  <2>2. f.op = "login" => f.pw \in accepted
    BY <1>1, <1>4 DEF PasswordOK, IsLogin, ReceiveOk
  <2>3. password' \in accepted' \cup {None} /\ password' \in Passwords \cup {None}
    BY <1>1, <1>4, <2>2 DEF ReceiveOk, Frames, ClientOK
  <2>4. cookie' \in Sessions \cup {None}
    BY <1>1, <1>4 DEF ReceiveOk, Frames, ClientOK
  <2> QED
    BY <1>1, <1>4, <2>1, <2>3, <2>4 DEF StepOK, ReceiveOk, ClientOK, chargerVars
<1>5. CASE ReloginDone(c)
  <2> DEFINE g == [f EXCEPT !.phase = "again", !.inner = 1, !.pw = None]
  <2>1. g \in Frames /\ g.phase = "again"
    <3>1. 1 \in 1..MaxAttempts /\ "again" \in Phases
      BY DEF Phases
    <3> QED BY <1>1, <3>1 DEF Frames
  <2>2. FrameOK(g)
    BY <1>1, <1>5 DEF FrameOK, Frames, ReloginDone
  <2>3. g.sent + 1 <= Allowance([g EXCEPT !.wire = "sent"])
    BY <1>1, <1>5 DEF SpentOK, Allowance, Frames, ReloginDone
  <2>4. Attempt(c, g, f.sid) /\ f.sid \in Sessions \cup {None}
    BY <1>1, <1>5 DEF ReloginDone, Frames
  <2>5. CallInv' /\ call' \in [Callers -> Frames] /\ result' \in [Callers -> Results]
    <3> HIDE DEF g
    <3> QED BY <2>1, <2>2, <2>3, <2>4, AttemptOK
  <2>6. f.pw \in accepted
    BY <1>1, <1>5 DEF PasswordOK, ReloginDone
  <2> QED
    BY <1>1, <1>5, <2>4, <2>5, <2>6
    DEF StepOK, ReloginDone, ClientOK, chargerVars, IInv, TypeOK
<1>6. CASE Relogin(c)
  <2> DEFINE g == [f EXCEPT !.phase = "relogin", !.inner = 1, !.pw = password]
  <2>1. g \in Frames /\ g.phase = "relogin" /\ g.pw \in accepted
    <3>1. 1 \in 1..MaxAttempts /\ "relogin" \in Phases
      BY DEF Phases
    <3>2. password \in Passwords /\ password \in accepted
      BY <1>1, <1>6 DEF Relogin, MayRelogin, ClientOK
    <3> QED BY <1>1, <3>1, <3>2 DEF Frames
  <2>2. FrameOK(g)
    BY <1>1, <1>6 DEF FrameOK, Frames, Relogin, MayRelogin
  <2>3. g.sent + 1 <= Allowance([g EXCEPT !.wire = "sent"])
    BY <1>1, <1>6 DEF SpentOK, Allowance, Frames, Relogin, MayRelogin
  <2>4. Attempt(c, g, cookie)
    BY <1>6 DEF Relogin
  <2>5. CallInv' /\ call' \in [Callers -> Frames] /\ result' \in [Callers -> Results]
    <3>1. cookie \in Sessions \cup {None}
      BY <1>1 DEF ClientOK
    <3> HIDE DEF g
    <3> QED BY <2>1, <2>2, <2>3, <2>4, <3>1, AttemptOK
  <2> QED
    BY <1>1, <1>6, <2>5 DEF StepOK, Relogin, ClientOK, chargerVars, clientVars
<1>7. CASE Rejected(c)
  <2>1. CallInv' /\ call' \in [Callers -> Frames] /\ result' \in [Callers -> Results]
    BY <1>7, FinishOK DEF Rejected, Results
  <2> QED
    BY <1>1, <1>7, <2>1 DEF StepOK, Rejected, ClientOK, chargerVars, clientVars
<1>8. CASE RateLimited(c)
  <2>1. CallInv' /\ call' \in [Callers -> Frames] /\ result' \in [Callers -> Results]
    BY <1>8, AttemptFailsOK DEF RateLimited, Results
  <2> QED
    BY <1>1, <1>8, <2>1 DEF StepOK, RateLimited, ClientOK, chargerVars, clientVars
<1>9. CASE Refused(c)
  <2>1. CallInv' /\ call' \in [Callers -> Frames] /\ result' \in [Callers -> Results]
    BY <1>9, FinishOK DEF Refused, Results
  <2> QED
    BY <1>1, <1>9, <2>1 DEF StepOK, Refused, ClientOK, chargerVars, clientVars
<1>10. CASE Lose(c)
  <2>1. CallInv' /\ call' \in [Callers -> Frames] /\ result' \in [Callers -> Results]
    BY <1>10, AttemptFailsOK DEF Lose, Results
  <2>2. cookie' \in Sessions \cup {None}
    BY <1>1, <1>10 DEF Lose, Frames, ClientOK
  <2> QED
    BY <1>1, <1>10, <2>1, <2>2 DEF StepOK, Lose, ClientOK, chargerVars
<1> QED
  BY <1>3, <1>4, <1>5, <1>6, <1>7, <1>8, <1>9, <1>10 DEF CallerStep

LEMMA CallOK ==
  ASSUME Assumptions, IInv, accepted \subseteq accepted',
         NEW c \in Callers, NEW op \in Ops, NEW pw \in Passwords \cup {None},
         Call(c, op, pw)
  PROVE  StepOK
<1> DEFINE g == [Idle EXCEPT !.op = op, !.pw = pw, !.phase = "direct"]
<1>1. g \in Frames /\ g.phase = "direct" /\ g.sent = 0 /\ g.op = op /\ g.pw = pw
  BY IdleOK DEF Frames, Phases, Idle, Assumptions
<1>2. FrameOK(g)
  BY <1>1 DEF FrameOK, Call, Assumptions
<1>3. g.sent + 1 <= Allowance([g EXCEPT !.wire = "sent"])
  <2>1. (1 - 1) * (2 * MaxAttempts + 1) = 0
    BY DEF Assumptions
  <2> QED
    BY <2>1 DEF Allowance, Idle
<1>4. Attempt(c, g, cookie) /\ cookie \in Sessions \cup {None}
  BY DEF Call, IInv, TypeOK
<1>5. CallInv' /\ call' \in [Callers -> Frames] /\ result' \in [Callers -> Results]
  <2> HIDE DEF g
  <2> QED BY <1>1, <1>2, <1>3, <1>4, AttemptOK DEF Assumptions
<1> QED
  BY <1>5 DEF StepOK, Call, ClientOK, chargerVars, IInv, TypeOK
LEMMA AnswerOK ==
  ASSUME Assumptions, IInv, accepted \subseteq accepted',
         NEW c \in Callers, NEW w \in Wires \ {"none"},
         NEW sid \in Sessions \cup {None},
         call[c].wire = "sent", Answer(c, w, sid),
         IsLogin(call[c]) /\ w = "ok" => call[c].pw \in accepted'
  PROVE  CallInv' /\ call' \in [Callers -> Frames]
<1> DEFINE f == call[c]
<1> PICK g : g = [f EXCEPT !.wire = w, !.sid = sid]
  OBVIOUS
<1>1. f \in Frames /\ FrameOK(f) /\ PasswordOK(f) /\ SpentOK(f)
  BY DEF IInv, TypeOK, CallInv
<1>2. g \in Frames
  BY <1>1 DEF Frames
<1>3. call' = [call EXCEPT ![c] = g]
  BY <1>1 DEF Answer, IInv, TypeOK, Frames
<1>4. FrameOK(g)
  BY <1>1 DEF FrameOK, Frames, Idle
<1>5. PasswordOK(g)'
  BY <1>1 DEF PasswordOK, Frames, IsLogin
<1>6. SpentOK(g)
  BY <1>1 DEF SpentOK, Allowance, Frames
<1> QED
  BY <1>2, <1>3, <1>4, <1>5, <1>6, OneFrame

LEMMA ChargerStepOK ==
  ASSUME Assumptions, IInv, Observe, accepted \subseteq accepted', ChargerStep
  PROVE  StepOK
<1>1. /\ ClientOK /\ password \in accepted \cup {None} /\ CallInv
      /\ call \in [Callers -> Frames] /\ result \in [Callers -> Results]
  BY DEF IInv, TypeOK, ClientOK
<1>2. \A c \in Callers : call[c].sid \in Sessions \cup {None}
  BY <1>1 DEF Frames
<1>3. ASSUME NEW c \in Callers, HandleLogin(c)
      PROVE  StepOK
  <2>1. ASSUME NEW s \in Sessions, Answer(c, "ok", s)
        PROVE  CallInv' /\ call' \in [Callers -> Frames]
    <3>1. call'[c].wire = "ok"
      BY <1>1, <2>1 DEF Answer, Frames
    <3>2. call[c].pw \in accepted'
      BY <1>3, <3>1 DEF Observe, HandleLogin
    <3> QED
      BY <1>3, <2>1, <3>2, AnswerOK DEF HandleLogin, Wires
  <2>2. ASSUME Answer(c, "unauthorized", call[c].sid)
        PROVE  CallInv' /\ call' \in [Callers -> Frames]
    BY <1>2, <1>3, <2>2, AnswerOK DEF HandleLogin, Wires
  <2>3. CallInv' /\ call' \in [Callers -> Frames] /\ sessions' \subseteq Sessions
    BY <1>1, <1>3, <2>1, <2>2 DEF HandleLogin, ClientOK
  <2> QED
    BY <1>1, <1>3, <2>3 DEF StepOK, HandleLogin, ClientOK, clientVars
<1>4. ASSUME NEW c \in Callers, HandleOther(c)
      PROVE  StepOK
  <2>1. \E w \in Wires \ {"none"} : Answer(c, w, call[c].sid)
    BY <1>4 DEF HandleOther, Wires
  <2>2. CallInv' /\ call' \in [Callers -> Frames]
    BY <1>2, <1>4, <2>1, AnswerOK DEF HandleOther
  <2>3. sessions' \subseteq Sessions
    BY <1>1, <1>4 DEF HandleOther, ClientOK
  <2> QED
    BY <1>1, <1>4, <2>2, <2>3 DEF StepOK, HandleOther, ClientOK, clientVars
<1>5. ASSUME NEW c \in Callers, Refuse(c)
      PROVE  StepOK
  <2>1. PICK w \in Refusals : Answer(c, w, call[c].sid)
    BY <1>5 DEF Refuse
  <2>2. w \in Wires \ {"none"} /\ w # "ok"
    BY DEF Assumptions, Wires
  <2>3. CallInv' /\ call' \in [Callers -> Frames]
    BY <1>2, <1>5, <2>1, <2>2, AnswerOK DEF Refuse
  <2> QED
    BY <1>1, <1>5, <2>3 DEF StepOK, Refuse, ClientOK, clientVars, chargerVars
<1>6. CASE Reboot \/ ChangePassword
  <2>1. UNCHANGED <<call, result, clientVars>>
    BY <1>6 DEF Reboot, ChangePassword
  <2>2. secret' \in Passwords /\ sessions' \subseteq Sessions
    BY <1>1, <1>6 DEF Reboot, ChangePassword, ClientOK
  <2>3. CallInv'
    BY <1>1, <2>1
    DEF CallInv, FrameOK, PasswordOK, SpentOK, Allowance, IsLogin
  <2> QED
    BY <1>1, <2>1, <2>2, <2>3 DEF StepOK, ClientOK, clientVars
<1> QED
  BY <1>3, <1>4, <1>5, <1>6 DEF ChargerStep

LEMMA CancelCloseOK ==
  ASSUME Assumptions, IInv, accepted \subseteq accepted',
         Close \/ \E c \in Callers : Cancel(c)
  PROVE  StepOK
<1>1. /\ ClientOK /\ password \in accepted \cup {None} /\ CallInv
      /\ call \in [Callers -> Frames] /\ result \in [Callers -> Results]
  BY DEF IInv, TypeOK, ClientOK
<1>2. CASE Close
  <2>1. CallInv'
    BY <1>1, <1>2
    DEF Close, CallInv, FrameOK, PasswordOK, SpentOK, Allowance, IsLogin
  <2> QED
    BY <1>1, <1>2, <2>1 DEF StepOK, Close, ClientOK, chargerVars
<1>3. ASSUME NEW c \in Callers, Cancel(c)
      PROVE  StepOK
  <2>1. CallInv' /\ call' \in [Callers -> Frames] /\ result' \in [Callers -> Results]
    BY <1>3, FinishOK DEF Cancel, Results, Assumptions
  <2> QED
    BY <1>1, <1>3, <2>1 DEF StepOK, Cancel, ClientOK, chargerVars, clientVars
<1> QED
  BY <1>2, <1>3

----------------------------------------------------------------------------
(* The inductive invariant.                                                *)

LEMMA AssumptionsHold == Assumptions
  BY NoneAssumption, OpsAssumption, RefusalsAssumption, AttemptsAssumption
  DEF Assumptions

LEMMA InitIInv == Init => IInv
<1> SUFFICES ASSUME Init PROVE IInv
  OBVIOUS
<1>1. Idle \in Frames /\ FrameOK(Idle) /\ PasswordOK(Idle) /\ SpentOK(Idle)
  BY AssumptionsHold, IdleOK DEF Assumptions
<1>2. TypeOK
  <2>1. session \in {"none", "own", "shared", "closed"}
    BY GivenAssumption DEF Init
  <2>2. disturbed \in [Callers -> 0..2] /\ late \in [Callers -> BOOLEAN]
    BY DEF Init
  <2>3. call \in [Callers -> Frames] /\ result \in [Callers -> Results]
    BY <1>1 DEF Init, Results
  <2> QED
    BY <2>1, <2>2, <2>3 DEF Init, TypeOK
<1>3. CallInv
  BY <1>1 DEF Init, CallInv
<1> QED
  BY <1>2, <1>3 DEF IInv, Init

LEMMA NextIInv == IInv /\ [Next]_vars => IInv'
<1> SUFFICES ASSUME IInv, [Next]_vars PROVE IInv'
  OBVIOUS
<1>1. CASE Next
  <2>1. /\ Observe /\ accepted \subseteq accepted' /\ accepted' \subseteq Passwords
        /\ loggedOut' \in BOOLEAN
        /\ late' \in [Callers -> BOOLEAN]
        /\ disturbed' \in [Callers -> 0..2]
    BY <1>1, ObserveOK, AssumptionsHold DEF Next, Assumptions
  <2>2. StepOK
    <3>1. ASSUME NEW c \in Callers, NEW op \in Ops,
                 NEW pw \in Passwords \cup {None}, Call(c, op, pw)
          PROVE  StepOK
      BY <2>1, <3>1, CallOK, AssumptionsHold
    <3>2. ASSUME NEW c \in Callers, CallerStep(c)
          PROVE  StepOK
      BY <2>1, <3>2, CallerStepOK, AssumptionsHold
    <3>3. CASE ChargerStep
      BY <2>1, <3>3, ChargerStepOK, AssumptionsHold
    <3>4. CASE Close \/ \E c \in Callers : Cancel(c)
      BY <2>1, <3>4, CancelCloseOK, AssumptionsHold
    <3> QED
      BY <1>1, <3>1, <3>2, <3>3, <3>4, Zenon DEF Next
  <2>3. TypeOK'
    BY <2>1, <2>2 DEF StepOK, ClientOK, TypeOK
  <2> QED
    BY <2>2, <2>3 DEF StepOK, IInv
<1>2. CASE UNCHANGED vars
  <2>1. UNCHANGED <<secret, sessions, session, password, cookie, call, result,
                    accepted, loggedOut, late, disturbed>>
    BY <1>2 DEF vars, chargerVars, clientVars, historyVars
  <2>2. TypeOK'
    BY <2>1 DEF IInv, TypeOK
  <2>3. CallInv'
    BY <2>1 DEF IInv, CallInv, FrameOK, PasswordOK, SpentOK, Allowance, IsLogin
  <2> QED
    BY <2>1, <2>2, <2>3 DEF IInv
<1> QED
  BY <1>1, <1>2

THEOREM IInvHolds == Spec => []IInv
  BY InitIInv, NextIInv, PTL DEF Spec

(* Every variable keeps its type.                                          *)
THEOREM TypeCorrect == Spec => []TypeOK
<1>1. IInv => TypeOK
  BY DEF IInv
<1> QED
  BY <1>1, IInvHolds, PTL

(* The stored password, and the one any re-login carries, has been         *)
(* accepted by the charger: request() never tries a password on its own    *)
(* that the charger has not accepted from a login() before.                *)
THEOREM AcceptedPasswordsOnly == Spec => []OnlyAcceptedPasswords
<1>1. IInv => OnlyAcceptedPasswords
  BY DEF IInv, CallInv, PasswordOK, OnlyAcceptedPasswords
<1> QED
  BY <1>1, IInvHolds, PTL
----------------------------------------------------------------------------
(* The HTTP traffic of one call.                                           *)

CountsOK == \A c \in Callers : call[c].sent \in 0..HttpBudget

LEMMA WithinBudget == IInv => CountsOK
<1> SUFFICES ASSUME IInv, NEW c \in Callers
             PROVE  call[c].sent \in 0..HttpBudget
  BY DEF CountsOK
<1> DEFINE f == call[c]
           k == 2 * MaxAttempts + 1
<1>1. f \in Frames /\ SpentOK(f) /\ MaxAttempts \in Nat \ {0}
  BY AttemptsAssumption DEF IInv, TypeOK, CallInv
<1>2. /\ f.outer \in 1..MaxAttempts /\ f.inner \in 1..MaxAttempts
      /\ f.sent \in Nat /\ k \in Nat
  BY <1>1 DEF Frames
<1>3. f.sent <= (f.outer - 1) * k + k
  BY <1>1, <1>2 DEF SpentOK, Allowance
<1>4. (f.outer - 1) * k + k <= MaxAttempts * k
  <2> HIDE DEF k, f
  <2>1. \A m, n, p \in Nat : m <= n => m * p <= n * p
    OBVIOUS
  <2>2. f.outer * k = (f.outer - 1) * k + k
    BY <1>2
  <2> QED
    BY <1>1, <1>2, <2>1, <2>2
<1>5. (f.outer - 1) * k \in Nat /\ MaxAttempts * k \in Nat
  BY <1>1, <1>2
<1> QED
  <2> HIDE DEF k, f
  <2>1. f.sent <= MaxAttempts * k
    BY <1>1, <1>2, <1>3, <1>4, <1>5
  <2> QED
    BY <1>2, <2>1 DEF HttpBudget, f, k

(* A step leaves every count alone, or adds one request to one caller's    *)
(* call, which takes an open session, or ends it.                          *)
Counts(c) ==
  {0, call[c].sent} \cup (IF session = "closed" THEN {} ELSE {call[c].sent + 1})

CountStep(c) ==
  \E n \in Counts(c) :
    [d \in Callers |-> call'[d].sent]
      = [[d \in Callers |-> call[d].sent] EXCEPT ![c] = n]

LEMMA FrameCounts ==
  ASSUME IInv, NEW c \in Callers, NEW f,
         call' = [call EXCEPT ![c] = f],
         f.sent \in Counts(c)
  PROVE  CountStep(c)
<1>1. \A d \in Callers : call'[d] = IF d = c THEN f ELSE call[d]
  BY DEF IInv, TypeOK
<1> DEFINE old == [d \in Callers |-> call[d].sent]
<1>2. [d \in Callers |-> call'[d].sent]
        = [d \in Callers |-> IF d = c THEN f.sent ELSE old[d]]
  <2>1. \A d \in Callers : call'[d].sent = IF d = c THEN f.sent ELSE old[d]
    BY <1>1
  <2> HIDE DEF old
  <2> QED
    BY <2>1
<1>3. [old EXCEPT ![c] = f.sent] = [d \in Callers |-> IF d = c THEN f.sent ELSE old[d]]
  OBVIOUS
<1> QED
  BY <1>2, <1>3 DEF CountStep

LEMMA FinishCounts ==
  ASSUME IInv, NEW c \in Callers, NEW r, Finish(c, r)
  PROVE  CountStep(c)
  BY FrameCounts DEF Finish, Idle, Counts

LEMMA AttemptCounts ==
  ASSUME IInv, NEW c \in Callers, NEW f \in Frames, NEW jar,
         f.sent = call[c].sent, Attempt(c, f, jar)
  PROVE  CountStep(c)
<1>1. CASE session = "closed"
  BY <1>1, FinishCounts DEF Attempt
<1>2. CASE session # "closed"
  <2> DEFINE g == [f EXCEPT !.wire = "sent", !.sid = jar, !.sent = @ + 1]
  <2>1. g.sent = call[c].sent + 1 /\ call' = [call EXCEPT ![c] = g]
    BY <1>2 DEF Attempt, Frames
  <2> HIDE DEF g
  <2> QED
    BY <1>2, <2>1, FrameCounts DEF Counts
<1> QED
  BY <1>1, <1>2

LEMMA BackoffCounts ==
  ASSUME IInv, NEW c \in Callers, NEW f \in Frames,
         f.sent = call[c].sent, Backoff(c, f)
  PROVE  CountStep(c)
<1> DEFINE g == [f EXCEPT !.wire = "none", !.sid = None]
<1>1. g.sent = call[c].sent /\ call' = [call EXCEPT ![c] = g]
  BY DEF Backoff, Frames
<1> HIDE DEF g
<1> QED
  BY <1>1, FrameCounts DEF Counts

LEMMA AnswerCounts ==
  ASSUME IInv, NEW c \in Callers, NEW w, NEW sid, Answer(c, w, sid)
  PROVE  CountStep(c)
<1> DEFINE g == [call[c] EXCEPT !.wire = w, !.sid = sid]
<1>1. call[c] \in Frames
  BY DEF IInv, TypeOK
<1>2. g.sent = call[c].sent /\ call' = [call EXCEPT ![c] = g]
  BY <1>1 DEF Answer, Frames, IInv, TypeOK
<1> HIDE DEF g
<1> QED
  BY <1>2, FrameCounts DEF Counts

LEMMA FailsCounts ==
  ASSUME IInv, NEW c \in Callers, NEW e, AttemptFails(c, e)
  PROVE  CountStep(c)
<1> DEFINE f == call[c]
<1>1. f \in Frames /\ None \notin Passwords \cup Sessions
      /\ MaxAttempts \in Nat \ {0}
  BY NoneAssumption, AttemptsAssumption DEF IInv, TypeOK
<1>2. CASE RetryInner(c)
  <2> DEFINE g == [f EXCEPT !.inner = @ + 1]
  <2>1. g \in Frames /\ g.sent = f.sent /\ Backoff(c, g)
    BY <1>1, <1>2 DEF RetryInner, Frames
  <2> HIDE DEF g
  <2> QED
    BY <2>1, BackoffCounts
<1>3. CASE RetryOuter(c)
  <2> DEFINE g == [f EXCEPT !.outer = @ + 1, !.inner = 1, !.phase = "direct",
                            !.pw = IF f.op = "login" THEN @ ELSE None]
  <2>1. g \in Frames
    <3>1. f.outer + 1 \in 1..MaxAttempts /\ 1 \in 1..MaxAttempts
      BY <1>1, <1>3 DEF RetryOuter, Frames
    <3>2. (IF f.op = "login" THEN f.pw ELSE None) \in Passwords \cup {None}
      BY <1>1 DEF Frames
    <3> QED
      BY <1>1, <3>1, <3>2 DEF Frames, Phases
  <2>2. Backoff(c, g)
    BY <1>3 DEF RetryOuter
  <2>3. g.sent = f.sent
    BY <1>1 DEF Frames
  <2> HIDE DEF g
  <2> QED
    BY <2>1, <2>2, <2>3, BackoffCounts
<1>4. CASE GiveUp(c, e)
  BY <1>4, FinishCounts DEF GiveUp
<1> QED
  BY <1>2, <1>3, <1>4 DEF AttemptFails

LEMMA StepCounts ==
  ASSUME IInv, [Next]_vars
  PROVE  call' = call \/ \E c \in Callers : CountStep(c)
<1>1. ASSUME NEW c \in Callers, NEW op \in Ops, NEW pw \in Passwords \cup {None},
             Call(c, op, pw)
      PROVE  CountStep(c)
  <2> DEFINE g == [Idle EXCEPT !.op = op, !.pw = pw, !.phase = "direct"]
  <2>1. g \in Frames /\ g.sent = 0 /\ Attempt(c, g, cookie)
    BY <1>1, IdleOK, AssumptionsHold DEF Frames, Phases, Idle, Assumptions, Call
  <2>2. call[c].sent = 0
    BY <1>1 DEF IInv, CallInv, FrameOK, Call, Busy, Idle
  <2> HIDE DEF g
  <2> QED
    BY <2>1, <2>2, AttemptCounts
<1>2. ASSUME NEW c \in Callers, CallerStep(c)
      PROVE  CountStep(c)
  <2> DEFINE f == call[c]
  <2>1. f \in Frames /\ 1 \in 1..MaxAttempts /\ {"again", "relogin"} \subseteq Phases
    BY AttemptsAssumption DEF IInv, TypeOK, Phases
  <2>2. CASE Resend(c)
    BY <2>1, <2>2, AttemptCounts DEF Resend
  <2>3. CASE ReloginDone(c)
    <3> DEFINE g == [f EXCEPT !.phase = "again", !.inner = 1, !.pw = None]
    <3>1. g \in Frames /\ g.sent = f.sent /\ Attempt(c, g, f.sid)
      BY <2>1, <2>3 DEF Frames, ReloginDone
    <3> HIDE DEF g
    <3> QED BY <3>1, AttemptCounts
  <2>4. CASE Relogin(c)
    <3> DEFINE g == [f EXCEPT !.phase = "relogin", !.inner = 1, !.pw = password]
    <3>1. password \in Passwords \cup {None}
      BY DEF IInv, TypeOK
    <3>2. g \in Frames /\ g.sent = f.sent /\ Attempt(c, g, cookie)
      BY <2>1, <2>4, <3>1 DEF Frames, Relogin
    <3> HIDE DEF g
    <3> QED BY <3>2, AttemptCounts
  <2>5. CASE ReceiveOk(c) \/ Rejected(c) \/ Refused(c)
    BY <2>5, FinishCounts DEF ReceiveOk, Rejected, Refused
  <2>6. CASE RateLimited(c) \/ Lose(c)
    BY <2>6, FailsCounts DEF RateLimited, Lose
  <2> QED
    BY <1>2, <2>2, <2>3, <2>4, <2>5, <2>6 DEF CallerStep
<1>3. ASSUME NEW c \in Callers, HandleLogin(c) \/ HandleOther(c) \/ Refuse(c)
      PROVE  CountStep(c)
  BY <1>3, AnswerCounts DEF HandleLogin, HandleOther, Refuse
<1>4. ASSUME NEW c \in Callers, Cancel(c)
      PROVE  CountStep(c)
  BY <1>4, FinishCounts DEF Cancel
<1>5. CASE Close \/ Reboot \/ ChangePassword \/ UNCHANGED vars
  BY <1>5 DEF Close, Reboot, ChangePassword, vars
<1> QED
  BY <1>1, <1>2, <1>3, <1>4, <1>5, Zenon DEF Next, ChargerStep

(* request() implements the bounded call: whatever the charger answers,    *)
(* loses or forgets, and whatever other tasks do, one public call makes    *)
(* at most MaxAttempts * (2 * MaxAttempts + 1) HTTP requests.              *)
THEOREM RequestIsBounded == Spec => ImplementsBoundedCall
<1> DEFINE count == [c \in Callers |-> call[c].sent]
<1>1. Init => Bounded!Init
  BY DEF Init, Bounded!Init, Idle
<1>2. IInv /\ CountsOK /\ CountsOK' /\ [Next]_vars => [Bounded!Next]_count
  <2> SUFFICES ASSUME IInv, CountsOK, CountsOK', [Next]_vars
               PROVE  Bounded!Next \/ UNCHANGED count
    OBVIOUS
  <2>1. CASE call' = call
    BY <2>1
  <2>2. ASSUME NEW c \in Callers, CountStep(c)
        PROVE  Bounded!Next \/ UNCHANGED count
    <3>1. PICK n \in {0, call[c].sent, call[c].sent + 1} :
            count' = [count EXCEPT ![c] = n]
      BY <2>2 DEF CountStep, Counts
    <3>2. call[c].sent \in Nat /\ count[c] = call[c].sent /\ count'[c] = n
      BY <3>1 DEF CountsOK
    <3>3. call'[c].sent = n /\ n \in 0..HttpBudget
      BY <3>2 DEF CountsOK
    <3>4. CASE n = call[c].sent
      BY <3>1, <3>4
    <3>5. CASE n # call[c].sent /\ n = 0
      <4>1. count[c] > 0 /\ count' = [count EXCEPT ![c] = 0]
        BY <3>1, <3>2, <3>5
      <4>2. Bounded!Return(c)
        BY <4>1 DEF Bounded!Return
      <4> QED
        BY <4>2 DEF Bounded!Next
    <3>6. CASE n = call[c].sent + 1 /\ call[c].sent = 0
      <4>1. count[c] = 0 /\ count' = [count EXCEPT ![c] = 1]
        BY <3>1, <3>2, <3>6
      <4>2. Bounded!Start(c)
        BY <4>1 DEF Bounded!Start
      <4> QED
        BY <4>2 DEF Bounded!Next
    <3>7. CASE n = call[c].sent + 1 /\ call[c].sent # 0
      <4>1. HttpBudget \in Nat
        BY AttemptsAssumption DEF HttpBudget
      <4>2. count[c] \in 1..(HttpBudget - 1) /\ count' = [count EXCEPT ![c] = count[c] + 1]
        BY <3>1, <3>2, <3>3, <3>7, <4>1
      <4>3. Bounded!Spend(c)
        BY <4>2 DEF Bounded!Spend
      <4> QED
        BY <4>3 DEF Bounded!Next
    <3> QED
      BY <3>1, <3>4, <3>5, <3>6, <3>7
  <2> QED
    BY <2>1, <2>2, StepCounts
<1> QED
  BY <1>1, <1>2, IInvHolds, WithinBudget, PTL
  DEF ImplementsBoundedCall, Bounded!Spec, Spec

(* Once the session is closed no attempt, retry, re-login or repetition of *)
(* any task's call puts a request on the wire.                             *)
THEOREM ClosedIsSilent == Spec => NothingSentAfterClose
<1>1. IInv /\ CountsOK /\ [Next]_vars
        => [session = "closed" => \A c \in Callers : call'[c].sent <= call[c].sent]_vars
  <2> SUFFICES ASSUME IInv, CountsOK, [Next]_vars, session = "closed", NEW d \in Callers
               PROVE  call'[d].sent <= call[d].sent
    OBVIOUS
  <2>1. call[d].sent \in Nat
    BY DEF CountsOK
  <2>2. CASE call' = call
    BY <2>1, <2>2
  <2>3. ASSUME NEW c \in Callers, CountStep(c)
        PROVE  call'[d].sent \in {0, call[d].sent}
    <3> DEFINE old == [e \in Callers |-> call[e].sent]
               new == [e \in Callers |-> call'[e].sent]
    <3>1. PICK n \in {0, call[c].sent} : new = [old EXCEPT ![c] = n]
      BY <2>3 DEF CountStep, Counts
    <3>2. new[d] = IF d = c THEN n ELSE old[d]
      <4> HIDE DEF new
      <4> QED
        BY <3>1
    <3> QED
      BY <3>2
  <2> QED
    BY <2>1, <2>2, <2>3, StepCounts
<1> QED
  BY <1>1, IInvHolds, WithinBudget, PTL DEF Spec, NothingSentAfterClose
----------------------------------------------------------------------------
(* logout() with one task.                                                 *)

(* While logged out no password is stored and no re-login is under way. *)
Forgotten(c) ==
  /\ loggedOut => password = None /\ call[c].phase # "relogin"
  /\ late[c] => loggedOut

(* What a step does to the frames when it is not the return of a call. *)
Silent(c) == Busy(c) /\ call'[c].phase = "idle" => result'[c] # "ok"

LEMMA SilentKeeps ==
  ASSUME NEW c \in Callers, Callers = {c}, IInv, Observe, Silent(c)
  PROVE  loggedOut' = loggedOut /\ (late'[c] => loggedOut')
<1>1. \A op : ~Returns(c, op)
  BY DEF Silent, Returns
<1>2. loggedOut' = loggedOut
  BY <1>1 DEF Observe, IInv, TypeOK
<1> QED
  BY <1>2 DEF Observe

LEMMA FinishSilent ==
  ASSUME NEW c \in Callers, IInv, NEW r, r # "ok", Finish(c, r)
  PROVE  Silent(c) /\ call'[c].phase = "idle"
  BY DEF Finish, Silent, IInv, TypeOK, Idle

LEMMA AttemptSilent ==
  ASSUME NEW c \in Callers, IInv, NEW f \in Frames, NEW jar,
         f.phase # "idle", Attempt(c, f, jar)
  PROVE  Silent(c) /\ call'[c].phase \in {f.phase, "idle"}
<1>1. CASE session = "closed"
  BY <1>1, FinishSilent DEF Attempt
<1>2. CASE session # "closed"
  <2> DEFINE g == [f EXCEPT !.wire = "sent", !.sid = jar, !.sent = @ + 1]
  <2>1. g.phase = f.phase /\ call' = [call EXCEPT ![c] = g]
    BY <1>2 DEF Attempt, Frames
  <2> HIDE DEF g
  <2> QED
    BY <2>1 DEF Silent, IInv, TypeOK
<1> QED
  BY <1>1, <1>2

LEMMA FailsSilent ==
  ASSUME NEW c \in Callers, IInv, NEW e, e # "ok", Busy(c), AttemptFails(c, e)
  PROVE  Silent(c) /\ call'[c].phase \in {call[c].phase, "direct", "idle"}
<1>1. call[c] \in Frames /\ call \in [Callers -> Frames]
  BY DEF IInv, TypeOK
<1>2. CASE RetryInner(c)
  BY <1>1, <1>2 DEF RetryInner, Backoff, Silent, Frames, Busy
<1>3. CASE RetryOuter(c)
  BY <1>1, <1>3 DEF RetryOuter, Backoff, Silent, Frames
<1>4. CASE GiveUp(c, e)
  BY <1>4, FinishSilent DEF GiveUp
<1> QED
  BY <1>2, <1>3, <1>4 DEF AttemptFails

LEMMA ForgottenStep ==
  ASSUME NEW c \in Callers, Callers = {c}, IInv, Forgotten(c), [Next]_vars
  PROVE  Forgotten(c)'
<1> DEFINE f == call[c]
<1>1. /\ f \in Frames /\ FrameOK(f) /\ result \in [Callers -> Results]
      /\ call \in [Callers -> Frames] /\ 1 \in 1..MaxAttempts
      /\ password \in Passwords \cup {None} /\ {"relogin", "again"} \subseteq Phases
  BY AttemptsAssumption DEF IInv, TypeOK, CallInv, Phases
<1>2. ASSUME Observe, Silent(c), UNCHANGED password,
             call'[c].phase \in {f.phase, "direct", "idle"}
      PROVE  Forgotten(c)'
  BY <1>2, SilentKeeps DEF Forgotten
<1>3. CASE UNCHANGED vars
  BY <1>3 DEF Forgotten, vars, clientVars, historyVars
<1>4. ASSUME Observe, NEW op \in Ops, NEW pw \in Passwords \cup {None}, Call(c, op, pw)
      PROVE  Forgotten(c)'
  <2> DEFINE g == [Idle EXCEPT !.op = op, !.pw = pw, !.phase = "direct"]
  <2>1. g \in Frames /\ g.phase = "direct" /\ Attempt(c, g, cookie)
    BY <1>4, IdleOK, AssumptionsHold DEF Frames, Phases, Idle, Assumptions, Call
  <2> HIDE DEF g
  <2>2. Silent(c) /\ call'[c].phase \in {"direct", "idle"}
    BY <2>1, AttemptSilent
  <2> QED
    BY <1>2, <1>4, <2>2 DEF Call
<1>5. ASSUME Observe, Resend(c)
      PROVE  Forgotten(c)'
  BY <1>1, <1>2, <1>5, AttemptSilent DEF Resend, Busy, clientVars
<1>6. ASSUME Observe, ReceiveOk(c)
      PROVE  Forgotten(c)'
  <2>1. f.phase \notin {"idle", "relogin"} /\ call'[c].phase = "idle" /\ result'[c] = "ok"
    BY <1>1, <1>6 DEF ReceiveOk, Finish, FrameOK, Idle
  <2>2. \A op : Returns(c, op) <=> op = f.op
    BY <2>1 DEF Returns, Busy
  <2>3. /\ late'[c] => loggedOut'
        /\ loggedOut' <=> f.op = "logout" \/ (loggedOut /\ f.op # "login")
    BY <1>6, <2>2 DEF Observe
  <2>4. loggedOut' => password' = None
    BY <1>6, <2>3 DEF ReceiveOk, Forgotten
  <2> QED
    BY <2>1, <2>3, <2>4 DEF Forgotten
<1>7. ASSUME Observe, ReloginDone(c)
      PROVE  Forgotten(c)'
  <2> DEFINE g == [f EXCEPT !.phase = "again", !.inner = 1, !.pw = None]
  <2>1. g \in Frames /\ g.phase = "again" /\ Attempt(c, g, f.sid)
    BY <1>1, <1>7 DEF Frames, ReloginDone
  <2> HIDE DEF g
  <2>2. Silent(c) /\ call'[c].phase # "relogin"
    BY <2>1, AttemptSilent
  <2> QED
    BY <1>7, <2>2, SilentKeeps DEF Forgotten, ReloginDone
<1>8. ASSUME Observe, Relogin(c)
      PROVE  Forgotten(c)'
  <2> DEFINE g == [f EXCEPT !.phase = "relogin", !.inner = 1, !.pw = password]
  <2>1. g \in Frames /\ g.phase = "relogin" /\ Attempt(c, g, cookie)
    BY <1>1, <1>8 DEF Frames, Relogin
  <2> HIDE DEF g
  <2>2. Silent(c) /\ ~loggedOut
    BY <1>8, <2>1, AttemptSilent DEF Forgotten, Relogin, MayRelogin
  <2> QED
    BY <2>2, <1>8, SilentKeeps DEF Forgotten
<1>9. ASSUME Observe, Rejected(c) \/ Refused(c) \/ Cancel(c)
      PROVE  Forgotten(c)'
  BY <1>2, <1>9, FinishSilent DEF Rejected, Refused, Cancel, clientVars
<1>10. ASSUME Observe, RateLimited(c) \/ Lose(c)
       PROVE  Forgotten(c)'
  <2>1. Busy(c)
    BY <1>1, <1>10 DEF RateLimited, Lose, FrameOK, Idle, Busy
  <2> QED
    BY <1>2, <1>10, <2>1, FailsSilent DEF RateLimited, Lose, clientVars
<1>11. ASSUME Observe, HandleLogin(c) \/ HandleOther(c) \/ Refuse(c)
       PROVE  Forgotten(c)'
  <2>1. PICK w, sid : Answer(c, w, sid)
    BY <1>11 DEF HandleLogin, HandleOther, Refuse
  <2>2. call'[c].phase = f.phase
    BY <1>1, <2>1 DEF Answer, Frames
  <2>3. UNCHANGED password
    BY <1>11 DEF HandleLogin, HandleOther, Refuse, clientVars
  <2> QED
    BY <1>2, <1>11, <2>2, <2>3 DEF Silent, Busy
<1>12. ASSUME Observe, Close \/ Reboot \/ ChangePassword
       PROVE  Forgotten(c)'
  BY <1>2, <1>12 DEF Close, Reboot, ChangePassword, clientVars, Silent, Busy
<1> QED
  <2>1. CASE Next
    BY <2>1, <1>4, <1>5, <1>6, <1>7, <1>8, <1>9, <1>10, <1>11, <1>12
    DEF Next, CallerStep, ChargerStep
  <2> QED
    BY <1>3, <2>1

(* With a single task sharing the client, logout() keeps its promise: no   *)
(* request made after it logs back in until somebody calls login() again.  *)
THEOREM SoloLogoutSticks ==
  ASSUME NEW c, Callers = {c}
  PROVE  Spec => []LogoutSticks
<1>1. Init => Forgotten(c)
  BY DEF Init, Forgotten
<1>2. IInv /\ Forgotten(c) /\ [Next]_vars => Forgotten(c)'
  BY ForgottenStep
<1>3. Forgotten(c) => LogoutSticks
  BY DEF Forgotten, LogoutSticks
<1> QED
  BY <1>1, <1>2, <1>3, IInvHolds, PTL DEF Spec
----------------------------------------------------------------------------
(* One disturbance.                                                        *)

(* What a request knows that at most one thing has gone wrong around.      *)
Fine(c) ==
  LET f == call[c] IN
  Busy(c) /\ f.op = "other" /\ disturbed[c] < 2 =>
    /\ password = secret
    /\ disturbed[c] = 0 => cookie \in sessions /\ f.phase = "direct"
    /\ f.phase = "relogin" => f.pw = secret /\ (f.wire = "ok" => f.sid \in sessions)
    /\ disturbed[c] = 0 \/ f.phase # "direct" => f.wire \notin {"none", "unauthorized"}
    /\ (disturbed[c] = 0 \/ f.phase = "again") /\ f.wire = "sent" => f.sid \in sessions

AllFine == \A c \in Callers : Fine(c)

BacksOff(c) == call[c].wire # "none" /\ call'[c].wire = "none"

(* A step that leaves a call with at most one disturbance adds at most one.*)
LEMMA AtMostOne ==
  ASSUME IInv, Observe, NEW c \in Callers, Busy(c), Busy(c)', disturbed'[c] < 2
  PROVE  /\ disturbed[c] < 2 /\ ~PasswordHurt
         /\ \/ disturbed[c] = 0 /\ disturbed'[c] = 1
            \/ disturbed[c] = disturbed'[c] /\ ~SessionHurt /\ ~BacksOff(c)
<1>1. disturbed[c] \in 0..2
  BY DEF IInv, TypeOK
<1>2. disturbed'[c] = AtMostTwo(disturbed[c] + Disturbance(c))
  BY DEF Observe, Busy, Begins
<1>3. Disturbance(c) = (IF PasswordHurt THEN 2 ELSE 0) + (IF SessionHurt THEN 1 ELSE 0)
                       + (IF BacksOff(c) THEN 1 ELSE 0)
  BY DEF Disturbance, BacksOff
<1> HIDE DEF PasswordHurt, SessionHurt, BacksOff
<1>4. CASE PasswordHurt
  BY <1>1, <1>2, <1>3, <1>4 DEF AtMostTwo
<1>5. CASE ~PasswordHurt /\ (SessionHurt \/ BacksOff(c))
  BY <1>1, <1>2, <1>3, <1>5 DEF AtMostTwo
<1>6. CASE ~PasswordHurt /\ ~SessionHurt /\ ~BacksOff(c)
  BY <1>1, <1>2, <1>3, <1>6 DEF AtMostTwo
<1> QED
  BY <1>4, <1>5, <1>6

(* The charger's password and the client's never change in one step. *)
LEMMA OnePassword ==
  ASSUME Next
  PROVE  secret' = secret \/ password' = password
<1>1. ASSUME NEW c, \/ CallerStep(c) \/ Cancel(c) \/ \E op, pw : Call(c, op, pw)
      PROVE  secret' = secret
  BY <1>1 DEF CallerStep, Resend, ReceiveOk, ReloginDone, Relogin, Rejected,
     RateLimited, Refused, Lose, Cancel, Call, chargerVars
<1>2. ASSUME ChargerStep
      PROVE  password' = password
  BY <1>2 DEF ChargerStep, HandleLogin, HandleOther, Refuse, Reboot, ChangePassword,
     clientVars
<1>3. ASSUME Close
      PROVE  secret' = secret
  BY <1>3 DEF Close, chargerVars
<1> QED
  BY <1>1, <1>2, <1>3 DEF Next

(* What stays so around a call that is not disturbed once more. *)
LEMMA Calm ==
  ASSUME IInv, Next, NEW c \in Callers, Busy(c), Busy(c)', disturbed'[c] < 2,
         password = secret
  PROVE  /\ password' = secret' /\ secret' = secret /\ disturbed[c] < 2
         /\ \/ disturbed[c] = 0 /\ disturbed'[c] = 1
            \/ /\ disturbed[c] = disturbed'[c] /\ ~BacksOff(c)
               /\ cookie \in sessions => cookie' \in sessions'
               /\ call[c].sid \in sessions => call[c].sid \in sessions'
<1>1. Observe
  BY DEF Next
<1>2. /\ disturbed[c] < 2 /\ ~PasswordHurt
      /\ \/ disturbed[c] = 0 /\ disturbed'[c] = 1
         \/ disturbed[c] = disturbed'[c] /\ ~SessionHurt /\ ~BacksOff(c)
  BY <1>1, AtMostOne
<1>3. password' = secret'
  BY <1>2 DEF PasswordHurt
<1>4. secret' = secret
  BY <1>3, OnePassword
<1>5. call[c].sid \in Known
  BY DEF Known
<1>6. ASSUME ~SessionHurt
      PROVE  /\ cookie \in sessions => cookie' \in sessions'
             /\ call[c].sid \in sessions => call[c].sid \in sessions'
  BY <1>5, <1>6 DEF SessionHurt
<1> QED
  BY <1>2, <1>3, <1>4, <1>6

LEMMA SameFine ==
  ASSUME IInv, Next, NEW c \in Callers, Fine(c), call'[c] = call[c]
  PROVE  Fine(c)'
<1> SUFFICES ASSUME Busy(c)', call'[c].op = "other", disturbed'[c] < 2 PROVE Fine(c)'
  BY DEF Fine
<1>1. Busy(c) /\ disturbed[c] < 2 /\ password = secret
  <2>1. Busy(c)
    BY DEF Busy
  <2>2. Observe
    BY DEF Next
  <2> QED
    BY <2>1, <2>2, AtMostOne DEF Fine
<1>2. Fine(c) /\ call[c].op = "other"
  OBVIOUS
<1> QED
  BY <1>1, <1>2, Calm DEF Fine

(* The steps of one caller leave the others' frames alone. *)
Moves(c) ==
  \/ \E op \in Ops, pw \in Passwords \cup {None} : Call(c, op, pw)
  \/ CallerStep(c) \/ Cancel(c)
  \/ HandleLogin(c) \/ HandleOther(c) \/ Refuse(c)

LEMMA Elsewhere ==
  ASSUME IInv, NEW c \in Callers, NEW d \in Callers, c # d, Moves(d)
  PROVE  call'[c] = call[c]
<1>1. \E f : call' = [call EXCEPT ![d] = f]
  <2>1. ASSUME NEW r, Finish(d, r)
        PROVE  \E f : call' = [call EXCEPT ![d] = f]
    BY <2>1 DEF Finish
  <2>2. ASSUME NEW f, NEW jar, Attempt(d, f, jar)
        PROVE  \E g : call' = [call EXCEPT ![d] = g]
    BY <2>1, <2>2 DEF Attempt
  <2>3. ASSUME NEW e, AttemptFails(d, e)
        PROVE  \E g : call' = [call EXCEPT ![d] = g]
    BY <2>1, <2>3 DEF AttemptFails, RetryInner, RetryOuter, Backoff, GiveUp
  <2>4. ASSUME NEW w, NEW sid, Answer(d, w, sid)
        PROVE  \E g : call' = [call EXCEPT ![d] = g]
    BY <2>4 DEF Answer
  <2>5. CASE \E op \in Ops, pw \in Passwords \cup {None} : Call(d, op, pw)
    BY <2>2, <2>5 DEF Call
  <2>6. CASE CallerStep(d) \/ Cancel(d)
    BY <2>1, <2>2, <2>3, <2>6 DEF CallerStep, Cancel, Resend, ReceiveOk, ReloginDone,
       Relogin, Rejected, RateLimited, Refused, Lose
  <2>7. CASE HandleLogin(d) \/ HandleOther(d) \/ Refuse(d)
    BY <2>4, <2>7 DEF HandleLogin, HandleOther, Refuse
  <2> QED
    BY <2>5, <2>6, <2>7 DEF Moves
<1> QED
  BY <1>1 DEF IInv, TypeOK

(* The fields of the frame that is sent, or answered. *)
LEMMA SentFrame ==
  ASSUME IInv, NEW c \in Callers, NEW f \in Frames, NEW jar, Attempt(c, f, jar), Busy(c)'
  PROVE  /\ call'[c].phase = f.phase /\ call'[c].op = f.op /\ call'[c].pw = f.pw
         /\ call'[c].wire = "sent" /\ call'[c].sid = jar
         /\ result'[c] = "none"
<1>1. call \in [Callers -> Frames] /\ result \in [Callers -> Results]
  BY DEF IInv, TypeOK
<1>2. session # "closed"
  BY <1>1 DEF Attempt, Finish, Busy, Idle
<1> DEFINE g == [f EXCEPT !.wire = "sent", !.sid = jar, !.sent = @ + 1]
<1>3. call'[c] = g /\ result'[c] = "none"
  BY <1>1, <1>2 DEF Attempt
<1>4. /\ g.phase = f.phase /\ g.op = f.op /\ g.pw = f.pw
      /\ g.wire = "sent" /\ g.sid = jar
  BY DEF Frames
<1> QED
  BY <1>3, <1>4

LEMMA AnsweredFrame ==
  ASSUME IInv, NEW c \in Callers, NEW w, NEW sid, Answer(c, w, sid)
  PROVE  /\ call'[c].phase = call[c].phase /\ call'[c].op = call[c].op
         /\ call'[c].pw = call[c].pw /\ call'[c].wire = w /\ call'[c].sid = sid
  BY DEF Answer, IInv, TypeOK, Frames

(* An attempt that fails leaves the call backing off, allowed to log in    *)
(* again unless it failed inside the re-login or the repetition.           *)
LEMMA FailedFrame ==
  ASSUME IInv, NEW c \in Callers, NEW e, AttemptFails(c, e), Busy(c)'
  PROVE  /\ call'[c].op = call[c].op /\ call'[c].wire = "none"
         /\ call[c].phase = "direct" => call'[c].phase = "direct"
<1>1. call \in [Callers -> Frames]
  BY DEF IInv, TypeOK
<1>2. ~GiveUp(c, e)
  BY <1>1 DEF GiveUp, Finish, Busy, Idle
<1>3. CASE RetryInner(c)
  BY <1>1, <1>3 DEF RetryInner, Backoff, Nested, Frames
<1>4. CASE RetryOuter(c)
  BY <1>1, <1>4 DEF RetryOuter, Backoff, Frames
<1> QED
  BY <1>2, <1>3, <1>4 DEF AttemptFails

LEMMA OwnFine ==
  ASSUME IInv, Next, NEW c \in Callers, Fine(c), Moves(c)
  PROVE  Fine(c)'
<1> DEFINE f == call[c]
<1> SUFFICES ASSUME Busy(c)', call'[c].op = "other", disturbed'[c] < 2 PROVE Fine(c)'
  BY DEF Fine
<1>1. /\ f \in Frames /\ FrameOK(f) /\ Observe /\ 1 \in 1..MaxAttempts
      /\ {"relogin", "again"} \subseteq Phases /\ call \in [Callers -> Frames]
      /\ password \in Passwords \cup {None} /\ secret \in Passwords
  BY AttemptsAssumption DEF IInv, TypeOK, CallInv, Next, Phases
<1>2. \A r : ~Finish(c, r)
  BY <1>1 DEF Finish, Busy, Idle
<1>3. ASSUME NEW op \in Ops, NEW pw \in Passwords \cup {None}, Call(c, op, pw)
      PROVE  Fine(c)'
  <2> DEFINE g == [Idle EXCEPT !.op = op, !.pw = pw, !.phase = "direct"]
  <2>1. g \in Frames /\ g.phase = "direct" /\ Attempt(c, g, cookie)
    BY <1>3, IdleOK, AssumptionsHold DEF Frames, Phases, Idle, Assumptions, Call
  <2> HIDE DEF g
  <2>2. call'[c].phase = "direct" /\ call'[c].wire = "sent" /\ call'[c].sid = cookie
    BY <2>1, SentFrame
  <2>3. Begins(c)
    BY <1>3, <2>2 DEF Begins, Call
  <2>4. /\ password = secret
        /\ disturbed'[c] = 0 => cookie \in sessions
    BY <1>1, <2>2, <2>3 DEF Observe
  <2>5. UNCHANGED <<secret, sessions, password, cookie>>
    BY <1>3 DEF Call, chargerVars
  <2> QED
    BY <2>2, <2>4, <2>5 DEF Fine
<1>4. ASSUME Busy(c), f.op = "other",
             CallerStep(c) \/ HandleLogin(c) \/ HandleOther(c) \/ Refuse(c)
      PROVE  Fine(c)'
  <2>1. /\ disturbed[c] < 2 /\ password = secret
        /\ disturbed[c] = 0 => cookie \in sessions /\ f.phase = "direct"
        /\ f.phase = "relogin" => f.pw = secret /\ (f.wire = "ok" => f.sid \in sessions)
        /\ disturbed[c] = 0 \/ f.phase # "direct" => f.wire \notin {"none", "unauthorized"}
        /\ (disturbed[c] = 0 \/ f.phase = "again") /\ f.wire = "sent" => f.sid \in sessions
    BY <1>1, <1>4, AtMostOne DEF Fine
  <2>2. /\ password' = secret' /\ secret' = secret
        /\ \/ disturbed[c] = 0 /\ disturbed'[c] = 1
           \/ /\ disturbed[c] = disturbed'[c] /\ ~BacksOff(c)
              /\ cookie \in sessions => cookie' \in sessions'
              /\ f.sid \in sessions => f.sid \in sessions'
    BY <1>4, <2>1, Calm
  <2>3. disturbed[c] \in 0..2 /\ disturbed'[c] \in 0..2
    <3>1. TypeOK'
      BY NextIInv DEF IInv
    <3> QED
      BY <3>1 DEF IInv, TypeOK
  <2>4. CASE Resend(c)
    <3>1. Attempt(c, f, cookie) /\ f.wire = "none"
      BY <2>4 DEF Resend
    <3>2. call'[c].phase = f.phase /\ call'[c].wire = "sent" /\ call'[c].sid = cookie
      BY <1>1, <3>1, SentFrame
    <3>3. disturbed'[c] # 0 /\ f.phase = "direct"
      BY <2>1, <2>2, <2>3, <3>1
    <3> QED
      BY <2>2, <3>2, <3>3 DEF Fine
  <2>5. CASE ReloginDone(c)
    <3> DEFINE g == [f EXCEPT !.phase = "again", !.inner = 1, !.pw = None]
    <3>1. g \in Frames /\ g.phase = "again" /\ Attempt(c, g, f.sid)
      BY <1>1, <2>5 DEF Frames, ReloginDone
    <3> HIDE DEF g
    <3>2. call'[c].phase = "again" /\ call'[c].wire = "sent" /\ call'[c].sid = f.sid
      BY <3>1, SentFrame
    <3>3. disturbed'[c] # 0 /\ f.sid \in sessions'
      BY <2>1, <2>2, <2>3, <2>5 DEF ReloginDone
    <3> QED
      BY <2>2, <3>2, <3>3 DEF Fine
  <2>6. CASE Relogin(c)
    <3> DEFINE g == [f EXCEPT !.phase = "relogin", !.inner = 1, !.pw = password]
    <3>1. g \in Frames /\ g.phase = "relogin" /\ g.pw = password /\ Attempt(c, g, cookie)
      BY <1>1, <2>6 DEF Frames, Relogin
    <3> HIDE DEF g
    <3>2. call'[c].phase = "relogin" /\ call'[c].wire = "sent" /\ call'[c].pw = password
      BY <3>1, SentFrame
    <3>3. disturbed'[c] # 0
      BY <2>1, <2>2, <2>3, <2>6 DEF Relogin
    <3> QED
      BY <2>1, <2>2, <3>2, <3>3 DEF Fine
  <2>7. CASE ReceiveOk(c) \/ Rejected(c) \/ Refused(c)
    BY <1>2, <2>7 DEF ReceiveOk, Rejected, Refused
  <2>8. CASE RateLimited(c) \/ Lose(c)
    <3>1. PICK e : AttemptFails(c, e)
      BY <2>8 DEF RateLimited, Lose
    <3>2. f.wire # "none"
      BY <2>8 DEF RateLimited, Lose
    <3>3. call'[c].wire = "none" /\ (f.phase = "direct" => call'[c].phase = "direct")
      BY <3>1, FailedFrame
    <3>4. disturbed[c] = 0 /\ disturbed'[c] = 1
      BY <2>2, <3>2, <3>3 DEF BacksOff
    <3>5. call'[c].phase = "direct"
      BY <2>1, <3>3, <3>4
    <3> QED
      BY <2>2, <3>3, <3>4, <3>5 DEF Fine
  <2>9. CASE HandleLogin(c)
    <3>1. f.phase = "relogin" /\ f.pw = secret
      BY <1>4, <2>1, <2>9 DEF HandleLogin, IsLogin
    <3>2. PICK s \in Sessions : s \in sessions' /\ Answer(c, "ok", s)
      BY <2>9, <3>1 DEF HandleLogin
    <3>3. /\ call'[c].phase = "relogin" /\ call'[c].pw = secret
          /\ call'[c].wire = "ok" /\ call'[c].sid \in sessions'
      BY <3>1, <3>2, AnsweredFrame
    <3>4. disturbed'[c] # 0
      BY <2>1, <2>2, <2>3, <3>1
    <3> QED
      BY <2>2, <3>3, <3>4 DEF Fine
  <2>10. CASE HandleOther(c)
    <3>1. f.wire = "sent" /\ f.phase # "relogin"
      BY <2>10 DEF HandleOther, IsLogin
    <3>2. PICK w \in {"ok", "unauthorized"} : /\ Answer(c, w, f.sid)
                                              /\ w = "unauthorized" => f.sid \notin sessions
      BY <2>10 DEF HandleOther
    <3>3. call'[c].phase = f.phase /\ call'[c].wire = w
      BY <3>2, AnsweredFrame
    <3>4. disturbed[c] = 0 \/ f.phase # "direct" => w = "ok"
      <4>1. f.phase \in {"direct", "again"}
        BY <1>1, <1>4, <3>1 DEF Frames, Phases, Busy
      <4> QED
        BY <2>1, <3>1, <3>2, <4>1
    <3>5. disturbed'[c] = 0 => disturbed[c] = 0
      BY <2>2
    <3> QED
      BY <2>1, <2>2, <3>1, <3>3, <3>4, <3>5 DEF Fine
  <2>11. CASE Refuse(c)
    <3>1. PICK w \in {"limited", "refused"} : Answer(c, w, f.sid)
      BY <2>11, RefusalsAssumption DEF Refuse
    <3>2. /\ call'[c].phase = f.phase /\ call'[c].pw = f.pw
          /\ call'[c].wire = w
      BY <3>1, AnsweredFrame
    <3>3. disturbed'[c] = 0 => disturbed[c] = 0
      BY <2>2
    <3> QED
      BY <2>1, <2>2, <3>2, <3>3 DEF Fine
  <2> QED
    BY <1>4, <2>4, <2>5, <2>6, <2>7, <2>8, <2>9, <2>10, <2>11 DEF CallerStep
<1>5. ASSUME CallerStep(c) \/ HandleLogin(c) \/ HandleOther(c) \/ Refuse(c)
      PROVE  Busy(c) /\ f.op = "other"
  <2>1. Busy(c)
    <3>1. f.phase = "idle" => f.wire = "none"
      BY <1>1 DEF FrameOK, Idle
    <3> QED
      BY <1>5, <3>1 DEF CallerStep, Resend, ReceiveOk, ReloginDone, Relogin, Rejected,
         RateLimited, Refused, Lose, HandleLogin, HandleOther, Refuse, Busy
  <2>2. ASSUME NEW g \in Frames, NEW jar, g.op = f.op, Attempt(c, g, jar)
        PROVE  f.op = "other"
    BY <2>2, SentFrame
  <2>3. CASE Resend(c)
    BY <1>1, <2>1, <2>2, <2>3 DEF Resend
  <2>4. CASE ReloginDone(c)
    <3> DEFINE g == [f EXCEPT !.phase = "again", !.inner = 1, !.pw = None]
    <3>1. g \in Frames /\ g.op = f.op /\ Attempt(c, g, f.sid)
      BY <1>1, <2>4 DEF Frames, ReloginDone
    <3> HIDE DEF g
    <3> QED
      BY <2>1, <2>2, <3>1
  <2>5. CASE Relogin(c)
    <3> DEFINE g == [f EXCEPT !.phase = "relogin", !.inner = 1, !.pw = password]
    <3>1. g \in Frames /\ g.op = f.op /\ Attempt(c, g, cookie)
      BY <1>1, <2>5 DEF Frames, Relogin
    <3> HIDE DEF g
    <3> QED
      BY <2>1, <2>2, <3>1
  <2>6. CASE ReceiveOk(c) \/ Rejected(c) \/ Refused(c)
    BY <1>2, <2>6 DEF ReceiveOk, Rejected, Refused
  <2>7. CASE RateLimited(c) \/ Lose(c)
    BY <2>1, <2>7, FailedFrame DEF RateLimited, Lose
  <2>8. CASE HandleLogin(c) \/ HandleOther(c) \/ Refuse(c)
    BY <2>1, <2>8, AnsweredFrame DEF HandleLogin, HandleOther, Refuse
  <2> QED
    BY <1>5, <2>1, <2>3, <2>4, <2>5, <2>6, <2>7, <2>8 DEF CallerStep
<1>6. ~Cancel(c)
  BY <1>2 DEF Cancel
<1> QED
  BY <1>3, <1>4, <1>5, <1>6 DEF Moves

LEMMA StepFine ==
  ASSUME IInv, AllFine, Next
  PROVE  AllFine'
<1>1. ASSUME NEW c \in Callers
      PROVE  Fine(c)'
  <2>1. Fine(c)
    BY DEF AllFine
  <2>2. call' = call \/ \E d \in Callers : Moves(d)
    BY DEF Next, ChargerStep, Close, Reboot, ChangePassword, Moves
  <2>3. call'[c] = call[c] \/ Moves(c)
    BY <2>2, Elsewhere
  <2> QED
    BY <2>1, <2>3, SameFine, OwnFine
<1> QED
  BY <1>1 DEF AllFine

(* A request is rejected for its session only in Rejected. *)
LEMMA RejectionNeeds ==
  ASSUME IInv, Next, NEW c \in Callers,
         result'[c] = "AuthenticationError", result[c] = "none"
  PROVE  Rejected(c)
<1>1. result \in [Callers -> Results]
  BY DEF IInv, TypeOK
<1>2. ASSUME NEW d \in Callers, NEW r, Finish(d, r)
      PROVE  d = c /\ r = "AuthenticationError"
  BY <1>1, <1>2 DEF Finish
<1>3. ASSUME NEW d \in Callers, NEW f, NEW jar, Attempt(d, f, jar)
      PROVE  FALSE
  BY <1>1, <1>2, <1>3 DEF Attempt
<1>4. result' # result
  OBVIOUS
<1>5. ASSUME NEW d \in Callers, NEW e, e # "AuthenticationError", AttemptFails(d, e)
      PROVE  FALSE
  BY <1>2, <1>4, <1>5 DEF AttemptFails, RetryInner, RetryOuter, Backoff, GiveUp
<1>6. ~ChargerStep /\ ~Close
  BY <1>4 DEF ChargerStep, HandleLogin, HandleOther, Refuse, Reboot, ChangePassword, Close
<1>7. ASSUME NEW d \in Callers, CallerStep(d)
      PROVE  Rejected(d) /\ d = c
  BY <1>2, <1>3, <1>5, <1>7 DEF CallerStep, Resend, ReceiveOk, ReloginDone, Relogin,
     Rejected, RateLimited, Refused, Lose
<1>8. ASSUME NEW d \in Callers, Cancel(d)
      PROVE  FALSE
  BY <1>2, <1>8 DEF Cancel
<1>9. ASSUME NEW d \in Callers, NEW op, NEW pw, Call(d, op, pw)
      PROVE  FALSE
  BY <1>3, <1>9 DEF Call
<1> QED
  BY <1>6, <1>7, <1>8, <1>9 DEF Next

(* While the client knows the charger's password, one lost session or one  *)
(* lost attempt never surfaces as an authentication error, whatever the    *)
(* other tasks do: request() logs in and repeats.                          *)
THEOREM OneIsSurvived == Spec => OneDisturbanceSurvived
<1>1. Init => AllFine
  BY DEF Init, AllFine, Fine, Busy, Idle
<1>2. IInv /\ AllFine /\ UNCHANGED vars => AllFine'
  BY DEF AllFine, Fine, Busy, vars, chargerVars, clientVars, historyVars
<1>3. IInv /\ AllFine /\ [Next]_vars => AllFine'
  BY <1>2, StepFine
<1>4. IInv /\ AllFine /\ [Next]_vars
        => [\A c \in Callers :
              /\ call[c].op = "other"
              /\ result'[c] = "AuthenticationError" /\ result[c] = "none"
              => disturbed[c] = 2]_vars
  <2> SUFFICES ASSUME IInv, AllFine, Next, NEW c \in Callers, call[c].op = "other",
                      result'[c] = "AuthenticationError", result[c] = "none"
               PROVE  disturbed[c] = 2
    OBVIOUS
  <2>1. call[c].wire = "unauthorized" /\ ~MayRelogin(call[c])
    BY RejectionNeeds DEF Rejected
  <2>2. Busy(c)
    BY <2>1 DEF IInv, CallInv, FrameOK, Idle, Busy
  <2>3. password = secret => password # None
    BY NoneAssumption DEF IInv, TypeOK
  <2>4. ~(disturbed[c] < 2)
    BY <2>1, <2>2, <2>3 DEF AllFine, Fine, MayRelogin
  <2>5. disturbed[c] \in 0..2
    BY DEF IInv, TypeOK
  <2> QED
    BY <2>4, <2>5
<1>5. Spec => []AllFine
  BY <1>1, <1>3, IInvHolds, PTL DEF Spec
<1> QED
  BY <1>4, <1>5, IInvHolds, PTL DEF Spec, OneDisturbanceSurvived
=============================================================================
