SPECIFICATION Spec
CONSTANTS
  Callers = {c1, c2}
  Passwords = {p}
  Sessions = {s1, s2, s3, s4}
  None = None
  Ops = {"login", "other"}
  Refusals = {"limited"}
  Given = {"none"}
  MaxAttempts = 2
SYMMETRY Interchangeable
PROPERTIES OneDisturbanceSurvived NothingSentAfterClose
