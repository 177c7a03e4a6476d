SPECIFICATION Spec
CONSTANTS
  Callers = {c1, c2}
  Passwords = {p}
  Sessions = {s1, s2, s3, s4}
  None = None
  Ops = {"login", "logout", "other"}
  Refusals = {}
  Given = {"shared"}
  MaxAttempts = 1
SYMMETRY Interchangeable
INVARIANTS LogoutSticks
