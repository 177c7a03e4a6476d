SPECIFICATION Spec
CONSTANTS
  Callers = {c1, c2}
  Passwords = {p}
  Tokens = {t1, t2, t3, t4}
  None = None
  Ops = {"read"}
  Refusals = {}
  Given = {"shared"}
  CanRefresh = TRUE
  LoginBudget = 1
  FetchBudget = 1
  MaxAttempts = 2
SYMMETRY Interchangeable
PROPERTIES SharedInvalidationHandled
