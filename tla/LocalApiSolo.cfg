SPECIFICATION FairSpec
CONSTANTS
  Callers = {c1}
  Passwords = {p, q}
  Tokens = {t1, t2, t3}
  None = None
  Ops = {"authorize"}
  Refusals = {"limited", "refused"}
  Given = {"none"}
  CanRefresh = TRUE
  LoginBudget = 1
  FetchBudget = 2
  MaxAttempts = 3
INVARIANTS TypeOK
PROPERTIES InvalidationHandled PresentedOnce EveryCallReturns ImplementsBoundedCall
