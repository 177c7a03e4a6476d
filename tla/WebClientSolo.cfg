SPECIFICATION FairSpec
CONSTANTS
  Callers = {c1}
  Passwords = {p, q}
  Sessions = {1, 2, 3}
  None = None
  Ops = {"login", "logout", "other"}
  Refusals = {"limited", "refused"}
  Given = {"none"}
  MaxAttempts = 3
INVARIANTS TypeOK LogoutSticks OnlyAcceptedPasswords
PROPERTIES EveryCallReturns ImplementsBoundedCall
