SPECIFICATION Spec
CONSTANTS
  None = None  t = t
  Setups <- Disablings
  Histories = {}
INVARIANTS DisableSucceeds
CHECK_DEADLOCK FALSE
