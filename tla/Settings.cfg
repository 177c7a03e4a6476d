SPECIFICATION Spec
CONSTANTS
  a = a  b = b
  Callers = {a, b}
  Setups <- AllSetups
  None = None
  MaxLate = 1
  MaxAttempts = 2
INVARIANTS TypeOK NothingUnasked
PROPERTIES WantedHeld DenialIsTrue EndpointFound
