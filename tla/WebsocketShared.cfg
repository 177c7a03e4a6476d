SPECIFICATION Spec
CONSTANTS
  o = o  a = a  b = b  x = x  y = y
  Tasks = {o, a, b}
  Owner = o
  Uses <- SharedTopic
  Leaves = {}
  Raisers = {}
  Topics = {x}
  Conns = {k1, k2}
  None = None
  MaxQueue = 1
SYMMETRY Interchangeable
INVARIANTS SubscribedIsRegistered
