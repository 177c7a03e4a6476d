SPECIFICATION Spec
CONSTANTS
  o = o  a = a  b = b  x = x  y = y
  Tasks = {o, a}
  Owner = o
  Uses <- OwnTopics
  Leaves = {}
  Raisers = {a}
  Topics = {x, y}
  Conns = {k1, k2}
  None = None
  MaxQueue = 2
SYMMETRY Interchangeable
INVARIANTS SubscribedIsRegistered
