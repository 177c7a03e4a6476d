SPECIFICATION FairSpec
CONSTANTS
  o = o  a = a  b = b  x = x  y = y
  Tasks = {o, a}
  Owner = o
  Uses <- MixedTopics
  Leaves <- OwnLeaves
  Raisers = {a}
  Topics = {x, y}
  Conns = {k1, k2}
  None = None
  MaxQueue = 1
INVARIANTS TypeOK OnlySweptAreLost FirstEventIsHeard SubscribedAtCharger NoOrphanWaiter NothingLeftBehind NoLingeringSocket
PROPERTIES EveryTaskReturns HangUpIsNoticed
