SPECIFICATION Spec
CONSTANTS
  First = first
  Replies = {r1, r2}
  ConnChunks = {}
  WsChunks = {w1}
  GraphItems = {}
  Sensitive = {}
  NoRun = NoRun
CHECK_DEADLOCK FALSE
SYMMETRY Symmetry
INVARIANT ReleasedWasVetted
INVARIANT OwnGatesDecide
PROPERTY GateSpec
