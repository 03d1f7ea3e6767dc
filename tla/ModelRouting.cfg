SPECIFICATION FairRoutingSpec
CONSTANTS
  Routable = {m1}
  RowWeights = {1, 2}
  Default = 1
  General = 2
  Confidences = {9, 10}
  Unit = 10
  Grain = 4
  Requests = {d1, d2}
  Admins = {a1}
  None = None
  MaxChanges = 2
CHECK_DEADLOCK FALSE
INVARIANT CachesFollowTheTable
INVARIANT SelectionIsCloseToItsWeights
PROPERTY StaleRoutesEnd
