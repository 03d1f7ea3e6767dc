SPECIFICATION FairSpec
CONSTANTS
  First = first
  Replies = {r1}
  ConnChunks = {c1}
  WsChunks = {w1}
  GraphItems = {g1}
  Sensitive = {c1}
  NoRun = NoRun
CHECK_DEADLOCK FALSE
INVARIANT TypeOK
INVARIANT FailureIsNamed
PROPERTY StartedRunsAreAnswered
