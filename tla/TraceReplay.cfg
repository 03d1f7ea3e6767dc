SPECIFICATION FairSpec
CONSTANTS
  Requests = {q1}
  Runs = {r1, r2, r3}
  Readers = {d1, d2}
  None = None
CHECK_DEADLOCK FALSE
INVARIANT OnlyRetentionLosesTraces
INVARIANT SerialRunsAreShown
PROPERTY StaleReplayEnds
