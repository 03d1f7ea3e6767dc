SPECIFICATION FairSpec
CONSTANTS
  Providers = {p1, p2}
  Calls = {k1, k2}
  MaxAttempts = 2
  Threshold = 2
  Window = 1
  OpenTtl = 1
  MaxChain = 3
  Horizon = 2
  MaxClock = 3
CHECK_DEADLOCK FALSE
INVARIANT OpenIsEarned
INVARIANT GivingUpMeansFailures
PROPERTY OpenCircuitsClose
