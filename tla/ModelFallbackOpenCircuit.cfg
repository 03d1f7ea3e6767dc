SPECIFICATION Spec
CONSTANTS
  Providers = {p1}
  Calls = {k1, k2}
  MaxAttempts = 2
  Threshold = 2
  Window = 1
  OpenTtl = 1
  MaxChain = 2
  Horizon = 2
  MaxClock = 3
CHECK_DEADLOCK FALSE
PROPERTY OpenCircuitIsSkipped
