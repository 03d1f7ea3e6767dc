SPECIFICATION Spec
CONSTANTS
  Ids = {p1, p2}
  ValidBodies = {good1, good2}
  OtherBodies = {bad}
  NoBody = NoBody
  Calls = {c1, c2, c3}
CHECK_DEADLOCK FALSE
INVARIANT TypeOK
INVARIANT OpaRunsValidated
INVARIANT OneActiveInSerialUse
INVARIANT OpaFollowsTheTable
PROPERTY ActiveIsRetiredFirst
PROPERTY RegisterSpec
