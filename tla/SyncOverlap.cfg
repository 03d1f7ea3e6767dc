SPECIFICATION FairSpec
CONSTANTS
  Scheduled = {s1}
  OnDemand = {d1}
  MaxRetries = 1
CHECK_DEADLOCK FALSE
INVARIANT TypeOK
INVARIANT EndedRunsCloseTheirJob
INVARIANT SyncingIsOwed
PROPERTY EventsFollowTheCommit
PROPERTY RunsEnd
