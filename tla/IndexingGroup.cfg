SPECIFICATION FairSpec
CONSTANTS
  Docs = {d1}
  Syncs = {s1}
  Workers = {w1, w2}
  NoEvent = NoEvent
  MaxFaults = 1
CHECK_DEADLOCK FALSE
INVARIANT RowsAreBacked
INVARIANT DeletionIsComplete
PROPERTY EventsAreCommitted
