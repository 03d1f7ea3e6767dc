SPECIFICATION FairSpec
CONSTANTS
  Ollama = {m1}
  Hosted = {h1}
  Others = {o1}
  Jobs = {j1, j2}
  Deletions = {x1, x2}
  MaxRows = 2
CHECK_DEADLOCK FALSE
INVARIANT InstalledModelsAreServed
PROPERTY BoardSpec
PROPERTY JobsEnd
