SPECIFICATION FairSpec
CONSTANTS
  Dls = {1, 2, 3}
  Paths = {"p", "q"}
  Worlds <- MCWorlds
  MaxRetry = 1
  None = None
CHECK_DEADLOCK FALSE
INVARIANT OneWriter
PROPERTIES StartedOnce FinishIsWhole EntryCloses
