SPECIFICATION FairSpec
CONSTANTS
  SlotCount = 3
  Fds <- MCFds
  Worlds <- MCWorlds
  ReInits = FALSE
  MaxWorn = 1
CHECK_DEADLOCK FALSE
INVARIANTS TableIsTrue ConnectedIsReal TrafficIsOwn AllClosed
PROPERTY PollEnds
