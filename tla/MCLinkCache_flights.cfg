SPECIFICATION FairSpec
CONSTANTS
  Instances = {"i1", "i2"}
  Readers = {"r1", "r2"}
  Owners = {"o1"}
  Home <- Spread
  LinkTTL = 3
  Jitter = 0
  NotFoundTTL = 1
  SecondDelete = 2
  DbTimeout = 1
  CmdTime = 0
  Faults = {"cancel", "dbReplyLost"}
  MaxVersion = 2
  MaxTime = 4
INVARIANT DoubleDeleteCleans
PROPERTIES NoSpillover RequestEnds
CHECK_DEADLOCK FALSE
