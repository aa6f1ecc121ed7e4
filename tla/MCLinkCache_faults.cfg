SPECIFICATION Spec
CONSTANTS
  Instances = {"i1", "i2"}
  Readers = {"r1", "r3"}
  Owners = {"o1"}
  Home <- Spread
  LinkTTL = 1
  Jitter = 1
  NotFoundTTL = 1
  SecondDelete = 1
  DbTimeout = 1
  CmdTime = 0
  Faults = {"redisErr", "dbErr", "crash"}
  MaxVersion = 2
  MaxTime = 4
INVARIANTS TypeOK StaleBound
PROPERTIES ServedWithinLimit ReaderSpec
CHECK_DEADLOCK FALSE
