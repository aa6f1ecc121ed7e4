SPECIFICATION Spec
CONSTANTS
  Instances = {"i1", "i2"}
  Readers = {"r1", "r3"}
  Owners = {"o1"}
  Home <- Spread
  SnapshotTTL = 2
  SnapshotTimeout = 1
  CmdTime = 0
  Faults = {}
  MaxTime = 4
INVARIANT GoneAtOnce
CHECK_DEADLOCK FALSE
