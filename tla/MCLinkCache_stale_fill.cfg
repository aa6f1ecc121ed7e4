SPECIFICATION Spec
CONSTANTS
  Instances = {"i1"}
  Readers = {"r1"}
  Owners = {"o1"}
  Home <- Single
  LinkTTL = 10
  Jitter = 0
  NotFoundTTL = 1
  SecondDelete = 1
  DbTimeout = 4
  CmdTime = 1
  Faults = {}
  MaxVersion = 2
  MaxTime = 8
INVARIANT DoubleDeleteCleans
CHECK_DEADLOCK FALSE
