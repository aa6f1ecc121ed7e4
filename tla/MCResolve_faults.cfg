SPECIFICATION ServiceSpec
CONSTANTS
  Instances = {"i1", "i2"}
  Readers = {"r1", "r2", "r3"}
  Owners = {"o1"}
  Home <- Spread
  SnapshotTTL = 2
  SnapshotTimeout = 1
  CmdTime = 0
  Faults = {"redisErr", "redisReplyLost", "dbErr", "dbReplyLost", "crash"}
  MaxTime = 4
  MaxVisits = 3
  Route <- Routes
  Viewer <- Viewers
  Expires = 1
  LinkAge = 1
  MissAge = 1
  PageAge = 1
  PageTime = 1
  MaxRow = 2
  MaxClock = 3
INVARIANTS SnapshotBound KeysFromFirstVisits
PROPERTIES ShownWithinLimit GoneWhenClean ContentSpec AnswersInTime
CHECK_DEADLOCK FALSE
