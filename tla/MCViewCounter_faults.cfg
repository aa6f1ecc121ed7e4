SPECIFICATION Spec
CONSTANTS
  Instances = {"i1", "i2"}
  Workers = {"w1", "w2"}
  Home <- OneEach
  Links = {"l1", "l2"}
  Visitors = {"a", "b"}
  Views = {1, 2, 3}
  LinkOf <- TwoLinks
  VisitorOf <- Same
  EventBuffer = 1
  FlushBatch = 1
  Stops = {"i1"}
  Faults = {"redisErr", "redisReplyLost", "dbErr", "crash", "finalTimeout", "shutdownTimeout"}
  MaxWrites = 1
  NoView = 0
INVARIANTS TypeOK NoDoubleCount
PROPERTIES LedgerSpec ViewsAccounted
CHECK_DEADLOCK FALSE
