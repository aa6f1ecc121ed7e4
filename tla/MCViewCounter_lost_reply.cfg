SPECIFICATION Spec
CONSTANTS
  Instances = {"i1"}
  Workers = {"w1"}
  Home <- AllOnOne
  Links = {"l1", "l2"}
  Visitors = {"a", "b"}
  Views = {1, 2}
  LinkOf <- TwoLinks
  VisitorOf <- ByParity
  EventBuffer = 2
  FlushBatch = 2
  Stops = {}
  Faults = {"redisReplyLost"}
  MaxWrites = 1
  NoView = 0
INVARIANT NoViewLost
CHECK_DEADLOCK FALSE
