SPECIFICATION StatsFairSpec
CONSTANTS
  Instances = {"i1"}
  Workers = {"w1", "w2"}
  Home <- AllOnOne
  Links = {"l1"}
  Visitors = {"a"}
  Views = {1, 2}
  LinkOf <- OneLink
  VisitorOf <- Same
  EventBuffer = 2
  FlushBatch = 1
  Stops = {"i1"}
  Faults = {"dbErr", "dbReplyLost", "redisErr", "redisReplyLost", "finalTimeout", "shutdownTimeout"}
  MaxWrites = 1
  NoView = 0
  NoLink = NoLink
INVARIANT LeftIsLate
PROPERTIES EventuallyStopped StatsNotAhead ViewsAccounted
CHECK_DEADLOCK FALSE
