SPECIFICATION FairSpec
CONSTANTS
  Instances = {"i1", "i2"}
  Workers = {"w1", "w2"}
  Home <- OneEach
  Links = {"l1", "l2"}
  Visitors = {"a", "b"}
  Views = {1, 2, 3}
  LinkOf <- TwoLinks
  VisitorOf <- ByParity
  EventBuffer = 2
  FlushBatch = 1
  Stops = {}
  Faults = {"dbErr"}
  MaxWrites = 1
  NoView = 0
INVARIANTS NoViewLost NotStranded
PROPERTY EventuallyPersisted
CHECK_DEADLOCK FALSE
