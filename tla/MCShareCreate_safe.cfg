SPECIFICATION TwinFairSpec
CONSTANTS
  Requests = {"q1", "q2", "q3", "q4", "q5"}
  Resources = {"s1", "s2", "x1", "x9"}
  Users = {"u0", "u1", "u2"}
  ReqRes <- SharedRes
  ReqUser <- Askers
  OwnerOf <- Authors
  Ids = {1, 2, 9}
  IdOf <- Numbers
  Nobody = "u0"
  Codes = {"c1", "c2"}
  MaxCodeRetry = 2
  Faults = {"dbErr", "dbReplyLost"}
  None = None
INVARIANTS TypeOK OneLivePerResource OnlyOwnerShares CreatedOnce FailsForAReason TwinAgrees
PROPERTIES CodeNeverReassigned RegistrySpec RequestAnswered
CHECK_DEADLOCK FALSE
