SPECIFICATION ServiceSpec
CONSTANTS
  Replicas = {"new1", "new2", "old"}
  Files = 2
  FilesOf <- Rolling
  Attempts = 2
  Faults = {"notReady", "dbErr", "die"}
  MaxFaults = 3
  None = None
  Ghost = Ghost
  MaxRequests = 4
  Limit = 1
  Window = 2
  MaxAhead = 1
  Delay = 1
  MaxRetries = 1
  MaxLost = 1
  MaxTime = 2
INVARIANTS TypeOK NeverDuplicate ServesOnSchema LimitHeld RefusedJustly
PROPERTIES HistorySpec EventuallyServing
CHECK_DEADLOCK FALSE
