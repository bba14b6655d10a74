SPECIFICATION Spec
CONSTANTS
  j1 = j1
  j2 = j2
  s1 = s1
  s2 = s2
  NoJob = NoJob
  Jobs <- OneJob
  Slots <- OneSlot
  WorkerOf <- OneWorker
  Kind <- AllCookies
  Inactive <- Nobody
  Queue = "redis"
  Faults <- NoFaults
  MaxRetries = 2
  RetryCap = 4
  MaxCopies = 2
PROPERTIES CancelledStaysCancelled
CHECK_DEADLOCK FALSE
