SPECIFICATION FairSpec
CONSTANTS
  j1 = j1
  j2 = j2
  s1 = s1
  s2 = s2
  NoJob = NoJob
  Jobs <- OneJob
  Slots <- OneSlot
  WorkerOf <- TwoWorkers
  Kind <- AllCookies
  Inactive <- Nobody
  Queue = "sqs"
  Faults <- SqsFaults
  MaxRetries = 2
  RetryCap = 4
  MaxCopies = 2
PROPERTIES JobsSettle
INVARIANTS QueuedIsBacked
CHECK_DEADLOCK FALSE
