SPECIFICATION Spec
CONSTANTS
  j1 = j1
  j2 = j2
  s1 = s1
  s2 = s2
  NoJob = NoJob
  Jobs <- TwoJobs
  Slots <- TwoSlots
  WorkerOf <- TwoWorkers
  Kind <- CookiesThenVerify
  Inactive <- SecondPaused
  Queue = "redis"
  Faults <- Deaths
  MaxRetries = 1
  RetryCap = 3
  MaxCopies = 2
INVARIANTS TypeOK AtMostOneAttempt SoleOwner
PROPERTIES SettledStaysSettled ImplementsLifecycle
SYMMETRY SlotSymmetry
CHECK_DEADLOCK FALSE
