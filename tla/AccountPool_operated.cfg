SPECIFICATION Spec
CONSTANTS
  a1 = a1
  a2 = a2
  t1 = t1
  t2 = t2
  NoAccount = NoAccount
  Accounts <- TwoAccounts
  Registered <- OnlyFirst
  Tasks <- OnlyT1
  WorkerOf <- OneWorker
  Renews <- OnlyT1
  MaxFailures = 1
  OperatorActs <- Acts
  Faults <- FaultKinds
INVARIANTS InUseIsLeased
CHECK_DEADLOCK FALSE
