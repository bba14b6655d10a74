SPECIFICATION FairSpec
CONSTANTS
  a1 = a1
  a2 = a2
  t1 = t1
  t2 = t2
  NoAccount = NoAccount
  Accounts <- TwoAccounts
  Registered <- TwoAccounts
  Tasks <- TwoTasks
  WorkerOf <- OneWorker
  Renews <- TwoTasks
  MaxFailures = 2
  OperatorActs <- Nothing
  Faults <- Deaths
INVARIANTS TypeOK SessionsAreExclusive HolderAgrees
PROPERTIES LeasesEnd
CHECK_DEADLOCK FALSE
