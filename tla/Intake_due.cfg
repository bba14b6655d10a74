SPECIFICATION Spec
CONSTANTS
  Influencers = {i1}
  Categories = {c1, c2}
  Home = c1
  MaxJobs = 3
  NoOne = NoOne
  MaxRetries = 1
  MaxActs = 1
  PoolReturns = TRUE
INVARIANTS TypeOK OffForAReason TicksDoNotPile
PROPERTIES EveryoneIsScraped
CHECK_DEADLOCK FALSE
