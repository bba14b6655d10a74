SPECIFICATION Spec
CONSTANTS
  Apis <- All
  Creds = {k1, k2}
  Tasks = {t1, t2}
  Retries = 1
  Rotations = 2
  Limit = 1
  MaxActs = 1
  Frail = {k1}
  Operated <- NotKeys
  Rekeyed = FALSE
INVARIANTS TypeOK
PROPERTIES HealthyIsNotBlamed DatesAreKept RequestsEnd
CHECK_DEADLOCK FALSE
