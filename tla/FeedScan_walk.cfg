SPECIFICATION FairSpec
CONSTANTS
  Platforms <- Both
  Disabled <- FirstPin
  N = 3
  Pinned <- FirstPin
  Since = 2
  Windowed = TRUE
  Cap = 1
  MaxSync = 1
  MaxComments = 1
  Faults <- AllFaults
INVARIANTS TypeOK WalkMissesNothing
PROPERTIES BackfillEnds
