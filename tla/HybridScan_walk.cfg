SPECIFICATION FairSpec
CONSTANTS
  N = 3
  Pinned <- PinnedFirst
  Since = 2
  MaxSync = 1
  MaxComments = 1
  MaxMediaPages = 2
  FeedPages = 2
  Faults <- Failures
INVARIANTS TypeOK WindowIsFound CommentsOfTheRightMedia
PROPERTIES FirstSyncHappens
CHECK_DEADLOCK FALSE
