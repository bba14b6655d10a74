SPECIFICATION FairSpec
CONSTANTS
  N = 5
  Parent <- Threads
  Platforms <- Both
  Caps <- NoneOrTwo
  PageSize = 1
  InlineReplies = 1
  ReplyPageSize = 1
  MaxPages = 2
  MaxReplyPages = 2
  Faults <- CutShort
INVARIANTS TypeOK CountIsTrue CapHolds
PROPERTIES OnlyTheGoneAreDeleted EveryCommentArrives
CHECK_DEADLOCK FALSE
