SPECIFICATION StatsSpec
CONSTANTS
  Subjects <- Kinds
  MaxDays <- DaysFor
  MaxPosts <- PostsFor
  Values <- ValuesFor
  Readings <- ReadingsFor
  Charts <- ChartsFor
  Thresholds = {2, 3}
  Window = 1
  Lookback = 2
  MinPosts = 2
  Rescored = 3
  Limit = 2
  Candidates = 4
  Widened = 1
  Shorts = {1, 3, 4}
INVARIANTS GrowthIsReal GainsWereSeen WindowsAgree
PROPERTIES ScoresAgree
CHECK_DEADLOCK FALSE
