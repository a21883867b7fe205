SPECIFICATION MCFairSpec
CONSTANTS
  MaxCalls = 3
  RulesEnabled = TRUE
  TimelineEnabled = TRUE
  MaxPosted = 3
  MaxItems = 3
  Budgets = {0, 1, 2, 3}
  PlacesCap = 2
  Posts <- ShortPosts
  Answers <- ShortAnswers
INVARIANTS DonePayloadComplete SelectionLeavesBudget 
INVARIANTS SummariesBelong NothingUsableLost StatusTellsCause
PROPERTIES FirstErrorStands ReasonsNeverCostTheJob
CHECK_DEADLOCK FALSE
