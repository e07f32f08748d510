SPECIFICATION LibrarySpec
CONSTANTS
  Requests = {r1, r2, r3, r4}
  Max = 2
  Window = 5
  Second = 2
  Horizon = 8
  N = 3
  Missing = missing
  TaskCategories = {category}
  Entities = {e1, e2, e3}
  MaxRels = 3
  MaxDepth = 2
  Categories = {tool, security}
  Severities = {warning}
  FailedTasks = {a}
  MaxReport = 2
  MaxCalls = 4
  MaxVersion = 2
  Keep = 1
  Retries = 2
  MaxTime = 1
  Chats = {c1, c2, c3}
  Sizes = {1, 2}
  MaxMessages = 2
  MaxTokens = 2
  MaxLines = 3
  Names = {"a", "b"}
INVARIANTS
  WindowHonoured RetrySuffices VerdictForetellsPlan SearchesExact RepeatsCounted CompleteKept FreshStartExplained RepliesTrue MeaningKept
PROPERTIES
  AnsweredRemembered
CHECK_DEADLOCK FALSE
