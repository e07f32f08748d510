SPECIFICATION Spec
CONSTANTS
  Categories = {tool, security}
  Severities = {warning}
  FailedTasks = {a}
  MaxReport = 2
  MaxCalls = 4
INVARIANTS ReportedStored
CHECK_DEADLOCK FALSE
