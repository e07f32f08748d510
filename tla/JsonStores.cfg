SPECIFICATION Spec
CONSTANTS
  Threads = {"import1", "import2", "tool"}
  Procs = {"server", "mcp"}
  Home <- HomeOf
  Ids = {1, 2}
  Rank <- Numbered
  MayFail = TRUE
INVARIANTS
  SavedWhenReturning
  ReportsHold
  LockInUse
