\* Two submissions, no snapshot: only the hand-over between goroutines is at work.
SPECIFICATION FairSpec
CONSTANTS
  NoRun = NoRun
  Operator = Operator
  Runs = {a, b}
  QueueMode = "enqueue"
  MayClarify = {}
  Gated = {}
  BindsSnapshot = FALSE
  StoreHonoursCtx = FALSE
  MaxRounds = 1
  MaxTickets = 0
  MaxCancels = 0
  MaxResumes = 0
  MaxRestarts = 0
\* A session may come to rest: nobody has to submit, decide or cancel anything more.
CHECK_DEADLOCK FALSE
PROPERTIES
  QueuedRunLeavesQueue
