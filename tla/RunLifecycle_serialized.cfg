\* Two submissions and an operator cancel.
SPECIFICATION Spec
CONSTANTS
  NoRun = NoRun
  Operator = Operator
  Runs = {a, b}
  QueueMode = "enqueue"
  MayClarify = {}
  Gated = {}
  BindsSnapshot = TRUE
  StoreHonoursCtx = FALSE
  MaxRounds = 1
  MaxTickets = 0
  MaxCancels = 1
  MaxResumes = 0
  MaxRestarts = 0
SYMMETRY Symmetry
\* A session may come to rest: nobody has to submit, decide or cancel anything more.
CHECK_DEADLOCK FALSE
INVARIANTS
  ExecutionIsSerialized
