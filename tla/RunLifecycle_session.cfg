\* Two runs share the queue and coalesce; b is gated; one ticket, so that creating another one fails.
SPECIFICATION Spec
CONSTANTS
  NoRun = NoRun
  Operator = Operator
  Runs = {a, b}
  QueueMode = "coalesce"
  MayClarify = {}
  Gated = {b}
  BindsSnapshot = TRUE
  StoreHonoursCtx = FALSE
  MaxRounds = 1
  MaxTickets = 1
  MaxCancels = 0
  MaxResumes = 0
  MaxRestarts = 0
\* A session may come to rest: nobody has to submit, decide or cancel anything more.
CHECK_DEADLOCK FALSE
INVARIANTS
  SlotOwned
  BacklogBound
  OneRunAtATime
