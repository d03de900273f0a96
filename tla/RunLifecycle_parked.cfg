\* One run, one ticket that may be approved, one operator resume.
SPECIFICATION FairSpec
CONSTANTS
  NoRun = NoRun
  Operator = Operator
  Runs = {a}
  QueueMode = "enqueue"
  MayClarify = {}
  Gated = {}
  BindsSnapshot = TRUE
  StoreHonoursCtx = FALSE
  MaxRounds = 1
  MaxTickets = 1
  MaxCancels = 0
  MaxResumes = 1
  MaxRestarts = 0
\* A session may come to rest: nobody has to submit, decide or cancel anything more.
CHECK_DEADLOCK FALSE
PROPERTIES
  ApprovedRunContinues
