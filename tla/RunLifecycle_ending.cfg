\* Two submissions, one of which may ask for input, and a restart, under fairness; no cancels and tickets.
SPECIFICATION FairSpec
CONSTANTS
  NoRun = NoRun
  Operator = Operator
  Runs = {a, b}
  QueueMode = "enqueue"
  MayClarify = {a}
  Gated = {}
  BindsSnapshot = TRUE
  StoreHonoursCtx = TRUE
  MaxRounds = 1
  MaxTickets = 0
  MaxCancels = 0
  MaxResumes = 0
  MaxRestarts = 1
\* A session may come to rest: nobody has to submit, decide or cancel anything more.
CHECK_DEADLOCK FALSE
INVARIANTS
  OneRunAtATime
PROPERTIES
  DispatchEnds
  RunningEnds
  SubmissionSettles
