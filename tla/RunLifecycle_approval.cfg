\* One run with every outside event: two tickets, a cancel, an operator resume, a restart; SQLite store.
SPECIFICATION Spec
CONSTANTS
  NoRun = NoRun
  Operator = Operator
  Runs = {a}
  QueueMode = "enqueue"
  MayClarify = {}
  Gated = {}
  BindsSnapshot = TRUE
  StoreHonoursCtx = TRUE
  MaxRounds = 2
  MaxTickets = 2
  MaxCancels = 1
  MaxResumes = 1
  MaxRestarts = 1
\* A session may come to rest: nobody has to submit, decide or cancel anything more.
CHECK_DEADLOCK FALSE
INVARIANTS
  TypeOK
  CancelReachable
  QueuedOnce
  ParkedHasTicket
  ResumedIsApproved
PROPERTIES
  DecisionIsFinal
  OutcomeIsPermanent
