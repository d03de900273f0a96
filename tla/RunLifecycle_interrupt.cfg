\* Two runs that interrupt each other, an operator cancel, and a follow-up that supersedes a.
SPECIFICATION Spec
CONSTANTS
  NoRun = NoRun
  Operator = Operator
  Runs = {a, b}
  QueueMode = "interrupt"
  MayClarify = {a}
  Gated = {}
  BindsSnapshot = FALSE
  StoreHonoursCtx = FALSE
  MaxRounds = 1
  MaxTickets = 0
  MaxCancels = 1
  MaxResumes = 0
  MaxRestarts = 0
\* A session may come to rest: nobody has to submit, decide or cancel anything more.
CHECK_DEADLOCK FALSE
INVARIANTS
  SlotOwned
PROPERTIES
  OutcomeIsPermanent
