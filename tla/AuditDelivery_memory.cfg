\* One loop per in-memory outbox: a swap starts with an empty one.
SPECIFICATION Spec
CONSTANTS
  NoEvent = NoEvent
  Events = {e, f}
  Sinks = {s}
  Durable = FALSE
  OutputChoices = {FALSE}
  ByRequest = TRUE
  MaxAttempts = 2
  BaseBackoff = 1
  MaxBackoff = 1
  BatchSize = 2
  MaxIDs = 2
  Horizon = 2
  MaxFaults = 0
  MaxRedrives = 1
  MaxSwaps = 1
  MaxRestarts = 1
SYMMETRY Symmetry
\* Delivery may come to rest: nothing more has to be published, redriven or refreshed.
CHECK_DEADLOCK FALSE
INVARIANTS
  TypeOK
  DeliveredIsReceived
  RetryBudget
PROPERTIES
  CallsAreDue
  DeliveredIsFinal
