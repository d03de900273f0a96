\* The dispatcher of the bootstrap, no refresh.
SPECIFICATION FairSpec
CONSTANTS
  NoEvent = NoEvent
  Events = {e}
  Sinks = {s}
  Durable = TRUE
  OutputChoices = {FALSE}
  ByRequest = FALSE
  MaxAttempts = 1
  BaseBackoff = 1
  MaxBackoff = 1
  BatchSize = 1
  MaxIDs = 1
  Horizon = 1
  MaxFaults = 0
  MaxRedrives = 0
  MaxSwaps = 0
  MaxRestarts = 0
\* Delivery may come to rest: nothing more has to be published, redriven or refreshed.
CHECK_DEADLOCK FALSE
PROPERTIES
  PendingSettles
