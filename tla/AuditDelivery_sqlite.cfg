\* The shared table: two loops, redrives between read and write, failing writes, with and without a local output.
SPECIFICATION FairSpec
CONSTANTS
  NoEvent = NoEvent
  Events = {e}
  Sinks = {s, t}
  Durable = TRUE
  OutputChoices = {TRUE, FALSE}
  ByRequest = FALSE
  MaxAttempts = 2
  BaseBackoff = 1
  MaxBackoff = 1
  BatchSize = 1
  MaxIDs = 1
  Horizon = 1
  MaxFaults = 1
  MaxRedrives = 1
  MaxSwaps = 1
  MaxRestarts = 0
\* Delivery may come to rest: nothing more has to be published, redriven or refreshed.
CHECK_DEADLOCK FALSE
INVARIANTS
  DeliveredIsReceived
  DeadIsExhausted
  HandledIsQueued
PROPERTIES
  LoopSettles
