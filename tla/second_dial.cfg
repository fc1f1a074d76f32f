SPECIFICATION Spec
CONSTANTS
  EnableReconn = TRUE
  ConnTimeout = FALSE
  Patient = FALSE
  MaxRetry = 1
  Delay = 2
  DelayMax = 5
  Exponential = FALSE
  RetryCap = 3
  Faults = {"lost"}
INVARIANT HeartbeatDone
CHECK_DEADLOCK FALSE
