SPECIFICATION Spec
CONSTANTS
  EnableReconn = TRUE
  ConnTimeout = FALSE
  Patient = TRUE
  MaxRetry = 1
  Delay = 2
  DelayMax = 5
  Exponential = FALSE
  RetryCap = 3
  Faults = {"disconnect"}
PROPERTY ConnectErrorExpected
CHECK_DEADLOCK FALSE
