SPECIFICATION Spec
CONSTANTS
  EnableReconn = TRUE
  ConnTimeout = TRUE
  Patient = TRUE
  MaxRetry = 0
  Delay = 2
  DelayMax = 5
  Exponential = FALSE
  RetryCap = 3
  Faults = {"lost", "handshakeTimer", "retryLimit"}
PROPERTY ConnectErrorExpected
CHECK_DEADLOCK FALSE
