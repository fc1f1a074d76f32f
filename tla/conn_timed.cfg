SPECIFICATION FairSpec
CONSTANTS
  EnableReconn = TRUE
  ConnTimeout = TRUE
  Patient = TRUE
  MaxRetry = 1
  Delay = 2
  DelayMax = 5
  Exponential = FALSE
  RetryCap = 3
  Faults = {"badOptions", "badHandshake", "dialError", "readStart", "handshakeTimer", "protoError", "kick", "retryLimit", "cleanup"}
INVARIANTS ConnTimerDials
PROPERTIES EventsExpected KeepsTrying
CHECK_DEADLOCK FALSE
