SPECIFICATION FairSpec
CONSTANTS
  EnableReconn = TRUE
  ConnTimeout = FALSE
  Patient = TRUE
  MaxRetry = 1
  Delay = 2
  DelayMax = 5
  Exponential = TRUE
  RetryCap = 6
  Faults = {"badOptions", "dialError", "readStart", "lost", "protoError", "kick", "badHandshake", "disconnect", "cleanup"}
INVARIANTS TypeOK HeartbeatDone PauseBounded
PROPERTIES FreshSocket KeepsTrying
CHECK_DEADLOCK FALSE
