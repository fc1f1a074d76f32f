SPECIFICATION LiveNetSpec
CONSTANTS
  r1 = r1
  r2 = r2
  n1 = n1
  Reqs = {r1}
  Notifies = {}
  Timed = {r1}
  Retriers = {}
  Heartbeat = FALSE
  WriteFails = FALSE
  EnableReconn = TRUE
  Faults = {}
PROPERTY TimeoutFires
CHECK_DEADLOCK FALSE
