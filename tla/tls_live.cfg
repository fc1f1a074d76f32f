SPECIFICATION LiveNetSpec
CONSTANTS
  r1 = r1
  Reqs = {r1}
  Notifies = {}
  Timed = {r1}
  Retriers = {}
  Heartbeat = TRUE
  WriteFails = TRUE
  EnableReconn = TRUE
  Faults = {"readStart", "protoError"}
PROPERTY TimeoutFires
CHECK_DEADLOCK FALSE
