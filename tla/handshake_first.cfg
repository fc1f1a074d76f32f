SPECIFICATION Spec
CONSTANTS
  r1 = r1
  r2 = r2
  n1 = n1
  Reqs = {r1}
  Notifies = {}
  Timed = {}
  Retriers = {}
  Heartbeat = FALSE
  WriteFails = FALSE
  EnableReconn = TRUE
  Faults = {"lost"}
PROPERTY HandshakeFirst
CHECK_DEADLOCK FALSE
