SPECIFICATION Spec
CONSTANTS
  r1 = r1
  n1 = n1
  Reqs = {r1}
  Notifies = {n1}
  Timed = {}
  Retriers = {n1}
  Heartbeat = FALSE
  WriteFails = FALSE
  EnableReconn = TRUE
  Faults = {"cleanup"}
INVARIANT NothingLeft
CHECK_DEADLOCK FALSE
