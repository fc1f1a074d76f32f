SPECIFICATION Spec
CONSTANTS
  r1 = r1
  n1 = n1
  Reqs = {r1}
  Notifies = {n1}
  Timed = {r1}
  Retriers = {n1}
  Heartbeat = TRUE
  WriteFails = TRUE
  EnableReconn = TRUE
  Faults = {"protoError", "dialError", "cleanup"}
INVARIANTS TypeOK OneQueue NoLostMessage OnlyAnsweredOrphans WritingInFlight
PROPERTIES ImplementsRequestLife CleanupAcks
CHECK_DEADLOCK FALSE
