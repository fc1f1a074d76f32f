SPECIFICATION FairSpec
CONSTANTS
  r1 = r1
  Reqs = {r1}
  Notifies = {}
  Timed = {}
  Retriers = {}
  Heartbeat = FALSE
  WriteFails = TRUE
  EnableReconn = TRUE
  Faults = {"disconnect", "cleanup"}
PROPERTIES DisconnectCompletes DisconnectEnds CleanupEnds
CHECK_DEADLOCK FALSE
