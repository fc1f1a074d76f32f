SPECIFICATION Spec
CONSTANTS
  r1 = r1
  n1 = n1
  Reqs = {r1}
  Notifies = {n1}
  Timed = {r1, n1}
  Retriers = {n1}
  Heartbeat = FALSE
  WriteFails = TRUE
  EnableReconn = FALSE
  Faults = {"protoError", "badHandshake", "readStart", "dialError", "lost"}
INVARIANTS TlsTypeOK OneQueue NoLostMessage WaitHasBytes IgnoredErrorSafe
PROPERTY ImplementsRequestLife
CHECK_DEADLOCK FALSE
