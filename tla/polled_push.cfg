SPECIFICATION Spec
CONSTANTS
  Reqs = {r1}
  Notifies = {n1}
  Retriers = {r1}
  Users = {u1}
  Slots = 1
  MaxId = 3
  Handlers = {h1}
  MaxLoad = 4
INVARIANT PolledKinds
CHECK_DEADLOCK FALSE
