SPECIFICATION Spec
CONSTANTS
  Reqs = {r1, r2, r3}
  Notifies = {n1, n2}
  Retriers = {r1, r2, r3}
  Users = {u1}
  Slots = 1
  MaxId = 3
  Handlers = {h1, h2}
  MaxLoad = 4
SYMMETRY Symmetry
INVARIANTS TypeOK SlotsOwned AnswersOwn NoAnswerLost SuccessAnswered HandlersCalled CleanupDrained
PROPERTY ImplementsRequestLife
CHECK_DEADLOCK FALSE
