\* One synchronous caller and one service, two remote nodes and the local one.
CONSTANTS
  A = A
  B = B
  L = L
  Callers = {c1}
  Nodes = {A, B, L}
  Local = L
  Plans <- MCPlans
  Objs = {o1, o2}
  MaxCalls = 2
  MaxOther = 1
  MaxDrops = 1
SPECIFICATION Spec
INVARIANTS
  FreedUnreachable
  CompletesItsOwnCall
  CallbackAtMostOnce
PROPERTIES
  CallReturns
  CallbackRuns
CHECK_DEADLOCK FALSE
