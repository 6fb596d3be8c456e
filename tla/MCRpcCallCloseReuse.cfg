\* A node is deleted while an asynchronous call to it is being written.
CONSTANTS
  A = A
  B = B
  L = L
  Callers = {}
  Nodes = {A}
  Local = L
  Plans <- ClosePlan
  Objs = {o1}
  MaxCalls = 1
  MaxOther = 0
  MaxDrops = 1
SPECIFICATION Safety
INVARIANT
  FreedUnreachable
CHECK_DEADLOCK FALSE
