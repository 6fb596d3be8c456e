\* Two nodes that start, and retire and stop, or register again, in any order.
CONSTANTS
  Nodes = {n1, n2}
  n1 = n1
  n2 = n2
  Plans <- MCPlans
  MaxReg = 3
  ReplyFirst = TRUE
SPECIFICATION Spec
INVARIANTS
  ListedHasClient
PROPERTIES
  RunningStaysListed
  EventuallySynchronised
CHECK_DEADLOCK FALSE
