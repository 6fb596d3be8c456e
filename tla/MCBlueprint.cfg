SPECIFICATION BpSpec
CONSTANTS
  IntWidth = 8
  ProbRange = 4
  MaxRecursion = 256
  Scripts <- MCScripts
  Edits <- MCEdits
  Arguments <- MCArguments
  Draws = {0, 2}
  MaxGraphs = 2
  MaxOps = 4
INVARIANTS RunsAsDrawn GlobalsAreOwn
CHECK_DEADLOCK FALSE
