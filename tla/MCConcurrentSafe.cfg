\* Four tasks on channels of capacity 1, with at most two workers.  The
\* service stops, and a closed service takes no more steps.
CONSTANTS
  Workers = {w1, w2}
  MinConcurrentNum = 0
  MaxConcurrentNum = 2
  Cap = 1
  MaxTaskQueueSessionId = 2
  Calls <- QueueCalls
  Results <- FalseOnly
  MaxTasks = 4
SYMMETRY WorkerSymmetry
SPECIFICATION Safety
INVARIANTS
  SameQueueSerial
  SameQueueFIFO
CHECK_DEADLOCK FALSE
