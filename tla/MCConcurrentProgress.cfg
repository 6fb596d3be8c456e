\* Every form of a call on channels of capacity 1, one worker at a time, under
\* the fairness of the goroutines.  The service blocks on its own callback
\* channel when that is full, a nil callback of a panicked task ends the
\* process, and a closed service takes no more steps.
CONSTANTS
  Workers = {w1}
  MinConcurrentNum = 1
  MaxConcurrentNum = 1
  Cap = 1
  MaxTaskQueueSessionId = 2
  Calls <- CallbackCalls
  Results <- TrueOrPanic
  MaxTasks = 3
SPECIFICATION Spec
INVARIANTS
  NoDispatchDeadlock
  CloseIsComplete
PROPERTIES
  CallbackDelivered
  AcceptedRuns
CHECK_DEADLOCK FALSE
