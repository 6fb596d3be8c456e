\* Three messages, two subscriptions of one customer, a midnight, and one
\* fault of every kind.
CONSTANTS
  RingCap = 2
  Customers = {c1}
  Methods = {"custom", "last"}
  ChanCap = 2
  OneBatch = 2
  RetryCount = 2
  MaxTryPersist = 3
  TicksPerDay = 1
  QuietMidnight = TRUE
  MaxNow = 2
  MaxMsgs = 3
  MaxSubs = 2
  Limits <- MCLimits
SPECIFICATION Spec
INVARIANTS
  
  ProgressIsProcessed
PROPERTIES
  RingIsWindow
  
\* A released service takes no more steps.
CHECK_DEADLOCK FALSE
