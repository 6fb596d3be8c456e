SPECIFICATION SrvSpec
CONSTANTS
  t1 = t1
  n1 = n1
  l1 = l1
  s1 = s1
  Tcp = {t1}
  Nats = {n1}
  Local = {l1}
  Own = {s1}
  Offered <- MCOffered
  ChanLen = 1
  MaxRequests = 3
INVARIANTS ObjectsOwned AnsweredByOwn
PROPERTY EveryRequestAnswered
CHECK_DEADLOCK FALSE
