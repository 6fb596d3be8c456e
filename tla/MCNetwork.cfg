SPECIFICATION NetSpec
CONSTANTS
  c1 = c1
  c2 = c2
  Conns = {c1, c2}
  Setups <- MCSetups
  MaxConnNum = 1
  PendingWriteNum = 1
  MaxEventNum = 2
INVARIANTS CloseIsClean BuffersOnce FlushedInOrder
PROPERTY ConnectionEnds
CHECK_DEADLOCK FALSE
