\* Two modules, one object of every pool, one other event processor.
CONSTANTS
  Mods = {m1, m2}
  Timers = {t1}
  Tickers = {q1}
  Crons = {k1}
  Procs = {p1}
  Plans <- MCPlans
  ChanTimerCap = 1
  MaxEvent = 1
  MaxTimers = 2
SPECIFICATION Spec
INVARIANTS
  PooledIsIdle
  CancelledNeverFires
  ReleasedIsGone
PROPERTIES
  TimerFires
CHECK_DEADLOCK FALSE
