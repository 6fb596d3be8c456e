\* A board of two places for three keys, with expiry, a failing save and a crash;
\* lists, rings and frame timers that meet every boundary of theirs; tables of two
\* other nodes, one a master; a calendar of short minutes, hours, days and months.
CONSTANTS
  RankKeys = {0, 1, 2}
  Sorts = {1, 2}
  RankId = 9
  IsDes = TRUE
  MaxLen = 2
  ExpireMs = 1
  MaxPick = 2
  Starts <- MCStarts
  MaxNow = 1
  MaxFaults = 1
  Entries = {1, 2, 3, 4}
  MaxLevel = 3
  WidthBits = 3
  Elems = {1, 2}
  MinCapacity = 2
  MaxLength = 5
  Kinds = {"deque", "queue", "squeue"}
  Groups = {g1}
  MaxTimers = 2
  MaxFrame = 4
  Delays = {0, 1, 3}
  Multiples = {0, 1, 2}
  LocalNode = n0
  RemoteNodes = {n1, n2}
  MasterNodes = {n1}
  LocalOffers <- MCLocalOffers
  Announcements <- MCAnnouncements
  AllowDiscovery <- MCAllowDiscovery
  Listeners = {s1}
  EventRoom = 2
  MaxChanges = 3
  MinuteLen = 2
  HourLen = 2
  DayLen = 2
  WeekLen = 3
  MonthDays <- MCMonthDays
  LeapEvery = 4
  ZoneShift = 0
  CronTexts <- MCCronTexts
  CronStarts <- MCCronStarts
  CronYears = 6
INIT Init
NEXT Next
INVARIANTS
  BoardRight
  SavedAfterStop
  SkipListRight
  RingIsSequence
  
  LookupsAgree
  FirstDueFound
\* The requests and the frames are bounded.
CHECK_DEADLOCK FALSE
