SPECIFICATION SpecServices
CONSTANTS
  Nothing = Nothing
  Users = {"u"}
  EntryKeys = {"k"}
  Values = {"v1", "v2"}
  Absent = Nothing
  MaxEffects = 3
  MaxCommands = 2
  \* One deposit that fills a sweep, a cold transfer and a withdrawal; three
  \* transactions, and one of: a lost reply, a stop, a transaction dropped,
  \* ZEC that leaves.
  Deposits = {"d1"}
  DepositAmount = 8
  WithdrawalAmount = 1
  NetworkFee = 1
  SweepMin = 4
  HotFloor = 1
  HotShare = 4
  GuardPauses = TRUE
  MaxTxs = 3
  MaxWithdrawals = 1
  MaxUserCommands = 1
  MaxFaults = 1
  \* Two alarms, one of them critical.
  Alarms = {x1, x2}
  Critical = {x1}
  FailAfter = 3
  RepeatFor = 2
  Remembered = 3
  MaxRaised = 2
  MaxFailures = 5
  MaxMinutes = 3
  \* Two tabs of one person; a limit that two withdrawals reach.
  Browsers = {"b1", "b2"}
  Blank = Nothing
  Day = 1
  DailyLimit = 2
  WithdrawalFee = 1
  Asked = {1, 2}
  Deposited = 6
  MaxEarned = 1
  MaxHour = 2
  MaxShifts = 1
  MaxPresses = 2
  \* Every kind of command, with and without what it may leave out, twice.
  MaxLogged = 2
  MaxSeconds = 1
  \* Two people and a shared claim; a reading of the reserves is used twice.
  People = {"p1", "p2"}
  Shared = {"s1"}
  Ids <- ThreeIds
  CacheFor = 2
  MaxOwed = 2
  MaxCommandsLanded = 3
  MaxClock = 2
  \* Three records, two pages behind one address, one break or restart.
  EventLists <- MarketEvents
  Pages = {"g1", "g2"}
  Origin <- OnePlace
  MaxStreams = 1
  Interval = 1
  MaxRecords = 3
  MaxDrops = 1
  MaxHours = 1
CHECK_DEADLOCK FALSE
INVARIANTS
  AnchorsCoverNews
  ReplayIsExact
  PublishedHolds
  FeedTrue
  OutageAnnounced
  TypoRefused
  AccountAddsUp
PROPERTIES
  AlarmsExplained
  AllOrNothing
