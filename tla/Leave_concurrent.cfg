SPECIFICATION Spec
CONSTANTS
  LeaveRequests = {r1}
  Handlers = {h1, h2}
  Spans <- MorningSpan
  HireDays = {0, 3}
  Adjustments <- AddOrTake
  WorkDays = {}
  MaxAdjusted = 1
  MaxRebuilt = 1
  LastDay = 4
  YearLength = 2
  MonthLength = 1
  MonthsPerYear = 2
  BaseAnnual = 2
  MaxCarryYears = 1
  NoOne = NoOne
INVARIANTS TypeOK
PROPERTIES ExpiredStaysExpired
CHECK_DEADLOCK FALSE
