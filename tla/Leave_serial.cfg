SPECIFICATION Spec
CONSTANTS
  LeaveRequests = {r1, r2}
  Handlers = {h}
  Spans <- SmallSpans
  HireDays = {0, 2}
  Adjustments <- AddOrTake
  WorkDays = {2}
  MaxAdjusted = 1
  MaxRebuilt = 1
  LastDay = 5
  YearLength = 2
  MonthLength = 1
  MonthsPerYear = 2
  BaseAnnual = 2
  MaxCarryYears = 1
  NoOne = NoOne
INVARIANTS
  BooksBalance
  DaysOffAreClear
  CarryOverIsKept
CHECK_DEADLOCK FALSE
