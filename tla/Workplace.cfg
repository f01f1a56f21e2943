SPECIFICATION WorkplaceSpec
CONSTANTS
  h1 = h1
  h2 = h2
  e1 = e1
  x1 = x1
  x2 = x2
  x3 = x3
  k1 = k1
  k2 = k2
  y1 = y1
  y2 = y2
  b1 = b1
  b2 = b2
  c1 = c1
  d1 = d1
  d2 = d2
  Handlers = {h1, h2}
  Staff = {e1}
  Audiences = {{}, {e1}}
  CatalogHolidays = {y1}
  CustomHolidays = {y2}
  CatalogDate <- OnTheFirstDay
  LastDate = 0
  Workers = {e1}
  DueAt <- ReminderTimes
  Slack = 2
  LastTick = 5
  MaxMissed = 2
  Months = {0, 1, 2}
  OpenMonths = 2
  Orders <- SmallOrders
  Updates <- SmallUpdates
  Edits <- SmallEdits
  Admins = {e1}
  Credentials = {c1}
  Secrets = {"s1"}
  Sections = {"credentials", "reveal"}
  Lifetime = 1
  MaxAttempts = 2
  LastWindow = 2
  Talkers = {x1, x2, x3}
  Employed = {x1, x2, x3}
  ChatAdmins = {x1}
  Conversations = {k1, k2}
  MaxMessages = 2
  Displays = {d1, d2}
  Screens = {b1, b2}
  Codes = {1, 2}
  LastToken = 2
  LastPeriod = 1
SYMMETRY Symmetry
INVARIANTS
  AnnouncedHaveTheDayOff
  HolidaysAreToldOnce
  RemindedOnce
  RemindersArrive
  MonthsAreBilled
  VaultIsGuarded
  ThreadsOfTwo
  MembersAreTold
  PairingsAreSound
CHECK_DEADLOCK FALSE
