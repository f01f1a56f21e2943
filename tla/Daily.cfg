CONSTANTS
  Employees = {e1}
  Keys = {k1, k2}
  e1 = e1
  k1 = k1
  k2 = k2
  k3 = k3
  Messages <- MCOneShift
  AdminTimes <- MCAdminTimes
  NoKey = NoKey
  ServerKey = ServerKey
  Requests = {r1}
  Jobs = {j1}
  LastDay = 1
  LastTick = 2
  OutTick = 1
  InTick = 0
  AutoTick = 2
  e2 = e2
  y1 = y1
  y2 = y2
  Handlers = {h1}
  h1 = h1
  Staff = {e1, e2}
  Audiences = {{}, {e1}}
  CatalogHolidays = {y1}
  CustomHolidays = {y2}
  CatalogDate <- OnTheFirstDay
  LastDate = 1
SPECIFICATION DailySpec
PROPERTIES
  OpenShiftIsClosed
  ForgottenShiftIsFlagged
  DueGetsApplied
