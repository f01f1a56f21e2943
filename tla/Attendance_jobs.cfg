CONSTANTS
  Employees = {e1}
  Keys = {k1, k2, k3}
  e1 = e1
  k1 = k1
  k2 = k2
  k3 = k3
  Messages <- MCMessages
  AdminTimes <- MCAdminTimes
  NoKey = NoKey
  ServerKey = ServerKey
  Requests = {r1}
  Jobs = {j1, j2}
  LastDay = 1
  LastTick = 1
  OutTick = 1
  InTick = 0
  AutoTick = 1
SYMMETRY Symmetry
SPECIFICATION Spec
INVARIANTS
  OneNoticePerShift
  OneOpenShift
