SPECIFICATION WorkSpec
CONSTANTS
  h1 = h1
  h2 = h2
  c1 = c1
  e1 = e1
  e2 = e2
  t1 = t1
  t2 = t2
  old = old
  r1 = r1
  r2 = r2
  r3 = r3
  s1 = s1
  s2 = s2
  a1 = a1
  a2 = a2
  p1 = p1
  p2 = p2
  Handlers = {h1, h2}
  Cycles = {c1}
  Employees = {e1, e2}
  Periods = {p1, p2}
  Areas = {a1, a2}
  Scores = {2, 4}
  SystemScores = {5}
  Templates = {t1, t2, old}
  Legacy = {old}
  Assignees = {e1}
  PastDays = {1, 2}
  LeaveOf <- MorningLeave
  Rows = {r1, r2, r3}
  SubmissionIds = {s1, s2}
  Wishes <- SmallWishes
SYMMETRY Symmetry
INVARIANTS
  SheetsOfOpenedCycles
  ReviewsAreWhole
  FormsInOrder
  RatingIsFair
  DaysAreAsApproved
PROPERTIES
  StagesInOrder
CHECK_DEADLOCK FALSE
