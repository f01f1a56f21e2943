SPECIFICATION PeopleSpec
CONSTANTS
  u1 = u1
  u2 = u2
  o1 = o1
  f1 = f1
  i1 = i1
  i2 = i2
  t1 = t1
  t2 = t2
  t3 = t3
  h1 = h1
  h2 = h2
  Users = {u1}
  Organizations = {o1}
  Offices = {f1}
  OfficeOrg <- OfficeOrgs
  Platform = {u1}
  InviteIds = {i1, i2}
  TokenIds = {t1, t2, t3}
  LastPassword = 1
  ContextTypes = {"platform", "office_admin"}
  Handlers = {h1, h2}
INVARIANT PlatformStaysPlatform
CHECK_DEADLOCK FALSE
