SPECIFICATION TasksSpec
CONSTANTS
  h1 = h1
  h2 = h2
  boss = boss
  ann = ann
  bob = bob
  pa = pa
  pb = pb
  na = na
  nb = nb
  t1 = t1
  stranger = stranger
  p1 = p1
  p2 = p2
  Nil = Nil
  Absent = Absent
  Handlers = {h1, h2}
  Tasks = {t1}
  Projects = {pa, pb}
  ProjectNames = {na, nb}
  Staff = {boss, ann, bob}
  Admins = {boss}
  Lists <- SmallLists
  People = {p1, p2}
  Tokens = {t1}
  RolesGiven = {"ADMIN"}
  DirectoryChanges = {"Org Admin", "Gone"}
  Clients = {boss, ann}
  Managers = {boss}
  Audiences <- SmallAudiences
  ReplayLimit = 2
  MaxRevision = 3
  Names = {boss, ann}
  Teams = {pa}
  TaskIds = {t1}
  Incoming <- SmallWorkspaces
  Matrices <- SmallMatrices
SYMMETRY Symmetry
INVARIANTS
  TasksAreKept
  WhoIsConcernedKnows
  StaffIsSound
  EventsArrive
  WorkspaceIsWhole
CHECK_DEADLOCK FALSE
