SPECIFICATION Spec
CONSTANTS
  u1 = u1
  u2 = u2
  d1 = d1
  d2 = d2
  l1 = l1
  l2 = l2
  r1 = r1
  r2 = r2
  i1 = i1
  i2 = i2
  i3 = i3
  e1 = e1
  c1 = c1
  p1 = p1
  p2 = p2
  p3 = p3
  User = {u1, u2}
  Department = {d1, d2}
  Location = {l1, l2}
  Room = {r1, r2}
  Row = {i1, i2, i3}
  Asset = {e1, c1}
  RoomChecked = {e1}
  Seat = {p1, p2, p3}
  Code <- MCCode
  Offered = {"LOCATION_ADMIN", "ROOM_ADMIN"}
  Role = {"SITE_ADMIN", "DEPARTMENT_ADMIN", "LOCATION_ADMIN", "LOCATION_VIEWER", "ROOM_ADMIN", "ROOM_CLERK"}
  Scenario <- MCScenario
  Creator <- MCCreator
  AllSites = AllSites
  NoSite = NoSite
  NoUser = NoUser
  NoSession = NoSession
  Unborn = Unborn
  Deleted = Deleted
  NoRow = NoRow
INVARIANTS VisibleIffManageable AuthorityFlowsDown HoldersStayPut CoverageAgrees ReachAgrees PagesAgree ContextFresh
CHECK_DEADLOCK FALSE
