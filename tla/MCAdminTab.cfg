\* root and ann in one browser; every table has a row that can come or go.
SPECIFICATION FairSpec
CONSTANTS
  root = root
  ann = ann
  o1 = o1
  o2 = o2
  ro1 = ro1
  ro2 = ro2
  agent = agent
  uroot = uroot
  uann = uann
  udan = udan
  ueve = ueve
  pglobal = pglobal
  pown = pown
  hold = hold
  holdoff = holdoff
  c1 = c1
  c2 = c2
  i1 = i1
  i2 = i2
  i3 = i3
  t1 = t1
  t2 = t2
  Users = {root, ann}
  Orgs = {o1, o2}
  RoleOf <- MCRoleOf
  OrgOf <- MCOrgOf
  NoUser = NoUser
  OtherUsers = {}
  Routes = {"/login", "/", "/audit", "/admin", "/admin/users", "/admin/retention", "/admin/holds", "/admin/cases", "/admin/hold-view", "/admin/case-view", "/admin/review"}
  Rows = {ro1, ro2, agent, uroot, uann, udan, ueve, pglobal, pown, hold, holdoff, c1, c2}
  NoRow = NoRow
  NoOrg = NoOrg
  Kind <- MCKind
  RowOrg <- MCRowOrg
  ClientAdmins = {uann, udan}
  Auditors = {ueve}
  Released <- MCReleased
  FirstRows = {ro1, ro2, agent, uroot, uann, pglobal, hold, c1, c2}
  OtherRows = {pown}
  MaxSame = 2
  Items = {i1, i2, i3}
  CaseOf <- MCCaseOf
  Account <- MCAccount
  Tags = {t1, t2}
  Statuses = {"PENDING", "COMPLETED"}
  FirstFile <- MCFirstFile
  Labels <- MCLabels
  OtherTags = {t2}
  MaxEdits = 2
INVARIANTS QuietListIsRight RowsAreMine QuietBoardIsRight
PROPERTIES WritesStayInOrg TagsAreKept SpinnersEnd
