\* The same tab: bob presses "Legal Hold".
SPECIFICATION FairSpec
CONSTANTS
  ann = ann
  bob = bob
  o1 = o1
  o2 = o2
  m1 = m1
  m2 = m2
  m3 = m3
  none = none
  words = words
  c1 = c1
  c2 = c2
  p1 = p1
  p2 = p2
  Users = {ann, bob}
  Orgs = {o1, o2}
  RoleOf <- MCRoleOf
  OrgOf <- MCOrgOf
  NoUser = NoUser
  OtherUsers = {bob}
  Routes = {"/login", "/", "/audit", "/admin", "/message-view"}
  Mails = {m1, m2, m3}
  MailOrg <- MCMailOrg
  Criteria = {none, words}
  NoCriteria = none
  Hits <- MCHits
  DomainUsers = {ann}
  Limit = 1
  MaxSearches = 2
  Workers = {bob}
  OldHolds = {o1}
  PublicId <- MCPublicId
  NoId = NoId
  RowIds = {1, 2}
  Cases = {c1, c2}
  CaseOrg <- MCCaseOrg
  NoCase = NoCase
  Readable <- MCReadable
  ThreadOf <- MCThreadOf
  StatusOf <- MCStatusOf
  Statuses = {"LOADING", "VALID", "TAMPERED", "UNAVAILABLE", "ERROR"}
  NoMail = NoMail
  MaxOld = 1
PROPERTY BulkHoldHolds
