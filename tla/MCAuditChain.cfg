\* Two organisations, two writers, three rows in all, one of them edited;
\* one of the organisations may be deleted.
SPECIFICATION FairSpec
CONSTANTS
  login = login
  export = export
  pLogin = pLogin
  pExport = pExport
  Orgs = {o1, o2}
  Writers = {w1, w2}
  Entries = {login, export}
  Payloads <- MCPayloads
  Hashed <- MCHashed
  Reread <- MCReread
  NoOrg = NoOrg
  MaxLog = 3
  MaxEdits = 1
  MaxRows = 3
  MaxHash = 2
  Deleted = {o1}
ACTION_CONSTRAINT FewRows
INVARIANTS LogIsATree AlarmsAreExplained EditIsDetected
PROPERTIES BrokenStaysBroken BreakIsReported
