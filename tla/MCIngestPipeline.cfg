\* Two mails sharing an attachment; two faults of any kind.
SPECIFICATION Spec
CONSTANTS
  m1 = m1
  m2 = m2
  b1 = b1
  Mails = {m1, m2}
  Attachments <- MCShared
  Blobs = {b1}
  Ids = {i1, i2, i3}
  Slots = {s1, s2}
  NoMail = NoMail
  NoBlob = NoBlob
  NoId = NoId
  NoSlot = NoSlot
  CasLimit = 1
  MsgLimit = 2
  FaultKinds = {"link", "agent", "sqlite", "disk", "sync", "core", "meili", "head", "put", "doc", "index"}
  MaxFaults = 2
SYMMETRY MCSymmetry
INVARIANTS SyncedIsArchived CasSyncedIsStored OnlySwallowedIsLost  LossIsCounted ArchiveIsSound FullCountMeansStored
PROPERTY ImplementsPromise
CHECK_DEADLOCK FALSE
