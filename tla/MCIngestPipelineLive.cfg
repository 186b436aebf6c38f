\* Two mails, three attempts, one fault: what is accepted arrives completely.
SPECIFICATION FairSpec
CONSTANTS
  m1 = m1
  m2 = m2
  b1 = b1
  Mails = {m1, m2}
  Attachments <- MCShared
  Blobs = {b1}
  Ids = {1, 2, 3}
  Slots = {s1, s2}
  NoMail = NoMail
  NoBlob = NoBlob
  NoId = 0
  NoSlot = NoSlot
  CasLimit = 1
  MsgLimit = 2
  FaultKinds = {"link", "agent", "sqlite", "disk", "sync", "core", "meili", "head"}
  MaxFaults = 1
ACTION_CONSTRAINT LowestFirst
PROPERTIES  EveryBatchIsAnswered
CHECK_DEADLOCK FALSE
