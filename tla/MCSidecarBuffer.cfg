\* Two mails with one shared attachment and at most one fault of any kind.  Five attempts
\* are enough: two first ones, two lost to a crash, one lost to the INSERT race.
SPECIFICATION BufferFairSpec
CONSTANTS
  m1 = m1
  m2 = m2
  b1 = b1
  Mails = {m1, m2}
  Blobs = {b1}
  Ids = {1, 2, 3, 4, 5}
  Attachments <- MCAttachments
  NoMail = NoMail
  NoBlob = NoBlob
  NoId = 0
  FaultKinds = {"link", "agent", "disk", "sqlite"}
  MaxFaults = 1
ACTION_CONSTRAINT LowestFirst
INVARIANTS BufferIsWhole CopiesAreExplained
PROPERTIES StatusOnlyAdvances EveryMailIsAccepted
CHECK_DEADLOCK FALSE
