\* One mail, one failing put that upload_blob turns into False.
SPECIFICATION Spec
CONSTANTS
  m1 = m1
  m2 = m2
  b1 = b1
  Mails = {m1}
  Attachments <- MCSingle
  Blobs = {b1}
  Ids = {i1, i2}
  Slots = {s1, s2}
  NoMail = NoMail
  NoBlob = NoBlob
  NoId = NoId
  NoSlot = NoSlot
  CasLimit = 1
  MsgLimit = 2
  FaultKinds = {"put"}
  MaxFaults = 1
INVARIANT AcceptedIsNeverLost
CHECK_DEADLOCK FALSE
