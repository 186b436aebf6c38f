\* Two organisations, each with a case or one with both; two mails, two items
\* and one reviewer; two handlers of several statements at a time.
SPECIFICATION Spec
CONSTANTS
  o1 = o1
  o2 = o2
  c1 = c1
  c2 = c2
  m1 = m1
  m2 = m2
  Orgs = {o1, o2}
  Users = {u1}
  Cases = {c1, c2}
  Items = {i1, i2}
  Mails = {m1, m2}
  Requests = {r1, r2}
  NoOrg = NoOrg
  NoUser = NoUser
  NoPlace = NoPlace
ACTION_CONSTRAINT Bounded
SYMMETRY MCSymmetry
INVARIANTS DeletedLeavesNothing AloneItSucceeds AssignmentsAreOwn AddedIsListed ExportsAreExact
CHECK_DEADLOCK FALSE
