\* One worker, one hold, two mails, a page of one and one failure.
SPECIFICATION FairSpec
CONSTANTS
  m1 = m1
  m2 = m2
  r1 = r1
  n1 = n1
  o1 = o1
  worker = worker
  Messages = {m1, m2}
  Requests = {r1}
  Purgers = {worker}
  Names = {n1}
  NameOf <- MCOneName
  HoldOrgs = {o1}
  OrgOf <- MCOneOrg
  Matches <- MCMatchesAll
  RawMatches <- MCRawOne
  Undated = {m1}
  Rank <- MCRank
  Limit = 1
  MaxSends = 2
  MaxFaults = 1
ACTION_CONSTRAINT FewSteps
INVARIANTS DanglingIsPurged PurgesAreSound
PROPERTIES ExpiredIsPurged ActiveHoldKeeps
