\* A mail with a display name comes after the hold.
SPECIFICATION FairSpec
CONSTANTS
  m1 = m1
  m2 = m2
  r1 = r1
  n1 = n1
  o1 = o1
  worker = worker
  Messages = {m1, m2}
  Requests = {r1}
  Purgers = {worker}
  Names = {n1}
  NameOf <- MCOneName
  HoldOrgs = {o1}
  OrgOf <- MCOneOrg
  Matches <- MCMatchesAll
  RawMatches <- MCRawOne
  Undated = {}
  Rank <- MCRank
  Limit = 2
  MaxSends = 1
  MaxFaults = 0
PROPERTY ShownHoldKeeps
