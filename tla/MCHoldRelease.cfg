\* The release flow: two members, two clicks, an upgrade and a team change.
SPECIFICATION FairSpec
CONSTANTS
  Scope = {employee}
  OrgScope = org
  Member = {m1, m2}
  Request = {r1}
  Click = {c1, c2}
  Work = {}
  NoMember = NoMember
  NoRequest = NoRequest
  HoldLimit = 2
  TeamLimit = 1
INVARIANTS
  ReleaseHasItsCall
PROPERTIES
  TwoPeopleRelease
  RefusalStands
  ReleaseSettles
  ImplementsTwoPersonStop
\* The rows and calls are bounded: the system may stop.
CHECK_DEADLOCK FALSE
