\* Two clicks of the same approver; the first release call fails for a passing reason.
SPECIFICATION Spec
CONSTANTS
  Scope = {employee}
  OrgScope = org
  Member = {m1, m2}
  Request = {r1}
  Click = {c1, c2}
  Work = {}
  NoMember = NoMember
  NoRequest = NoRequest
  HoldLimit = 1
  TeamLimit = 0
INVARIANTS
  ReleaseRecordStays
CHECK_DEADLOCK FALSE
