\* The employee and its organisation stopped, upgraded, asked for and released in any order.
SPECIFICATION Spec
CONSTANTS
  Scope = {employee, org}
  OrgScope = org
  Member = {m1}
  Request = {r1, r2}
  Click = {c1}
  Work = {w1}
  NoMember = NoMember
  NoRequest = NoRequest
  HoldLimit = 3
  TeamLimit = 0
SYMMETRY Symmetry
INVARIANTS
  TypeOK
  PointerIsOpenHold
  OpenTagNamesOpenHold
PROPERTIES
  RequestNotReplaced
\* The rows and calls are bounded: the system may stop.
CHECK_DEADLOCK FALSE
