SPECIFICATION BoundedSpec
CONSTANTS
  Proposal = {p1, p2}
  Claimer = {c1, c2}
  BadgeLimit = 3
  StopLimit = 1
  RenewalLimit = 5
INVARIANTS
  RenewalTypeOK
  BindingNamesAHandedBadge
  OverlapCanEnd
PROPERTIES
  RetiredBadgeStaysOut
  StopClosesTheWindow
  OverlapEnds
CHECK_DEADLOCK FALSE
