SPECIFICATION OutboundSpec
CONSTANTS
  d1 = d1
  d2 = d2
  a1 = a1
  a2 = a2
  alice = alice
  bob = bob
  job = job
  long = long
  short = short
  Direct = {d1, d2}
  Approval = {a1, a2}
  Employee = {alice, bob}
  Job = {job}
  Body = {long, short}
  LongBody = {long}
  Abouts <- OutboundAbouts
  PostLimit = 2
  LossLimit = 1
  ReplyLimit = 3
  Subscription = {s1}
  Event = {e1}
  Worker = {w1, w2}
  Caller = {c1}
  MaxAttempts = 2
  AccountLimit = 1
  DeathLimit = 1
  FaultLimit = 2
INVARIANTS
  TypesOK
  SupersededForAReason
  PostsAreCounted
PROPERTIES
  NoDuplicateReply
  NoStaleReply
  EndedDeliveriesStay
  DeliveriesEnd
CHECK_DEADLOCK FALSE
