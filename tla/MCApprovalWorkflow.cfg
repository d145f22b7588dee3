\* Two stages and a final go, a chat click, two calls, authority that comes and goes.
SPECIFICATION FairSpec
CONSTANTS
  alice = alice
  bob = bob
  carol = carol
  Voter = {alice, bob, carol}
  NoVoter = NoVoter
  Policy <- AllPolicies
  AdminVoter = {alice, bob}
  Decision = {d1}
  NoDecision = NoDecision
  Handler = {h1, h2}
INVARIANTS
  TypeOK
  StagesInOrder
  TicketFollowsInstance
  OneClickOneBallot
PROPERTIES
  ExecutionHasConsent
  VotesAreFinal
  ClassVotesDecide
  NeverStuck
  ImplementsTicketLife
\* A decided ticket leaves nothing to do.
CHECK_DEADLOCK FALSE
