\* An admin-class ticket under enforcement whose named voters all approve.
SPECIFICATION FairSpec
CONSTANTS
  alice = alice
  bob = bob
  carol = carol
  Voter = {alice, bob, carol}
  NoVoter = NoVoter
  Policy <- OnlyAdmin
  AdminVoter = {alice, bob}
  Decision = {}
  NoDecision = NoDecision
  Handler = {h1, h2}
PROPERTY
  VotesDecide
CHECK_DEADLOCK FALSE
