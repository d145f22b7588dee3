\* A kind route with a final go.
SPECIFICATION Spec
CONSTANTS
  alice = alice
  bob = bob
  carol = carol
  Voter = {alice, bob, carol}
  NoVoter = NoVoter
  Policy <- OnlyKindFinalGo
  AdminVoter = {alice, bob}
  Decision = {}
  NoDecision = NoDecision
  Handler = {h1, h2}
INVARIANT
  FinalGoCanVote
CHECK_DEADLOCK FALSE
