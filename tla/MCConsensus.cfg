CONSTANTS
  Nodes = {n1, n2}
  Trackers = {n1}
  Needs = {x1}
  Proposals = {p1, p2}
  NoProposal = NoProposal
  Verifiers = {v1, v2}
  VotedFor = {p1}
  Churn = {v2}
  OtherActive = 5
  MaxEpoch = 2
  MaxCrashes = 1
SPECIFICATION FairSpec
INVARIANT PlansAgree
PROPERTIES ImplementsDecideOnce QuorumBacked Fenced QuorumDecides
CHECK_DEADLOCK FALSE
