SPECIFICATION Spec
CONSTANTS
  s1 = s1
  s2 = s2
  s3 = s3
  outsider = outsider
  gov = gov
  registry = registry
  Signers <- MCSigners
  Callers <- MCCallers
  Threshold = 2
  TimelockSeconds = 1
  ProposalTTL = 2
  MAX_ALLOWED_CALLS = 2
  Self = gov
  Calls <- MCCalls
  Payloads <- MCPayloads
  InitialAllowedCalls <- MCInitialAllowedCalls
  MaxProposals = 2
  MaxTimestamp = 3
SYMMETRY SignerSymmetry
INVARIANTS
  CountsMatchVotes
  ExecutedByQuorum
PROPERTIES
  AllowlistByProposal
  DecisionsFinal
CHECK_DEADLOCK FALSE
