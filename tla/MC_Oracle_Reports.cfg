SPECIFICATION FairOracleSpec
CONSTANTS
  root = root
  p1 = p1
  p2 = p2
  p3 = p3
  oracle = oracle
  h0 = h0
  h1 = h1
  Addresses <- SoleAddresses
  Candidates <- SoleProvider
  Admin = root
  ADMIN_TRANSFER_TIMELOCK_SECONDS = 1
  MaxTime = 1
  OracleContract = oracle
  OracleSettings <- OracleOnly
  Hashes <- MCHashes
  ZeroHash = h0
  MaxProjects = 1
  Providers <- SoleProvider
  Stakes = {}
  MaxStake = 10
  Challengers <- Bystander
  BondDeposits = {1}
  MaxBondBalance = 1
  Periods <- FewPeriods
  MaxReports = 3
  MaxRegistrySets = 1
  CHALLENGE_WINDOW_SECONDS = 0
  CHALLENGE_TIMEOUT_SECONDS = 0
  CHALLENGE_BOND = 1
  SLASH_PENALTY_PPM = 100000
  MAX_PERIOD_HISTORY = 1
INVARIANT PeriodsDisjoint
CHECK_DEADLOCK FALSE
PROPERTY ChallengesEnd
