SPECIFICATION DisputeSpec
CONSTANTS
  root = root
  p1 = p1
  p2 = p2
  p3 = p3
  oracle = oracle
  h0 = h0
  h1 = h1
  Addresses <- MCAddresses
  Candidates <- NoCandidates
  Admin = root
  ADMIN_TRANSFER_TIMELOCK_SECONDS = 1
  MaxTime = 3
  OracleContract = oracle
  OracleSettings <- OracleOnly
  Hashes <- MCHashes
  ZeroHash = h0
  MaxProjects = 1
  Providers <- ThreeProviders
  Stakes = {10}
  MaxStake = 10
  Challengers <- Bystander
  BondDeposits = {1}
  MaxBondBalance = 1
  Periods <- OnePeriod
  MaxReports = 1
  MaxRegistrySets = 1
  CHALLENGE_WINDOW_SECONDS = 1
  CHALLENGE_TIMEOUT_SECONDS = 1
  CHALLENGE_BOND = 1
  SLASH_PENALTY_PPM = 100000
  MAX_PERIOD_HISTORY = 2
INVARIANT ResolvedReportsUnlocked
CHECK_DEADLOCK FALSE
