SPECIFICATION DisputeSpec
CONSTANTS
  root = root
  p1 = p1
  p2 = p2
  p3 = p3
  oracle = oracle
  h0 = h0
  h1 = h1
  Addresses <- FewAddresses
  Candidates <- NoCandidates
  Admin = root
  ADMIN_TRANSFER_TIMELOCK_SECONDS = 1
  MaxTime = 0
  OracleContract = oracle
  OracleSettings <- OracleOnly
  Hashes <- MCHashes
  ZeroHash = h0
  MaxProjects = 1
  Providers <- TwoProviders
  Stakes = {2}
  MaxStake = 3
  Challengers <- Bystander
  BondDeposits = {1}
  MaxBondBalance = 1
  Periods <- OnePeriod
  MaxReports = 2
  MaxRegistrySets = 1
  CHALLENGE_WINDOW_SECONDS = 1
  CHALLENGE_TIMEOUT_SECONDS = 1
  CHALLENGE_BOND = 1
  SLASH_PENALTY_PPM = 700000
  MAX_PERIOD_HISTORY = 2
SYMMETRY Symmetry2
INVARIANTS
  StakeLocksAddUp
  ProviderRecordTrue
PROPERTIES
  WithdrawalsKeepReserve
CHECK_DEADLOCK FALSE
