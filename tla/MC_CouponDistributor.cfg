SPECIFICATION TradedSpec
CONSTANTS
  admin = admin
  alice = alice
  bob = bob
  Addresses = {alice, bob}
  Admin = alice
  CouponAdmin = alice
  Configs <- BlueCarbonConfigs
  Amounts = {1}
  MaxBonds = 1
  MaxTime = 0
  MaxHolderEntries = 3
  Reports = {1}
  ReportData <- SmallReport
  MaxPeriods = 1
  Batches = {}
  Retirements = {}
  SweepDestinations = {}
  FIXED_POINT = 10
  CREDIT_DIVISOR = 3
  HABITAT_CREDIT_RATE = 10
  SPECIES_CREDIT_RATE = 1
  UNIT_CREDIT_RATE = 10
  r1 = r1
  r2 = r2
  Runs <- MCRuns
  RedisHolders <- KnownHolders
  MaxInFlight = 2
  PageSize = 2
  BatchSizes = {1}
SYMMETRY RunSymmetry
INVARIANT CalmRunsFinalise
CHECK_DEADLOCK FALSE
