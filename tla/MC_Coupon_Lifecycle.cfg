SPECIFICATION CouponSpec
CONSTANTS
  admin = admin
  alice = alice
  bob = bob
  Addresses <- MCAddresses
  Admin = admin
  CouponAdmin = admin
  Configs <- FewConfigs
  Amounts = {1, 2}
  MaxBonds = 1
  MaxTime = 1
  MaxHolderEntries = 3
  Reports = {1}
  ReportData <- MCReportData
  MaxPeriods = 1
  Batches <- FewBatches
  Retirements = {1}
  SweepDestinations = {alice}
  FIXED_POINT = 10
  CREDIT_DIVISOR = 3
  HABITAT_CREDIT_RATE = 10
  SPECIES_CREDIT_RATE = 1
  UNIT_CREDIT_RATE = 10
INVARIANTS
  TokensConserved
  HoldersListed
  BreakdownAddsUp
  CouponsOnVerified
PROPERTY MaturityFreezes
CHECK_DEADLOCK FALSE
