SPECIFICATION UpgradedSpec
CONSTANTS
  admin = admin
  alice = alice
  bob = bob
  Addresses <- MCAddresses
  Admin = admin
  CouponAdmin = admin
  Configs <- BasketConfigs
  Amounts = {}
  MaxBonds = 1
  MaxTime = 0
  MaxHolderEntries = 2
  Reports = {1, 2}
  ReportData <- MCReportData
  MaxPeriods = 2
  Batches <- MCBatches
  Retirements = {2}
  SweepDestinations = {admin}
  FIXED_POINT = 10
  CREDIT_DIVISOR = 3
  HABITAT_CREDIT_RATE = 10
  SPECIES_CREDIT_RATE = 1
  UNIT_CREDIT_RATE = 10
  LegacyRecords <- OneLegacyRecord
  MaxRetirements = 3
INVARIANTS
  CreditsConserved
  PaidOncePerPeriod
  NoDoubleSpend
  TotalsMatchRecords
  CertificateVintage
PROPERTY CertificatesImmutable
CHECK_DEADLOCK FALSE
