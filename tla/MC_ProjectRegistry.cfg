SPECIFICATION RegistrySpec
CONSTANTS
  alice = alice
  bob = bob
  oracle = oracle
  h0 = h0
  h1 = h1
  h2 = h2
  Addresses <- MCAddresses
  Candidates <- MCCandidates
  Admin = alice
  ADMIN_TRANSFER_TIMELOCK_SECONDS = 1
  MaxTime = 2
  OracleContract = oracle
  OracleSettings <- MCAddresses
  Hashes <- MCHashes
  ZeroHash = h0
  MaxProjects = 3
INVARIANTS
  ActiveHashUnique
  PagesCoverProjects
PROPERTIES
  AdminChangesDelayed
CHECK_DEADLOCK FALSE
