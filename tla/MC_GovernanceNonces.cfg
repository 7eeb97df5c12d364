SPECIFICATION NoncesSpec
CONSTANTS
  signer = signer
  gov = gov
  Accounts <- MCAccounts
  Contract = gov
  LegacyNonces <- MCLegacyNonces
  PERSISTENT_TTL_THRESHOLD = 1
  PERSISTENT_TTL_EXTEND_TO = 3
  MIN_TTL = 1
  MaxLedger = 8
  MaxNonce = 4
INVARIANTS
  NoncesConsumedInOrder
  LiveAfterCall
CHECK_DEADLOCK FALSE
