SPECIFICATION MirrorFairSpec
CONSTANTS
  r1 = r1
  r2 = r2
  Requests <- MCRequests
  InitialNonces = {0, 1}
  NoOne = NoOne
  Absent = Absent
  MaxLosses = 1
INVARIANTS
  NeverIncrementsMissingKey
  NoncesAppliedOnce
PROPERTIES
  LockReleasedByOwner
  LocksFreed
  MirrorHeals
CHECK_DEADLOCK FALSE
