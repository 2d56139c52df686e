SPECIFICATION Spec
CONSTANTS
  Lease = 3
  RenewEvery = 1
  ProbeTimeout = 1
  RawSilence = 2
  RetryBase = 1
  RetryMax = 1
  RetryLimit = 2
  MaxTime = 6
  MaxSeq = 6
  MaxQueue = 3
INVARIANT
  RawOnlyWithLease
