SPECIFICATION Spec
CONSTANTS
  Addrs = {a4, a6, b6}
  V6 = {a6, b6}
  ProgressiveAddrs = {a4, a6}
  V4Batches = 1
  V6Batches = 2
INVARIANTS
  FailureMeansAllTried
  PreferenceHonoured
PROPERTIES
  CancelIsNoFailure
  RaceSettles
  ImplementsOutcome
