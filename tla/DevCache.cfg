SPECIFICATION Spec
CONSTANTS
  Keys = {k1, k2}
  Flights = {f1, f2}
  Callers = {c1, c2}
  Matches = {{k1}}
  Capacity = 1
  RetentionPeriod = 1
  RetryDelay = 1
  MaxTime = 1
  MaxEpoch = 1
  Null = Null
INVARIANTS
  CoalescedIsCurrent
  NoResurrection
  OldContentIsDue
PROPERTIES
  EveryWaiterReturns
  ImplementsLookup
