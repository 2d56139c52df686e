SPECIFICATION Spec
CONSTANTS
  Slots = {"a", "b", "w"}
  NamespaceOf <- MCNamespaceOf
  ScopeOf <- MCScopeOf
  Winners = {"tcp"}
  Configs <- MCConfigs
  SameOrigin <- MCSameOrigin
  RetentionPeriod = 2
  TTL = 1
  MaxTime = 3
  MaxEvents = 2
  None = None
INVARIANTS
  RemovalIsFinal
  RestartKeepsTheClock
PROPERTIES
  
  ContentOnlyGetsNewer
