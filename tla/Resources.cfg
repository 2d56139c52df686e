SPECIFICATION ResourcesSpec
CONSTANTS
  Drops = {1, 2, 3}
  Limit = 2
  TTL = 2
  MaxTime = 5
  Callers = {1, 2}
  Servers = {a4, a6}
  V6Servers = {a6}
  NoServer = NoServer
  MaxVersion = 2
  Queries = {1, 2}
  MaxResets = 1
  PoolQueries = {1, 2, 3}
  MaxOld = 2
  MaxPoolResets = 1
  Streams = {1, 2}
  MaxDialled = 2
  MinIdle = 1
  Targets = {a, b}
  N = 4
  Capacity = 3
  Workers = 1
  MaxSessions = 2
INVARIANTS
  OneRunner
  ReleasedOnce
  
  PacketsAccounted
PROPERTIES
  EndsOnlyItsOwn
  GivenBack
