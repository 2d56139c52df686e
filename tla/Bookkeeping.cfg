SPECIFICATION BookSpec
CONSTANTS
  Keys = {k1, k2, k3, k4}
  Capacity = 2
  MaxDebt = 2
  LruKeys = {k1, k2, k3}
  LruTime = 2
  BanKeys = {k1, k2}
  Size = 1
  Threshold = 3
  Window = 1
  Duration = 2
  Proxies = {p}
  Conns = {c1, c2}
  BanTime = 4
  MaxUpdates = 1
  Skew = 1
  Addrs = {a, b, d}
  RTTs = {0, 1, 2}
  Kept = 2
  TTL = 1
  RetryDelay = 1
  Retention = 2
  WinnerTime = 3
  Lease = 3
  RenewEvery = 1
  ProbeTimeout = 1
  RawSilence = 2
  RetryBase = 1
  RetryMax = 1
  RetryLimit = 2
  FlowTime = 5
  MaxSeq = 6
  MaxQueue = 3
  Names = {a, b, d}
  EmptyFallback = fallback
  MaxProviders = 2
  MaxProxies = 2
  MaxFilters = 2
  MaxExcluded = 1

  
PROPERTIES
  ListsInOrder
  BansAreRight
  ImplementsStore
CHECK_DEADLOCK FALSE
