SPECIFICATION PoolSpec
CONSTANTS
  Hosts = {h1, h2, h3}
  First = 1
  Last = 3
  Pools = {1, 2}
  OffsetKey = OffsetKey
  CycleKey = CycleKey
  None = None
  MemHosts = {g1, g2, g3, g4}
  MemLast = 4
  Size = 2
SYMMETRY Symmetry
INVARIANTS
  
  ReusedLate

  
