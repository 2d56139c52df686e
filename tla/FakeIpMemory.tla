---------------------------- MODULE FakeIpMemory ----------------------------
(***************************************************************************)
(* The fake-IP pool over component/fakeip/memory.go: two LRU caches, one   *)
(* per direction, that evict on their own.  Both hold entries in order of  *)
(* last use, the oldest first.  The pool's mutex makes every method one    *)
(* action.                                                                 *)
(***************************************************************************)
EXTENDS Integers, Sequences

CONSTANTS
  Hosts,
  First, Last,   \* Pool.first and Pool.last
  Size,          \* Options.Size
  None

Addrs == First..(Last - 1)

VARIABLES
  cacheIP,    \* sequence of [key : host, value : address]
  cacheHost,  \* sequence of [key : address, value : host]
  offset, cycle,
  reloaded    \* history: a configuration reload made a new pool

vars == <<cacheIP, cacheHost, offset, cycle, reloaded>>

Entry(k, v) == [key |-> k, value |-> v]

Has(c, k) == \E i \in DOMAIN c : c[i].key = k

\* The list element of a key: the map of the cache holds one for each
Index(c, k) == CHOOSE i \in DOMAIN c : c[i].key = k

Value(c, k) == c[Index(c, k)].value

\* The list without its i-th element
Cut(c, i) == [j \in 1..(Len(c) - 1) |-> IF j < i THEN c[j] ELSE c[j + 1]]

Without(c, k) == IF Has(c, k) THEN Cut(c, Index(c, k)) ELSE c

\* LruCache.Get: a hit moves the entry to the back
Touch(c, k) == IF Has(c, k) THEN Append(Without(c, k), Entry(k, Value(c, k))) ELSE c

\* LruCache.Set
Set(c, k, v) ==
  IF Has(c, k) THEN Append(Without(c, k), Entry(k, v))
  ELSE LET n == Append(c, Entry(k, v)) IN IF Len(n) > Size THEN Tail(n) ELSE n

Init ==
  /\ cacheIP = <<>> /\ cacheHost = <<>>
  /\ offset = First - 1 /\ cycle = FALSE
  /\ reloaded = FALSE

\* Mutant: a host's reverse entry is not kept as recent as the host
MutantGetByHost(h) ==
  /\ cacheIP' = Touch(cacheIP, h)
  /\ UNCHANGED <<cacheHost, offset, cycle, reloaded>>

\* Lookup of a host with a mapping
GetByHost(h) ==
  /\ cacheIP' = Touch(cacheIP, h)
  /\ cacheHost' = IF Has(cacheIP, h) THEN Touch(cacheHost, Value(cacheIP, h)) ELSE cacheHost
  /\ UNCHANGED <<offset, cycle, reloaded>>

\* LookBack
GetByIP(a) ==
  /\ cacheHost' = Touch(cacheHost, a)
  /\ cacheIP' = IF Has(cacheHost, a) THEN Touch(cacheIP, Value(cacheHost, a)) ELSE cacheIP
  /\ UNCHANGED <<offset, cycle, reloaded>>

\* Mutant: the previous owner of the address keeps it
MutantPutMapping(h, a) ==
  /\ cacheHost' = Set(Without(cacheHost, a), a, h)
  /\ cacheIP' = Set(cacheIP, h, a)

\* PutMapping: DelByIP, PutByIP, PutByHost
PutMapping(h, a) ==
  /\ cacheHost' = Set(Without(cacheHost, a), a, h)
  /\ cacheIP' = Set(IF Has(cacheHost, a) THEN Without(cacheIP, Value(cacheHost, a)) ELSE cacheIP, h, a)

Get == IF offset + 1 < Last THEN offset' = offset + 1 /\ UNCHANGED cycle
                            ELSE offset' = First /\ cycle' = TRUE

\* Lookup of a host without a mapping
Lookup(h) ==
  /\ ~Has(cacheIP, h)
  /\ Get
  /\ PutMapping(h, offset')
  /\ UNCHANGED reloaded

FlushFakeIP ==
  /\ cacheIP' = <<>> /\ cacheHost' = <<>>
  /\ cycle' = FALSE /\ offset' = First - 1
  /\ UNCHANGED reloaded

\* A new configuration's pool takes over the entries (CloneFrom), not the position
CloneFrom ==
  /\ offset' = First - 1 /\ cycle' = FALSE
  /\ reloaded' = TRUE
  /\ UNCHANGED <<cacheIP, cacheHost>>

Next ==
  \/ \E h \in Hosts : (Has(cacheIP, h) /\ GetByHost(h)) \/ Lookup(h)
  \/ \E a \in Addrs : GetByIP(a)
  \/ FlushFakeIP
  \/ CloneFrom

-----------------------------------------------------------------------------
Mirror(e) == Entry(e.value, e.key)

\* The two directions hold the same pairs in the same order of use, so that
\* whenever one of them evicts a mapping the other evicts the same one.
DirectionsAgree ==
  /\ Len(cacheIP) = Len(cacheHost)
  /\ \A i \in DOMAIN cacheIP : cacheHost[i] = Mirror(cacheIP[i])

\* Without a reload, an address is taken from its host only after the pool
\* wrapped around.
NoEarlyReuse ==
  ~reloaded /\ ~cycle => \A i \in DOMAIN cacheHost : cacheHost[i].key <= offset

\* The address the pool gives a host
AddrIn(c, h) == IF Has(c, h) THEN Value(c, h) ELSE None
=============================================================================
