----------------------------- MODULE FakeIpPool -----------------------------
(***************************************************************************)
(* component/fakeip/pool.go: New gives a pool one of two stores, the cache *)
(* file (FakeIpStore) or memory (FakeIpMemory), and the pool keeps it.     *)
(* The variables of the other store keep their initial values.             *)
(***************************************************************************)
EXTENDS FakeIpStore, Sequences, TLC, TLAPS

CONSTANTS
  MemHosts, MemLast,   \* hosts and end of the range of a pool in memory
  Size                 \* Options.Size

ASSUME SizeAssumption == MemLast \in Nat /\ First < MemLast /\ Size \in Nat \ {0}

VARIABLES
  persistence,                                \* Options.Persistence
  cacheIP, cacheHost, offset, cycle, reloaded  \* of FakeIpMemory

Mem == INSTANCE FakeIpMemory WITH Hosts <- MemHosts, Last <- MemLast

memory == <<cacheIP, cacheHost, offset, cycle, reloaded>>

allvars == <<persistence, vars, memory>>

PoolInit == persistence \in BOOLEAN /\ Init /\ Mem!Init

PoolNext ==
  /\ UNCHANGED persistence
  /\ \/ persistence /\ Next /\ UNCHANGED memory
     \/ ~persistence /\ Mem!Next /\ UNCHANGED vars

\* Hosts of the persistent pools are interchangeable
Symmetry == Permutations(Hosts)

PoolSpec == PoolInit /\ [][PoolNext]_allvars

-----------------------------------------------------------------------------
\* Host and address always lead to each other. Over the cache file readers see
\* what was confirmed, never a write whose sync failed, and an address a lookup
\* returns leads back to its host, also after a crash. In memory the two
\* directions hold the same pairs in the same order of use, so that whenever one
\* evicts a mapping the other evicts the same one.
DirectionsAgree == ReadersSeeConfirmed /\ PublishedMapsBack /\ Mem!DirectionsAgree

\* An address is taken from its host only after the pool wrapped around, with
\* either store, unless a crash lost the pool's position or a reload made a
\* second pool.
ReusedLate == NoEarlyReuse /\ Mem!NoEarlyReuse

MemAddrOf == [h \in MemHosts |-> Mem!AddrIn(cacheIP, h)]

MemMap == INSTANCE AddressMap WITH Hosts <- MemHosts, Addrs <- Mem!Addrs, addrOf <- MemAddrOf

\* With either store a pool is a one-to-one map from hosts to addresses that
\* changes one assignment at a time and takes a recycled address from its old
\* host in the same step, through failed writes, crashes and evictions.
PoolIsMap == ImplementsMap /\ MemMap!MapSpec

-----------------------------------------------------------------------------
(***************************************************************************)
(* Proofs, for every set of hosts, range, size and number of pools.        *)
(* First the pool in memory.                                               *)
(***************************************************************************)
MemAddrs == First..(MemLast - 1)

ByHost == [key : MemHosts, value : MemAddrs]
ByAddr == [key : MemAddrs, value : MemHosts]

\* Two caches with the same pairs in the same order, every host and every
\* address at most once.  DirectionsAgree is not inductive without the latter.
Paired(c, d) ==
  /\ c \in Seq(ByHost) /\ d \in Seq(ByAddr)
  /\ Len(d) = Len(c)
  /\ \A i \in 1..Len(c) : d[i].key = c[i].value /\ d[i].value = c[i].key
  /\ \A i, j \in 1..Len(c) : c[i].key = c[j].key \/ c[i].value = c[j].value => i = j

\* What a step leaves of c, but for the pair of h and a, was there before, and
\* no other host keeps a
Within(c2, c, h, a) ==
  \A j \in 1..Len(c2) : \/ c2[j] = Mem!Entry(h, a)
                        \/ \E i \in 1..Len(c) : c2[j] = c[i] /\ c[i].key # h /\ c[i].value # a

\* Nothing is new
Sub(c2, c) == \A j \in 1..Len(c2) : \E i \in 1..Len(c) : c2[j] = c[i]

\* An entry is at one place, and the lists are indexed alike.
LEMMA IndexOfPair ==
  ASSUME NEW c, NEW d, Paired(c, d), NEW i \in 1..Len(c)
  PROVE  /\ Mem!Has(c, c[i].key) /\ Mem!Index(c, c[i].key) = i /\ Mem!Value(c, c[i].key) = c[i].value
         /\ Mem!Has(d, c[i].value) /\ Mem!Index(d, c[i].value) = i /\ Mem!Value(d, c[i].value) = c[i].key
<1>1. /\ DOMAIN c = 1..Len(c) /\ DOMAIN d = 1..Len(c)
      /\ \A j \in 1..Len(c) : c[j].key = c[i].key => j = i
      /\ \A j \in 1..Len(c) : d[j].key = c[i].value => j = i
      /\ d[i].key = c[i].value /\ d[i].value = c[i].key
  BY DEF Paired
<1>2. Mem!Index(c, c[i].key) = i /\ Mem!Index(d, c[i].value) = i
  BY <1>1 DEF Mem!Index
<1>. QED BY <1>1, <1>2 DEF Mem!Has, Mem!Value

\* Has finds a place.
LEMMA HasPlace ==
  ASSUME NEW c, NEW d, Paired(c, d)
  PROVE  /\ \A h : Mem!Has(c, h) <=> \E i \in 1..Len(c) : c[i].key = h
         /\ \A a : Mem!Has(d, a) <=> \E i \in 1..Len(c) : c[i].value = a
<1>1. DOMAIN c = 1..Len(c) /\ DOMAIN d = 1..Len(c) /\ \A i \in 1..Len(c) : d[i].key = c[i].value
  BY DEF Paired
<1>. QED BY <1>1 DEF Mem!Has

\* Removing the same place of both lists keeps them paired.
LEMMA CutPaired ==
  ASSUME NEW c, NEW d, Paired(c, d), NEW i \in 1..Len(c)
  PROVE  /\ Paired(Mem!Cut(c, i), Mem!Cut(d, i))
         /\ \A j \in 1..Len(Mem!Cut(c, i)) :
              \E k \in 1..Len(c) : Mem!Cut(c, i)[j] = c[k] /\ k # i
<1>. DEFINE n == Len(c) - 1
            c2 == Mem!Cut(c, i)
            d2 == Mem!Cut(d, i)
            at(j) == IF j < i THEN j ELSE j + 1
<1>1. /\ Len(c) \in Nat /\ n \in Nat /\ Len(d) = Len(c)
      /\ \A j \in 1..n : at(j) \in 1..Len(c) /\ at(j) # i
      /\ \A j, k \in 1..n : at(j) = at(k) => j = k
      /\ \A j \in 1..Len(c) : c[j] \in ByHost /\ d[j] \in ByAddr
  BY DEF Paired
<1>2. /\ c2 = [j \in 1..n |-> c[at(j)]]
      /\ d2 = [j \in 1..n |-> d[at(j)]]
  BY <1>1 DEF Mem!Cut
<1>. HIDE DEF c2, d2, at, n
<1>3. /\ c2 \in Seq(ByHost) /\ d2 \in Seq(ByAddr) /\ Len(c2) = n /\ Len(d2) = n
      /\ \A j \in 1..n : c2[j] = c[at(j)] /\ d2[j] = d[at(j)]
  BY <1>1, <1>2
<1>4. ASSUME NEW j \in 1..n PROVE d2[j].key = c2[j].value /\ d2[j].value = c2[j].key
  <2>1. at(j) \in 1..Len(c) /\ c2[j] = c[at(j)] /\ d2[j] = d[at(j)]
    BY <1>1, <1>3
  <2>2. \A k \in 1..Len(c) : d[k].key = c[k].value /\ d[k].value = c[k].key
    BY DEF Paired
  <2>. QED BY <2>1, <2>2
<1>5. ASSUME NEW j \in 1..n, NEW k \in 1..n, c2[j].key = c2[k].key \/ c2[j].value = c2[k].value
      PROVE  j = k
  <2>1. /\ at(j) \in 1..Len(c) /\ at(k) \in 1..Len(c)
        /\ c2[j] = c[at(j)] /\ c2[k] = c[at(k)]
    BY <1>1, <1>3
  <2>2. at(j) = at(k)
    BY <1>5, <2>1 DEF Paired
  <2>. QED BY <1>1, <2>2
<1>6. Paired(c2, d2)
  BY <1>3, <1>4, <1>5 DEF Paired
<1>. QED BY <1>1, <1>3, <1>6 DEF c2, d2

\* Adding a new pair at the end of both lists keeps them paired.
LEMMA AppendPaired ==
  ASSUME NEW c, NEW d, Paired(c, d), NEW h \in MemHosts, NEW a \in MemAddrs,
         \A i \in 1..Len(c) : c[i].key # h /\ c[i].value # a
  PROVE  /\ Paired(Append(c, Mem!Entry(h, a)), Append(d, Mem!Entry(a, h)))
         /\ Len(Append(c, Mem!Entry(h, a))) = Len(c) + 1
         /\ \A j \in 1..Len(c) : Append(c, Mem!Entry(h, a))[j] = c[j]
         /\ Append(c, Mem!Entry(h, a))[Len(c) + 1] = Mem!Entry(h, a)
<1>. DEFINE c2 == Append(c, Mem!Entry(h, a))
            d2 == Append(d, Mem!Entry(a, h))
<1>1. /\ Mem!Entry(h, a) \in ByHost /\ Mem!Entry(h, a).key = h /\ Mem!Entry(h, a).value = a
      /\ Mem!Entry(a, h) \in ByAddr /\ Mem!Entry(a, h).key = a /\ Mem!Entry(a, h).value = h
  BY DEF Mem!Entry, ByHost, ByAddr
<1>2. /\ c \in Seq(ByHost) /\ d \in Seq(ByAddr) /\ Len(c) \in Nat /\ Len(d) = Len(c)
  BY DEF Paired
<1>3. /\ c2 \in Seq(ByHost) /\ d2 \in Seq(ByAddr)
      /\ Len(c2) = Len(c) + 1 /\ Len(d2) = Len(c) + 1
      /\ \A j \in 1..Len(c) : c2[j] = c[j] /\ d2[j] = d[j]
      /\ c2[Len(c) + 1] = Mem!Entry(h, a) /\ d2[Len(c) + 1] = Mem!Entry(a, h)
  BY <1>1, <1>2
<1>. HIDE DEF c2, d2
<1>4. \A i \in 1..Len(c2) : d2[i].key = c2[i].value /\ d2[i].value = c2[i].key
  BY <1>1, <1>2, <1>3 DEF Paired
<1>5. \A i, j \in 1..Len(c2) : c2[i].key = c2[j].key \/ c2[i].value = c2[j].value => i = j
  BY <1>1, <1>2, <1>3 DEF Paired
<1>6. Paired(c2, d2)
  BY <1>3, <1>4, <1>5 DEF Paired
<1>. QED BY <1>3, <1>6 DEF c2, d2

\* Evicting the oldest of both lists keeps them paired.
LEMMA TailPaired ==
  ASSUME NEW c, NEW d, Paired(c, d), Len(c) > 0
  PROVE  /\ Paired(Tail(c), Tail(d))
         /\ Len(Tail(c)) = Len(c) - 1
         /\ \A j \in 1..(Len(c) - 1) : Tail(c)[j] = c[j + 1]
<1>1. /\ c \in Seq(ByHost) /\ d \in Seq(ByAddr) /\ Len(c) \in Nat /\ Len(d) = Len(c)
      /\ c # <<>> /\ d # <<>>
  BY DEF Paired
<1>2. /\ Tail(c) \in Seq(ByHost) /\ Tail(d) \in Seq(ByAddr)
      /\ Len(Tail(c)) = Len(c) - 1 /\ Len(Tail(d)) = Len(c) - 1
      /\ \A j \in 1..(Len(c) - 1) : Tail(c)[j] = c[j + 1] /\ Tail(d)[j] = d[j + 1]
  BY <1>1
<1>3. Paired(Tail(c), Tail(d))
  BY <1>1, <1>2 DEF Paired
<1>. QED BY <1>2, <1>3

\* A hit in either direction moves the pair to the end of both lists.
LEMMA TouchBoth ==
  ASSUME NEW c, NEW d, Paired(c, d), NEW i \in 1..Len(c)
  PROVE  /\ Paired(Mem!Touch(c, c[i].key), Mem!Touch(d, c[i].value))
         /\ Sub(Mem!Touch(c, c[i].key), c)
<1>. DEFINE h == c[i].key
            a == c[i].value
            c1 == Mem!Cut(c, i)
            d1 == Mem!Cut(d, i)
<1>1. Mem!Touch(c, h) = Append(c1, Mem!Entry(h, a)) /\ Mem!Touch(d, a) = Append(d1, Mem!Entry(a, h))
  BY IndexOfPair DEF Mem!Touch, Mem!Without
<1>2. /\ c[i] \in ByHost /\ h \in MemHosts /\ a \in MemAddrs /\ c[i] = Mem!Entry(h, a)
      /\ \A k \in 1..Len(c) : k # i => c[k].key # h /\ c[k].value # a
      /\ Len(c) \in Nat
  <2>1. c[i] \in ByHost /\ Len(c) \in Nat
    BY DEF Paired
  <2>2. \A k \in 1..Len(c) : k # i => c[k].key # h /\ c[k].value # a
    BY DEF Paired
  <2>3. h \in MemHosts /\ a \in MemAddrs /\ c[i] = Mem!Entry(h, a)
    BY <2>1 DEF ByHost, Mem!Entry
  <2>. QED BY <2>1, <2>2, <2>3
<1>3. /\ Paired(c1, d1)
      /\ \A j \in 1..Len(c1) : \E k \in 1..Len(c) : c1[j] = c[k] /\ k # i
  BY CutPaired
<1>. HIDE DEF c1, d1, h, a
<1>4. \A j \in 1..Len(c1) : c1[j].key # h /\ c1[j].value # a
  BY <1>2, <1>3
<1>5. /\ Paired(Append(c1, Mem!Entry(h, a)), Append(d1, Mem!Entry(a, h)))
      /\ Len(Append(c1, Mem!Entry(h, a))) = Len(c1) + 1
      /\ \A j \in 1..Len(c1) : Append(c1, Mem!Entry(h, a))[j] = c1[j]
      /\ Append(c1, Mem!Entry(h, a))[Len(c1) + 1] = Mem!Entry(h, a)
  BY <1>2, <1>3, <1>4, AppendPaired
<1>6. Len(c1) \in Nat
  BY <1>3 DEF Paired
<1>7. Sub(Append(c1, Mem!Entry(h, a)), c)
  BY <1>2, <1>3, <1>5, <1>6 DEF Sub
<1>. QED BY <1>1, <1>5, <1>7 DEF h, a

\* A new pair evicts the oldest pair of both lists, or of none.
LEMMA SetBoth ==
  ASSUME NEW c, NEW d, Paired(c, d), NEW h \in MemHosts, NEW a \in MemAddrs,
         \A i \in 1..Len(c) : c[i].key # h /\ c[i].value # a
  PROVE  /\ Paired(Mem!Set(c, h, a), Mem!Set(d, a, h))
         /\ Within(Mem!Set(c, h, a), c, h, a)
         /\ \E j \in 1..Len(Mem!Set(c, h, a)) : Mem!Set(c, h, a)[j] = Mem!Entry(h, a)
<1>. DEFINE e == Mem!Entry(h, a)
            c1 == Append(c, e)
            d1 == Append(d, Mem!Entry(a, h))
<1>1. /\ Paired(c1, d1) /\ Len(c1) = Len(c) + 1
      /\ \A j \in 1..Len(c) : c1[j] = c[j]
      /\ c1[Len(c) + 1] = e
  BY AppendPaired
<1>2. ~Mem!Has(c, h) /\ ~Mem!Has(d, a)
  BY HasPlace
<1>3. Len(c) \in Nat /\ Len(d1) = Len(c1) /\ Size \in Nat \ {0}
  BY <1>1, SizeAssumption DEF Paired
<1>4. /\ Mem!Set(c, h, a) = IF Len(c1) > Size THEN Tail(c1) ELSE c1
      /\ Mem!Set(d, a, h) = IF Len(c1) > Size THEN Tail(d1) ELSE d1
  BY <1>2, <1>3 DEF Mem!Set
<1>. HIDE DEF e, c1, d1
<1>5. CASE Len(c1) > Size
  <2>1. /\ Paired(Tail(c1), Tail(d1)) /\ Len(Tail(c1)) = Len(c)
        /\ \A j \in 1..Len(c) : Tail(c1)[j] = c1[j + 1]
    BY <1>1, <1>3, <1>5, TailPaired
  <2>2. Len(c) > 0
    BY <1>1, <1>3, <1>5
  <2>3. Tail(c1)[Len(c)] = e /\ Len(c) \in 1..Len(Tail(c1))
    BY <1>1, <1>3, <2>1, <2>2
  <2>4. \A j \in 1..Len(Tail(c1)) : Tail(c1)[j] = e \/ \E i \in 1..Len(c) : Tail(c1)[j] = c[i]
    BY <1>1, <1>3, <2>1
  <2>. QED BY <1>4, <1>5, <2>1, <2>3, <2>4 DEF Within, e
<1>6. CASE ~(Len(c1) > Size)
  <2>1. \A j \in 1..Len(c1) : c1[j] = e \/ \E i \in 1..Len(c) : c1[j] = c[i]
    BY <1>1, <1>3
  <2>2. Len(c1) \in 1..Len(c1)
    BY <1>1, <1>3
  <2>. QED BY <1>1, <1>4, <1>6, <2>1, <2>2 DEF Within, e
<1>. QED BY <1>5, <1>6

\* PutMapping takes the address from its old host in both directions.
LEMMA PutBoth ==
  ASSUME NEW c, NEW d, Paired(c, d), NEW h \in MemHosts, NEW a \in MemAddrs, ~Mem!Has(c, h),
         NEW c2, c2 = Mem!Set(IF Mem!Has(d, a) THEN Mem!Without(c, Mem!Value(d, a)) ELSE c, h, a),
         NEW d2, d2 = Mem!Set(Mem!Without(d, a), a, h)
  PROVE  /\ Paired(c2, d2)
         /\ Within(c2, c, h, a)
         /\ \E j \in 1..Len(c2) : c2[j] = Mem!Entry(h, a)
<1>0. \A i \in 1..Len(c) : c[i].key # h
  BY HasPlace
<1>1. CASE Mem!Has(d, a)
  <2>1. PICK i \in 1..Len(c) : c[i].value = a
    BY <1>1, HasPlace
  <2>. DEFINE c1 == Mem!Cut(c, i)
              d1 == Mem!Cut(d, i)
  <2>2. c2 = Mem!Set(c1, h, a) /\ d2 = Mem!Set(d1, a, h)
    BY <1>1, <2>1, IndexOfPair DEF Mem!Without
  <2>3. /\ Paired(c1, d1)
        /\ \A j \in 1..Len(c1) : \E k \in 1..Len(c) : c1[j] = c[k] /\ k # i
    BY CutPaired
  <2>. HIDE DEF c1, d1
  <2>4. \A k \in 1..Len(c) : k # i => c[k].key # h /\ c[k].value # a
    BY <1>0, <2>1 DEF Paired
  <2>5. \A j \in 1..Len(c1) : c1[j].key # h /\ c1[j].value # a
    BY <2>3, <2>4
  <2>6. /\ Paired(c2, d2) /\ Within(c2, c1, h, a)
        /\ \E j \in 1..Len(c2) : c2[j] = Mem!Entry(h, a)
    BY <2>2, <2>3, <2>5, SetBoth
  <2>7. ASSUME NEW j \in 1..Len(c2), c2[j] # Mem!Entry(h, a)
        PROVE  \E k \in 1..Len(c) : c2[j] = c[k] /\ c[k].key # h /\ c[k].value # a
    <3>1. PICK m \in 1..Len(c1) : c2[j] = c1[m] /\ c1[m].key # h /\ c1[m].value # a
      BY <2>6, <2>7 DEF Within
    <3>2. PICK k \in 1..Len(c) : c1[m] = c[k]
      BY <2>3
    <3>. QED BY <3>1, <3>2
  <2>8. Within(c2, c, h, a)
    BY <2>7 DEF Within
  <2>. QED BY <2>6, <2>8
<1>2. CASE ~Mem!Has(d, a)
  <2>1. \A i \in 1..Len(c) : c[i].key # h /\ c[i].value # a
    BY <1>0, <1>2, HasPlace
  <2>2. c2 = Mem!Set(c, h, a) /\ d2 = Mem!Set(d, a, h)
    BY <1>2 DEF Mem!Without
  <2>. QED BY <2>1, <2>2, SetBoth
<1>. QED BY <1>1, <1>2

-----------------------------------------------------------------------------
\* The address is that of the host's entry.
LEMMA AddrInIs ==
  ASSUME NEW c, NEW d, Paired(c, d), NEW h
  PROVE  /\ \A i \in 1..Len(c) : c[i].key = h => Mem!AddrIn(c, h) = c[i].value
         /\ Mem!AddrIn(c, h) # None => \E i \in 1..Len(c) : c[i].key = h /\ Mem!AddrIn(c, h) = c[i].value
         /\ Mem!AddrIn(c, h) \in MemAddrs \cup {None}
<1>1. ASSUME NEW i \in 1..Len(c), c[i].key = h PROVE Mem!AddrIn(c, h) = c[i].value /\ c[i].value \in MemAddrs
  <2>1. Mem!Has(c, h) /\ Mem!Value(c, h) = c[i].value
    BY <1>1, IndexOfPair
  <2>2. c[i] \in ByHost
    BY DEF Paired
  <2>. QED BY <2>1, <2>2 DEF Mem!AddrIn, ByHost
<1>2. Mem!AddrIn(c, h) # None => \E i \in 1..Len(c) : c[i].key = h
  BY HasPlace DEF Mem!AddrIn
<1>. QED BY <1>1, <1>2

\* Where nothing is new, hosts only lose their addresses.
LEMMA SubForgets ==
  ASSUME NEW c, NEW d, Paired(c, d), NEW c2, NEW d2, Paired(c2, d2), Sub(c2, c), NEW g
  PROVE  Mem!AddrIn(c2, g) \in {Mem!AddrIn(c, g), None}
<1>1. SUFFICES ASSUME Mem!AddrIn(c2, g) # None PROVE Mem!AddrIn(c2, g) = Mem!AddrIn(c, g)
  OBVIOUS
<1>2. PICK j \in 1..Len(c2) : c2[j].key = g /\ Mem!AddrIn(c2, g) = c2[j].value
  BY <1>1, AddrInIs
<1>3. PICK i \in 1..Len(c) : c2[j] = c[i]
  BY DEF Sub
<1>4. Mem!AddrIn(c, g) = c[i].value
  BY <1>2, <1>3, AddrInIs
<1>. QED BY <1>2, <1>3, <1>4

\* A new pair is all that is new, and its address has no other host.
LEMMA WithinAssigns ==
  ASSUME NEW c, NEW d, Paired(c, d), NEW c2, NEW d2, Paired(c2, d2),
         NEW h \in MemHosts, NEW a \in MemAddrs, Within(c2, c, h, a),
         \E j \in 1..Len(c2) : c2[j] = Mem!Entry(h, a)
  PROVE  /\ Mem!AddrIn(c2, h) = a
         /\ \A g \in MemHosts \ {h} : Mem!AddrIn(c2, g) \in {Mem!AddrIn(c, g), None} /\ Mem!AddrIn(c2, g) # a
<1>1. Mem!AddrIn(c2, h) = a
  <2>1. PICK j \in 1..Len(c2) : c2[j] = Mem!Entry(h, a)
    OBVIOUS
  <2>2. c2[j].key = h /\ c2[j].value = a
    BY <2>1 DEF Mem!Entry
  <2>. QED BY <2>2, AddrInIs
<1>2. a # None
  BY KeysAssumption, SizeAssumption DEF MemAddrs
<1>3. ASSUME NEW g \in MemHosts \ {h}, Mem!AddrIn(c2, g) # None
      PROVE  Mem!AddrIn(c2, g) = Mem!AddrIn(c, g) /\ Mem!AddrIn(c2, g) # a
  <2>1. PICK j \in 1..Len(c2) : c2[j].key = g /\ Mem!AddrIn(c2, g) = c2[j].value
    BY <1>3, AddrInIs
  <2>2. c2[j] # Mem!Entry(h, a)
    BY <2>1 DEF Mem!Entry
  <2>3. PICK i \in 1..Len(c) : c2[j] = c[i] /\ c[i].value # a
    BY <2>2 DEF Within
  <2>4. Mem!AddrIn(c, g) = c[i].value
    BY <2>1, <2>3, AddrInIs
  <2>. QED BY <2>1, <2>3, <2>4
<1>. QED BY <1>1, <1>2, <1>3

-----------------------------------------------------------------------------
\* The inductive invariant of the pool in memory
MemInv ==
  /\ Paired(cacheIP, cacheHost)
  /\ offset \in (First - 1)..(MemLast - 1)
  /\ Mem!NoEarlyReuse

\* What a step does to the caches: lose pairs, or give one host an address.
Changes ==
  \/ Sub(cacheIP', cacheIP)
  \/ \E h \in MemHosts, a \in MemAddrs :
       /\ Within(cacheIP', cacheIP, h, a)
       /\ \E j \in 1..Len(cacheIP') : cacheIP'[j] = Mem!Entry(h, a)

\* A new pool in memory has empty caches.
LEMMA MemInit == Mem!Init => MemInv
<1>. SUFFICES ASSUME Mem!Init PROVE MemInv
  OBVIOUS
<1>1. Paired(cacheIP, cacheHost)
  BY DEF Mem!Init, Paired
<1>2. offset \in (First - 1)..(MemLast - 1)
  BY KeysAssumption, SizeAssumption DEF Mem!Init
<1>3. Mem!NoEarlyReuse
  BY DEF Mem!Init, Mem!NoEarlyReuse
<1>. QED BY <1>1, <1>2, <1>3 DEF MemInv

\* Moving a pair to the end changes nothing else.
LEMMA MemTouched ==
  ASSUME MemInv, NEW i \in 1..Len(cacheIP),
         cacheIP' = Mem!Touch(cacheIP, cacheIP[i].key),
         cacheHost' = Mem!Touch(cacheHost, cacheIP[i].value),
         UNCHANGED <<offset, cycle, reloaded>>
  PROVE  MemInv' /\ Sub(cacheIP', cacheIP)
<1>1. Paired(cacheIP, cacheHost)
  BY DEF MemInv
<1>2. Paired(cacheIP', cacheHost') /\ Sub(cacheIP', cacheIP)
  BY <1>1, TouchBoth
<1>3. ASSUME ~reloaded', ~cycle', NEW j \in DOMAIN cacheHost' PROVE cacheHost'[j].key <= offset'
  <2>1. j \in 1..Len(cacheIP') /\ cacheHost'[j].key = cacheIP'[j].value
    BY <1>2 DEF Paired
  <2>2. PICK k \in 1..Len(cacheIP) : cacheIP'[j] = cacheIP[k]
    BY <1>2, <2>1 DEF Sub
  <2>3. k \in DOMAIN cacheHost /\ cacheHost[k].key = cacheIP[k].value
    BY <1>1 DEF Paired
  <2>. QED BY <1>3, <2>1, <2>2, <2>3 DEF MemInv, Mem!NoEarlyReuse
<1>4. Mem!NoEarlyReuse'
  BY <1>3 DEF Mem!NoEarlyReuse
<1>. QED BY <1>2, <1>4 DEF MemInv

\* A Lookup that allocates: the new pair is alone in having its address, and the
\* address is above the others until the pool wraps.
LEMMA MemLookup ==
  ASSUME MemInv, NEW h \in MemHosts, Mem!Lookup(h)
  PROVE  MemInv' /\ Changes
<1>1. Paired(cacheIP, cacheHost) /\ offset \in (First - 1)..(MemLast - 1) /\ Mem!NoEarlyReuse
  BY DEF MemInv
<1>. DEFINE a == offset'
<1>2. /\ a \in MemAddrs /\ UNCHANGED reloaded
      /\ ~cycle' => ~cycle /\ offset <= a
  BY <1>1, KeysAssumption, SizeAssumption DEF Mem!Lookup, Mem!Get, MemAddrs
<1>3. /\ Paired(cacheIP', cacheHost') /\ Within(cacheIP', cacheIP, h, a)
      /\ \E j \in 1..Len(cacheIP') : cacheIP'[j] = Mem!Entry(h, a)
  BY <1>1, <1>2, PutBoth DEF Mem!Lookup, Mem!PutMapping
<1>4. ASSUME ~reloaded', ~cycle', NEW j \in DOMAIN cacheHost' PROVE cacheHost'[j].key <= a
  <2>1. j \in 1..Len(cacheIP') /\ cacheHost'[j].key = cacheIP'[j].value
    BY <1>3 DEF Paired
  <2>2. CASE cacheIP'[j] = Mem!Entry(h, a)
    BY <1>2, <2>1, <2>2, KeysAssumption, SizeAssumption DEF Mem!Entry, MemAddrs
  <2>3. ASSUME NEW i \in 1..Len(cacheIP), cacheIP'[j] = cacheIP[i] PROVE cacheHost'[j].key <= a
    <3>1. i \in DOMAIN cacheHost /\ cacheHost[i].key = cacheIP[i].value /\ cacheIP[i] \in ByHost
      BY <1>1 DEF Paired
    <3>2. cacheIP[i].value <= offset
      BY <1>1, <1>2, <1>4, <3>1 DEF Mem!NoEarlyReuse
    <3>. QED BY <1>1, <1>2, <1>4, <2>1, <2>3, <3>1, <3>2, KeysAssumption, SizeAssumption DEF ByHost, MemAddrs
  <2>. QED BY <1>3, <2>1, <2>2, <2>3 DEF Within
<1>5. Mem!NoEarlyReuse'
  BY <1>4 DEF Mem!NoEarlyReuse
<1>6. a \in (First - 1)..(MemLast - 1)
  BY <1>2, KeysAssumption, SizeAssumption DEF MemAddrs
<1>. QED BY <1>2, <1>3, <1>5, <1>6 DEF MemInv, Changes

\* Every method of the pool in memory keeps the caches paired.
LEMMA MemStep ==
  ASSUME MemInv, Mem!Next \/ UNCHANGED memory
  PROVE  MemInv' /\ Changes
<1>0. Paired(cacheIP, cacheHost)
  BY DEF MemInv
<1>1. ASSUME NEW h \in MemHosts, Mem!Has(cacheIP, h), Mem!GetByHost(h) PROVE MemInv' /\ Changes
  <2>1. PICK i \in 1..Len(cacheIP) : cacheIP[i].key = h
    BY <1>0, <1>1, HasPlace
  <2>2. Mem!Value(cacheIP, h) = cacheIP[i].value
    BY <1>0, <2>1, IndexOfPair
  <2>. QED BY <1>1, <2>1, <2>2, MemTouched DEF Mem!GetByHost, Changes
<1>2. ASSUME NEW h \in MemHosts, Mem!Lookup(h) PROVE MemInv' /\ Changes
  BY <1>2, MemLookup
<1>3. ASSUME UNCHANGED <<cacheIP, cacheHost>> PROVE Paired(cacheIP', cacheHost') /\ Changes
  <2>1. Sub(cacheIP', cacheIP)
    BY <1>3 DEF Sub
  <2>. QED BY <1>0, <1>3, <2>1 DEF Changes
<1>4. ASSUME NEW a \in Mem!Addrs, Mem!GetByIP(a) PROVE MemInv' /\ Changes
  <2>1. CASE Mem!Has(cacheHost, a)
    <3>1. PICK i \in 1..Len(cacheIP) : cacheIP[i].value = a
      BY <1>0, <2>1, HasPlace
    <3>2. Mem!Value(cacheHost, a) = cacheIP[i].key
      BY <1>0, <3>1, IndexOfPair
    <3>. QED BY <1>4, <2>1, <3>1, <3>2, MemTouched DEF Mem!GetByIP, Changes
  <2>2. CASE ~Mem!Has(cacheHost, a)
    <3>1. UNCHANGED memory
      BY <1>4, <2>2 DEF Mem!GetByIP, Mem!Touch, memory
    <3>. QED BY <1>3, <3>1 DEF memory, MemInv, Mem!NoEarlyReuse
  <2>. QED BY <2>1, <2>2
<1>5. CASE Mem!FlushFakeIP
  <2>1. Paired(cacheIP', cacheHost') /\ Sub(cacheIP', cacheIP)
    BY <1>5 DEF Mem!FlushFakeIP, Paired, Sub
  <2>2. offset' \in (First - 1)..(MemLast - 1)
    BY <1>5, KeysAssumption, SizeAssumption DEF Mem!FlushFakeIP
  <2>3. Mem!NoEarlyReuse'
    BY <1>5 DEF Mem!FlushFakeIP, Mem!NoEarlyReuse
  <2>. QED BY <2>1, <2>2, <2>3 DEF MemInv, Changes
<1>6. CASE Mem!CloneFrom
  <2>1. offset' \in (First - 1)..(MemLast - 1)
    BY <1>6, KeysAssumption, SizeAssumption DEF Mem!CloneFrom
  <2>2. Mem!NoEarlyReuse'
    BY <1>6 DEF Mem!CloneFrom, Mem!NoEarlyReuse
  <2>. QED BY <1>3, <1>6, <2>1, <2>2 DEF MemInv, Mem!CloneFrom
<1>7. CASE UNCHANGED memory
  BY <1>3, <1>7 DEF memory, MemInv, Mem!NoEarlyReuse
<1>. QED BY <1>1, <1>2, <1>4, <1>5, <1>6, <1>7 DEF Mem!Next

-----------------------------------------------------------------------------
(***************************************************************************)
(* The pools over the cache file.                                          *)
(***************************************************************************)
Offsets == (First - 1)..(Last - 1)

\* A bucket whose forward mappings lead back
Good(b) ==
  /\ b \in [Keys -> Hosts \cup Int \cup {None}]
  /\ \A a \in Addrs : b[a] \in Hosts \cup {None}
  /\ b[OffsetKey] \in Offsets \cup {None}
  /\ MapsBack(b)

Position == [active : BOOLEAN, offset : Offsets, cycle : BOOLEAN]
PutOps == [do : {"put"}, host : Hosts, ip : Addrs, previous : Position]
StateOps == [do : {"state"}, key : {OffsetKey, CycleKey}, value : Offsets, more : BOOLEAN]
Ops == PutOps \cup StateOps \cup {FlushAll}

\* The hosts of bucket g have their address of f or none, but for one host with
\* an address that nobody else has
Moves(f, g) ==
  \/ \A h \in Hosts : g[h] \in {f[h], None}
  \/ \E h \in Hosts, a \in Addrs :
       g[h] = a /\ \A x \in Hosts \ {h} : g[x] \in {f[x], None} /\ g[x] # a

StoreType ==
  /\ Good(synced) /\ Good(visible) /\ Good(confirmed)
  /\ DOMAIN before \subseteq Keys
  /\ pool \in [Pools -> Position]
  /\ op \in [Pools -> Ops \cup {Idle}]
  /\ writer \in [pool : Pools \cup {None}, at : {"free", "prepared", "visible", "synced"}]
  /\ \A p \in Pools : op[p] # Idle => pool[p].active

\* Where the writer is tells how the file, the database and the confirmed bucket
\* differ: by its operation, on keys whose old values are held back
WriterInv ==
  /\ writer.at # "free" => writer.pool \in Pools /\ op[writer.pool] # Idle
  /\ writer.at = "prepared" =>
       \A k \in Keys \ DOMAIN before : Change(op[writer.pool], confirmed)[k] = confirmed[k]
  /\ writer.at \in {"visible", "synced"} => visible = Change(op[writer.pool], confirmed)
  /\ writer.at = "synced" => synced = visible
  /\ writer.at # "synced" => synced = confirmed
  /\ Moves(confirmed, visible)

StoreInv == StoreType /\ WriterInv /\ ReadersSeeConfirmed

\* The kinds of keys are told apart.
LEMMA KeyKinds ==
  /\ \A a \in Addrs : a \in Int /\ a \notin Hosts /\ a # None /\ a # OffsetKey /\ a # CycleKey /\ a \in Keys
  /\ \A h \in Hosts : h # None /\ h # OffsetKey /\ h # CycleKey /\ h \in Keys
  /\ OffsetKey \in Keys /\ CycleKey \in Keys /\ OffsetKey # CycleKey
  /\ Addrs \subseteq Offsets /\ Offsets \subseteq Int /\ None \notin Offsets
  /\ First \in Addrs /\ First - 1 \in Offsets
BY KeysAssumption DEF Addrs, Keys, Offsets

\* The kinds of operations are told apart.
LEMMA OpKinds ==
  ASSUME NEW o \in Ops
  PROVE  /\ o # Idle
         /\ \/ o.do = "put" /\ o \in PutOps
            \/ o.do = "state" /\ o \in StateOps
            \/ o.do = "flush" /\ o = FlushAll
BY DEF Ops, PutOps, StateOps, FlushAll, Idle

\* The bucket of a new file and of a flush.
LEMMA EmptyGood == Good(Empty)
BY KeyKinds DEF Good, Empty, MapsBack

\* What a put makes of a bucket.
LEMMA PutChange ==
  ASSUME NEW o \in PutOps, NEW b, Good(b)
  PROVE  /\ Change(o, b) \in [Keys -> Hosts \cup Int \cup {None}]
         /\ o.host \in Hosts /\ o.ip \in Addrs
         /\ Change(o, b)[o.ip] = o.host /\ Change(o, b)[o.host] = o.ip
         /\ \A a \in Addrs : a # o.ip => Change(o, b)[a] = b[a]
         /\ \A h \in Hosts : h # o.host => Change(o, b)[h] = IF h = b[o.ip] THEN None ELSE b[h]
         /\ Change(o, b)[OffsetKey] = b[OffsetKey] /\ Change(o, b)[CycleKey] = b[CycleKey]
<1>1. o.do = "put" /\ o.host \in Hosts /\ o.ip \in Addrs
  BY DEF PutOps
<1>2. Change(o, b) = [k \in Keys |-> IF k = o.ip THEN o.host
                                     ELSE IF k = o.host THEN o.ip
                                     ELSE IF k = b[o.ip] THEN None
                                     ELSE b[k]]
  BY <1>1 DEF Change
<1>3. b[o.ip] \in Hosts \cup {None} /\ b \in [Keys -> Hosts \cup Int \cup {None}]
  BY <1>1 DEF Good
<1>4. None \notin Keys
  BY KeysAssumption DEF Keys, Addrs
<1>. DEFINE n == Change(o, b)
<1>5. n \in [Keys -> Hosts \cup Int \cup {None}]
  BY <1>1, <1>2, <1>3, KeyKinds
<1>6. n[o.ip] = o.host /\ n[o.host] = o.ip
  BY <1>1, <1>2, KeyKinds
<1>7. \A a \in Addrs : a # o.ip => n[a] = b[a]
  BY <1>1, <1>2, <1>3, KeyKinds
<1>8. \A h \in Hosts : h # o.host => n[h] = IF h = b[o.ip] THEN None ELSE b[h]
  BY <1>1, <1>2, KeyKinds
<1>9. n[OffsetKey] = b[OffsetKey] /\ n[CycleKey] = b[CycleKey]
  <2>1. ASSUME NEW k \in {OffsetKey, CycleKey} PROVE k \in Keys /\ k # o.ip /\ k # o.host /\ k # b[o.ip]
    BY <1>1, <1>3, <1>4, KeyKinds
  <2>. QED BY <1>2, <2>1
<1>. QED BY <1>1, <1>5, <1>6, <1>7, <1>8, <1>9

\* An operation leaves a bucket good, and moves one address at most.
LEMMA ChangeGood ==
  ASSUME NEW o \in Ops, NEW b, Good(b)
  PROVE  Good(Change(o, b)) /\ Moves(b, Change(o, b))
<1>1. CASE o \in PutOps
  <2>. DEFINE n == Change(o, b)
  <2>1. /\ n \in [Keys -> Hosts \cup Int \cup {None}]
        /\ o.host \in Hosts /\ o.ip \in Addrs
        /\ n[o.ip] = o.host /\ n[o.host] = o.ip
        /\ \A a \in Addrs : a # o.ip => n[a] = b[a]
        /\ \A h \in Hosts : h # o.host => n[h] = IF h = b[o.ip] THEN None ELSE b[h]
        /\ n[OffsetKey] = b[OffsetKey]
    BY <1>1, PutChange
  <2>. HIDE DEF n
  <2>2. \A h \in Hosts : b[h] # None => b[h] \in Addrs /\ b[b[h]] = h
    BY DEF Good, MapsBack
  <2>3. MapsBack(n)
    BY <2>1, <2>2 DEF MapsBack
  <2>4. \A x \in Hosts \ {o.host} : n[x] \in {b[x], None} /\ n[x] # o.ip
    BY <2>1, <2>2, KeyKinds
  <2>5. Good(n)
    BY <2>1, <2>3 DEF Good
  <2>6. Moves(b, n)
    BY <2>1, <2>4 DEF Moves
  <2>. QED BY <2>5, <2>6 DEF n
<1>2. CASE o \in StateOps
  <2>1. o.do = "state" /\ o.key \in {OffsetKey, CycleKey} /\ o.value \in Offsets
    BY <1>2 DEF StateOps
  <2>2. Change(o, b) = [b EXCEPT ![o.key] = o.value]
    BY <2>1 DEF Change
  <2>3. b \in [Keys -> Hosts \cup Int \cup {None}]
    BY DEF Good
  <2>4. /\ Change(o, b) \in [Keys -> Hosts \cup Int \cup {None}]
        /\ \A k \in Hosts \cup Addrs : Change(o, b)[k] = b[k]
        /\ Change(o, b)[OffsetKey] \in {b[OffsetKey], o.value}
    BY <2>1, <2>2, <2>3, KeyKinds
  <2>5. MapsBack(Change(o, b))
    BY <2>4, KeyKinds DEF Good, MapsBack
  <2>6. Good(Change(o, b))
    BY <2>1, <2>4, <2>5 DEF Good
  <2>7. Moves(b, Change(o, b))
    BY <2>4 DEF Moves
  <2>. QED BY <2>6, <2>7
<1>3. CASE o = FlushAll
  <2>1. Change(o, b) = Empty
    BY <1>3 DEF Change, FlushAll
  <2>2. \A h \in Hosts : Empty[h] = None
    BY KeyKinds DEF Empty
  <2>. QED BY <2>1, <2>2, EmptyGood DEF Moves
<1>. QED BY <1>1, <1>2, <1>3 DEF Ops

\* A bucket that stays moves nothing.
LEMMA MovesNowhere ==
  ASSUME NEW b
  PROVE  Moves(b, b)
BY DEF Moves

\* A new file is empty, and nothing is held back.
LEMMA StoreInit == Init => StoreInv
<1>. SUFFICES ASSUME Init PROVE StoreInv
  OBVIOUS
<1>1. /\ synced = Empty /\ visible = Empty /\ confirmed = Empty
      /\ before = NoneHeld /\ DOMAIN before = {}
      /\ writer = [pool |-> None, at |-> "free"]
      /\ pool = [p \in Pools |-> Start(FALSE)]
      /\ op = [p \in Pools |-> Idle]
  BY DEF Init, NoneHeld
<1>2. Start(FALSE) \in Position
  BY KeyKinds DEF Start, Position
<1>3. StoreType
  BY <1>1, <1>2, EmptyGood DEF StoreType
<1>4. WriterInv
  BY <1>1, MovesNowhere DEF WriterInv
<1>5. ReadersSeeConfirmed
  BY <1>1 DEF ReadersSeeConfirmed, View
<1>. QED BY <1>3, <1>4, <1>5 DEF StoreInv

\* A step of a pool outside mutate leaves the store alone, and so does a stutter.
LEMMA PoolFrame ==
  ASSUME StoreInv, UNCHANGED <<synced, visible, before, writer, confirmed>>,
         pool' \in [Pools -> Position], op' \in [Pools -> Ops \cup {Idle}],
         \A p \in Pools : op'[p] # Idle => pool'[p].active,
         \A p \in Pools : op[p] # Idle => op'[p] = op[p]
  PROVE  StoreInv'
<1>1. StoreType'
  BY DEF StoreInv, StoreType, Good, MapsBack
<1>2. writer.at # "free" => writer.pool \in Pools /\ op[writer.pool] # Idle /\ op'[writer.pool] = op[writer.pool]
  BY DEF StoreInv, WriterInv
<1>3. Moves(confirmed, visible)'
  BY DEF StoreInv, WriterInv, Moves
<1>4. WriterInv'
  BY <1>2, <1>3 DEF StoreInv, WriterInv
<1>5. ReadersSeeConfirmed'
  BY DEF StoreInv, ReadersSeeConfirmed, View
<1>. QED BY <1>1, <1>4, <1>5 DEF StoreInv

\* Pool.get stays in the range.
LEMMA GetPosition ==
  ASSUME NEW r \in Position
  PROVE  /\ Get(r) \in Position /\ Get(r).offset \in Addrs /\ Get(r).active = r.active
         /\ \/ Get(r).offset = r.offset + 1 /\ Get(r).cycle = r.cycle
            \/ Get(r).cycle = TRUE
<1>1. r.offset \in Offsets /\ r.active \in BOOLEAN /\ r.cycle \in BOOLEAN
  BY DEF Position
<1>2. CASE r.offset + 1 < Last
  <2>1. Get(r) = [r EXCEPT !.offset = r.offset + 1]
    BY <1>2 DEF Get
  <2>2. r.offset + 1 \in Addrs /\ r.offset + 1 \in Offsets
    BY <1>1, <1>2, KeysAssumption DEF Addrs, Offsets
  <2>. QED BY <1>1, <2>1, <2>2 DEF Position
<1>3. CASE ~(r.offset + 1 < Last)
  <2>1. Get(r) = [r EXCEPT !.offset = First, !.cycle = TRUE]
    BY <1>3 DEF Get
  <2>2. First \in Addrs /\ First \in Offsets
    BY KeyKinds
  <2>. QED BY <1>1, <2>1, <2>2 DEF Position
<1>. QED BY <1>2, <1>3

\* Lookup reserves an address of the range and touches no bucket.
LEMMA StepLookup ==
  ASSUME StoreInv, NEW p \in Pools, NEW h \in Hosts, Lookup(p, h)
  PROVE  StoreInv'
<1>1. pool \in [Pools -> Position] /\ op \in [Pools -> Ops \cup {Idle}] /\ pool[p] \in Position
  BY DEF StoreInv, StoreType
<1>2. Get(pool[p]) \in Position /\ Get(pool[p]).offset \in Addrs /\ Get(pool[p]).active = pool[p].active
  BY <1>1, GetPosition
<1>3. Put(h, Get(pool[p]).offset, pool[p]) \in Ops
  BY <1>1, <1>2 DEF Put, Ops, PutOps
<1>4. /\ pool' \in [Pools -> Position] /\ op' \in [Pools -> Ops \cup {Idle}]
      /\ \A q \in Pools : q # p => pool'[q] = pool[q] /\ op'[q] = op[q]
      /\ pool'[p].active = pool[p].active /\ pool[p].active /\ op[p] = Idle
  BY <1>1, <1>2, <1>3 DEF Lookup
<1>5. \A q \in Pools : op'[q] # Idle => pool'[q].active
  BY <1>4 DEF StoreInv, StoreType
<1>. QED BY <1>4, <1>5, PoolFrame DEF Lookup

\* FlushFakeIP begins.
LEMMA StepFlushFakeIP ==
  ASSUME StoreInv, NEW p \in Pools, FlushFakeIP(p)
  PROVE  StoreInv'
<1>1. pool \in [Pools -> Position] /\ op \in [Pools -> Ops \cup {Idle}] /\ FlushAll \in Ops
  BY DEF StoreInv, StoreType, Ops
<1>2. /\ op' \in [Pools -> Ops \cup {Idle}] /\ pool' = pool
      /\ \A q \in Pools : q # p => op'[q] = op[q]
      /\ pool[p].active /\ op[p] = Idle
  BY <1>1 DEF FlushFakeIP
<1>3. \A q \in Pools : op'[q] # Idle => pool'[q].active
  BY <1>2 DEF StoreInv, StoreType
<1>. QED BY <1>1, <1>2, <1>3, PoolFrame DEF FlushFakeIP

\* StoreState begins.
LEMMA StepStoreState ==
  ASSUME StoreInv, NEW p \in Pools, StoreState(p)
  PROVE  StoreInv'
<1>1. pool \in [Pools -> Position] /\ op \in [Pools -> Ops \cup {Idle}] /\ pool[p] \in Position
  BY DEF StoreInv, StoreType
<1>2. PutState(OffsetKey, pool[p].offset, pool[p].cycle) \in Ops
  BY <1>1 DEF PutState, Ops, StateOps, Position
<1>3. /\ op' \in [Pools -> Ops \cup {Idle}] /\ pool' = pool
      /\ \A q \in Pools : q # p => op'[q] = op[q]
      /\ pool[p].active /\ op[p] = Idle
  BY <1>1, <1>2 DEF StoreState
<1>4. \A q \in Pools : op'[q] # Idle => pool'[q].active
  BY <1>3 DEF StoreInv, StoreType
<1>. QED BY <1>1, <1>3, <1>4, PoolFrame DEF StoreState

\* A pool that starts takes its position from the confirmed bucket.
LEMMA RestoredPosition ==
  ASSUME StoreInv
  PROVE  /\ Restored \in Position /\ Restored.active = TRUE
         /\ Restored.offset = IF confirmed[OffsetKey] # None THEN confirmed[OffsetKey] ELSE First - 1
         /\ Restored.cycle = (confirmed[CycleKey] # None)
<1>1. View(OffsetKey) = confirmed[OffsetKey] /\ View(CycleKey) = confirmed[CycleKey]
  BY KeyKinds DEF StoreInv, ReadersSeeConfirmed
<1>2. confirmed[OffsetKey] \in Offsets \cup {None} /\ First - 1 \in Offsets
  BY KeyKinds DEF StoreInv, StoreType, Good
<1>3. /\ Restored.active = TRUE
      /\ Restored.offset = IF confirmed[OffsetKey] # None THEN confirmed[OffsetKey] ELSE First - 1
      /\ Restored.cycle = (confirmed[CycleKey] # None)
  BY <1>1 DEF Restored
<1>4. Restored \in Position
  BY <1>1, <1>2 DEF Restored, Position
<1>. QED BY <1>3, <1>4

\* New takes its position from what readers see.
LEMMA StepNew ==
  ASSUME StoreInv, NEW p \in Pools, New(p)
  PROVE  StoreInv'
<1>1. pool \in [Pools -> Position] /\ op \in [Pools -> Ops \cup {Idle}] /\ FlushAll \in Ops
  BY DEF StoreInv, StoreType, Ops
<1>2. ~pool[p].active /\ op[p] = Idle
  <2>1. pool[p].active <=> p < p
    BY DEF New
  <2>2. ~(p < p)
    BY KeysAssumption
  <2>. QED BY <2>1, <2>2 DEF StoreInv, StoreType
<1>3. Restored \in Position /\ Restored.active
  BY RestoredPosition
<1>4. /\ pool' \in [Pools -> Position] /\ pool'[p] = Restored
      /\ op' \in [Pools -> Ops \cup {Idle}]
      /\ \A q \in Pools : q # p => op'[q] = op[q] /\ pool'[q] = pool[q]
  BY <1>1, <1>3 DEF New
<1>5. \A q \in Pools : op'[q] # Idle => pool'[q].active
  BY <1>3, <1>4 DEF StoreInv, StoreType
<1>. QED BY <1>2, <1>4, <1>5, PoolFrame DEF New

\* The keys remember is given are all that the operation changes.
LEMMA TouchedCovers ==
  ASSUME StoreInv, NEW o \in Ops
  PROVE  /\ Touched(o) \subseteq Keys
         /\ \A k \in Keys \ (DOMAIN before \cup Touched(o)) : Change(o, confirmed)[k] = confirmed[k]
<1>1. Good(confirmed) /\ \A k \in Keys : View(k) = confirmed[k]
  BY DEF StoreInv, StoreType, ReadersSeeConfirmed
<1>2. CASE o.do = "put" /\ o \in PutOps
  <2>1. o.host \in Hosts /\ o.ip \in Addrs /\ View(o.ip) = confirmed[o.ip]
    BY <1>1, <1>2, KeyKinds DEF PutOps
  <2>2. confirmed[o.ip] \in Hosts \cup {None}
    BY <1>1, <2>1 DEF Good
  <2>3. Touched(o) = {o.ip, o.host} \cup (IF confirmed[o.ip] = None THEN {} ELSE {confirmed[o.ip]})
    BY <1>2, <2>1 DEF Touched
  <2>4. Touched(o) \subseteq Keys
    BY <2>1, <2>2, <2>3, KeyKinds
  <2>5. ASSUME NEW k \in Keys \ Touched(o) PROVE Change(o, confirmed)[k] = confirmed[k]
    <3>1. k # o.ip /\ k # o.host /\ (confirmed[o.ip] # None => k # confirmed[o.ip])
      BY <2>3, <2>5
    <3>2. k \in Hosts \/ k \in Addrs \/ k = OffsetKey \/ k = CycleKey
      BY DEF Keys
    <3>3. k \in Hosts => k # None
      BY KeyKinds
    <3>. QED BY <1>1, <1>2, <3>1, <3>2, <3>3, PutChange
  <2>. QED BY <2>4, <2>5
<1>3. CASE o.do = "state" /\ o \in StateOps
  <2>1. o.key \in {OffsetKey, CycleKey} /\ Touched(o) = {o.key}
    BY <1>3 DEF StateOps, Touched
  <2>2. Change(o, confirmed) = [confirmed EXCEPT ![o.key] = o.value]
    BY <1>3 DEF Change
  <2>. QED BY <1>1, <2>1, <2>2, KeyKinds DEF Good
<1>4. CASE o.do = "flush"
  <2>1. Touched(o) = {k \in Keys : visible[k] # None} /\ Change(o, confirmed) = Empty
    BY <1>4 DEF Touched, Change
  <2>2. ASSUME NEW k \in Keys \ (DOMAIN before \cup Touched(o)) PROVE confirmed[k] = None
    BY <1>1, <2>1, <2>2 DEF View
  <2>. QED BY <2>1, <2>2 DEF Empty
<1>. QED BY <1>2, <1>3, <1>4, OpKinds

\* remember: what is held back is what readers saw, and it covers what the
\* operation is going to change.
LEMMA StepPrepare ==
  ASSUME StoreInv, NEW p \in Pools, Prepare(p)
  PROVE  StoreInv'
<1>1. op[p] \in Ops
  BY DEF StoreInv, StoreType, Prepare
<1>2. /\ DOMAIN before' = DOMAIN before \cup Touched(op[p])
      /\ \A k \in DOMAIN before' : before'[k] = View(k)
      /\ writer' = [pool |-> p, at |-> "prepared"]
      /\ UNCHANGED <<synced, visible, pool, op, confirmed, clean>>
      /\ writer.at = "free" /\ op[p] # Idle
  BY DEF Prepare
<1>3. /\ Touched(op[p]) \subseteq Keys
      /\ \A k \in Keys \ DOMAIN before' : Change(op[p], confirmed)[k] = confirmed[k]
  BY <1>1, <1>2, TouchedCovers
<1>4. StoreType'
  BY <1>2, <1>3 DEF StoreInv, StoreType, Good, MapsBack
<1>5. WriterInv'
  <2>1. synced = confirmed /\ Moves(confirmed, visible)
    BY <1>2 DEF StoreInv, WriterInv
  <2>2. Moves(confirmed, visible)'
    BY <1>2, <2>1 DEF Moves
  <2>3. /\ writer'.at = "prepared" /\ writer'.pool = p /\ op'[writer'.pool] = op[p]
        /\ synced' = confirmed'
    BY <1>2, <2>1
  <2>4. \A k \in Keys \ DOMAIN before' : Change(op'[writer'.pool], confirmed')[k] = confirmed'[k]
    BY <1>2, <1>3, <2>3
  <2>. QED BY <1>2, <2>2, <2>3, <2>4 DEF WriterInv
<1>6. ReadersSeeConfirmed'
  <2>1. ASSUME NEW k \in Keys PROVE View(k)' = confirmed[k]
    <3>1. View(k) = confirmed[k]
      BY DEF StoreInv, ReadersSeeConfirmed
    <3>2. View(k)' = IF k \in DOMAIN before' THEN before'[k] ELSE visible[k]
      BY <1>2 DEF View
    <3>3. k \notin DOMAIN before' => View(k) = visible[k]
      BY <1>2 DEF View
    <3>. QED BY <1>2, <3>1, <3>2, <3>3
  <2>. QED BY <1>2, <2>1 DEF ReadersSeeConfirmed
<1>. QED BY <1>4, <1>5, <1>6 DEF StoreInv

\* What the readers see is what the next transaction starts from.
LEMMA RepairConfirms ==
  ASSUME StoreInv
  PROVE  Repair(visible) = confirmed
<1>1. confirmed \in [Keys -> Hosts \cup Int \cup {None}] /\ \A k \in Keys : View(k) = confirmed[k]
  BY DEF StoreInv, StoreType, Good, ReadersSeeConfirmed
<1>2. Repair(visible) = [k \in Keys |-> View(k)]
  BY DEF Repair, View
<1>. QED BY <1>1, <1>2

\* The database shows the transaction; readers do not see it yet.
LEMMA StepCommitVisible ==
  ASSUME StoreInv, CommitVisible
  PROVE  StoreInv'
<1>. DEFINE o == op[writer.pool]
<1>1. /\ writer.at = "prepared" /\ writer.pool \in Pools /\ o \in Ops
      /\ synced = confirmed
      /\ \A k \in Keys \ DOMAIN before : Change(o, confirmed)[k] = confirmed[k]
      /\ Good(confirmed)
      /\ writer \in [pool : Pools \cup {None}, at : {"free", "prepared", "visible", "synced"}]
  BY DEF StoreInv, StoreType, WriterInv, CommitVisible
<1>2. /\ visible' = Change(o, confirmed)
      /\ writer' \in [pool : Pools \cup {None}, at : {"free", "prepared", "visible", "synced"}]
      /\ writer'.at = "visible" /\ writer'.pool = writer.pool
      /\ UNCHANGED <<synced, before, pool, op, confirmed, clean>>
  BY <1>1, RepairConfirms DEF CommitVisible
<1>3. Good(visible') /\ Moves(confirmed, visible')
  BY <1>1, <1>2, ChangeGood
<1>. HIDE DEF o
<1>4. StoreType'
  BY <1>2, <1>3 DEF StoreInv, StoreType, Good, MapsBack
<1>5. WriterInv'
  <2>1. o # Idle /\ op'[writer'.pool] = o
    BY <1>1, <1>2, OpKinds DEF o
  <2>2. Moves(confirmed, visible)'
    BY <1>2, <1>3 DEF Moves
  <2>3. visible' = Change(op[writer.pool], confirmed)'
    BY <1>2, <2>1 DEF Change
  <2>. QED BY <1>1, <1>2, <2>1, <2>2, <2>3 DEF WriterInv
<1>6. ReadersSeeConfirmed'
  <2>1. ASSUME NEW k \in Keys PROVE View(k)' = confirmed[k]
    <3>1. View(k) = confirmed[k]
      BY DEF StoreInv, ReadersSeeConfirmed
    <3>. QED BY <1>1, <1>2, <3>1 DEF View
  <2>. QED BY <1>2, <2>1 DEF ReadersSeeConfirmed
<1>. QED BY <1>4, <1>5, <1>6 DEF StoreInv

\* The file holds the transaction.
LEMMA StepSyncs ==
  ASSUME StoreInv, Syncs
  PROVE  StoreInv'
<1>1. /\ writer.at = "visible"
      /\ writer' = [writer EXCEPT !.at = "synced"]
      /\ synced' = visible
      /\ UNCHANGED <<visible, before, pool, op, confirmed, clean>>
  BY DEF Syncs
<1>2. /\ writer' \in [pool : Pools \cup {None}, at : {"free", "prepared", "visible", "synced"}]
      /\ writer'.at = "synced" /\ writer'.pool = writer.pool
  BY <1>1 DEF StoreInv, StoreType
<1>3. StoreType'
  BY <1>1, <1>2 DEF StoreInv, StoreType, Good, MapsBack
<1>4. WriterInv'
  <2>1. /\ visible = Change(op[writer.pool], confirmed) /\ Moves(confirmed, visible)
        /\ writer.pool \in Pools /\ op[writer.pool] # Idle
    BY <1>1 DEF StoreInv, WriterInv
  <2>2. Moves(confirmed, visible)'
    BY <1>1, <2>1 DEF Moves
  <2>3. visible' = Change(op[writer.pool], confirmed)'
    BY <1>1, <1>2, <2>1 DEF Change
  <2>. QED BY <1>1, <1>2, <2>1, <2>2, <2>3 DEF WriterInv
<1>5. ReadersSeeConfirmed'
  BY <1>1 DEF StoreInv, ReadersSeeConfirmed, View
<1>. QED BY <1>3, <1>4, <1>5 DEF StoreInv

\* The pool's part after mutate, for either result.
LEMMA ReturnedTypes ==
  ASSUME StoreInv, NEW w \in Pools, op[w] \in Ops, Returned(w, TRUE) \/ Returned(w, FALSE)
  PROVE  /\ pool' \in [Pools -> Position] /\ op' \in [Pools -> Ops \cup {Idle}]
         /\ \A p \in Pools : op'[p] # Idle => pool'[p].active
<1>1. /\ pool \in [Pools -> Position] /\ op \in [Pools -> Ops \cup {Idle}]
      /\ \A p \in Pools : op[p] # Idle => pool[p].active
      /\ pool[w].active
  BY OpKinds DEF StoreInv, StoreType
<1>2. Start(TRUE) \in Position /\ Start(TRUE).active = TRUE
  BY KeyKinds DEF Start, Position
<1>3. CASE op[w].do = "put" /\ op[w] \in PutOps
  <2>1. op[w].previous \in Position
    BY <1>3 DEF PutOps
  <2>2. (pool' = pool \/ pool' = [pool EXCEPT ![w] = op[w].previous]) /\ op' = [op EXCEPT ![w] = Idle]
    BY <1>3 DEF Returned
  <2>. QED BY <1>1, <2>1, <2>2
<1>4. CASE op[w].do = "state" /\ op[w] \in StateOps
  <2>1. PutState(CycleKey, op[w].value, FALSE) \in Ops
    BY <1>4 DEF StateOps, PutState, Ops
  <2>2. pool' = pool /\ (op' = [op EXCEPT ![w] = Idle] \/ op' = [op EXCEPT ![w] = PutState(CycleKey, op[w].value, FALSE)])
    BY <1>4 DEF Returned
  <2>. QED BY <1>1, <2>1, <2>2
<1>5. CASE op[w].do = "flush"
  <2>1. (pool' = pool \/ pool' = [pool EXCEPT ![w] = Start(TRUE)]) /\ op' = [op EXCEPT ![w] = Idle]
    BY <1>5 DEF Returned
  <2>. QED BY <1>1, <1>2, <2>1
<1>. QED BY <1>3, <1>4, <1>5, OpKinds

\* mutate publishes: what the database shows becomes what readers see.
LEMMA StepConfirm ==
  ASSUME StoreInv, Confirm
  PROVE  StoreInv'
<1>. DEFINE o == op[writer.pool]
<1>1. /\ writer.at = "synced" /\ writer.pool \in Pools /\ o \in Ops
      /\ visible = Change(o, confirmed) /\ synced = visible
      /\ Good(visible)
  BY DEF StoreInv, StoreType, WriterInv, Confirm
<1>2. /\ confirmed' = visible /\ visible' = visible /\ synced' = visible
      /\ before' = NoneHeld /\ DOMAIN before' = {}
      /\ writer' = [pool |-> None, at |-> "free"]
  BY <1>1 DEF Confirm, Release, NoneHeld
<1>3. /\ pool' \in [Pools -> Position] /\ op' \in [Pools -> Ops \cup {Idle}]
      /\ \A p \in Pools : op'[p] # Idle => pool'[p].active
  BY <1>1, ReturnedTypes DEF Confirm
<1>4. StoreType'
  BY <1>1, <1>2, <1>3 DEF StoreType, Good, MapsBack
<1>5. WriterInv'
  <2>1. Moves(visible, visible)
    BY MovesNowhere
  <2>2. Moves(confirmed, visible)'
    BY <1>2, <2>1 DEF Moves
  <2>. QED BY <1>2, <2>2 DEF WriterInv
<1>6. ReadersSeeConfirmed'
  BY <1>2 DEF ReadersSeeConfirmed, View
<1>. QED BY <1>4, <1>5, <1>6 DEF StoreInv

\* A failed commit: what differs stays held back.
LEMMA StepFail ==
  ASSUME StoreInv, Fail
  PROVE  StoreInv'
<1>1. /\ writer.at \in {"prepared", "visible"} /\ writer.pool \in Pools /\ op[writer.pool] \in Ops
      /\ synced = confirmed /\ Moves(confirmed, visible)
  BY DEF StoreInv, StoreType, WriterInv, Fail
<1>2. /\ UNCHANGED <<synced, visible, confirmed, clean>>
      /\ DOMAIN before' = {k \in DOMAIN before : visible[k] # before[k]}
      /\ \A k \in DOMAIN before' : before'[k] = before[k]
      /\ writer' = [pool |-> None, at |-> "free"]
  BY DEF Fail, Release
<1>3. /\ pool' \in [Pools -> Position] /\ op' \in [Pools -> Ops \cup {Idle}]
      /\ \A p \in Pools : op'[p] # Idle => pool'[p].active
  BY <1>1, ReturnedTypes DEF Fail
<1>4. StoreType'
  BY <1>2, <1>3 DEF StoreInv, StoreType, Good, MapsBack
<1>5. WriterInv'
  <2>1. Moves(confirmed, visible)'
    BY <1>1, <1>2 DEF Moves
  <2>. QED BY <1>1, <1>2, <2>1 DEF WriterInv
<1>6. ReadersSeeConfirmed'
  BY <1>2 DEF StoreInv, ReadersSeeConfirmed, View
<1>. QED BY <1>4, <1>5, <1>6 DEF StoreInv

\* After a crash either bucket is the confirmed one.
LEMMA StepCrash ==
  ASSUME StoreInv, Crash
  PROVE  StoreInv'
<1>1. PICK b \in {synced, visible} : synced' = b /\ visible' = b /\ confirmed' = b
  BY DEF Crash
<1>2. Good(b)
  BY DEF StoreInv, StoreType
<1>3. /\ before' = NoneHeld /\ DOMAIN before' = {}
      /\ writer' = [pool |-> None, at |-> "free"]
      /\ pool' = [p \in Pools |-> Start(FALSE)]
      /\ op' = [p \in Pools |-> Idle]
  BY DEF Crash, Release, NoneHeld
<1>4. Start(FALSE) \in Position
  BY KeyKinds DEF Start, Position
<1>5. StoreType'
  BY <1>1, <1>2, <1>3, <1>4 DEF StoreType, Good, MapsBack
<1>6. WriterInv'
  <2>1. Moves(confirmed, visible)'
    BY <1>1 DEF Moves
  <2>. QED BY <1>1, <1>3, <2>1 DEF WriterInv
<1>7. ReadersSeeConfirmed'
  BY <1>1, <1>3 DEF ReadersSeeConfirmed, View
<1>. QED BY <1>5, <1>6, <1>7 DEF StoreInv

\* Every step keeps the invariant of the store.
LEMMA StoreStep ==
  ASSUME StoreInv, Next \/ UNCHANGED vars
  PROVE  StoreInv'
<1>1. CASE UNCHANGED vars
  BY <1>1, PoolFrame DEF vars, StoreInv, StoreType
<1>. QED BY <1>1, StepLookup, StepFlushFakeIP, StepStoreState, StepNew, StepPrepare,
           StepCommitVisible, StepSyncs, StepConfirm, StepFail, StepCrash DEF Next

\* What readers see moves one address at most.
LEMMA StoreMoves ==
  ASSUME StoreInv, Next \/ UNCHANGED vars
  PROVE  Moves(confirmed, confirmed')
<1>1. CASE Confirm
  <2>1. writer.at = "synced" /\ visible = Change(op[writer.pool], confirmed) /\ Moves(confirmed, visible)
    BY <1>1 DEF StoreInv, WriterInv, Confirm
  <2>. QED BY <1>1, <2>1 DEF Confirm
<1>2. CASE Crash
  <2>1. confirmed' \in {synced, visible}
    BY <1>2 DEF Crash
  <2>2. synced \in {confirmed, visible} /\ Moves(confirmed, visible)
    BY DEF StoreInv, WriterInv
  <2>. QED BY <2>1, <2>2, MovesNowhere
<1>3. CASE confirmed' = confirmed
  BY <1>3, MovesNowhere
<1>. QED BY <1>1, <1>2, <1>3 DEF Next, Lookup, FlushFakeIP, StoreState, New, Prepare, CommitVisible, Syncs, Fail, vars

-----------------------------------------------------------------------------
\* When addresses are reused.  NoEarlyReuse speaks of a pool that is idle; the
\* invariant also says what an allocation may fall back to, and what a pool
\* finds when it is started again.
Used(b, n) == \A a \in Addrs : b[a] # None => a <= n

Ahead(r, b) == r.cycle \/ Used(b, r.offset)

PlaceInv(r, o, b) ==
  /\ o.do # "put" => Ahead(r, b)
  /\ o.do = "put" => o.previous.active /\ Ahead(o.previous, b) /\ r = Get(o.previous) /\ o.ip = r.offset

SavedInv(b) ==
  b = Empty \/ (b[OffsetKey] # None /\ (b[CycleKey] # None \/ Used(b, b[OffsetKey])))

ReuseInv ==
  clean => /\ \A p \in Pools : pool[p].active => p = 1 /\ PlaceInv(pool[p], op[p], confirmed)
           /\ (\A p \in Pools : ~pool[p].active) => SavedInv(confirmed)

\* Only put gives out an address.
LEMMA OtherOps ==
  /\ Idle.do # "put" /\ FlushAll.do # "put"
  /\ \A k, v, more : PutState(k, v, more).do # "put"
BY DEF Idle, FlushAll, PutState

\* Without a put, the position itself is ahead.
LEMMA PlaceOfOther ==
  ASSUME NEW r, NEW o, NEW b, o.do # "put"
  PROVE  PlaceInv(r, o, b) <=> Ahead(r, b)
BY DEF PlaceInv

\* With a put, the position is the one after the position it falls back to.
LEMMA PlaceOfPut ==
  ASSUME NEW r, NEW o, NEW b, o.do = "put"
  PROVE  PlaceInv(r, o, b) <=>
           o.previous.active /\ Ahead(o.previous, b) /\ r = Get(o.previous) /\ o.ip = r.offset
BY DEF PlaceInv

\* Allocating an address keeps ahead of the ones in use.
LEMMA AheadAfterPut ==
  ASSUME NEW o \in PutOps, NEW b, Good(b), Ahead(o.previous, b), o.ip = Get(o.previous).offset
  PROVE  Ahead(Get(o.previous), Change(o, b))
<1>1. o.previous \in Position /\ o.previous.offset \in Int
  BY KeyKinds DEF PutOps, Position
<1>2. \/ Get(o.previous).offset = o.previous.offset + 1 /\ Get(o.previous).cycle = o.previous.cycle
      \/ Get(o.previous).cycle = TRUE
  BY <1>1, GetPosition
<1>3. CASE Get(o.previous).cycle = TRUE
  BY <1>3 DEF Ahead
<1>4. CASE Get(o.previous).offset = o.previous.offset + 1 /\ Get(o.previous).cycle = o.previous.cycle
  <2>1. CASE o.previous.cycle
    BY <1>4, <2>1 DEF Ahead
  <2>2. CASE Used(b, o.previous.offset)
    <3>1. ASSUME NEW a \in Addrs, Change(o, b)[a] # None PROVE a <= Get(o.previous).offset
      <4>1. a = o.ip \/ b[a] # None
        BY <3>1, PutChange
      <4>2. a \in Int /\ o.ip \in Int
        BY KeyKinds DEF PutOps
      <4>. QED BY <1>1, <1>4, <2>2, <4>1, <4>2 DEF Used
    <3>. QED BY <3>1 DEF Ahead, Used
  <2>. QED BY <2>1, <2>2 DEF Ahead
<1>. QED BY <1>2, <1>3, <1>4

\* Storing the position touches no address.
LEMMA AheadAfterState ==
  ASSUME NEW o \in StateOps, NEW b, Good(b), NEW r, Ahead(r, b)
  PROVE  Ahead(r, Change(o, b))
<1>1. Change(o, b) = [b EXCEPT ![o.key] = o.value] /\ o.key \in {OffsetKey, CycleKey}
  BY DEF StateOps, Change
<1>2. \A a \in Addrs : Change(o, b)[a] = b[a]
  BY <1>1, KeyKinds DEF Good
<1>. QED BY <1>2 DEF Ahead, Used

\* No pool is active at first, and the file is empty.
LEMMA ReuseInit == Init => ReuseInv
<1>. SUFFICES ASSUME Init PROVE ReuseInv
  OBVIOUS
<1>1. \A p \in Pools : pool[p] = Start(FALSE)
  BY DEF Init
<1>2. ~Start(FALSE).active
  BY DEF Start
<1>3. SavedInv(confirmed)
  BY DEF Init, SavedInv
<1>. QED BY <1>1, <1>2, <1>3 DEF ReuseInv

\* Where clean, confirmed and what is active stay, only the pool that steps counts.
LEMMA ReuseFrame ==
  ASSUME ReuseInv, NEW p \in Pools, clean' = clean, confirmed' = confirmed,
         \A q \in Pools : q # p => pool'[q] = pool[q] /\ op'[q] = op[q],
         pool[p].active, pool'[p].active,
         PlaceInv(pool[p], op[p], confirmed) => PlaceInv(pool'[p], op'[p], confirmed)
  PROVE  ReuseInv'
<1>1. SUFFICES ASSUME clean
               PROVE  /\ \A q \in Pools : pool'[q].active => q = 1 /\ PlaceInv(pool'[q], op'[q], confirmed)
                      /\ ~(\A q \in Pools : ~pool'[q].active)
  BY DEF ReuseInv, PlaceInv, Ahead, Used, Get
<1>2. \A q \in Pools : pool[q].active => q = 1 /\ PlaceInv(pool[q], op[q], confirmed)
  BY <1>1 DEF ReuseInv
<1>. QED BY <1>2

\* Lookup remembers the position it came from.
LEMMA ReuseLookup ==
  ASSUME StoreInv, ReuseInv, NEW p \in Pools, NEW h \in Hosts, Lookup(p, h)
  PROVE  ReuseInv'
<1>1. pool \in [Pools -> Position] /\ op \in [Pools -> Ops \cup {Idle}] /\ pool[p] \in Position
  BY DEF StoreInv, StoreType
<1>2. /\ pool[p].active /\ op[p] = Idle
      /\ pool'[p] = Get(pool[p]) /\ op'[p] = Put(h, Get(pool[p]).offset, pool[p])
      /\ \A q \in Pools : q # p => pool'[q] = pool[q] /\ op'[q] = op[q]
      /\ clean' = clean /\ confirmed' = confirmed
  BY <1>1 DEF Lookup
<1>3. pool'[p].active
  BY <1>1, <1>2, GetPosition
<1>4. ASSUME PlaceInv(pool[p], op[p], confirmed) PROVE PlaceInv(pool'[p], op'[p], confirmed)
  <2>1. Ahead(pool[p], confirmed)
    BY <1>2, <1>4, OtherOps, PlaceOfOther
  <2>2. /\ op'[p].do = "put" /\ op'[p].previous = pool[p] /\ op'[p].ip = Get(pool[p]).offset
    <3>1. \A a, r : LET o == Put(h, a, r) IN o.do = "put" /\ o.previous = r /\ o.ip = a
      BY DEF Put
    <3>. QED BY <1>2, <3>1
  <2>. QED BY <1>2, <2>1, <2>2, PlaceOfPut
<1>. QED BY <1>2, <1>3, <1>4, ReuseFrame

\* An operation that is not a put takes the place of none.
LEMMA ReuseBegins ==
  ASSUME ReuseInv, NEW p \in Pools, pool[p].active, op[p] = Idle, op \in [Pools -> Ops \cup {Idle}],
         NEW o, o.do # "put", op' = [op EXCEPT ![p] = o], UNCHANGED <<pool, confirmed, clean>>
  PROVE  ReuseInv'
<1>1. op'[p] = o /\ \A q \in Pools : q # p => op'[q] = op[q]
  OBVIOUS
<1>2. PlaceInv(pool[p], op[p], confirmed) => PlaceInv(pool'[p], op'[p], confirmed)
  BY <1>1, OtherOps, PlaceOfOther
<1>. QED BY <1>1, <1>2, ReuseFrame

\* The first pool of a process finds what the last one saved.
LEMMA ReuseNew ==
  ASSUME StoreInv, ReuseInv, NEW p \in Pools, New(p)
  PROVE  ReuseInv'
<1>1. SUFFICES ASSUME clean' PROVE ReuseInv'
  BY DEF ReuseInv
<1>2. clean /\ p = 1 /\ confirmed' = confirmed
  BY <1>1 DEF New
<1>3. \A q \in Pools : ~pool[q].active
  <2>1. \A q \in Pools : pool[q].active <=> q < p
    BY DEF New
  <2>2. \A q \in Pools : ~(q < 1)
    BY KeysAssumption
  <2>. QED BY <1>2, <2>1, <2>2
<1>4. SavedInv(confirmed)
  BY <1>2, <1>3 DEF ReuseInv
<1>5. pool \in [Pools -> Position] /\ op \in [Pools -> Ops \cup {Idle}] /\ op[p] = Idle
  BY <1>3 DEF StoreInv, StoreType
<1>6. /\ pool'[p] = Restored /\ op'[p] \in {Idle, FlushAll}
      /\ \A q \in Pools : q # p => pool'[q] = pool[q]
  BY <1>5 DEF New
<1>7. Ahead(Restored, confirmed)
  <2>1. /\ Restored.offset = IF confirmed[OffsetKey] # None THEN confirmed[OffsetKey] ELSE First - 1
        /\ Restored.cycle = (confirmed[CycleKey] # None)
    BY RestoredPosition
  <2>2. CASE confirmed = Empty
    <3>1. Used(confirmed, Restored.offset)
      BY <2>2, KeyKinds DEF Empty, Used
    <3>. QED BY <3>1 DEF Ahead
  <2>3. CASE confirmed[OffsetKey] # None /\ confirmed[CycleKey] # None
    BY <2>1, <2>3 DEF Ahead
  <2>4. CASE confirmed[OffsetKey] # None /\ Used(confirmed, confirmed[OffsetKey])
    BY <2>1, <2>4 DEF Ahead
  <2>. QED BY <1>4, <2>2, <2>3, <2>4 DEF SavedInv
<1>8. PlaceInv(pool'[p], op'[p], confirmed')
  <2>1. op'[p].do # "put"
    BY <1>6 DEF Idle, FlushAll
  <2>. QED BY <1>2, <1>6, <1>7, <2>1 DEF PlaceInv
<1>9. pool'[p].active
  BY <1>6, RestoredPosition
<1>. QED BY <1>2, <1>3, <1>6, <1>8, <1>9 DEF ReuseInv

\* A confirmed put advances the position with the addresses in use.
LEMMA ReuseConfirm ==
  ASSUME StoreInv, ReuseInv, Confirm
  PROVE  ReuseInv'
<1>. DEFINE w == writer.pool
            o == op[w]
<1>1. /\ w \in Pools /\ o \in Ops /\ o # Idle /\ Good(confirmed)
      /\ pool \in [Pools -> Position] /\ op \in [Pools -> Ops \cup {Idle}]
      /\ pool[w].active
      /\ confirmed' = Change(o, confirmed) /\ clean' = clean
      /\ Returned(w, TRUE)
  BY DEF StoreInv, StoreType, WriterInv, Confirm
<1>. HIDE DEF w
<1>2. SUFFICES ASSUME clean PROVE ReuseInv'
  BY <1>1 DEF ReuseInv
<1>3. /\ w = 1 /\ PlaceInv(pool[w], o, confirmed)
      /\ \A q \in Pools : q # w => ~pool[q].active
  BY <1>1, <1>2 DEF ReuseInv
<1>4. CASE o.do = "put" /\ o \in PutOps
  <2>1. pool' = pool /\ op' = [op EXCEPT ![w] = Idle]
    BY <1>1, <1>4 DEF Returned
  <2>2. Ahead(pool[w], confirmed')
    BY <1>1, <1>3, <1>4, AheadAfterPut DEF PlaceInv
  <2>3. op'[w] = Idle
    BY <1>1, <2>1
  <2>4. PlaceInv(pool'[w], op'[w], confirmed')
    BY <2>1, <2>2, <2>3 DEF PlaceInv, Idle
  <2>. QED BY <1>1, <1>3, <2>1, <2>4 DEF ReuseInv
<1>5. CASE o.do = "state" /\ o \in StateOps
  <2>1. pool' = pool /\ op'[w] \in {Idle, PutState(CycleKey, o.value, FALSE)}
    BY <1>1, <1>5 DEF Returned
  <2>2. Ahead(pool[w], confirmed')
    BY <1>1, <1>3, <1>5, AheadAfterState DEF PlaceInv
  <2>3. op'[w].do # "put"
    BY <2>1, OtherOps
  <2>4. PlaceInv(pool'[w], op'[w], confirmed')
    BY <2>1, <2>2, <2>3 DEF PlaceInv
  <2>. QED BY <1>1, <1>3, <2>1, <2>4 DEF ReuseInv
<1>6. CASE o.do = "flush"
  <2>1. pool' = [pool EXCEPT ![w] = Start(TRUE)] /\ op' = [op EXCEPT ![w] = Idle]
    BY <1>1, <1>6 DEF Returned
  <2>2. confirmed' = Empty
    BY <1>1, <1>6 DEF Change
  <2>3. Ahead(Start(TRUE), confirmed')
    BY <2>2, KeyKinds DEF Ahead, Used, Empty
  <2>4. pool'[w] = Start(TRUE) /\ op'[w] = Idle /\ \A q \in Pools : q # w => pool'[q] = pool[q]
    BY <1>1, <2>1
  <2>5. PlaceInv(pool'[w], op'[w], confirmed')
    BY <2>3, <2>4, OtherOps, PlaceOfOther
  <2>6. Start(TRUE).active
    BY DEF Start
  <2>. QED BY <1>1, <1>3, <2>4, <2>5, <2>6 DEF ReuseInv
<1>. QED BY <1>1, <1>4, <1>5, <1>6, OpKinds

\* A failed put goes back to the position before it.
LEMMA ReuseFail ==
  ASSUME StoreInv, ReuseInv, Fail
  PROVE  ReuseInv'
<1>. DEFINE w == writer.pool
            o == op[w]
<1>1. /\ w \in Pools /\ o \in Ops
      /\ pool \in [Pools -> Position] /\ op \in [Pools -> Ops \cup {Idle}]
      /\ pool[w].active
      /\ confirmed' = confirmed /\ clean' = clean
      /\ Returned(w, FALSE)
  BY DEF StoreInv, StoreType, WriterInv, Fail
<1>. HIDE DEF w
<1>2. SUFFICES ASSUME clean PROVE ReuseInv'
  BY <1>1 DEF ReuseInv
<1>3. PlaceInv(pool[w], o, confirmed)
  BY <1>1, <1>2 DEF ReuseInv
<1>4. CASE o.do = "put" /\ o \in PutOps
  <2>1. /\ pool'[w] = o.previous /\ op'[w] = Idle
        /\ \A q \in Pools : q # w => pool'[q] = pool[q] /\ op'[q] = op[q]
    BY <1>1, <1>4 DEF Returned
  <2>2. o.previous.active /\ Ahead(o.previous, confirmed)
    BY <1>3, <1>4, PlaceOfPut
  <2>3. pool'[w].active /\ PlaceInv(pool'[w], op'[w], confirmed)
    BY <2>1, <2>2, OtherOps, PlaceOfOther
  <2>. QED BY <1>1, <2>1, <2>3, ReuseFrame
<1>5. CASE o.do = "state" /\ o \in StateOps
  <2>1. /\ pool' = pool /\ op'[w] \in {Idle, PutState(CycleKey, o.value, FALSE)}
        /\ \A q \in Pools : q # w => op'[q] = op[q]
    BY <1>1, <1>5 DEF Returned
  <2>2. op'[w].do # "put"
    BY <2>1, OtherOps
  <2>3. PlaceInv(pool'[w], op'[w], confirmed)
    BY <1>3, <1>5, <2>1, <2>2 DEF PlaceInv
  <2>. QED BY <1>1, <2>1, <2>3, ReuseFrame
<1>6. CASE o.do = "flush"
  <2>1. pool' = pool /\ op' = [op EXCEPT ![w] = Idle]
    BY <1>1, <1>6 DEF Returned
  <2>2. op'[w] = Idle /\ \A q \in Pools : q # w => op'[q] = op[q]
    BY <1>1, <2>1
  <2>3. PlaceInv(pool'[w], op'[w], confirmed)
    <3>1. o.do # "put"
      BY <1>6
    <3>. QED BY <1>3, <2>1, <2>2, <3>1, OtherOps, PlaceOfOther
  <2>. QED BY <1>1, <2>1, <2>2, <2>3, ReuseFrame
<1>. QED BY <1>1, <1>4, <1>5, <1>6, OpKinds

\* A crash that stays clean leaves what New needs.
LEMMA ReuseCrash ==
  ASSUME StoreInv, ReuseInv, Crash
  PROVE  ReuseInv'
<1>1. SUFFICES ASSUME clean' PROVE ReuseInv'
  BY DEF ReuseInv
<1>2. clean /\ confirmed' = confirmed /\ \A p \in Pools : pool[p].active => Saved(p)
  BY <1>1 DEF Crash
<1>3. PICK p \in Pools : pool[p].active
  BY DEF Crash
<1>4. Saved(p) /\ PlaceInv(pool[p], op[p], confirmed)
  BY <1>2, <1>3 DEF ReuseInv
<1>5. pool[p] \in Position /\ confirmed[OffsetKey] \in Offsets \cup {None}
  BY DEF StoreInv, StoreType, Good
<1>6. Ahead(pool[p], confirmed)
  BY <1>4, OtherOps, PlaceOfOther DEF Saved
<1>7. SavedInv(confirmed)
  <2>1. CASE confirmed = Empty
    BY <2>1 DEF SavedInv
  <2>2. CASE confirmed # Empty
    <3>1. pool[p].offset = confirmed[OffsetKey] /\ (pool[p].cycle => confirmed[CycleKey] # None)
      BY <1>4, <2>2 DEF Saved
    <3>2. confirmed[OffsetKey] # None
      BY <1>5, <3>1, KeyKinds DEF Position
    <3>. QED BY <1>6, <3>1, <3>2 DEF SavedInv, Ahead
  <2>. QED BY <2>1, <2>2
<1>8. \A q \in Pools : pool'[q] = Start(FALSE)
  BY DEF Crash
<1>9. ~Start(FALSE).active
  BY DEF Start
<1>. QED BY <1>2, <1>7, <1>8, <1>9 DEF ReuseInv, SavedInv, Used

\* The reuse invariant is kept by every step.
LEMMA ReuseStep ==
  ASSUME StoreInv, ReuseInv, Next \/ UNCHANGED vars
  PROVE  ReuseInv'
<1>1. CASE UNCHANGED <<pool, op, confirmed, clean>>
  BY <1>1 DEF ReuseInv, PlaceInv, SavedInv, Ahead, Used, Get
<1>2. op \in [Pools -> Ops \cup {Idle}]
  BY DEF StoreInv, StoreType
<1>3. ASSUME NEW p \in Pools, FlushFakeIP(p) \/ StoreState(p) PROVE ReuseInv'
  <2>1. FlushAll.do # "put" /\ PutState(OffsetKey, pool[p].offset, pool[p].cycle).do # "put"
    BY DEF FlushAll, PutState
  <2>. QED BY <1>2, <1>3, <2>1, ReuseBegins DEF FlushFakeIP, StoreState
<1>4. ASSUME NEW p \in Pools, Prepare(p) PROVE ReuseInv'
  BY <1>1, <1>4 DEF Prepare
<1>5. CASE CommitVisible \/ Syncs \/ UNCHANGED vars
  BY <1>1, <1>5 DEF CommitVisible, Syncs, vars
<1>. QED BY <1>3, <1>4, <1>5, ReuseLookup, ReuseNew, ReuseConfirm, ReuseFail, ReuseCrash DEF Next

-----------------------------------------------------------------------------
\* The inductive invariant of a pool with either store
PoolInv == StoreInv /\ ReuseInv /\ MemInv

\* The invariant holds at first.
LEMMA PoolInvInit == PoolInit => PoolInv
BY StoreInit, ReuseInit, MemInit DEF PoolInit, PoolInv

\* Both stores keep their invariant, the idle one because it does not change.
LEMMA PoolInvStep ==
  ASSUME PoolInv, [PoolNext]_allvars
  PROVE  PoolInv' /\ Moves(confirmed, confirmed') /\ Changes
<1>1. Next \/ UNCHANGED vars
  BY DEF PoolNext, allvars
<1>2. Mem!Next \/ UNCHANGED memory
  BY DEF PoolNext, allvars
<1>3. StoreInv' /\ Moves(confirmed, confirmed')
  BY <1>1, StoreStep, StoreMoves DEF PoolInv
<1>4. ReuseInv'
  BY <1>1, ReuseStep DEF PoolInv
<1>5. MemInv' /\ Changes
  BY <1>2, MemStep DEF PoolInv
<1>. QED BY <1>3, <1>4, <1>5 DEF PoolInv

\* What the invariant says of a state.
LEMMA PoolInvImplies ==
  ASSUME PoolInv
  PROVE  DirectionsAgree /\ ReusedLate
<1>1. ReadersSeeConfirmed
  BY DEF PoolInv, StoreInv
<1>2. MapsBack(synced) /\ MapsBack(confirmed)
  BY DEF PoolInv, StoreInv, StoreType, Good
<1>3. MapsBack([k \in Keys |-> View(k)])
  BY <1>1, <1>2, KeyKinds DEF ReadersSeeConfirmed, MapsBack
<1>4. Mem!DirectionsAgree
  <2>1. Paired(cacheIP, cacheHost)
    BY DEF PoolInv, MemInv
  <2>2. \A i \in 1..Len(cacheIP) : cacheHost[i] = Mem!Mirror(cacheIP[i])
    <3>1. ASSUME NEW i \in 1..Len(cacheIP) PROVE cacheHost[i] = Mem!Mirror(cacheIP[i])
      <4>1. cacheHost[i] \in ByAddr /\ cacheHost[i].key = cacheIP[i].value /\ cacheHost[i].value = cacheIP[i].key
        BY <2>1 DEF Paired
      <4>. QED BY <4>1 DEF ByAddr, Mem!Mirror, Mem!Entry
    <3>. QED BY <3>1
  <2>. QED BY <2>1, <2>2 DEF Mem!DirectionsAgree, Paired
<1>5. NoEarlyReuse
  <2>1. SUFFICES ASSUME clean, NEW p \in Pools, pool[p].active, op[p] = Idle, ~pool[p].cycle
                 PROVE  Used(confirmed, pool[p].offset)
    BY DEF NoEarlyReuse, Used
  <2>2. PlaceInv(pool[p], Idle, confirmed)
    BY <2>1 DEF PoolInv, ReuseInv
  <2>. QED BY <2>1, <2>2 DEF PlaceInv, Ahead, Idle
<1>6. Mem!NoEarlyReuse
  BY DEF PoolInv, MemInv
<1>. QED BY <1>1, <1>2, <1>3, <1>4, <1>5, <1>6 DEF DirectionsAgree, PublishedMapsBack, ReusedLate

\* Host and address lead to each other in both stores of component/fakeip: the
\* bucket of cachefile/fakeip.go through failed writes and crashes, and the two
\* LRU caches of memory.go through their separate evictions.
THEOREM DirectionsAlwaysAgree == PoolSpec => []DirectionsAgree
BY PoolInvInit, PoolInvStep, PoolInvImplies, PTL DEF PoolSpec

\* Pool.get hands out an address again only after it wrapped around, with either
\* store, as long as no crash lost the position and no reload made another pool.
THEOREM AddressesReusedLate == PoolSpec => []ReusedLate
BY PoolInvInit, PoolInvStep, PoolInvImplies, PTL DEF PoolSpec

\* A confirmed change of the bucket is a step of the map.
LEMMA StoreMapStep ==
  ASSUME StoreInv, StoreInv', Moves(confirmed, confirmed')
  PROVE  [Map!MapNext]_AddrOf
<1>1. \A h \in Hosts : View(h) = confirmed[h] /\ View(h)' = confirmed'[h]
  BY KeyKinds DEF StoreInv, ReadersSeeConfirmed
<1>2. AddrOf = [h \in Hosts |-> confirmed[h]] /\ AddrOf' = [h \in Hosts |-> confirmed'[h]]
  BY <1>1 DEF AddrOf
<1>3. \A h \in Hosts : confirmed'[h] \in Addrs \cup {None}
  BY DEF StoreInv, StoreType, Good, MapsBack
<1>4. AddrOf' \in [Hosts -> Addrs \cup {None}]
  BY <1>2, <1>3
<1>5. Map!Forget \/ \E h \in Hosts, a \in Addrs : Map!Assign(h, a)
  BY <1>2 DEF Moves, Map!Forget, Map!Forgets, Map!Assign
<1>. QED BY <1>4, <1>5 DEF Map!MapNext

\* A step of the two caches is a step of the map.
LEMMA MemMapStep ==
  ASSUME MemInv, MemInv', Changes
  PROVE  [MemMap!MapNext]_MemAddrOf
<1>1. Paired(cacheIP, cacheHost) /\ Paired(cacheIP', cacheHost') /\ Mem!Addrs = MemAddrs
  BY DEF MemInv, Mem!Addrs, MemAddrs
<1>2. /\ MemAddrOf = [h \in MemHosts |-> Mem!AddrIn(cacheIP, h)]
      /\ MemAddrOf' = [h \in MemHosts |-> Mem!AddrIn(cacheIP', h)]
  BY DEF MemAddrOf, Mem!AddrIn, Mem!Has, Mem!Value, Mem!Index
<1>3. \A h \in MemHosts : Mem!AddrIn(cacheIP', h) \in MemAddrs \cup {None}
  BY <1>1, AddrInIs
<1>4. MemAddrOf' \in [MemHosts -> Mem!Addrs \cup {None}]
  BY <1>1, <1>2, <1>3
<1>5. CASE Sub(cacheIP', cacheIP)
  <2>1. \A g \in MemHosts : Mem!AddrIn(cacheIP', g) \in {Mem!AddrIn(cacheIP, g), None}
    BY <1>1, <1>5, SubForgets
  <2>2. MemMap!Forget
    BY <1>2, <2>1 DEF MemMap!Forget, MemMap!Forgets
  <2>. QED BY <1>4, <2>2 DEF MemMap!MapNext
<1>6. ASSUME NEW h \in MemHosts, NEW a \in MemAddrs, Within(cacheIP', cacheIP, h, a),
             \E j \in 1..Len(cacheIP') : cacheIP'[j] = Mem!Entry(h, a)
      PROVE  [MemMap!MapNext]_MemAddrOf
  <2>1. /\ Mem!AddrIn(cacheIP', h) = a
        /\ \A g \in MemHosts \ {h} : /\ Mem!AddrIn(cacheIP', g) \in {Mem!AddrIn(cacheIP, g), None}
                                     /\ Mem!AddrIn(cacheIP', g) # a
    BY <1>1, <1>6, WithinAssigns
  <2>2. MemMap!Assign(h, a)
    BY <1>2, <2>1 DEF MemMap!Assign, MemMap!Forgets
  <2>. QED BY <1>1, <1>4, <2>2 DEF MemMap!MapNext
<1>. QED BY <1>5, <1>6 DEF Changes

\* Either store implements AddressMap: a one-to-one map in which a recycled
\* address leaves its old host in the step that gives it to the new one.
THEOREM PoolImplementsMap == PoolSpec => PoolIsMap
<1>1. PoolInit => Map!MapInit
  <2>1. ASSUME Init PROVE \A h \in Hosts : View(h) = None
    BY <2>1, KeyKinds DEF Init, View, NoneHeld, Empty
  <2>. QED BY <2>1 DEF PoolInit, Map!MapInit, AddrOf
<1>2. PoolInit => MemMap!MapInit
  <2>1. ASSUME Mem!Init PROVE \A h \in MemHosts : Mem!AddrIn(cacheIP, h) = None
    BY <2>1 DEF Mem!Init, Mem!AddrIn, Mem!Has
  <2>. QED BY <2>1 DEF PoolInit, MemMap!MapInit, MemAddrOf
<1>3. PoolInv /\ [PoolNext]_allvars => PoolInv' /\ [Map!MapNext]_AddrOf /\ [MemMap!MapNext]_MemAddrOf
  BY PoolInvStep, StoreMapStep, MemMapStep DEF PoolInv
<1>. QED BY <1>1, <1>2, <1>3, PoolInvInit, PTL DEF PoolSpec, PoolIsMap, ImplementsMap, Map!MapSpec, MemMap!MapSpec
=============================================================================
