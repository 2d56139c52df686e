# Verification of the dev branch: caches, fake IPs, DIRECT dialling, hybrid QUIC, REJECT and UDP sessions

This directory holds TLA+ models of the parts of the program whose correctness
depends on the order in which goroutines, timers, the network and crashes act.
TLC checks them on small instances; TLAPS proves the most important statements
about the unified cache for every instance. `PROJECT.json` maps each definition
to the lines of `src/` it stands for, and lists runs, mutants, findings,
hazards and theorems.

    tlc -config DevCache.cfg MCDevCache      # any run: see the table of runs
    tlapm DevCacheProofs.tla                 # the proofs

## 1. Inventory

The program is a rule-based proxy. What this branch adds to it, and what makes
it hard to test, is shared state that outlives one connection.

| Part | State | Operations | What makes it hard |
|---|---|---|---|
| Unified cache (`component/dev_cache/cache.go`) | stored values with a refresh deadline and an update clock; one flight per key; retry times | get, set, compute, restore, delete by key or scope, mark stale, refresh | workers that finish after their key was invalidated, waiters that come and go, expiry during a refresh |
| Its backends (`common/arc`, `common/lru`) | ARC's four lists with ghosts; the LRU list with ages | set, get, delete, clear, snapshot | long sequences of legal calls; counters kept beside the lists |
| Registry and persistence (`registry.go`, `dns/cachestore.go`, `hub/executor`) | attached caches, pending records, the snapshot on disk | attach, restore, retain, flush, evict, store, shutdown | the file is written outside the registry mutex; crashes; a reload or flush during a store |
| Fake IP (`component/fakeip`, `component/profile/cachefile/fakeip.go`) | host and address mappings, allocation offset and cycle | lookup, flush, store state, take-over by a new pool | a failed sync leaves a transaction visible; recycled addresses; crashes |
| TCP winners (`component/dialer/tcp_concurrent_cache.go`) | ordered winners with RTT and backoff | success, backoff, read, delete | ordering and capping over any history; clocks |
| Dialling (`component/dialer`: `dialer.go`, `tcp_retained_race.go`, `direct_progressive.go`) | attempts, held connections, timers, the caller's context | dial results, DNS batches, timeouts, cancellation | a connection that completes after the race ended; a caller who leaves; preference windows |
| Hybrid QUIC flow (`component/hybrid`) | raw permission, lease, probe, retry schedule | write, read, watch, accept lease | lock-free reader against locked writer; lost, late, repeated probes; lease deadlines at both ends |
| REJECT ban and parker (`tunnel/reject_ban.go`, `tunnel/reject.go`) | recent refusals per key, bans; the queue of parked connections | lookup, verdict, reset; park, run | rules and selections that change between lookup and use; a goroutine that exists only while there is work |
| UDP sessions (`tunnel/tunnel.go`, `connection.go`, `packet_sender_prepare.go`, `component/nat`) | NAT entry, sender queue, resolutions, order of packets | send, process, resolve, close, delete | a packet accepted while the session closes; head-of-line blocking; a late delete |
| DNS resolver, enhancer, upstream clients (`dns/`) | its caches are the unified cache | exchange, lookup, reset | composition with refresh; client reset |
| Network scope (`scope.go`, `component/dialer/direct_scope.go`, `androidcyaml`) | sampled scope with a generation | sample, switch, retire | a scope sampled before a switch and used after it |
| AnyTLS session pool (`transport/anytls/session`) | idle sessions, streams | create, return, die, close | a session that dies while it is returned |
| Coalescing utilities (`common/singleflight`, `singledo`, `picker`) | calls in progress | do, forget | as for flights |
| Proxy groups, providers, health checks (`adapter/`) | measured delays, selection, touch times | check, select, update | overlapping checks; a stale selection |
| Resource fetcher (`component/resource`) | content, hash, timer | update, watch, pull | three sources of updates |
| Executor, rules, sniffer, listeners, outbounds, transports, statistics, patches | | | set-up, matching, I/O, third-party protocols |

The parts from the DNS resolver downwards are not modelled yet; section 7 says
in which order they are planned, and which are left out for good.

How the parts meet: a DIRECT connection asks the DNS resolver for candidates
(stored in a `Cache` with an ARC or LRU backend and registered under a
namespace), and `WinnerCache` (itself a `Cache` entry) for addresses that
worked; one of the races dials them. A connection that the rules refuse goes
through the ban cache and, for REJECT-DROP, the parker. A UDP packet goes
through a session's sender, whose resolver may be the DIRECT one. Hybrid flows
carry the packets of a session whose outbound supports raw QUIC.

## 2. Modules

| Module | Models | Refines |
|---|---|---|
| `DevCache` | `Cache`: every method is one action under `mu`; a refresh worker's end is an action (`WorkerSucceeded`, `WorkerFailed`, `WorkerInvalidated`) and so is a waiter's return (`WaitDone`, `WaitCancelled`) | `CoalescedLookup` |
| `CoalescedLookup` | what `Refresh` promises: a caller takes a ticket for a key, a ticket is settled once, everyone who holds it is told the same | |
| `ArcCache`, `LruCache` | the two backends; every method is one action | |
| `CacheBackend` | `New`: which backend a cache gets; the run's module for both | `BoundedStore` |
| `BoundedStore` | a store of limited capacity that may drop another entry to make room, and never the one just stored | |
| `DevRegistry` | the registry, `StoreCache`, `LoadCache`, `FlushDevCache`, `updateDNS`, shutdown, crash and restart; what happens outside the registry mutex is a step of its own | |
| `FakeIpStore` | pools over the cache file: `mutate` split at each point where a reader, another pool or a crash can come in; bbolt is external | `AddressMap` |
| `FakeIpMemory` | pools over the two LRU directions | `AddressMap` |
| `FakeIpPool` | `New`: which of the two stores a pool is given | both of them |
| `AddressMap` | what a fake-IP pool promises: a published pair maps back until the address is recycled or flushed | |
| `DialAttempts` | one connection attempt per address, shared by the races | |
| `RetainedRace`, `ProgressiveRace`, `DualStackRace`, `FamilyRace` | the ways to dial: retained winners first; addresses from DNS in batches; two lookups with a fallback timer; `dualStackDialContext`, `parallelDialContext` and `serialDialContext`. Each `select` branch is an action | |
| `DialContext` | how the options and the network choose one of them; states what all of them owe the caller | `DialOutcome` |
| `DialOutcome` |
| `DialOutcome` | a race hands over at most one connection, or an error, once | |
| `WinnerCache` | the entry of one destination, with the cache's clock | |
| `HybridFlow` | one client flow; the terminal and the network are external | |
| `RejectBan` | the ban cache with the steps of `handleTCPConn` that use it | |
| `DropParker` | `Park` and `run`, one action between two uses of the mutex | |
| `UdpSession` | the sessions of one NAT key: worker, sender, process loop, resolvers, read loop | |
| `DevCacheProofs` | theorems about `DevCache` | |

`MCDevCache`, `MCDevRegistry`, `MCFakeIpPool` and `MCDialContext` add the
constants and symmetry sets of the TLC instances; the other modules are checked
as they are. Definitions called `Mutant...` are plausible bugs; each property is
violated when the mapped definition is replaced by its mutant.

`DialContext`, `FakeIpPool` and `CacheBackend` hold the variables of all their
alternatives. The initial state chooses one, as the code does when it dials or
creates a pool or a cache, and the variables of the others keep their initial
values, so that one property speaks about every alternative.

Correspondence. A variable has the name of the field it stands for (`data`,
`flights`, `retry`, `before`, `queue`, `running`, `leaseUntil` as `c.until`).
Variables marked *history* in a module do not exist in the program; they record
what a property needs to speak about the past (`epoch` and `purged` in
`DevCache`: how often a key was invalidated, and when it was last removed).
Contents are reduced to what tells them apart: in `DevCache` a value is the
epoch in which it was requested and the time it was stored.

Simplifications worth knowing:

- `DevCache`: capacity eviction drops any other entry (`Stored`), which covers
  both backends. A deadline is the one the fetch gave or the one `MarkStale`
  forces. A zero deadline is the success that stores nothing.
- `DevRegistry`: flights are not repeated, since `DevCache` covers them; values
  are not encoded.
- `FakeIpStore`: all configurations use the same address range.
- `ProgressiveRace`: the buffer of eight DNS events is left out; it only delays
  batches, which the model delays anyway.
- `HybridFlow`: the clock stands still inside one `write`; the swap of `active`
  and the store of `lastRaw` are one step; the end of the stream is left out.
- `LruCache`: `CloneTo` and the eviction callback are left out.

## 3. Runs

| Run | Checks | Shows |
|---|---|---|
| `dev_cache` | `TypeOK`, `CoalescedIsCurrent`, `NoResurrection`, `OldContentIsDue`, `VerdictIsFinal`, `EveryWaiterReturns`, `ImplementsLookup` | two keys in a cache of one, two flights, two callers: no late worker restores what was removed or disturbs a newer refresh, and everyone who waits is answered |
| `dev_registry` | `FlushIsFinal`, `RetiredStaysRetired`, `RestartKeepsTheClock`, `StoreLosesNothing`, `ContentOnlyGetsNewer` | removals that completed survive a crash and nothing else is lost; a restart does not make content younger, a load overwrites nothing newer |
| `fakeip` | `ReadersSeeConfirmed`, `PublishedMapsBack`, `DirectionsAgree`, `ReusedLate`, `PoolIsMap` | two pools over one file with failing syncs and crashes: readers see confirmed mappings only; the two LRU directions in memory never hold half a mapping |
| `dial` | `FailureMeansAllTried`, `PreferenceHonoured`, `CancelIsNoFailure`, `NothingLeaks`, `CallerReturns`, `ImplementsOutcome` | whichever race is chosen, one connection is handed over, every other one is closed, and an error means that everything was tried |
| `winner_cache` | `WinnersOrdered`, `SuccessKeepsTheFaster` | the list is ordered, distinct and capped after any history |
| `hybrid_flow` | `PermissionWithinLease`, `PauseOnItsWay` | the client's permission ends before the terminal's lease does, and a lease given up is withdrawn |
| `reject_ban` | `BanIsEarned`, `BanIsCurrent`, `ClosedByCurrentBan` | a ban comes from enough refusals inside the window and dies with the routing it came from |
| `drop_parker` | `OneRunner`, `ReleasedOnce`, `EventuallyReleased` | every parked connection is released, once |
| `udp_session` | `NoneStranded`, `OrderKept`, `DeletesItself`, `NotBlocked` | no packet is lost between queues or sent out of order; a late delete spares a newer session; a packet that needs no resolution does not wait for one |
| `backend` | `StoredIsServed`, `ListIsRecency`, `ImplementsStore` | both backends are bounded stores, and the LRU list is the order of use |

Two further runs, `hybrid_revival` and `arc_panic`, end in a violation on
purpose: each states what a document or comment of the repository says and
shows a behaviour of the code that contradicts it (section 6).

Bounds. `Max...` constants bound clocks, epochs, events, sequence numbers,
queues and sessions; they stand in guards and are named in the modules. The
instances are as small as the interesting cases allow.

- `dev_cache`: two flights and two callers are an old and a new refresh of one
  key with a waiter on each; capacity one makes the second key evict the first;
  one invalidation of each key and one tick past the retention period suffice
  for a late worker, a stale value and an expiry during a refresh. The theorems
  of section 5 cover all other sizes.
- `dev_registry`: two slots with three events (flush, reload, eviction) over a
  retention period of two and a clock up to three.
- `fakeip`: three hosts on two addresses recycle; two pools are a reload. In
  memory, four hosts compete for a cache of two.
- `dial`: one address of the one family and two of the other tell a preferred
  family that fails partly from one that fails wholly; the progressive race has
  one address of each family and up to two batches for IPv6.
- `winner_cache`: three addresses for two places, a clock past the retention.
- `hybrid_flow`: a lease of three ticks with a probe timeout of one; six ticks
  are two leases.
- `reject_ban`: two connections against a threshold of three race for the
  refusal that bans; two keys compete for one slot.
- `drop_parker`: four connections for a queue of two.
- `udp_session`: two sessions are a late delete against a newer entry; four
  packets to two targets overflow a queue of three.
- `backend`: four keys in an ARC of two fill all four lists.

## 4. Fairness

Only weak fairness of steps that the Go scheduler, the kernel or a context with
a deadline guarantees is assumed.

- `DevCache`: a worker's fetch runs under `context.WithTimeout` and ends (also
  the fetch of a disowned flight, although no waiter depends on it); a waiter
  whose channel is closed is scheduled. Cancellation by the caller is not
  assumed.
- `DialContext`: a dial ends because its context has a deadline, timers fire,
  lookups end, the loops are scheduled. That the caller cancels is not assumed.
- `DropParker`: time passes and the goroutine runs.
- `UdpSession`: queueing, the process loop and the deferred delete are
  scheduled. That a resolution or a dial ever ends is **not** assumed: this is
  what makes `NotBlocked` meaningful.

`DevRegistry`, `FakeIpPool`, `WinnerCache`, `HybridFlow`, `RejectBan` and
`CacheBackend` are checked for safety only.

Deadlock is checked in all runs except those of `CacheBackend`, whose ARC stops
after a panic.

## 5. Proofs

`DevCacheProofs` proves, for all sets of keys, flights and callers, any
capacity, any periods and any bounds, under the assumptions named in `DevCache`:

| Theorem | Statement |
|---|---|
| `TypeCorrect` | `Spec => []TypeOK` |
| `FlightsCorrect` | `NoOrphanWaiter`, `DoneClosedOnce`, `VerdictBeforeWake`, `CurrentFlight` and `CoalescedIsCurrent` always hold |
| `RemovedStaysRemoved` | `Spec => []NoResurrection` |
| `OldContentStaysDue` | `Spec => []OldContentIsDue` |
| `CacheImplementsLookup` | `Spec => ImplementsLookup`: each step is a step or a stutter of `CoalescedLookup` |
| `VerdictsAreFinal` | `Spec => VerdictIsFinal` |

The argument. `NoResurrection` is not inductive: a worker may commit a value
whose epoch is older than the last removal unless its flight is known to be
current. `FlightInv` supplies this. It says that a flight in the table is an
unfinished fetch of that key begun in the key's present epoch, that it is in
the table of one key only, that a flight outside the table has been closed
exactly once with a verdict or was never started, and that whoever waits, waits
on a started flight of the epoch in which they asked. `FlightInv` is preserved
because each invalidating method closes the flights of exactly the keys whose
epoch it advances. `DataInv` (with `PurgedInPast`: a removal is not in the
future) then follows: a commit stores content of the present epoch, every
method that advances an epoch either removes the value or forces its deadline.
The refinement maps a flight to a ticket and its result to the ticket's verdict,
and uses `FlightInv` to show that closing a flight settles one open ticket.

`NoOrphanWaiter`, `DoneClosedOnce`, `VerdictBeforeWake` and `CurrentFlight`
are parts of `FlightInv` and appear only in the proofs.

Only model-checked: all liveness (`EveryWaiterReturns`, `NothingLeaks`,
`CallerReturns`, `EventuallyReleased`, `NotBlocked`), because fairness is beyond
the prover; and, so far, everything outside `DevCache`.

## 6. Where the code and its documentation disagree

| Run | Code | Statement |
|---|---|---|
| `hybrid_revival` | `readRaw` can set `active` after a fallback cleared it, and a packet leaves raw without a lease | a racing activation cannot revive raw |
| `arc_panic` | after a `Delete`, `replace` may dereference the back of an empty list | entries may be deleted explicitly |

Quotations and lines are in `PROJECT.json`, "findings".

Reading the code for the models showed further differences, which the modules
follow as the code has them and no run is about:

- `common/arc/arc.go:222`: `delLRU` subtracts ghosts from `len` that were
  already subtracted, so `Len` drifts below the number of entries.
- `common/lru/lrucache.go:122`: the comment says that `GetWithExpire` neither
  checks nor updates the age of an element; it does both.
- `docs/features/dev-cache.md:7` says that there is no maximum stale age; a
  value is dropped thirty days after its last update.
- `dns/cachestore.go:171`: the records of a retired network stay in the file
  until the next store, and come back after a crash.
- `dns/cachestore.go:130`: a flush before the first load is undone by the load.
- `component/dialer/tcp_concurrent_cache.go:158`: reads and failures store the
  entry again and so renew its retention period.
- `component/hybrid/client.go:288`: the fallback of an idle lease flow writes a
  frame to the terminal.

## 7. Plan

Done: unified cache and backends, registry and persistence, fake IP, winner
cache, `DialContext` and its races, hybrid flow, REJECT ban and parker, UDP
sessions; the proofs of section 5.

Next, in this order:

1. Composition of the resolver with `DevCache`: warm answers with a background
   refresh, cold lookups with fallback, the bundle of HTTPS, A and AAAA records
   that is replaced as a whole; then `address_race.go`.
2. Network scope: sampling under a generation, a scope computed before a
   refresh and used after a switch; properties: no answer of one network is
   stored under another one's scope.
3. UDP destination identity (`AddMapping`, `RestoreReadFrom`), the flow table
   and fallback connection of the hybrid `PacketConn`.
4. AnyTLS session pool: no dead session is handed out, none is left open after
   `Close`; `singleflight` and `singledo` against `CoalescedLookup`.
5. Health checks and groups; the resource fetcher.

Theorems planned: `PublishedMapsBack` and `ReadersSeeConfirmed` of
`FakeIpStore` (the invariant describes, for each place the writer can be in,
how `visible` follows from `confirmed` and that `before` holds every touched
key); `ReleasedOnce` and `OneRunner` of `DropParker`; `FailureMeansAllTried`
and the refinement of `DialOutcome` for the retained race; `PermissionWithinLease`
of `HybridFlow`.

Left out for good: rule matching and sniffing (pure, table driven), listeners,
protocol encodings and third-party transports, statistics, patches.
