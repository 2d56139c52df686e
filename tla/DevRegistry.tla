---------------------------- MODULE DevRegistry ----------------------------
(***************************************************************************)
(* The life of cached content across configurations, flushes, crashes and  *)
(* restarts: component/dev_cache/registry.go, dns/cachestore.go, the       *)
(* "dev_cache_v1" record of the cache file, and updateDNS and Shutdown of  *)
(* hub/executor.                                                           *)
(*                                                                         *)
(* A slot is one cache key: it belongs to a namespace (a registered cache) *)
(* and to a network scope.  The cache itself is DevCache; here a cache is  *)
(* the records it holds.  Everything under the registry mutex is one step; *)
(* updateDNS, StoreCache and FlushDevCache take several, because reading   *)
(* and writing the file happens outside that mutex.                        *)
(***************************************************************************)
EXTENDS Integers, FiniteSets

CONSTANTS
  Slots,            \* cache keys
  NamespaceOf,      \* [Slots -> namespaces]
  ScopeOf,          \* [Slots -> network scopes]
  Winners,          \* the namespaces that are not DNS: always attached, always kept
  Configs,          \* the sets of DNS namespaces a configuration can attach
  SameOrigin,       \* pairs of direct-source namespaces of one configuration identity
  RetentionPeriod,
  MaxTime,          \* bound on the clock
  MaxEvents,        \* bound on what comes from outside: crashes, writes, removals, reloads
  TTL,              \* refresh deadlines are this far ahead
  None

Namespaces == {NamespaceOf[s] : s \in Slots}
Scopes == {ScopeOf[s] : s \in Slots}

ASSUME NamespacesAssumption ==
  /\ Winners \subseteq Namespaces
  /\ \A c \in Configs : c \subseteq Namespaces \ Winners
  /\ SameOrigin \subseteq Namespaces \X Namespaces

ASSUME NumbersAssumption == RetentionPeriod \in Nat /\ TTL \in Nat /\ MaxTime \in Nat /\ MaxEvents \in Nat

VARIABLES
  now,
  up,        \* the process runs
  dbOpen,    \* cachefile.Cache().DB # nil in this process
  disk,      \* the "snapshot" value of the cache file, a record or None per slot
  attached,  \* registry.entries
  mem,       \* what the attached caches hold
  pending,   \* registry.pending
  loaded,    \* registry.loaded
  current,   \* persistNamespaces
  apply,     \* the thread that applies a configuration, in updateDNS
  hourly,    \* the store ticker runs (storeOnce)
  storing,   \* the thread that holds storeMu, and its snapshot
  flush,     \* the thread in FlushDevCache
  done,      \* history: the removals that have completed
  events     \* the events from outside so far

process == <<up, dbOpen>>
caches == <<attached, mem, pending, loaded, current>>
threads == <<apply, hourly, storing, flush>>
vars == <<now, process, disk, caches, threads, done, events>>

(***************************************************************************)
(* A record.  written is the content's true age (0: a legacy record);      *)
(* updatedAt and due are the fields the program keeps, with updatedAt = 0  *)
(* in a legacy record and due = 0 for the forced-stale deadline.  removed  *)
(* is history: the explicit removals this content has been subject to.     *)
(***************************************************************************)
Removals == {"flushed", "flushedEarly", "evicted", "evictedEarly", "retired"}

Record == [written : Nat, updatedAt : Nat, due : Nat, removed : SUBSET Removals]

ASSUME NoneAssumption == None \notin Record

Contents == [Slots -> Record \cup {None}]

Fresh == [written |-> now, updatedAt |-> now, due |-> now + TTL, removed |-> {}]

Nothing == [s \in Slots |-> None]

In(names) == {s \in Slots : NamespaceOf[s] \in names}

Drop(f, S) == [s \in Slots |-> IF s \in S THEN None ELSE f[s]]

Marked(r, why) == [r EXCEPT !.removed = @ \cup {why}]

Mark(f, S, why) == [s \in Slots |-> IF s \in S /\ f[s] # None THEN Marked(f[s], why) ELSE f[s]]

\* The copies a removal does not reach: the file, a snapshot being written to
\* it and records read from it and not yet restored
MarkCopies(S, why) ==
  /\ disk' = Mark(disk, S, why)
  /\ storing' = [storing EXCEPT !.snap = Mark(storing.snap, S, why)]
  /\ apply' = [apply EXCEPT !.read = Mark(apply.read, S, why)]

Event == events < MaxEvents /\ events' = events + 1

Old(r) == r.updatedAt <= now - RetentionPeriod

-----------------------------------------------------------------------------
\* The registry

\* Mutant: restored content counts as updated now
MutantRecordUpdatedAt(r) == now

RecordUpdatedAt(r) ==
  LET u == IF r.updatedAt # 0 THEN r.updatedAt ELSE IF r.due = 0 THEN now ELSE r.due IN
  IF u > now THEN now ELSE u

\* Mutant: restore overwrites what start-up traffic already refreshed
MutantLoad(held, records) == [s \in Slots |-> IF records[s] = None THEN held[s] ELSE records[s]]

\* registered.load: Cache.restore of every record
Load(held, records) ==
  [s \in Slots |-> IF records[s] = None \/ Old(records[s]) THEN held[s]
                   ELSE IF held[s] # None /\ ~Old(held[s]) THEN held[s]
                   ELSE records[s]]

Attach(names) ==
  LET new == In(names \ attached) IN
  /\ attached' = attached \cup names
  /\ mem' = Load(mem, Drop(pending, Slots \ new))
  /\ pending' = Drop(pending, new)

Restored(r) == [r EXCEPT !.updatedAt = RecordUpdatedAt(r)]

\* The records of the file that are still worth restoring
RestoredAll(records) ==
  [s \in Slots |-> IF records[s] = None THEN None
                   ELSE IF Old(Restored(records[s])) THEN None ELSE Restored(records[s])]

Restore(records) ==
  IF loaded THEN UNCHANGED <<mem, pending, loaded>>
  ELSE LET kept == RestoredAll(records)
       IN /\ loaded' = TRUE
          /\ mem' = Load(mem, Drop(kept, Slots \ In(attached)))
          /\ pending' = Drop(kept, In(attached))

\* Mutant: the snapshot covers the attached caches only
MutantSnapshot == Drop(mem, {s \in Slots : mem[s] # None /\ Old(mem[s])})

\* What the registry's Snapshot returns; the expired records also go from memory
Unexpired(f) == Drop(f, {s \in Slots : f[s] # None /\ Old(f[s])})

Snapshot == [s \in Slots |-> IF s \in In(attached) THEN Unexpired(mem)[s] ELSE Unexpired(pending)[s]]

RetainNamespaces(keep) ==
  /\ attached' = attached \cap keep
  /\ mem' = Drop(mem, Slots \ In(keep))
  /\ pending' = Drop(pending, Slots \ In(keep))

ClearAll == mem' = Nothing /\ pending' = Nothing

-----------------------------------------------------------------------------
\* The process

Idle == [pc |-> "idle", retire |-> FALSE, read |-> Nothing]
NotStoring == [by |-> "nobody", snap |-> Nothing]

Booted ==
  /\ attached' = Winners
  /\ mem' = Nothing /\ pending' = Nothing
  /\ loaded' = FALSE /\ current' = {}
  /\ apply' = [Idle EXCEPT !.pc = "boot"]
  /\ hourly' = FALSE /\ storing' = NotStoring /\ flush' = "idle"

\* A cache file of an earlier version holds legacy records, one of this version
\* records with their update clock
Init ==
  /\ now = 1
  /\ up = TRUE /\ dbOpen \in BOOLEAN
  /\ \E legacy \in BOOLEAN :
       disk \in [Slots -> {None, IF legacy
                                  THEN [written |-> 0, updatedAt |-> 0, due |-> 0, removed |-> {}]
                                  ELSE Fresh}]
  /\ attached = Winners /\ mem = Nothing /\ pending = Nothing
  /\ loaded = FALSE /\ current = {}
  /\ apply = [Idle EXCEPT !.pc = "boot"]
  /\ hourly = FALSE /\ storing = NotStoring /\ flush = "idle"
  /\ done = {} /\ events = 0

\* The process dies at any point, and the file keeps its last committed value
Crash ==
  /\ up /\ Event /\ up' = FALSE
  /\ UNCHANGED <<now, dbOpen, disk, caches, threads, done>>

\* A flush or a retirement that did not complete promises nothing
Stripped(r) == [r EXCEPT !.removed = @ \cap (done \cup {"evicted"})]

Start ==
  /\ ~up /\ up' = TRUE
  /\ dbOpen' \in BOOLEAN
  /\ Booted
  /\ disk' = [s \in Slots |-> IF disk[s] = None THEN None ELSE Stripped(disk[s])]
  /\ UNCHANGED <<now, done, events>>

Tick ==
  /\ now < MaxTime /\ now' = now + 1
  /\ UNCHANGED <<process, disk, caches, threads, done, events>>

\* A query stores an answer, or a dial a winner
Write(s) ==
  /\ up /\ Event /\ NamespaceOf[s] \in attached
  /\ mem' = [mem EXCEPT ![s] = Fresh]
  /\ UNCHANGED <<now, process, disk, attached, pending, loaded, current, threads, done>>

\* RefreshScope: MarkStale in every cache, keeping the update clock
RefreshScope(scope) ==
  /\ up /\ Event
  /\ mem' = [s \in Slots |-> IF ScopeOf[s] = scope /\ Unexpired(mem)[s] # None
                             THEN [mem[s] EXCEPT !.due = 0] ELSE Unexpired(mem)[s]]
  /\ UNCHANGED <<now, process, disk, attached, pending, loaded, current, threads, done>>

\* EvictNetworkScope
EvictScope(scope) ==
  LET S == {s \in Slots : ScopeOf[s] = scope} IN
  /\ up /\ Event
  /\ mem' = Drop(Unexpired(mem), S)
  /\ pending' = Drop(pending, S)
  /\ MarkCopies(S, IF loaded THEN "evicted" ELSE "evictedEarly")
  /\ UNCHANGED <<now, process, attached, loaded, current, hourly, flush, done>>

-----------------------------------------------------------------------------
\* updateDNS: register the configuration's caches, load the file, retire the
\* namespaces the configuration does not use, store

\* Runtime IPv6 transitions rebuild the resolvers of the current configuration
\* and retire nothing
Register(cfg, retire) ==
  /\ up
  /\ \/ apply.pc = "boot" /\ retire /\ UNCHANGED events
     \/ apply.pc = "idle" /\ (retire \/ cfg = current) /\ Event
  /\ current' = cfg
  /\ Attach(cfg)
  /\ apply' = [pc |-> "load", retire |-> retire, read |-> Nothing]
  /\ UNCHANGED <<now, process, disk, loaded, hourly, storing, flush, done>>

AfterLoad == [apply EXCEPT !.pc = IF apply.retire THEN "retain" ELSE "idle", !.read = Nothing]

\* Without a database the load fails, and the store ticker is not started
LoadFails ==
  /\ up /\ apply.pc = "load" /\ ~dbOpen
  /\ apply' = AfterLoad
  /\ UNCHANGED <<now, process, disk, caches, hourly, storing, flush, done, events>>

LoadReads ==
  /\ up /\ apply.pc = "load" /\ dbOpen
  /\ apply' = [apply EXCEPT !.pc = "restore", !.read = disk]
  /\ UNCHANGED <<now, process, disk, caches, hourly, storing, flush, done, events>>

LoadRestores ==
  /\ up /\ apply.pc = "restore"
  /\ Restore(apply.read)
  /\ hourly' = TRUE
  /\ apply' = AfterLoad
  /\ UNCHANGED <<now, process, disk, attached, current, storing, flush, done, events>>

Keep == Winners \cup current \cup {n \in Namespaces : \E c \in current : <<c, n>> \in SameOrigin}

\* Mutant: what the file still holds of an obsolete namespace is not retired
MutantRetain ==
  /\ up /\ apply.pc = "retain"
  /\ attached' = attached \cap Keep
  /\ mem' = Drop(mem, Slots \ In(Keep))
  /\ pending' = Mark(pending, Slots \ In(Keep), "retired")
  /\ disk' = Mark(disk, Slots \ In(Keep), "retired")
  /\ storing' = [storing EXCEPT !.snap = Mark(storing.snap, Slots \ In(Keep), "retired")]
  /\ apply' = [apply EXCEPT !.pc = "store"]
  /\ done' = done \ {"retired"}
  /\ UNCHANGED <<now, process, loaded, current, hourly, flush, events>>

Retain ==
  /\ up /\ apply.pc = "retain"
  /\ RetainNamespaces(Keep)
  /\ disk' = Mark(disk, Slots \ In(Keep), "retired")
  /\ storing' = [storing EXCEPT !.snap = Mark(storing.snap, Slots \ In(Keep), "retired")]
  /\ apply' = [apply EXCEPT !.pc = "store"]
  /\ done' = done \ {"retired"}
  /\ UNCHANGED <<now, process, loaded, current, hourly, flush, events>>

-----------------------------------------------------------------------------
\* StoreCache and its callers, FlushDevCache, Shutdown

MayStore(by) ==
  CASE by = "apply" -> apply.pc = "store"
    [] by = "ticker" -> hourly
    [] by = "flush" -> flush # "idle"
    [] by = "shutdown" -> apply.pc = "idle"

\* Mutant: storeMu does not cover the snapshot
MutantStoreBegin(by) ==
  /\ up /\ MayStore(by) /\ storing.by # by
  /\ storing' = [by |-> by, snap |-> IF storing.by = "nobody" THEN Snapshot ELSE storing.snap]
  /\ mem' = Unexpired(mem) /\ pending' = Unexpired(pending)
  /\ UNCHANGED <<now, process, disk, attached, loaded, current, apply, hourly, flush, done, events>>

StoreBegin(by) ==
  /\ up /\ MayStore(by) /\ storing.by = "nobody"
  /\ storing' = [by |-> by, snap |-> Snapshot]
  /\ mem' = Unexpired(mem) /\ pending' = Unexpired(pending)
  /\ UNCHANGED <<now, process, disk, attached, loaded, current, apply, hourly, flush, done, events>>

StoreEnd(ok) ==
  /\ up /\ storing.by # "nobody"
  /\ ok => dbOpen
  /\ disk' = IF ok THEN storing.snap ELSE disk
  /\ storing' = NotStoring
  /\ up' = (storing.by # "shutdown")
  /\ apply' = IF storing.by = "apply" THEN Idle ELSE apply
  /\ flush' = IF storing.by = "flush" THEN "idle" ELSE flush
  /\ done' = done \cup (IF ~ok THEN {} ELSE CASE storing.by = "apply" -> {"retired"}
                                              [] storing.by = "flush" -> {flush}
                                              [] OTHER -> {})
  /\ UNCHANGED <<now, dbOpen, caches, hourly, events>>

Flush ==
  LET why == IF loaded THEN "flushed" ELSE "flushedEarly" IN
  /\ up /\ Event /\ flush = "idle"
  /\ ClearAll
  /\ MarkCopies(Slots, why)
  /\ flush' = why
  /\ done' = done \ {why}
  /\ UNCHANGED <<now, process, attached, loaded, current, hourly>>

Next ==
  \/ Tick \/ Crash \/ Start
  \/ \E s \in Slots : Write(s)
  \/ \E scope \in Scopes : RefreshScope(scope) \/ EvictScope(scope)
  \/ \E cfg \in Configs, retire \in BOOLEAN : Register(cfg, retire)
  \/ LoadFails \/ LoadReads \/ LoadRestores \/ Retain
  \/ \E by \in {"apply", "ticker", "flush", "shutdown"} : StoreBegin(by)
  \/ \E ok \in BOOLEAN : StoreEnd(ok)
  \/ Flush

Spec == Init /\ [][Next]_vars

-----------------------------------------------------------------------------

Held == {f[s] : f \in {disk, mem, pending}, s \in Slots} \ {None}

\* A removal that completed is final. A flush after the file was loaded: the
\* content it removed is in no cache, is not waiting for a namespace to be
\* attached, and a restart does not find it in the file, whatever other store
\* was under way. The retirement of a namespace, once updateDNS has stored it,
\* even after a crash ("so a restart cannot bring the removed namespaces back").
RemovalIsFinal == \A why \in {"flushed", "retired"} \cap done : \A r \in Held : why \notin r.removed

\* No write of the file loses content, except what was removed on purpose or
\* has outlived its retention: nothing is stored before the file was loaded,
\* and records no cache has claimed yet are written back.
StoreLosesNothing ==
  [][\A s \in Slots : disk[s] # None /\ disk'[s] = None =>
       disk[s].removed # {} \/ now - disk[s].updatedAt >= RetentionPeriod]_disk

\* Restarts do not renew content: a record that comes back from the file keeps
\* the update clock it was stored with, so its 30 days go on; a legacy record
\* gets its clock once, when it is first stored.
RestartKeepsTheClock ==
  \A s \in Slots : \A f \in {mem, pending} :
    (f[s] # None /\ disk[s] # None) =>
      (f[s].written = disk[s].written /\ disk[s].updatedAt # 0 =>
         f[s].updatedAt = disk[s].updatedAt)

\* Loading never replaces what start-up traffic has already stored: the content
\* of a slot only gets newer until it is removed or outlives its retention.
ContentOnlyGetsNewer ==
  [][\A s \in Slots : (up /\ up' /\ mem[s] # None /\ ~Old(mem[s]) /\ mem'[s] # None) =>
       mem'[s].written >= mem[s].written]_mem
=============================================================================
