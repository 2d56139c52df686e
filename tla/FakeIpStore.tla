---------------------------- MODULE FakeIpStore ----------------------------
(***************************************************************************)
(* Persistent fake-IP mappings: component/profile/cachefile/fakeip.go with *)
(* the pools of component/fakeip/pool.go that allocate from it.            *)
(*                                                                         *)
(* The database (bbolt, external) makes a transaction visible to readers   *)
(* before its final sync returns, and a sync that fails leaves it visible. *)
(* FakeIpStore.before hides unconfirmed values from readers.  A pool holds *)
(* its own mutex for a whole Lookup, FlushFakeIP or StoreState, so a pool  *)
(* has at most one operation; a configuration reload makes a second pool   *)
(* over the same store, whose operations interleave with the first's.      *)
(***************************************************************************)
EXTENDS Integers, FiniteSets

CONSTANTS
  Hosts,
  First, Last,   \* Pool.first and Pool.last; addresses are numbers
  Pools,         \* Pool instances over the store, the set 1..n of generations
  OffsetKey, CycleKey, None

Addrs == First..(Last - 1)
Keys == Hosts \cup Addrs \cup {OffsetKey, CycleKey}

ASSUME KeysAssumption ==
  /\ First \in Nat \ {0} /\ Last \in Nat /\ First < Last
  /\ Hosts \cap Int = {} /\ OffsetKey \notin Hosts \cup Int /\ CycleKey \notin Hosts \cup Int
  /\ OffsetKey # CycleKey
  /\ None \notin Hosts \cup Int \cup {OffsetKey, CycleKey}
  /\ Pools \subseteq Nat \ {0}

VARIABLES
  synced,     \* external: what the file holds whatever happens
  visible,    \* external: what a read transaction sees
  before,     \* c.before, a function on the keys it holds
  writer,     \* the pool that holds c.writeMu and how far its mutate is
  pool,       \* per pool: active, offset, cycle
  op,         \* per pool: the operation that holds p.mux
  confirmed,  \* history: the bucket as the confirmed mutations make it
  clean       \* history: no crash lost a pool's state, and no reload

vars == <<synced, visible, before, writer, pool, op, confirmed, clean>>

Empty == [k \in Keys |-> None]
NoneHeld == [k \in {} |-> None]

\* What GetByHost, GetByIP and Exist read
View(k) == IF k \in DOMAIN before THEN before[k] ELSE visible[k]

-----------------------------------------------------------------------------
\* The operations of a pool, as the change each makes to the bucket

Idle == [do |-> "idle"]
Put(h, a, previous) == [do |-> "put", host |-> h, ip |-> a, previous |-> previous]
PutState(k, v, more) == [do |-> "state", key |-> k, value |-> v, more |-> more]
FlushAll == [do |-> "flush"]

\* The keys mutate remembers before it writes; reads go through View because
\* remember prefers the values of an earlier unconfirmed write
Touched(o) ==
  CASE o.do = "put" -> {o.ip, o.host} \cup (IF View(o.ip) = None THEN {} ELSE {View(o.ip)})
    [] o.do = "state" -> {o.key}
    [] o.do = "flush" -> {k \in Keys : visible[k] # None}

\* Mutant: a recycled address keeps the forward mapping of its old host
MutantChange(o, b) ==
  CASE o.do = "put" -> [b EXCEPT ![o.ip] = o.host, ![o.host] = o.ip]
    [] o.do = "state" -> [b EXCEPT ![o.key] = o.value]
    [] o.do = "flush" -> Empty

Change(o, b) ==
  CASE o.do = "put" -> [k \in Keys |-> IF k = o.ip THEN o.host
                                       ELSE IF k = o.host THEN o.ip
                                       ELSE IF k = b[o.ip] THEN None
                                       ELSE b[k]]
    [] o.do = "state" -> [b EXCEPT ![o.key] = o.value]
    [] o.do = "flush" -> Empty

\* Mutant: unconfirmed values are not repaired
MutantRepair(b) == b

Repair(b) == [k \in Keys |-> IF k \in DOMAIN before THEN before[k] ELSE b[k]]

-----------------------------------------------------------------------------
Start(n) == [active |-> n, offset |-> First - 1, cycle |-> FALSE]

Init ==
  /\ synced = Empty /\ visible = Empty /\ confirmed = Empty
  /\ before = NoneHeld
  /\ writer = [pool |-> None, at |-> "free"]
  /\ pool = [p \in Pools |-> Start(FALSE)]
  /\ op = [p \in Pools |-> Idle]
  /\ clean = TRUE

\* Pool.get
Get(p) == IF p.offset + 1 < Last THEN [p EXCEPT !.offset = @ + 1]
                                 ELSE [p EXCEPT !.offset = First, !.cycle = TRUE]

\* LookupWithError of a host without a mapping
Lookup(p, h) ==
  /\ pool[p].active /\ op[p] = Idle
  /\ View(h) = None
  /\ pool' = [pool EXCEPT ![p] = Get(@)]
  /\ op' = [op EXCEPT ![p] = Put(h, Get(pool[p]).offset, pool[p])]
  /\ UNCHANGED <<synced, visible, before, writer, confirmed, clean>>

FlushFakeIP(p) ==
  /\ pool[p].active /\ op[p] = Idle
  /\ op' = [op EXCEPT ![p] = FlushAll]
  /\ UNCHANGED <<synced, visible, before, writer, pool, confirmed, clean>>

\* StoreState of the newest pool
StoreState(p) ==
  /\ pool[p].active /\ op[p] = Idle
  /\ \A q \in Pools : q > p => ~pool[q].active
  /\ op' = [op EXCEPT ![p] = PutState(OffsetKey, pool[p].offset, pool[p].cycle)]
  /\ UNCHANGED <<synced, visible, before, writer, pool, confirmed, clean>>

\* New with restoreState, when the process starts or a configuration is loaded
Restored == [active |-> TRUE,
             offset |-> IF View(OffsetKey) # None THEN View(OffsetKey) ELSE First - 1,
             cycle |-> View(CycleKey) # None]

\* Mutant: the wrap is not restored
MutantNew(p) ==
  /\ \A q \in Pools : pool[q].active <=> q < p
  /\ pool' = [pool EXCEPT ![p] = [Restored EXCEPT !.cycle = FALSE]]
  /\ op' = IF View(OffsetKey) = None /\ View(First) # None
           THEN [op EXCEPT ![p] = FlushAll] ELSE op
  /\ clean' = (clean /\ p = 1)
  /\ UNCHANGED <<synced, visible, before, writer, confirmed>>

New(p) ==
  /\ \A q \in Pools : pool[q].active <=> q < p
  /\ pool' = [pool EXCEPT ![p] = Restored]
  /\ op' = IF View(OffsetKey) = None /\ View(First) # None
           THEN [op EXCEPT ![p] = FlushAll] ELSE op
  /\ clean' = (clean /\ p = 1)
  /\ UNCHANGED <<synced, visible, before, writer, confirmed>>

-----------------------------------------------------------------------------
\* mutate: remember the old values, commit, publish or keep the old values

Prepare(p) ==
  /\ op[p] # Idle /\ writer.at = "free"
  /\ before' = [k \in DOMAIN before \cup Touched(op[p]) |-> View(k)]
  /\ writer' = [pool |-> p, at |-> "prepared"]
  /\ UNCHANGED <<synced, visible, pool, op, confirmed, clean>>

CommitVisible ==
  /\ writer.at = "prepared"
  /\ visible' = Change(op[writer.pool], Repair(visible))
  /\ writer' = [writer EXCEPT !.at = "visible"]
  /\ UNCHANGED <<synced, before, pool, op, confirmed, clean>>

Syncs ==
  /\ writer.at = "visible"
  /\ synced' = visible
  /\ writer' = [writer EXCEPT !.at = "synced"]
  /\ UNCHANGED <<visible, before, pool, op, confirmed, clean>>

Release == writer' = [pool |-> None, at |-> "free"]

\* The pool's part after mutate returned
Returned(p, ok) ==
  LET o == op[p] IN
  CASE o.do = "put" -> /\ pool' = IF ok THEN pool ELSE [pool EXCEPT ![p] = o.previous]
                       /\ op' = [op EXCEPT ![p] = Idle]
    [] o.do = "flush" -> /\ pool' = IF ok THEN [pool EXCEPT ![p] = Start(TRUE)] ELSE pool
                         /\ op' = [op EXCEPT ![p] = Idle]
    [] o.do = "state" -> /\ op' = [op EXCEPT ![p] = IF o.more THEN PutState(CycleKey, o.value, FALSE)
                                                              ELSE Idle]
                         /\ UNCHANGED pool

Confirm ==
  /\ writer.at = "synced"
  /\ before' = NoneHeld
  /\ confirmed' = Change(op[writer.pool], confirmed)
  /\ Returned(writer.pool, TRUE)
  /\ Release
  /\ UNCHANGED <<synced, visible, clean>>

\* commit returns an error, before the transaction is visible or after: reads
\* go on seeing the old value of every key that now differs
Fail ==
  /\ writer.at \in {"prepared", "visible"}
  /\ before' = [k \in {k \in DOMAIN before : visible[k] # before[k]} |-> before[k]]
  /\ Returned(writer.pool, FALSE)
  /\ Release
  /\ UNCHANGED <<synced, visible, confirmed, clean>>

\* The process ends.  An unconfirmed transaction is there afterwards or not.
Saved(p) ==
  /\ op[p] = Idle
  /\ IF confirmed = Empty THEN pool[p] = Start(TRUE)
     ELSE pool[p].offset = confirmed[OffsetKey] /\ (pool[p].cycle => confirmed[CycleKey] # None)

Crash ==
  /\ \E p \in Pools : pool[p].active
  /\ \E b \in {synced, visible} :
       /\ synced' = b /\ visible' = b /\ confirmed' = b
       /\ clean' = (clean /\ b = confirmed /\ \A p \in Pools : pool[p].active => Saved(p))
  /\ before' = NoneHeld
  /\ Release
  /\ pool' = [p \in Pools |-> Start(FALSE)]
  /\ op' = [p \in Pools |-> Idle]

Next ==
  \/ \E p \in Pools :
       \/ \E h \in Hosts : Lookup(p, h)
       \/ FlushFakeIP(p) \/ StoreState(p) \/ New(p) \/ Prepare(p)
  \/ CommitVisible \/ Syncs \/ Confirm \/ Fail
  \/ Crash

-----------------------------------------------------------------------------
\* Readers see the last confirmed mapping, although the database shows them a
\* transaction before it is durable and keeps showing one whose sync failed.
ReadersSeeConfirmed == \A k \in Keys : View(k) = confirmed[k]

MapsBack(f) == \A h \in Hosts : f[h] # None => f[h] \in Addrs /\ f[f[h]] = h

\* An address Lookup returns for a host leads back to that host: never to the
\* previous owner of a recycled address, not after a failed write and not after
\* a crash in the middle of one, with any number of pools over the store.
PublishedMapsBack == MapsBack([k \in Keys |-> View(k)]) /\ MapsBack(synced)

\* Unless a crash lost a pool's position or a reload made a second pool, an
\* address is taken from its host only after the pool wrapped around.
NoEarlyReuse ==
  clean => \A p \in Pools : pool[p].active /\ op[p] = Idle /\ ~pool[p].cycle =>
             \A a \in Addrs : confirmed[a] # None => a <= pool[p].offset

AddrOf == [h \in Hosts |-> View(h)]

Map == INSTANCE AddressMap WITH addrOf <- AddrOf

\* What readers see is a one-to-one map from hosts to addresses that changes one
\* assignment at a time, through failed writes, crashes and a second pool.
ImplementsMap == Map!MapSpec
=============================================================================
