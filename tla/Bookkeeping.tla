---------------------------- MODULE Bookkeeping -----------------------------
(***************************************************************************)
(* What is kept in memory under a limit: the backends of                   *)
(* component/dev_cache, the bans of rejected keys, the winners of TCP      *)
(* races, the lease of a hybrid flow, and the filtered list of a group.    *)
(* New makes an ARC cache for the algorithm "arc" and otherwise an LRU     *)
(* cache that keeps stale entries; "aged" is the LRU cache with an age     *)
(* that lookups renew, as the other users of common/lru make it.  A        *)
(* behaviour follows one component; the variables of the others keep       *)
(* their initial values.                                                   *)
(***************************************************************************)
EXTENDS ArcCache

CONSTANTS
  LruKeys, LruTime,                                                       \* of LruCache
  BanKeys, Size, Threshold, Window, Duration, Proxies, Conns,             \* of RejectBan
  BanTime, MaxUpdates, Skew,
  Addrs, RTTs, Kept, TTL, RetryDelay, Retention, WinnerTime,              \* of WinnerCache
  Lease, RenewEvery, ProbeTimeout, RawSilence, RetryBase, RetryMax,       \* of HybridFlow
  RetryLimit, FlowTime, MaxSeq, MaxQueue,
  Names, EmptyFallback, MaxProviders, MaxProxies, MaxFilters, MaxExcluded \* of ProxyFilter

ASSUME BookkeepingAssumption ==
  /\ {LruTime, Size, Threshold, Window, Duration, BanTime, MaxUpdates, Skew} \subseteq Nat
  /\ Size > 0 /\ Threshold > 0
  /\ RTTs \subseteq Nat /\ Kept \in Nat \ {0} /\ {TTL, RetryDelay, Retention, WinnerTime} \subseteq Nat
  /\ {Lease, RenewEvery, ProbeTimeout, RawSilence, RetryBase, RetryMax, RetryLimit, FlowTime, MaxSeq, MaxQueue} \subseteq Nat

VARIABLES
  part,                                                                   \* the component followed
  lru, expires, lruNow, recency,                                          \* of LruCache
  banNow, cache, order, generation, routing, leaf, conn,                  \* of RejectBan
  winnerNow, entry,                                                       \* of WinnerCache
  flowNow, c, writer, reader, up, down, net, terminal, strayRaw,          \* of HybridFlow
  group, proxies                                                          \* of ProxyFilter

Stale == INSTANCE LruCache WITH
  Keys <- LruKeys, MaxSize <- Capacity, MaxAge <- 0, UpdateAgeOnGet <- FALSE, StaleReturn <- TRUE,
  MaxTime <- LruTime, now <- lruNow

Aged == INSTANCE LruCache WITH
  Keys <- LruKeys, MaxSize <- Capacity, MaxAge <- 1, UpdateAgeOnGet <- TRUE, StaleReturn <- FALSE,
  MaxTime <- LruTime, now <- lruNow

Ban == INSTANCE RejectBan WITH Keys <- BanKeys, MaxTime <- BanTime, now <- banNow
Winner == INSTANCE WinnerCache WITH MaxTime <- WinnerTime, now <- winnerNow
Flow == INSTANCE HybridFlow WITH MaxTime <- FlowTime, now <- flowNow
Filter == INSTANCE ProxyFilter

lruVars == <<lru, expires, lruNow, recency>>
banVars == <<banNow, cache, order, generation, routing, leaf, conn>>
winnerVars == <<winnerNow, entry>>
flowVars == <<flowNow, c, writer, reader, up, down, net, terminal, strayRaw>>
filterVars == <<group, proxies>>
allVars == <<part, vars, lruVars, banVars, winnerVars, flowVars, filterVars>>

BookInit ==
  /\ part \in {"arc", "lru", "aged", "ban", "winner", "flow", "filter"}
  /\ Init /\ Stale!Init /\ Ban!Init /\ Winner!Init /\ Flow!Init /\ Filter!Init

\* An action of one component
ArcOnly(A) == part = "arc" /\ A /\ UNCHANGED <<part, lruVars, banVars, winnerVars, flowVars, filterVars>>
LruOnly(A) == A /\ UNCHANGED <<part, vars, banVars, winnerVars, flowVars, filterVars>>
BanOnly(A) == part = "ban" /\ A /\ UNCHANGED <<part, vars, lruVars, winnerVars, flowVars, filterVars>>
WinnerOnly(A) == part = "winner" /\ A /\ UNCHANGED <<part, vars, lruVars, banVars, flowVars, filterVars>>
FlowOnly(A) == part = "flow" /\ A /\ UNCHANGED <<part, vars, lruVars, banVars, winnerVars, filterVars>>
FilterOnly(A) == part = "filter" /\ A /\ UNCHANGED <<part, vars, lruVars, banVars, winnerVars, flowVars>>

BookNext ==
  \/ ArcOnly(Next)
  \/ part = "lru" /\ LruOnly(Stale!Next)
  \/ part = "aged" /\ LruOnly(Aged!Next)
  \/ BanOnly(Ban!Next)
  \/ WinnerOnly(Winner!Next)
  \/ FlowOnly(Flow!Next)
  \/ FilterOnly(Filter!Next)

BookSpec == BookInit /\ [][BookNext]_allVars

-----------------------------------------------------------------------------
(***************************************************************************)
(* What is kept is what should be, in its order, after any history: the    *)
(* ARC cache never evicts the entry it inserts; the LRU list is the keys   *)
(* in the order of their last use, so that setWithExpire evicts the least  *)
(* recently used; the winners of a destination are distinct, capped and    *)
(* fastest first, and a success never costs one that is faster; the list   *)
(* of a group is the wanted proxies in the order of the filters.           *)
(***************************************************************************)
ListsInOrder ==
  /\ [](/\ part = "arc" => StoredIsServed
        /\ part \in {"lru", "aged"} => Stale!ListIsRecency
        /\ part = "winner" => Winner!WinnersOrdered
        /\ part = "filter" => Filter!FilterOrderHolds)
  /\ [][part = "winner" => Winner!SuccessKeepsTheFaster]_winnerVars

(***************************************************************************)
(* A key is banned exactly when enough of its refusals were close enough   *)
(* together, and never because of routing that is no longer in force; and  *)
(* a connection is closed unmatched only for a ban under the routing in    *)
(* force, though rules and selection may change while it is checked.       *)
(***************************************************************************)
BansAreRight ==
  /\ [](part = "ban" => Ban!BanIsEarned /\ Ban!BanIsCurrent)
  /\ [][part = "ban" => Ban!ClosedByCurrentBan]_banVars

(***************************************************************************)
(* The client's permission to use raw ends no later than the lease of its  *)
(* terminal, and a client that gave the lease up tells the terminal.       *)
(***************************************************************************)
LeaseHonoured == part = "flow" => Flow!PermissionWithinLease /\ Flow!PauseOnItsWay

\* Without an age, what component/dev_cache relies on
Backend == INSTANCE BoundedStore WITH
  Keys <- Keys \cup LruKeys,
  stored <- IF part = "arc" THEN Live(arc) ELSE IF part = "lru" THEN ToSet(lru) ELSE {}

(***************************************************************************)
(* Either backend is a bounded store: an insertion or a lookup costs at    *)
(* most one other live entry, and the live entries never exceed the        *)
(* capacity.                                                               *)
(***************************************************************************)
ImplementsStore == Backend!StoreSpec
=============================================================================
