----------------------------- MODULE RejectBan ------------------------------
(***************************************************************************)
(* The refusal cache of tunnel/reject_ban.go together with the part of     *)
(* handleTCPConn that uses it.  A connection looks its key up, checks an   *)
(* active ban against the live selection of the banning proxy, or matches  *)
(* the rules and reports the verdict; rules, group selections and time     *)
(* move between any two of these steps.  Updating the routing first        *)
(* changes it and then resets the cache (SetMode does so without a lock).  *)
(***************************************************************************)
EXTENDS Naturals, Sequences, FiniteSets, SequencesExt

CONSTANTS
  Keys, Size,                    \* ban keys and the entries kept (maxRejectBanKeys)
  Threshold, Window, Duration,   \* rejectBanThreshold, rejectBanWindow, rejectBanDuration
  Proxies, Conns,
  MaxTime, MaxUpdates, Skew      \* bounds: clock, routing updates, age of a sampled time

VARIABLES
  now,
  cache,      \* key -> entry, for the keys in order
  order,      \* the LRU's list, oldest first
  generation,
  routing,    \* [proxy, version, updating]: the proxy the rules choose
  leaf,       \* the final adapter each proxy currently selects
  conn        \* connections

vars == <<now, cache, order, generation, routing, leaf, conn>>

Leaves == {"reject", "drop", "open"}

NoProxy == "none"

\* recent is the history the ring stands for: the last Threshold refusals, oldest first
NewEntry == [rejectedAt |-> [i \in 0..(Threshold - 1) |-> 0], next |-> 0, count |-> 0, lastReject |-> 0,
             banUntil |-> 0, proxy |-> NoProxy, version |-> 0, recent |-> <<>>]

Idle == [at |-> "new", key |-> CHOOSE k \in Keys : TRUE, generation |-> 0, proxy |-> NoProxy, version |-> 0]

Init ==
  /\ now = 1 /\ cache = <<>> /\ order = <<>> /\ generation = 0
  /\ routing \in [proxy : Proxies, version : {1}, updating : {FALSE}]
  /\ leaf \in [Proxies -> {"reject"}]
  /\ conn = [c \in Conns |-> Idle]

\* The clock a caller read before it got the lock
Sampled(t) == t + Skew >= now

Used(k) == Append(Remove(order, k), k)

Without(k) == cache' = [j \in DOMAIN cache \ {k} |-> cache[j]] /\ order' = Remove(order, k)

Goes(c, s) == conn' = [conn EXCEPT ![c] = s]

Expired(e, t) == IF e.banUntil # 0 THEN t >= e.banUntil ELSE t > e.lastReject + Window

\* handleTCPConn calls Lookup
Lookup(c, k, t) ==
  /\ conn[c].at = "new"
  /\ LET seen == [conn[c] EXCEPT !.key = k, !.generation = generation, !.at = "match"] IN
     IF k \notin DOMAIN cache THEN Goes(c, seen) /\ UNCHANGED <<cache, order>>
     ELSE IF Expired(cache[k], t) THEN Goes(c, seen) /\ Without(k)
     ELSE /\ order' = Used(k) /\ UNCHANGED cache
          /\ Goes(c, IF cache[k].banUntil = 0 THEN seen
                     ELSE [seen EXCEPT !.at = "banned", !.proxy = cache[k].proxy, !.version = cache[k].version])
  /\ UNCHANGED <<now, generation, routing, leaf>>

ForgetIn(c) ==
  IF conn[c].generation = generation /\ conn[c].key \in DOMAIN cache THEN Without(conn[c].key)
  ELSE UNCHANGED <<cache, order>>

\* rejectBanProxyActive, outside the cache's lock; a changed selection lifts the ban
CheckLeaf(c) ==
  /\ conn[c].at = "banned"
  /\ IF leaf[conn[c].proxy] = "reject" THEN Goes(c, [conn[c] EXCEPT !.at = "current"]) /\ UNCHANGED <<cache, order>>
     ELSE Goes(c, [conn[c] EXCEPT !.at = "match"]) /\ ForgetIn(c)
  /\ UNCHANGED <<now, generation, routing, leaf>>

\* Mutant: the generation is not compared again
MutantCheckGeneration(c) ==
  /\ conn[c].at = "current" /\ Goes(c, Idle)
  /\ UNCHANGED <<now, cache, order, generation, routing, leaf>>

\* Current: the connection is closed at once, or its ban is outdated
CheckGeneration(c) ==
  /\ conn[c].at = "current"
  /\ IF conn[c].generation = generation THEN Goes(c, Idle) /\ UNCHANGED <<cache, order>>
     ELSE Goes(c, [conn[c] EXCEPT !.at = "match"]) /\ ForgetIn(c)
  /\ UNCHANGED <<now, generation, routing, leaf>>

\* resolveMetadata
Match(c) ==
  /\ conn[c].at = "match"
  /\ Goes(c, [conn[c] EXCEPT !.at = "decide", !.proxy = routing.proxy, !.version = routing.version])
  /\ UNCHANGED <<now, cache, order, generation, routing, leaf>>

\* rejectAdapter: a refusal is counted next; a drop or an open proxy forgets the key
Decide(c) ==
  /\ conn[c].at = "decide"
  /\ IF leaf[conn[c].proxy] = "reject" THEN Goes(c, [conn[c] EXCEPT !.at = "reject"]) /\ UNCHANGED <<cache, order>>
     ELSE Goes(c, Idle) /\ ForgetIn(c)
  /\ UNCHANGED <<now, generation, routing, leaf>>

Later(s, t) == IF s < t THEN t ELSE s

\* Mutant: the oldest of the ring is looked for where the newest is
MutantCounted(e, c, t) ==
  LET at   == Later(t, e.lastReject)
      ring == [e.rejectedAt EXCEPT ![e.next] = at]
      n    == IF e.count < Threshold THEN e.count + 1 ELSE e.count
      ban  == n >= Threshold /\ at <= ring[e.next] + Window
  IN [rejectedAt |-> ring, next |-> (e.next + 1) % Threshold, count |-> n, lastReject |-> at,
      banUntil |-> IF ban THEN at + Duration ELSE e.banUntil, proxy |-> IF ban THEN c.proxy ELSE e.proxy,
      version |-> IF ban THEN c.version ELSE e.version,
      recent |-> IF Len(e.recent) < Threshold THEN Append(e.recent, at) ELSE Append(Tail(e.recent), at)]

\* The entry after one more refusal
Counted(e, c, t) ==
  LET at   == Later(t, e.lastReject)
      ring == [e.rejectedAt EXCEPT ![e.next] = at]
      nxt  == (e.next + 1) % Threshold
      n    == IF e.count < Threshold THEN e.count + 1 ELSE e.count
      ban  == n >= Threshold /\ at <= ring[nxt] + Window
  IN [rejectedAt |-> ring, next |-> nxt, count |-> n, lastReject |-> at,
      banUntil |-> IF ban THEN at + Duration ELSE e.banUntil, proxy |-> IF ban THEN c.proxy ELSE e.proxy,
      version |-> IF ban THEN c.version ELSE e.version,
      recent |-> IF Len(e.recent) < Threshold THEN Append(e.recent, at) ELSE Append(Tail(e.recent), at)]

\* The LRU's Set: the oldest key leaves a full cache
Put(k, e) ==
  LET q    == Used(k)
      kept == IF Len(q) > Size THEN Tail(q) ELSE q
  IN order' = kept /\ cache' = [j \in ToSet(kept) |-> IF j = k THEN e ELSE cache[j]]

\* Mutant: a refusal matched before a reset is counted after it
MutantReject(c, t) ==
  /\ conn[c].at = "reject" /\ Goes(c, Idle)
  /\ LET k == conn[c].key
         e == IF k \in DOMAIN cache /\ cache[k].banUntil = 0 THEN cache[k] ELSE NewEntry
     IN Put(k, Counted(e, conn[c], t))
  /\ UNCHANGED <<now, generation, routing, leaf>>

\* Reject
Reject(c, t) ==
  /\ conn[c].at = "reject" /\ Goes(c, Idle)
  /\ LET k == conn[c].key IN
     IF conn[c].generation # generation THEN UNCHANGED <<cache, order>>
     ELSE IF k \in DOMAIN cache /\ cache[k].banUntil > t THEN order' = Used(k) /\ UNCHANGED cache
     ELSE Put(k, Counted(IF k \in DOMAIN cache /\ ~Expired(cache[k], t) THEN cache[k] ELSE NewEntry, conn[c], t))
  /\ UNCHANGED <<now, generation, routing, leaf>>

\* An update of rules, proxies, mode, sniffer or rule provider, and then its Reset
UpdateRouting(p) ==
  /\ ~routing.updating /\ routing.version <= MaxUpdates
  /\ routing' = [proxy |-> p, version |-> routing.version + 1, updating |-> TRUE]
  /\ UNCHANGED <<now, cache, order, generation, leaf, conn>>

Reset ==
  /\ routing.updating /\ routing' = [routing EXCEPT !.updating = FALSE]
  /\ generation' = generation + 1 /\ cache' = <<>> /\ order' = <<>>
  /\ UNCHANGED <<now, leaf, conn>>

\* A proxy group selects another member: nothing is reset
Select(p, l) ==
  /\ leaf[p] # l /\ leaf' = [leaf EXCEPT ![p] = l]
  /\ UNCHANGED <<now, cache, order, generation, routing, conn>>

Tick ==
  /\ now < MaxTime /\ now' = now + 1
  /\ UNCHANGED <<cache, order, generation, routing, leaf, conn>>

Next ==
  \/ \E c \in Conns : CheckLeaf(c) \/ CheckGeneration(c) \/ Match(c) \/ Decide(c)
  \/ \E c \in Conns, k \in Keys, t \in 1..now : Sampled(t) /\ Lookup(c, k, t)
  \/ \E c \in Conns, t \in 1..now : Sampled(t) /\ Reject(c, t)
  \/ \E p \in Proxies : UpdateRouting(p)
  \/ \E p \in Proxies, l \in Leaves : Select(p, l)
  \/ Reset \/ Tick

Spec == Init /\ [][Next]_vars

(***************************************************************************)
(* A key is banned exactly when its last Threshold refusals, in the order  *)
(* they were counted, fall within one Window, however the clocks read      *)
(* before the lock are ordered and wherever the ring has wrapped.          *)
(***************************************************************************)
BanIsEarned ==
  \A k \in DOMAIN cache :
    LET e == cache[k] IN
    e.banUntil # 0 <=> Len(e.recent) = Threshold /\ Last(e.recent) - Head(e.recent) <= Window

(***************************************************************************)
(* A ban is never the work of outdated routing: once an update has reset   *)
(* the cache, no connection that matched the rules before it can ban.      *)
(***************************************************************************)
BanIsCurrent ==
  ~routing.updating => \A k \in DOMAIN cache : cache[k].banUntil # 0 => cache[k].version = routing.version

(***************************************************************************)
(* A connection is closed unmatched only for a ban under the routing in    *)
(* force, though rules and selection may change while it is checked.       *)
(***************************************************************************)
ClosedByCurrentBan ==
  \A c \in Conns :
    conn[c].at = "current" /\ conn'[c].at = "new" /\ ~routing.updating => conn[c].version = routing.version
=============================================================================
