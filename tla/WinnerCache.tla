---------------------------- MODULE WinnerCache ----------------------------
(***************************************************************************)
(* TCPConcurrentCache (component/dialer/tcp_concurrent_cache.go): the      *)
(* addresses that last completed a connect to one destination, kept in a   *)
(* dev_cache entry with a refresh deadline and an update clock.            *)
(***************************************************************************)
EXTENDS Naturals, Sequences

CONSTANTS
  Addrs,       \* addresses of the destination, unmapped
  RTTs,        \* measured latencies; 0 is a dial without a sample
  Kept,        \* tcpConcurrentWinnersKept
  TTL,         \* c.ttl
  RetryDelay,  \* dev_cache.RetryDelay
  Retention,   \* dev_cache.RetentionPeriod
  MaxTime      \* bound on the clock

VARIABLES
  now,
  entry    \* the stored entry: winners (<<>> when there is none), due and updatedAt

vars == <<now, entry>>

NoEntry == [winners |-> <<>>, due |-> 0, updatedAt |-> 0]

Init == now = 0 /\ entry = NoEntry

\* dev_cache get: what is older than the retention period is gone
Loaded == IF entry.winners # <<>> /\ entry.updatedAt + Retention > now THEN entry ELSE NoEntry

\* dev_cache ComputeWithExpire: whatever the callback returns is stored as of now
Stored(winners, due) ==
  entry' = IF winners = <<>> THEN NoEntry ELSE [winners |-> winners, due |-> due, updatedAt |-> now]

Winner(ip, rtt) == [ip |-> ip, rtt |-> rtt, retryAfter |-> 0]

Slower(v, w) == v.rtt = 0 \/ (w.rtt # 0 /\ v.rtt > w.rtt)

SampleOf(winners, w) ==
  IF w.rtt = 0 /\ \E i \in DOMAIN winners : winners[i].ip = w.ip
  THEN [w EXCEPT !.rtt = winners[CHOOSE i \in DOMAIN winners : winners[i].ip = w.ip].rtt] ELSE w

Capped(s) == SubSeq(s, 1, IF Len(s) < Kept THEN Len(s) ELSE Kept)

\* Mutant: an address that is already present is not replaced
MutantInsertWinner(winners, winner) ==
  LET w == SampleOf(winners, winner)
  IN Capped(SelectSeq(winners, LAMBDA v : ~Slower(v, w)) \o <<w>> \o SelectSeq(winners, LAMBDA v : Slower(v, w)))

(***************************************************************************)
(* insertWinner.  The winners held are in order, so the stable sort puts   *)
(* the appended one before the first that is slower; unless it has no      *)
(* sample either, which leaves it behind the others without one.           *)
(***************************************************************************)
InsertWinner(winners, winner) ==
  LET w == SampleOf(winners, winner)
      rest == SelectSeq(winners, LAMBDA v : v.ip # w.ip)
      Before(v) == ~Slower(v, w) \/ (v.rtt = 0 /\ w.rtt = 0)
  IN Capped(SelectSeq(rest, Before) \o <<w>> \o SelectSeq(rest, LAMBDA v : ~Before(v)))

\* SetWithRTT
SetWithRTT(ip, rtt) ==
  /\ Stored(InsertWinner(Loaded.winners, Winner(ip, rtt)), now + TTL)
  /\ UNCHANGED now

\* SetIfFaster
SetIfFaster(ip, rtt) ==
  LET merged == InsertWinner(Loaded.winners, Winner(ip, rtt)) IN
  /\ rtt > 0
  /\ IF merged = Loaded.winners
     THEN Stored(merged, Loaded.due)
     ELSE Stored(merged, now + TTL)
  /\ UNCHANGED now

\* Backoff
Backoff(ip) ==
  /\ Stored([i \in DOMAIN Loaded.winners |->
               IF Loaded.winners[i].ip = ip THEN [Loaded.winners[i] EXCEPT !.retryAfter = now + RetryDelay]
               ELSE Loaded.winners[i]], Loaded.due)
  /\ UNCHANGED now

\* Remove
Remove(ip) ==
  /\ Stored(SelectSeq(Loaded.winners, LAMBDA v : v.ip # ip), Loaded.due)
  /\ UNCHANGED now

\* getEntry, under Winners, Get and RTT: a read stores the entry again
GetEntry ==
  /\ Stored(Loaded.winners, Loaded.due)
  /\ UNCHANGED now

\* Delete, Clear
Clear == entry' = NoEntry /\ UNCHANGED now

Tick == now < MaxTime /\ now' = now + 1 /\ UNCHANGED entry

Next ==
  \/ GetEntry \/ Clear \/ Tick
  \/ \E ip \in Addrs : Backoff(ip) \/ Remove(ip)
  \/ \E ip \in Addrs, rtt \in RTTs : SetWithRTT(ip, rtt) \/ SetIfFaster(ip, rtt)

Spec == Init /\ [][Next]_vars

(***************************************************************************)
(* "winners is ordered fastest first, holds distinct addresses, and is     *)
(* capped at tcpConcurrentWinnersKept. Addresses without a sample sort     *)
(* last" (tcp_concurrent_cache.go:59), after any history of successes      *)
(* with and without a sample, failures and removals.                       *)
(***************************************************************************)
WinnersOrdered ==
  LET w == entry.winners IN
  /\ Len(w) <= Kept
  /\ \A i, j \in DOMAIN w : i < j =>
       /\ w[i].ip # w[j].ip
       /\ w[i].rtt = 0 => w[j].rtt = 0
       /\ w[j].rtt # 0 => w[i].rtt <= w[j].rtt

(***************************************************************************)
(* A success never costs the destination a better winner: recording one    *)
(* address leaves every other held address that is measured faster in      *)
(* place, with its backoff.                                                *)
(***************************************************************************)
SuccessKeepsTheFaster ==
  \A ip \in Addrs, rtt \in RTTs : SetWithRTT(ip, rtt) \/ SetIfFaster(ip, rtt) =>
    \A i \in DOMAIN Loaded.winners :
      LET v == Loaded.winners[i] IN
      v.ip # ip /\ v.rtt # 0 /\ (rtt = 0 \/ v.rtt < rtt)
        => \E j \in DOMAIN entry'.winners : entry'.winners[j] = v
=============================================================================
