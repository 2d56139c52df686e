------------------------------ MODULE DevCache ------------------------------
(***************************************************************************)
(* component/dev_cache/cache.go: one Cache.                                *)
(*                                                                         *)
(* Every method takes c.mu for its whole body, so every method is one      *)
(* action.  Refresh is the exception: its worker runs fetch without the    *)
(* mutex, so a refresh is a Refresh step, later one worker step, and in    *)
(* between anything the other methods do.                                  *)
(*                                                                         *)
(* Content is abstracted to where it came from: entry.epoch is the number  *)
(* of invalidations of the key that preceded the request for the content.  *)
(* The refresh deadline is abstracted to whether MarkStale forced it.      *)
(* The backend is the LRU seen through its interface: storing a new key    *)
(* into a full cache evicts some other key.                                *)
(***************************************************************************)
EXTENDS Naturals, FiniteSets

CONSTANTS
  Keys,             \* cache keys
  Flights,          \* identities of *flight pointers, each used once
  Callers,          \* goroutines that call Refresh and wait
  Matches,          \* the key sets a match predicate can select
  Capacity,         \* size of the backend
  RetentionPeriod,  \* in clock ticks
  RetryDelay,       \* in clock ticks
  MaxTime,          \* bound on the clock
  MaxEpoch,         \* bound on the invalidations of one key
  Null              \* absence

Deadline == {"ttl", "forced"}

Entry == [epoch : Nat, updatedAt : Nat, due : Deadline]

Result == {"pending", "ok", "failed", "invalidated"}

Answer == Result \cup {"retained", "cancelled"}

ASSUME NullAssumption == Null \notin Keys \cup Flights \cup Entry

ASSUME FinitenessAssumption == IsFiniteSet(Keys) /\ Matches \subseteq SUBSET Keys

ASSUME BoundsAssumption ==
  /\ Capacity \in Nat \ {0}
  /\ RetentionPeriod \in Nat \ {0}
  /\ RetryDelay \in Nat \ {0}
  /\ MaxTime \in Nat
  /\ MaxEpoch \in Nat

VARIABLES
  now,      \* the clock c.now() reads
  data,     \* c.data: the stored value of each key
  flights,  \* c.flights: the current flight of each key
  retry,    \* c.retry: no refresh before this time; 0 is absence
  flight,   \* the flight objects, reachable from workers and waiters
  caller,   \* the goroutines waiting for a flight
  epoch,    \* history: invalidations of each key so far
  purged    \* history: value of epoch when the key was last removed

vars == <<now, data, flights, retry, flight, caller, epoch, purged>>

Flight == [key : Keys \cup {Null},
           worker : {"none", "fetching", "gone"},
           result : Result,
           closed : Nat,         \* how often close(f.done) ran
           epoch : Nat]

Caller == [flight : Flights \cup {Null}, asked : Nat, answer : Answer]

TypeOK ==
  /\ now \in Nat
  /\ data \in [Keys -> Entry \cup {Null}]
  /\ flights \in [Keys -> Flights \cup {Null}]
  /\ retry \in [Keys -> Nat]
  /\ flight \in [Flights -> Flight]
  /\ caller \in [Callers -> Caller]
  /\ epoch \in [Keys -> Nat]
  /\ purged \in [Keys -> Nat]

NewFlight(k, worker, e) ==
  [key |-> k, worker |-> worker, result |-> "pending", closed |-> 0, epoch |-> e]

Init ==
  /\ now = 0
  /\ data = [k \in Keys |-> Null]
  /\ flights = [k \in Keys |-> Null]
  /\ retry = [k \in Keys |-> 0]
  /\ flight = [f \in Flights |-> NewFlight(Null, "none", 0)]
  /\ caller = [c \in Callers |-> [flight |-> Null, asked |-> 0, answer |-> "pending"]]
  /\ epoch = [k \in Keys |-> 0]
  /\ purged = [k \in Keys |-> 0]

-----------------------------------------------------------------------------
(* What get sees: an entry that has outlived the retention period is gone. *)

Expired(k) == data[k] # Null /\ data[k].updatedAt + RetentionPeriod <= now

Hit(k) == data[k] # Null /\ ~Expired(k)

Present(d) == {k \in Keys : d[k] # Null}

\* expire, for every key of S that has expired
ExpireData(S) == [k \in Keys |-> IF k \in S /\ Expired(k) THEN Null ELSE data[k]]

ExpireRetry(S) == [k \in Keys |-> IF k \in S /\ Expired(k) THEN 0 ELSE retry[k]]

\* What c.data.SetWithExpire may leave behind when it stores e under k in d
Stored(d, k, e) ==
  IF d[k] # Null \/ Cardinality(Present(d)) < Capacity
  THEN {[d EXCEPT ![k] = e]}
  ELSE {[d EXCEPT ![k] = e, ![victim] = Null] : victim \in Present(d)}

NewEntry(e, updatedAt) == [epoch |-> e, updatedAt |-> updatedAt, due |-> "ttl"]

\* Mutant: the flight leaves the map but its waiters are not woken
MutantInvalidateSilently(S) ==
  /\ flights' = [k \in Keys |-> IF k \in S THEN Null ELSE flights[k]]
  /\ UNCHANGED flight

\* invalidateFlight for every key of S
InvalidateFlights(S) ==
  /\ flights' = [k \in Keys |-> IF k \in S THEN Null ELSE flights[k]]
  /\ flight' = [f \in Flights |->
                  IF \E k \in S : flights[k] = f
                  THEN [flight[f] EXCEPT !.result = "invalidated", !.closed = @ + 1]
                  ELSE flight[f]]

\* An operation that invalidates every key of S begins a new epoch for it
NewEpoch(S) ==
  /\ \A k \in S : epoch[k] < MaxEpoch
  /\ epoch' = [k \in Keys |-> IF k \in S THEN epoch[k] + 1 ELSE epoch[k]]

Purge(S) == purged' = [k \in Keys |-> IF k \in S THEN epoch[k] + 1 ELSE purged[k]]

-----------------------------------------------------------------------------
Tick ==
  /\ now < MaxTime
  /\ now' = now + 1
  /\ UNCHANGED <<data, flights, retry, flight, caller, epoch, purged>>

GetWithExpire(k) ==
  /\ data' = ExpireData({k})
  /\ retry' = ExpireRetry({k})
  /\ UNCHANGED <<now, flights, flight, caller, epoch, purged>>

\* accept(value) is FALSE: the value goes, the flight stays
GetWithExpireRejected(k) ==
  /\ data[k] # Null
  /\ data' = [data EXCEPT ![k] = Null]
  /\ retry' = [retry EXCEPT ![k] = 0]
  /\ UNCHANGED <<now, flights, flight, caller, epoch, purged>>

SetWithExpire(k) ==
  /\ data' \in Stored(data, k, NewEntry(epoch[k], now))
  /\ retry' = [retry EXCEPT ![k] = 0]
  /\ UNCHANGED <<now, flights, flight, caller, epoch, purged>>

\* The callback returns the value and the deadline it was given
ComputeSame(k) ==
  /\ Hit(k)
  /\ data' = [data EXCEPT ![k].updatedAt = now]
  /\ UNCHANGED <<now, flights, retry, flight, caller, epoch, purged>>

\* The callback returns a value and a deadline of its own
ComputeNew(k) ==
  /\ data' \in Stored(ExpireData({k}), k, NewEntry(epoch[k], now))
  /\ retry' = ExpireRetry({k})
  /\ UNCHANGED <<now, flights, flight, caller, epoch, purged>>

\* Delete, and ComputeWithExpire when the callback asks for removal
Delete(k) ==
  /\ NewEpoch({k})
  /\ Purge({k})
  /\ data' = [data EXCEPT ![k] = Null]
  /\ retry' = [retry EXCEPT ![k] = 0]
  /\ InvalidateFlights({k})
  /\ UNCHANGED <<now, caller>>

Clear ==
  /\ NewEpoch(Keys)
  /\ Purge(Keys)
  /\ data' = [k \in Keys |-> Null]
  /\ retry' = [k \in Keys |-> 0]
  /\ InvalidateFlights(Keys)
  /\ UNCHANGED <<now, caller>>

\* restore keeps the age the record had when it was saved
Restore(k, updatedAt) ==
  /\ updatedAt <= now
  /\ IF updatedAt + RetentionPeriod > now /\ ~Hit(k)
     THEN data' \in Stored(ExpireData({k}), k, NewEntry(epoch[k], updatedAt))
     ELSE data' = IF updatedAt + RetentionPeriod > now THEN ExpireData({k}) ELSE data
  /\ retry' = IF updatedAt + RetentionPeriod > now THEN ExpireRetry({k}) ELSE retry
  /\ UNCHANGED <<now, flights, flight, caller, epoch, purged>>

Snapshot ==
  /\ data' = ExpireData(Keys)
  /\ retry' = ExpireRetry(Keys)
  /\ UNCHANGED <<now, flights, flight, caller, epoch, purged>>

\* Mutant: only keys with a value lose their flight, a cold lookup keeps it
MutantDeleteMatchingCold(S) ==
  /\ NewEpoch(S)
  /\ Purge(S)
  /\ data' = [k \in Keys |-> IF k \in S \/ Expired(k) THEN Null ELSE data[k]]
  /\ retry' = [k \in Keys |-> IF (k \in S /\ data[k] # Null) \/ Expired(k) THEN 0 ELSE retry[k]]
  /\ InvalidateFlights({k \in S : Hit(k)})
  /\ UNCHANGED <<now, caller>>

\* Matching live values and matching flights go; an expired value goes anyway
DeleteMatching(S) ==
  /\ NewEpoch(S)
  /\ Purge(S)
  /\ data' = [k \in Keys |-> IF k \in S \/ Expired(k) THEN Null ELSE data[k]]
  /\ retry' = [k \in Keys |-> IF (k \in S /\ data[k] # Null) \/ Expired(k) THEN 0 ELSE retry[k]]
  /\ InvalidateFlights(S)
  /\ UNCHANGED <<now, caller>>

\* Mutant: a running refresh survives MarkStale
MutantMarkStaleKeepsFlights(S) ==
  /\ NewEpoch(S)
  /\ data' = [k \in Keys |-> IF Expired(k) THEN Null
                             ELSE IF k \in S /\ data[k] # Null
                             THEN [data[k] EXCEPT !.due = "forced"]
                             ELSE data[k]]
  /\ retry' = [k \in Keys |-> IF (k \in S /\ data[k] # Null) \/ Expired(k) THEN 0 ELSE retry[k]]
  /\ UNCHANGED <<now, flights, flight, caller, purged>>

MarkStale(S) ==
  /\ NewEpoch(S)
  /\ data' = [k \in Keys |-> IF Expired(k) THEN Null
                             ELSE IF k \in S /\ data[k] # Null
                             THEN [data[k] EXCEPT !.due = "forced"]
                             ELSE data[k]]
  /\ retry' = [k \in Keys |-> IF (k \in S /\ data[k] # Null) \/ Expired(k) THEN 0 ELSE retry[k]]
  /\ InvalidateFlights(S)
  /\ UNCHANGED <<now, caller, purged>>

-----------------------------------------------------------------------------
(* Refresh: join the current flight, be served inside the retry window, or *)
(* start a flight.                                                         *)

Free(c) == caller[c].flight = Null

Wait(c, k, f) == caller' = [caller EXCEPT ![c] = [flight |-> f, asked |-> epoch[k], answer |-> "pending"]]

RefreshJoin(c, k) ==
  /\ Free(c)
  /\ flights[k] # Null
  /\ Wait(c, k, flights[k])
  /\ UNCHANGED <<now, data, flights, retry, flight, epoch, purged>>

InRetryWindow(k) == now < retry[k]

RefreshRetained(c, k) ==
  /\ Free(c)
  /\ flights[k] = Null
  /\ InRetryWindow(k) /\ Hit(k)
  /\ caller' = [caller EXCEPT ![c].answer = "retained"]
  /\ UNCHANGED <<now, data, flights, retry, flight, epoch, purged>>

RefreshStart(c, k, f) ==
  /\ Free(c)
  /\ flights[k] = Null
  /\ ~(InRetryWindow(k) /\ Hit(k))
  /\ flight[f].worker = "none"
  /\ f = CHOOSE g \in Flights : flight[g].worker = "none"   \* pointers are interchangeable
  /\ flights' = [flights EXCEPT ![k] = f]
  /\ flight' = [flight EXCEPT ![f] = NewFlight(k, "fetching", epoch[k])]
  /\ Wait(c, k, f)
  /\ data' = IF InRetryWindow(k) THEN ExpireData({k}) ELSE data
  /\ retry' = IF InRetryWindow(k) THEN ExpireRetry({k}) ELSE retry
  /\ UNCHANGED <<now, epoch, purged>>

\* The worker's fetch has returned and the worker holds c.mu
Current(f) == flights[flight[f].key] = f

WorkerInvalidated(f) ==
  /\ flight[f].worker = "fetching"
  /\ ~Current(f)
  /\ flight' = [flight EXCEPT ![f].worker = "gone"]
  /\ UNCHANGED <<now, data, flights, retry, caller, epoch, purged>>

Finish(f, result) ==
  /\ flight[f].worker = "fetching"
  /\ Current(f)
  /\ flights' = [flights EXCEPT ![flight[f].key] = Null]
  /\ flight' = [flight EXCEPT ![f].worker = "gone", ![f].result = result, ![f].closed = @ + 1]
  /\ UNCHANGED <<now, caller, epoch, purged>>

\* A zero deadline means the result is handed out but not stored
WorkerSucceeded(f, store) ==
  /\ Finish(f, "ok")
  /\ IF store THEN data' \in Stored(data, flight[f].key, NewEntry(flight[f].epoch, now))
              ELSE data' = data
  /\ retry' = [retry EXCEPT ![flight[f].key] = 0]

WorkerFailed(f) ==
  LET k == flight[f].key IN
  /\ Finish(f, "failed")
  /\ data' = ExpireData({k})
  /\ retry' = IF Hit(k) THEN [retry EXCEPT ![k] = now + RetryDelay] ELSE ExpireRetry({k})

Return(c, answer) == caller' = [caller EXCEPT ![c] = [flight |-> Null, asked |-> 0, answer |-> answer]]

\* The closure Refresh returned: f.done against the caller's context
WaitDone(c) ==
  /\ caller[c].flight # Null
  /\ flight[caller[c].flight].closed > 0
  /\ Return(c, flight[caller[c].flight].result)
  /\ UNCHANGED <<now, data, flights, retry, flight, epoch, purged>>

WaitCancelled(c) ==
  /\ caller[c].flight # Null
  /\ Return(c, "cancelled")
  /\ UNCHANGED <<now, data, flights, retry, flight, epoch, purged>>

-----------------------------------------------------------------------------
Worker(f) ==
  \/ WorkerInvalidated(f)
  \/ \E store \in BOOLEAN : WorkerSucceeded(f, store)
  \/ WorkerFailed(f)

Next ==
  \/ Tick
  \/ Clear
  \/ Snapshot
  \/ \E k \in Keys :
       \/ GetWithExpire(k)
       \/ GetWithExpireRejected(k)
       \/ SetWithExpire(k)
       \/ ComputeSame(k)
       \/ ComputeNew(k)
       \/ Delete(k)
       \/ \E updatedAt \in 0..MaxTime : Restore(k, updatedAt)
       \/ \E c \in Callers : RefreshJoin(c, k) \/ RefreshRetained(c, k)
       \/ \E c \in Callers, f \in Flights : RefreshStart(c, k, f)
  \/ \E S \in Matches : DeleteMatching(S) \/ MarkStale(S)
  \/ \E f \in Flights : Worker(f)
  \/ \E c \in Callers : WaitDone(c) \/ WaitCancelled(c)

\* fetch runs under context.WithTimeout, so every worker ends; a goroutine
\* blocked on a closed channel is scheduled.
Fairness ==
  /\ \A f \in Flights : WF_vars(Worker(f))
  /\ \A c \in Callers : WF_vars(WaitDone(c))

Spec == Init /\ [][Next]_vars /\ Fairness

-----------------------------------------------------------------------------
(* Properties                                                              *)

Started(f) == flight[f].worker # "none"

\* close(f.done) runs at most once for a flight (a second close panics): the
\* worker and the invalidating methods agree on which of them closes it.
DoneClosedOnce == \A f \in Flights : flight[f].closed <= 1

\* A flight that is no longer the current flight of its key has closed its done
\* channel, so nobody waits for a worker whose result has been disowned; and a
\* flight that is current has not, so nobody reads its result too early.
NoOrphanWaiter ==
  \A f \in Flights : Started(f) => (Current(f) <=> flight[f].closed = 0)

\* Whoever closes a flight has published its verdict first: no waiter reads the
\* zero Result as a successful answer.
VerdictBeforeWake ==
  \A f \in Flights : flight[f].closed > 0 => flight[f].result # "pending"

\* A caller only ever shares a fetch that began after the last invalidation
\* before its call: an answer requested after Clear, Delete, a scope deletion or
\* MarkStale never comes from a fetch started on the previous path.
CoalescedIsCurrent ==
  \A c \in Callers : caller[c].flight # Null =>
      flight[caller[c].flight].epoch = caller[c].asked

\* A removed value does not come back: what is stored was requested after the
\* last Delete, Clear or DeleteMatching of the key, whatever a late worker does.
NoResurrection ==
  \A k \in Keys : data[k] # Null => data[k].epoch >= purged[k]

\* Content requested before the last invalidation of its key is only kept as
\* stale content: its refresh deadline is the one MarkStale forced.
OldContentIsDue ==
  \A k \in Keys : data[k] # Null /\ data[k].epoch < epoch[k] => data[k].due = "forced"

\* What a closed flight has to say never changes, so that all its waiters are
\* told the same, even if the disowned worker returns later.
VerdictIsFinal ==
  [][\A f \in Flights : flight[f].closed > 0 => flight'[f].result = flight[f].result]_vars

\* The current flight of a key is an unfinished fetch for that very key, begun
\* since the key was last invalidated.
CurrentFlight ==
  \A k \in Keys : flights[k] # Null =>
      /\ flight[flights[k]].key = k
      /\ flight[flights[k]].worker = "fetching"
      /\ flight[flights[k]].epoch = epoch[k]

\* Every caller of Refresh gets an answer, although a disowned worker never
\* reports and callers need not have a deadline of their own.
EveryWaiterReturns ==
  \A c \in Callers : []<>(caller[c].flight = Null)

-----------------------------------------------------------------------------
(* A cache implements the coalesced lookup of CoalescedLookup: its tickets *)
(* are the flights.                                                        *)

Verdict == [f \in Flights |-> IF Started(f) THEN flight[f].result ELSE "unused"]

Lookup == INSTANCE CoalescedLookup WITH
  Tickets <- Flights,
  open <- flights,
  verdict <- Verdict,
  waits <- [c \in Callers |-> caller[c].flight],
  answer <- [c \in Callers |-> caller[c].answer]

\* Every step of the cache is a step of the coalesced lookup or none at all:
\* sharing, verdicts and answers are those Refresh promises.
ImplementsLookup == Lookup!LookupSafety
=============================================================================
