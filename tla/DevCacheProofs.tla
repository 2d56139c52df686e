--------------------------- MODULE DevCacheProofs ---------------------------
(***************************************************************************)
(* Proofs about DevCache for every set of keys, flights and callers and    *)
(* every value of the bounds.                                              *)
(***************************************************************************)
EXTENDS DevCache, TLAPS

-----------------------------------------------------------------------------
(* Facts about the helpers *)

\* Storing keeps the store well-typed, whatever the backend evicts.
LEMMA StoredType ==
  ASSUME NEW d \in [Keys -> Entry \cup {Null}], NEW k, NEW e \in Entry,
         NEW r \in Stored(d, k, e)
  PROVE  r \in [Keys -> Entry \cup {Null}]
BY DEF Stored, Present

\* Storing changes nothing but the stored key and possibly an evicted one.
LEMMA StoredEntry ==
  ASSUME NEW d \in [Keys -> Entry \cup {Null}], NEW k \in Keys, NEW e \in Entry,
         NEW r \in Stored(d, k, e), NEW x \in Keys, r[x] # Null
  PROVE  r[x] = d[x] \/ (x = k /\ r[x] = e)
BY DEF Stored, Present

\* Expiry removes entries and changes none.
LEMMA ExpireType ==
  ASSUME TypeOK, NEW S
  PROVE  /\ ExpireData(S) \in [Keys -> Entry \cup {Null}]
         /\ ExpireRetry(S) \in [Keys -> Nat]
         /\ \A k \in Keys : ExpireData(S)[k] # Null => ExpireData(S)[k] = data[k]
BY DEF TypeOK, ExpireData, ExpireRetry

\* A new entry is an entry.
LEMMA NewEntryType ==
  ASSUME NEW e \in Nat, NEW t \in Nat
  PROVE  NewEntry(e, t) \in Entry
BY DEF NewEntry, Entry, Deadline

\* Invalidating flights keeps their types.
LEMMA InvalidateType ==
  ASSUME TypeOK, NEW S, InvalidateFlights(S)
  PROVE  flights' \in [Keys -> Flights \cup {Null}] /\ flight' \in [Flights -> Flight]
<1>1. flights' \in [Keys -> Flights \cup {Null}]
  BY DEF TypeOK, InvalidateFlights
<1>2. flight' \in [Flights -> Flight]
  <2>1. ASSUME NEW f \in Flights
        PROVE  [flight[f] EXCEPT !.result = "invalidated", !.closed = @ + 1] \in Flight
    <3>1. flight[f] \in Flight /\ flight[f].closed + 1 \in Nat
      BY DEF TypeOK, Flight
    <3>2. QED BY <3>1 DEF Flight, Result
  <2>2. QED BY <2>1 DEF TypeOK, InvalidateFlights
<1>3. QED BY <1>1, <1>2

\* A new epoch, and a purge, keep the types.
LEMMA EpochType ==
  ASSUME TypeOK, NEW S
  PROVE  /\ NewEpoch(S) => epoch' \in [Keys -> Nat]
         /\ Purge(S) => purged' \in [Keys -> Nat]
BY DEF TypeOK, NewEpoch, Purge

\* A caller that starts to wait keeps its type.
LEMMA CallerType ==
  ASSUME TypeOK, NEW c \in Callers, NEW k \in Keys, NEW f \in Flights, Wait(c, k, f)
  PROVE  caller' \in [Callers -> Caller]
BY DEF TypeOK, Wait, Caller, Answer, Result

\* A flight that finishes keeps its type.
LEMMA FinishType ==
  ASSUME TypeOK, NEW f \in Flights, NEW r \in Result, Finish(f, r)
  PROVE  flights' \in [Keys -> Flights \cup {Null}] /\ flight' \in [Flights -> Flight]
<1>1. [flight[f] EXCEPT !.worker = "gone", !.result = r, !.closed = @ + 1] \in Flight
  <2>1. flight[f] \in Flight /\ flight[f].closed + 1 \in Nat
    BY DEF TypeOK, Flight
  <2>2. QED BY <2>1 DEF Flight
<1>2. QED BY <1>1 DEF TypeOK, Finish

-----------------------------------------------------------------------------
(* Type correctness *)

\* The initial states are typed.
LEMMA TypeInit == Init => TypeOK
BY NullAssumption DEF Init, TypeOK, NewFlight, Flight, Caller, Result, Answer

\* Every step keeps the types.
LEMMA TypeNext == TypeOK /\ [Next]_vars => TypeOK'
<1> SUFFICES ASSUME TypeOK, [Next]_vars PROVE TypeOK'
  OBVIOUS
<1>1. CASE Tick
  BY <1>1 DEF TypeOK, Tick
<1>2. CASE Clear
  <2>1. data' \in [Keys -> Entry \cup {Null}] /\ retry' \in [Keys -> Nat]
    BY <1>2 DEF Clear
  <2>2. QED BY <1>2, <2>1, EpochType, InvalidateType DEF TypeOK, Clear
<1>3. CASE Snapshot
  BY <1>3, ExpireType DEF TypeOK, Snapshot
<1>4. ASSUME NEW k \in Keys, GetWithExpire(k) PROVE TypeOK'
  BY <1>4, ExpireType DEF TypeOK, GetWithExpire
<1>5. ASSUME NEW k \in Keys, GetWithExpireRejected(k) PROVE TypeOK'
  BY <1>5 DEF TypeOK, GetWithExpireRejected
<1>6. ASSUME NEW k \in Keys, SetWithExpire(k) PROVE TypeOK'
  BY <1>6, StoredType, NewEntryType DEF TypeOK, SetWithExpire
<1>7. ASSUME NEW k \in Keys, ComputeSame(k) PROVE TypeOK'
  <2>1. [data[k] EXCEPT !.updatedAt = now] \in Entry
    BY <1>7 DEF TypeOK, ComputeSame, Hit, Entry
  <2>2. QED BY <1>7, <2>1 DEF TypeOK, ComputeSame
<1>8. ASSUME NEW k \in Keys, ComputeNew(k) PROVE TypeOK'
  BY <1>8, StoredType, NewEntryType, ExpireType DEF TypeOK, ComputeNew
<1>9. ASSUME NEW k \in Keys, Delete(k) PROVE TypeOK'
  <2>1. data' \in [Keys -> Entry \cup {Null}] /\ retry' \in [Keys -> Nat]
    BY <1>9 DEF Delete, TypeOK
  <2>2. QED BY <1>9, <2>1, EpochType, InvalidateType DEF TypeOK, Delete
<1>10. ASSUME NEW k \in Keys, NEW t \in 0..MaxTime, Restore(k, t) PROVE TypeOK'
  <2>1. t \in Nat
    BY BoundsAssumption
  <2>2. QED BY <1>10, <2>1, StoredType, NewEntryType, ExpireType DEF TypeOK, Restore
<1>11. ASSUME NEW k \in Keys, NEW c \in Callers, RefreshJoin(c, k) PROVE TypeOK'
  <2>1. flights[k] \in Flights
    BY <1>11 DEF TypeOK, RefreshJoin
  <2>2. QED BY <1>11, <2>1, CallerType DEF TypeOK, RefreshJoin
<1>12. ASSUME NEW k \in Keys, NEW c \in Callers, RefreshRetained(c, k) PROVE TypeOK'
  <2>1. caller' \in [Callers -> Caller]
    <3>1. [caller[c] EXCEPT !.answer = "retained"] \in Caller
      BY DEF TypeOK, Caller, Answer
    <3>2. QED BY <1>12, <3>1 DEF TypeOK, RefreshRetained
  <2>2. QED BY <1>12, <2>1 DEF TypeOK, RefreshRetained
<1>13. ASSUME NEW k \in Keys, NEW c \in Callers, NEW f \in Flights, RefreshStart(c, k, f)
       PROVE TypeOK'
  <2>1. NewFlight(k, "fetching", epoch[k]) \in Flight
    BY DEF TypeOK, NewFlight, Flight, Result
  <2>2. QED BY <1>13, <2>1, CallerType, ExpireType DEF TypeOK, RefreshStart
<1>14. ASSUME NEW S \in Matches, DeleteMatching(S) PROVE TypeOK'
  <2>1. data' \in [Keys -> Entry \cup {Null}] /\ retry' \in [Keys -> Nat]
    BY <1>14 DEF DeleteMatching, TypeOK
  <2>2. QED BY <1>14, <2>1, EpochType, InvalidateType DEF TypeOK, DeleteMatching
<1>15. ASSUME NEW S \in Matches, MarkStale(S) PROVE TypeOK'
  <2>1. \A k \in Keys : data[k] # Null => [data[k] EXCEPT !.due = "forced"] \in Entry
    BY DEF TypeOK, Entry, Deadline
  <2>2. data' \in [Keys -> Entry \cup {Null}] /\ retry' \in [Keys -> Nat]
    BY <1>15, <2>1 DEF MarkStale, TypeOK
  <2>3. QED BY <1>15, <2>2, EpochType, InvalidateType DEF TypeOK, MarkStale
<1>16. ASSUME NEW f \in Flights, WorkerInvalidated(f) PROVE TypeOK'
  <2>1. [flight[f] EXCEPT !.worker = "gone"] \in Flight
    BY DEF TypeOK, Flight
  <2>2. QED BY <1>16, <2>1 DEF TypeOK, WorkerInvalidated
<1>17. ASSUME NEW f \in Flights, NEW store \in BOOLEAN, WorkerSucceeded(f, store) PROVE TypeOK'
  <2>1. flights' \in [Keys -> Flights \cup {Null}] /\ flight' \in [Flights -> Flight]
    BY <1>17, FinishType DEF WorkerSucceeded, Result
  <2>2. flight[f].epoch \in Nat
    BY DEF TypeOK, Flight
  <2>3. retry' \in [Keys -> Nat]
    BY <1>17 DEF TypeOK, WorkerSucceeded
  <2>4. data' \in [Keys -> Entry \cup {Null}]
    BY <1>17, <2>2, StoredType, NewEntryType DEF TypeOK, WorkerSucceeded
  <2>5. QED BY <1>17, <2>1, <2>3, <2>4 DEF TypeOK, WorkerSucceeded, Finish
<1>18. ASSUME NEW f \in Flights, WorkerFailed(f) PROVE TypeOK'
  <2>1. flights' \in [Keys -> Flights \cup {Null}] /\ flight' \in [Flights -> Flight]
    BY <1>18, FinishType DEF WorkerFailed, Result
  <2>2. retry' \in [Keys -> Nat]
    <3>1. now + RetryDelay \in Nat
      BY BoundsAssumption DEF TypeOK
    <3>2. QED BY <1>18, <3>1, ExpireType DEF TypeOK, WorkerFailed
  <2>3. QED BY <1>18, <2>1, <2>2, ExpireType DEF TypeOK, WorkerFailed, Finish
<1>19. ASSUME NEW c \in Callers, WaitDone(c) PROVE TypeOK'
  <2>1. caller[c].flight \in Flights
    BY <1>19 DEF TypeOK, WaitDone, Caller
  <2>2. flight[caller[c].flight].result \in Answer
    BY <2>1 DEF TypeOK, Flight, Answer
  <2>3. [flight |-> Null, asked |-> 0, answer |-> flight[caller[c].flight].result] \in Caller
    BY <2>2 DEF Caller
  <2>4. QED BY <1>19, <2>3 DEF TypeOK, WaitDone, Return
<1>20. ASSUME NEW c \in Callers, WaitCancelled(c) PROVE TypeOK'
  <2>1. [flight |-> Null, asked |-> 0, answer |-> "cancelled"] \in Caller
    BY DEF Caller, Answer
  <2>2. QED BY <1>20, <2>1 DEF TypeOK, WaitCancelled, Return
<1>21. CASE UNCHANGED vars
  BY <1>21 DEF TypeOK, vars
<1>22. QED
  BY <1>1, <1>2, <1>3, <1>4, <1>5, <1>6, <1>7, <1>8, <1>9, <1>10, <1>11, <1>12, <1>13,
     <1>14, <1>15, <1>16, <1>17, <1>18, <1>19, <1>20, <1>21 DEF Next, Worker

\* The cache stays well-typed: in particular a flight handed to a waiter is a
\* flight object, and retry times and ages are times.
THEOREM TypeCorrect == Spec => []TypeOK
BY TypeInit, TypeNext, PTL DEF Spec

-----------------------------------------------------------------------------
(* The life of a flight.  FlightInv is inductive together with TypeOK.     *)

FlightKeyed ==
  \A f \in Flights : IF Started(f) THEN flight[f].key \in Keys ELSE flight[f].closed = 0

WaitsForStarted ==
  \A c \in Callers : caller[c].flight # Null => Started(caller[c].flight)

FlightInv ==
  /\ FlightKeyed
  /\ CurrentFlight
  /\ NoOrphanWaiter
  /\ DoneClosedOnce
  /\ VerdictBeforeWake
  /\ WaitsForStarted
  /\ CoalescedIsCurrent

USE DEF Started, Current

\* No flight has started.
LEMMA FlightInit == Init => FlightInv
BY DEF Init, FlightInv, FlightKeyed, CurrentFlight, NoOrphanWaiter, DoneClosedOnce,
       VerdictBeforeWake,
       WaitsForStarted, CoalescedIsCurrent, NewFlight

\* Steps that leave flights, callers and epochs alone.
LEMMA FlightUnchanged ==
  ASSUME FlightInv, UNCHANGED <<flights, flight, caller, epoch>>
  PROVE  FlightInv'
BY DEF FlightInv, FlightKeyed, CurrentFlight, NoOrphanWaiter, DoneClosedOnce,
       VerdictBeforeWake,
       WaitsForStarted, CoalescedIsCurrent

\* invalidateFlight closes exactly the flights it takes out of the map.
LEMMA FlightInvalidate ==
  ASSUME TypeOK, TypeOK', FlightInv, NEW S \in SUBSET Keys,
         InvalidateFlights(S), NewEpoch(S), UNCHANGED caller
  PROVE  FlightInv'
<1> DEFINE hit(f) == \E k \in S : flights[k] = f
<1>1. \A f \in Flights :
        /\ hit(f) => flight'[f] = [flight[f] EXCEPT !.result = "invalidated", !.closed = @ + 1]
        /\ ~hit(f) => flight'[f] = flight[f]
  BY DEF TypeOK, InvalidateFlights
<1> HIDE DEF hit
<1>2. \A f \in Flights :
        /\ flight'[f].key = flight[f].key
        /\ flight'[f].worker = flight[f].worker
        /\ flight'[f].epoch = flight[f].epoch
        /\ flight'[f].closed = IF hit(f) THEN flight[f].closed + 1 ELSE flight[f].closed
        /\ flight'[f].result = IF hit(f) THEN "invalidated" ELSE flight[f].result
  <2>1. \A f \in Flights : flight[f] \in Flight
    BY DEF TypeOK
  <2>2. QED BY <1>1, <2>1 DEF Flight
<1>3. \A k \in Keys : flights'[k] = IF k \in S THEN Null ELSE flights[k]
  BY DEF InvalidateFlights
<1>4. \A f \in Flights : hit(f) => /\ Started(f)
                                   /\ Current(f)
                                   /\ flight[f].key \in S
                                   /\ flight[f].closed = 0
  BY NullAssumption DEF hit, FlightInv, CurrentFlight, NoOrphanWaiter
<1>5. \A f \in Flights : Started(f) /\ flight[f].key \in S /\ Current(f) => hit(f)
  BY DEF hit
<1>6. FlightKeyed'
  BY <1>2, <1>4 DEF FlightInv, FlightKeyed
<1>7. CurrentFlight'
  <2> SUFFICES ASSUME NEW k \in Keys, flights'[k] # Null
               PROVE  /\ flight'[flights'[k]].key = k
                      /\ flight'[flights'[k]].worker = "fetching"
                      /\ flight'[flights'[k]].epoch = epoch'[k]
    BY DEF CurrentFlight
  <2>1. k \notin S /\ flights'[k] = flights[k] /\ flights[k] \in Flights
    BY <1>3 DEF TypeOK
  <2>2. epoch'[k] = epoch[k]
    BY <2>1 DEF NewEpoch
  <2>3. QED BY <1>2, <2>1, <2>2 DEF FlightInv, CurrentFlight
<1>8. NoOrphanWaiter'
  <2> SUFFICES ASSUME NEW f \in Flights, Started(f)'
               PROVE  Current(f)' <=> flight'[f].closed = 0
    BY DEF NoOrphanWaiter
  <2>1. Started(f) /\ flight[f].key \in Keys /\ (Current(f) <=> flight[f].closed = 0)
    BY <1>2 DEF FlightInv, FlightKeyed, NoOrphanWaiter
  <2>2. flight[f].closed \in Nat
    BY DEF TypeOK, Flight
  <2>3. CASE hit(f)
    <3>1. flights'[flight[f].key] = Null
      BY <2>3, <1>3, <1>4, <2>1
    <3>2. QED BY <3>1, <2>3, <1>2, <2>2, NullAssumption
  <2>4. CASE ~hit(f)
    <3>1. flights'[flight[f].key] = f <=> flights[flight[f].key] = f
      BY <2>4, <1>3, <1>5, <2>1, NullAssumption
    <3>2. QED BY <3>1, <2>4, <1>2, <2>1
  <2>5. QED BY <2>3, <2>4
<1>9. DoneClosedOnce' /\ VerdictBeforeWake'
  BY <1>2, <1>4 DEF FlightInv, DoneClosedOnce, VerdictBeforeWake
<1>10. WaitsForStarted' /\ CoalescedIsCurrent'
  BY <1>2 DEF FlightInv, WaitsForStarted, CoalescedIsCurrent, TypeOK, Caller
<1>11. QED BY <1>6, <1>7, <1>8, <1>9, <1>10 DEF FlightInv

\* A current worker takes its own flight out of the map and closes it.
LEMMA FlightFinish ==
  ASSUME TypeOK, TypeOK', FlightInv, NEW f \in Flights, NEW r \in {"ok", "failed"}, Finish(f, r)
  PROVE  FlightInv'
<1> DEFINE k == flight[f].key
<1>1. k \in Keys /\ flights[k] = f /\ flight[f].closed = 0
  BY DEF Finish, FlightInv, FlightKeyed, NoOrphanWaiter
<1>2. \A g \in Flights : g # f => flight'[g] = flight[g]
  BY DEF TypeOK, Finish
<1>3. /\ flight'[f].key = k
      /\ flight'[f].worker = "gone"
      /\ flight'[f].epoch = flight[f].epoch
      /\ flight'[f].closed = 1
      /\ flight'[f].result = r
  BY <1>1 DEF TypeOK, Finish, Flight
<1>4. \A x \in Keys : flights'[x] = IF x = k THEN Null ELSE flights[x]
  BY DEF TypeOK, Finish
<1>5. UNCHANGED <<caller, epoch>>
  BY DEF Finish
<1>6. FlightKeyed' /\ DoneClosedOnce' /\ VerdictBeforeWake'
  BY <1>1, <1>2, <1>3 DEF FlightInv, FlightKeyed, DoneClosedOnce, VerdictBeforeWake
<1>7. CurrentFlight'
  <2> SUFFICES ASSUME NEW x \in Keys, flights'[x] # Null
               PROVE  /\ flight'[flights'[x]].key = x
                      /\ flight'[flights'[x]].worker = "fetching"
                      /\ flight'[flights'[x]].epoch = epoch'[x]
    BY DEF CurrentFlight
  <2>1. x # k /\ flights'[x] = flights[x] /\ flights[x] \in Flights
    BY <1>4 DEF TypeOK
  <2>2. flights[x] # f
    BY <2>1 DEF FlightInv, CurrentFlight
  <2>3. QED BY <1>2, <1>5, <2>1, <2>2 DEF FlightInv, CurrentFlight
<1>8. NoOrphanWaiter'
  <2> SUFFICES ASSUME NEW g \in Flights, Started(g)'
               PROVE  Current(g)' <=> flight'[g].closed = 0
    BY DEF NoOrphanWaiter
  <2>1. CASE g = f
    BY <2>1, <1>1, <1>3, <1>4, NullAssumption
  <2>2. CASE g # f
    <3>1. flight'[g] = flight[g] /\ flight[g].key \in Keys
      BY <2>2, <1>2 DEF FlightInv, FlightKeyed
    <3>2. flights'[flight[g].key] = g <=> flights[flight[g].key] = g
      BY <2>2, <1>1, <1>4, <3>1, NullAssumption
    <3>3. QED BY <3>1, <3>2 DEF FlightInv, NoOrphanWaiter
  <2>3. QED BY <2>1, <2>2
<1>9. WaitsForStarted' /\ CoalescedIsCurrent'
  BY <1>2, <1>3, <1>5 DEF FlightInv, WaitsForStarted, CoalescedIsCurrent, TypeOK, Caller
<1>10. QED BY <1>6, <1>7, <1>8, <1>9 DEF FlightInv

\* refresh starts a flight: it is new, current and in the map.
LEMMA FlightStart ==
  ASSUME TypeOK, TypeOK', FlightInv, NEW c \in Callers, NEW k \in Keys, NEW f \in Flights,
         RefreshStart(c, k, f)
  PROVE  FlightInv'
<1>1. \A g \in Flights : g # f => flight'[g] = flight[g]
  BY DEF TypeOK, RefreshStart
<1>2. /\ flight'[f].key = k
      /\ flight'[f].worker = "fetching"
      /\ flight'[f].epoch = epoch[k]
      /\ flight'[f].closed = 0
  BY DEF TypeOK, RefreshStart, NewFlight
<1>3. \A x \in Keys : flights'[x] = IF x = k THEN f ELSE flights[x]
  BY DEF TypeOK, RefreshStart
<1>4. ~Started(f) /\ flights[k] = Null /\ epoch' = epoch
  BY DEF RefreshStart
<1>5. FlightKeyed' /\ DoneClosedOnce' /\ VerdictBeforeWake'
  BY <1>1, <1>2 DEF FlightInv, FlightKeyed, DoneClosedOnce, VerdictBeforeWake
<1>6. CurrentFlight'
  <2> SUFFICES ASSUME NEW x \in Keys, flights'[x] # Null
               PROVE  /\ flight'[flights'[x]].key = x
                      /\ flight'[flights'[x]].worker = "fetching"
                      /\ flight'[flights'[x]].epoch = epoch'[x]
    BY DEF CurrentFlight
  <2>1. CASE x = k
    BY <2>1, <1>2, <1>3, <1>4
  <2>2. CASE x # k
    <3>1. flights'[x] = flights[x] /\ flights[x] \in Flights
      BY <2>2, <1>3 DEF TypeOK
    <3>2. flights[x] # f
      BY <3>1, <1>4 DEF FlightInv, CurrentFlight
    <3>3. QED BY <3>1, <3>2, <1>1, <1>4 DEF FlightInv, CurrentFlight
  <2>3. QED BY <2>1, <2>2
<1>7. NoOrphanWaiter'
  <2> SUFFICES ASSUME NEW g \in Flights, Started(g)'
               PROVE  Current(g)' <=> flight'[g].closed = 0
    BY DEF NoOrphanWaiter
  <2>1. CASE g = f
    BY <2>1, <1>2, <1>3
  <2>2. CASE g # f
    <3>1. flight'[g] = flight[g] /\ flight[g].key \in Keys
      BY <2>2, <1>1 DEF FlightInv, FlightKeyed
    <3>2. flights'[flight[g].key] = g <=> flights[flight[g].key] = g
      BY <2>2, <1>3, <1>4, <3>1, NullAssumption
    <3>3. QED BY <3>1, <3>2 DEF FlightInv, NoOrphanWaiter
  <2>3. QED BY <2>1, <2>2
<1>8. WaitsForStarted' /\ CoalescedIsCurrent'
  <2> SUFFICES ASSUME NEW d \in Callers, caller'[d].flight # Null
               PROVE  /\ flight'[caller'[d].flight].worker # "none"
                      /\ flight'[caller'[d].flight].epoch = caller'[d].asked
    BY DEF WaitsForStarted, CoalescedIsCurrent
  <2>1. CASE d = c
    BY <2>1, <1>2 DEF RefreshStart, Wait, TypeOK
  <2>2. CASE d # c
    <3>1. caller'[d] = caller[d] /\ caller[d].flight \in Flights
      BY <2>2 DEF RefreshStart, Wait, TypeOK, Caller
    <3>2. Started(caller[d].flight) /\ flight[caller[d].flight].epoch = caller[d].asked
      BY <3>1 DEF FlightInv, WaitsForStarted, CoalescedIsCurrent
    <3>3. QED BY <3>1, <3>2, <1>1, <1>4
  <2>3. QED BY <2>1, <2>2
<1>9. QED BY <1>5, <1>6, <1>7, <1>8 DEF FlightInv

\* refresh joins the flight of the map, which is current.
LEMMA FlightJoin ==
  ASSUME TypeOK, FlightInv, NEW c \in Callers, NEW k \in Keys, RefreshJoin(c, k)
  PROVE  FlightInv'
<1>1. flights[k] \in Flights /\ Started(flights[k]) /\ flight[flights[k]].epoch = epoch[k]
  BY DEF TypeOK, RefreshJoin, FlightInv, CurrentFlight
<1>2. caller' = [caller EXCEPT ![c] = [flight |-> flights[k], asked |-> epoch[k], answer |-> "pending"]]
  BY DEF RefreshJoin, Wait
<1>3. WaitsForStarted' /\ CoalescedIsCurrent'
  BY <1>1, <1>2 DEF FlightInv, WaitsForStarted, CoalescedIsCurrent, RefreshJoin, TypeOK
<1>4. QED
  BY <1>3 DEF FlightInv, FlightKeyed, CurrentFlight, NoOrphanWaiter, DoneClosedOnce,
     VerdictBeforeWake, RefreshJoin

\* A caller that stops waiting, or never waited, leaves the flights alone.
LEMMA FlightLeave ==
  ASSUME TypeOK, FlightInv, UNCHANGED <<flights, flight, epoch>>, NEW c \in Callers,
         \A d \in Callers : d # c => caller'[d] = caller[d],
         caller'[c].flight = Null
  PROVE  FlightInv'
<1>1. WaitsForStarted' /\ CoalescedIsCurrent'
  BY DEF FlightInv, WaitsForStarted, CoalescedIsCurrent
<1>2. QED
  BY <1>1 DEF FlightInv, FlightKeyed, CurrentFlight, NoOrphanWaiter, DoneClosedOnce,
     VerdictBeforeWake

\* A worker that finds its flight invalidated only goes away.
LEMMA FlightWorkerInvalidated ==
  ASSUME TypeOK, FlightInv, NEW f \in Flights, WorkerInvalidated(f)
  PROVE  FlightInv'
<1>1. \A g \in Flights : /\ flight'[g].key = flight[g].key
                         /\ flight'[g].closed = flight[g].closed
                         /\ flight'[g].epoch = flight[g].epoch
                         /\ flight'[g].result = flight[g].result
                         /\ Started(g)' <=> Started(g)
                         /\ g # f => flight'[g].worker = flight[g].worker
  BY DEF TypeOK, WorkerInvalidated, Flight
<1>2. \A k \in Keys : flights[k] # f
  BY NullAssumption DEF WorkerInvalidated, FlightInv, CurrentFlight
<1>3. UNCHANGED <<flights, caller, epoch>>
  BY DEF WorkerInvalidated
<1>4. CurrentFlight'
  BY <1>1, <1>2, <1>3 DEF FlightInv, CurrentFlight, TypeOK
<1>5. FlightKeyed' /\ NoOrphanWaiter'
  BY <1>1, <1>3 DEF FlightInv, FlightKeyed, NoOrphanWaiter
<1>6. DoneClosedOnce' /\ VerdictBeforeWake'
  BY <1>1 DEF FlightInv, DoneClosedOnce, VerdictBeforeWake
<1>7. WaitsForStarted' /\ CoalescedIsCurrent'
  BY <1>1, <1>3 DEF FlightInv, WaitsForStarted, CoalescedIsCurrent, TypeOK, Caller
<1>8. QED BY <1>4, <1>5, <1>6, <1>7 DEF FlightInv

\* Every step keeps the flights right.
LEMMA FlightNext == TypeOK /\ TypeOK' /\ FlightInv /\ [Next]_vars => FlightInv'
<1> SUFFICES ASSUME TypeOK, TypeOK', FlightInv, [Next]_vars PROVE FlightInv'
  OBVIOUS
<1>1. CASE Tick \/ Snapshot \/ UNCHANGED vars
  BY <1>1, FlightUnchanged DEF Tick, Snapshot, vars
<1>2. ASSUME NEW k \in Keys, \/ GetWithExpire(k) \/ GetWithExpireRejected(k)
                             \/ SetWithExpire(k) \/ ComputeSame(k) \/ ComputeNew(k)
                             \/ \E t \in 0..MaxTime : Restore(k, t)
      PROVE  FlightInv'
  BY <1>2, FlightUnchanged DEF GetWithExpire, GetWithExpireRejected, SetWithExpire,
     ComputeSame, ComputeNew, Restore
<1>3. CASE Clear
  BY <1>3, FlightInvalidate DEF Clear
<1>4. ASSUME NEW k \in Keys, Delete(k) PROVE FlightInv'
  BY <1>4, FlightInvalidate DEF Delete
<1>5. ASSUME NEW S \in Matches, DeleteMatching(S) \/ MarkStale(S) PROVE FlightInv'
  BY <1>5, FlightInvalidate, FinitenessAssumption DEF DeleteMatching, MarkStale
<1>6. ASSUME NEW k \in Keys, NEW c \in Callers, RefreshJoin(c, k) PROVE FlightInv'
  BY <1>6, FlightJoin
<1>7. ASSUME NEW k \in Keys, NEW c \in Callers, RefreshRetained(c, k) PROVE FlightInv'
  <2>1. caller'[c].flight = Null /\ \A d \in Callers : d # c => caller'[d] = caller[d]
    BY <1>7 DEF RefreshRetained, Free, TypeOK, Caller
  <2>2. QED BY <1>7, <2>1, FlightLeave DEF RefreshRetained
<1>8. ASSUME NEW k \in Keys, NEW c \in Callers, NEW f \in Flights, RefreshStart(c, k, f)
      PROVE  FlightInv'
  BY <1>8, FlightStart
<1>9. ASSUME NEW f \in Flights, Worker(f) PROVE FlightInv'
  BY <1>9, FlightWorkerInvalidated, FlightFinish DEF Worker, WorkerSucceeded, WorkerFailed
<1>10. ASSUME NEW c \in Callers, WaitDone(c) \/ WaitCancelled(c) PROVE FlightInv'
  <2>1. caller'[c].flight = Null /\ \A d \in Callers : d # c => caller'[d] = caller[d]
    BY <1>10 DEF WaitDone, WaitCancelled, Return, TypeOK, Caller
  <2>2. QED BY <1>10, <2>1, FlightLeave DEF WaitDone, WaitCancelled
<1>11. QED
  BY <1>1, <1>2, <1>3, <1>4, <1>5, <1>6, <1>7, <1>8, <1>9, <1>10 DEF Next

\* Waiters are woken exactly once and never left behind, and a fetch is only
\* shared by callers that asked since the key was last invalidated.
THEOREM FlightsCorrect ==
  Spec => [](NoOrphanWaiter /\ DoneClosedOnce /\ VerdictBeforeWake /\ CurrentFlight /\ CoalescedIsCurrent)
<1>1. Init => TypeOK /\ FlightInv
  BY TypeInit, FlightInit
<1>2. TypeOK /\ FlightInv /\ [Next]_vars => (TypeOK /\ FlightInv)'
  BY TypeNext, FlightNext
<1>3. FlightInv => NoOrphanWaiter /\ DoneClosedOnce /\ VerdictBeforeWake /\ CurrentFlight /\ CoalescedIsCurrent
  BY DEF FlightInv
<1>4. QED BY <1>1, <1>2, <1>3, PTL DEF Spec

-----------------------------------------------------------------------------
(* What is stored.  The commit of a worker is the interesting step: that   *)
(* its content is current follows from CurrentFlight.                      *)

PurgedInPast == \A k \in Keys : purged[k] <= epoch[k]

DataInv == PurgedInPast /\ NoResurrection /\ OldContentIsDue

\* Nothing is stored yet.
LEMMA DataInit == Init => DataInv
BY DEF Init, DataInv, PurgedInPast, NoResurrection, OldContentIsDue

\* Entries are kept, or replaced by content of the current epoch.
LEMMA DataKept ==
  ASSUME TypeOK, DataInv, UNCHANGED <<epoch, purged>>,
         \A k \in Keys : data'[k] # Null =>
            \/ data[k] # Null /\ data'[k].epoch = data[k].epoch /\ data'[k].due = data[k].due
            \/ data'[k].epoch = epoch[k]
  PROVE  DataInv'
<1>1. PurgedInPast'
  BY DEF DataInv, PurgedInPast
<1>2. NoResurrection'
  BY DEF DataInv, PurgedInPast, NoResurrection, TypeOK
<1>3. OldContentIsDue'
  BY DEF DataInv, OldContentIsDue, TypeOK
<1>4. QED BY <1>1, <1>2, <1>3 DEF DataInv

\* Storing content of the current epoch.
LEMMA DataStored ==
  ASSUME TypeOK, DataInv, UNCHANGED <<epoch, purged>>, NEW k \in Keys, NEW t \in Nat, NEW S,
         data' \in Stored(data, k, NewEntry(epoch[k], t)) \cup
                   Stored(ExpireData(S), k, NewEntry(epoch[k], t))
  PROVE  DataInv'
<1>1. NewEntry(epoch[k], t) \in Entry /\ NewEntry(epoch[k], t).epoch = epoch[k]
  BY NewEntryType DEF TypeOK, NewEntry
<1>2. ASSUME NEW x \in Keys, data'[x] # Null
      PROVE  data'[x] = data[x] \/ data'[x].epoch = epoch[x]
  <2>1. CASE data' \in Stored(data, k, NewEntry(epoch[k], t))
    BY <1>1, <1>2, <2>1, StoredEntry DEF TypeOK
  <2>2. CASE data' \in Stored(ExpireData(S), k, NewEntry(epoch[k], t))
    BY <1>1, <1>2, <2>2, StoredEntry, ExpireType
  <2>3. QED BY <2>1, <2>2
<1>3. QED BY <1>2, DataKept

\* Expiry.
LEMMA DataExpired ==
  ASSUME TypeOK, DataInv, UNCHANGED <<epoch, purged>>, NEW S,
         data' = data \/ data' = ExpireData(S)
  PROVE  DataInv'
BY ExpireType, DataKept

\* Removal and MarkStale begin a new epoch for the keys of S.
LEMMA DataInvalidate ==
  ASSUME TypeOK, DataInv, NEW S \in SUBSET Keys, NewEpoch(S),
         \/ /\ Purge(S)
            /\ \A k \in Keys : data'[k] # Null => k \notin S /\ data'[k] = data[k]
         \/ /\ purged' = purged
            /\ \A k \in Keys : data'[k] # Null =>
                  /\ data[k] # Null
                  /\ data'[k].epoch = data[k].epoch
                  /\ data'[k].due = IF k \in S THEN "forced" ELSE data[k].due
  PROVE  DataInv'
<1>1. \A k \in Keys : epoch'[k] = IF k \in S THEN epoch[k] + 1 ELSE epoch[k]
  BY DEF NewEpoch
<1>2. \A k \in Keys : epoch[k] \in Nat /\ purged[k] \in Nat
  BY DEF TypeOK
<1>3. CASE Purge(S) /\ \A k \in Keys : data'[k] # Null => k \notin S /\ data'[k] = data[k]
  <2>1. \A k \in Keys : purged'[k] = IF k \in S THEN epoch[k] + 1 ELSE purged[k]
    BY <1>3 DEF Purge
  <2>2. PurgedInPast'
    BY <1>1, <1>2, <2>1 DEF DataInv, PurgedInPast
  <2>3. NoResurrection' /\ OldContentIsDue'
    BY <1>1, <1>3, <2>1 DEF DataInv, NoResurrection, OldContentIsDue
  <2>4. QED BY <2>2, <2>3 DEF DataInv
<1>4. CASE /\ purged' = purged
           /\ \A k \in Keys : data'[k] # Null =>
                  /\ data[k] # Null
                  /\ data'[k].epoch = data[k].epoch
                  /\ data'[k].due = IF k \in S THEN "forced" ELSE data[k].due
  BY <1>1, <1>2, <1>4 DEF DataInv, PurgedInPast, NoResurrection, OldContentIsDue
<1>5. QED BY <1>3, <1>4

\* Every step keeps what is stored current.
LEMMA DataNext == TypeOK /\ FlightInv /\ DataInv /\ [Next]_vars => DataInv'
<1> SUFFICES ASSUME TypeOK, FlightInv, DataInv, [Next]_vars PROVE DataInv'
  OBVIOUS
<1>1. CASE Tick \/ Snapshot \/ UNCHANGED vars
  BY <1>1, DataExpired DEF Tick, Snapshot, vars
<1>2. CASE Clear
  <2>1. \A k \in Keys : data'[k] = Null
    BY <1>2 DEF Clear
  <2>2. QED BY <1>2, <2>1, DataInvalidate DEF Clear
<1>3. ASSUME NEW k \in Keys, GetWithExpire(k) PROVE DataInv'
  BY <1>3, DataExpired DEF GetWithExpire
<1>4. ASSUME NEW k \in Keys, GetWithExpireRejected(k) PROVE DataInv'
  <2>1. \A x \in Keys : data'[x] # Null => data'[x] = data[x]
    BY <1>4 DEF GetWithExpireRejected, TypeOK
  <2>2. QED BY <1>4, <2>1, DataKept DEF GetWithExpireRejected
<1>5. ASSUME NEW k \in Keys, SetWithExpire(k) \/ ComputeNew(k) PROVE DataInv'
  <2>1. now \in Nat
    BY DEF TypeOK
  <2>2. QED BY <1>5, <2>1, DataStored DEF SetWithExpire, ComputeNew
<1>6. ASSUME NEW k \in Keys, ComputeSame(k) PROVE DataInv'
  <2>1. data[k] \in Entry
    BY <1>6 DEF ComputeSame, Hit, TypeOK
  <2>2. data' = [data EXCEPT ![k] = [data[k] EXCEPT !.updatedAt = now]]
    BY <1>6 DEF ComputeSame
  <2>3. \A x \in Keys : data'[x] # Null =>
            data[x] # Null /\ data'[x].epoch = data[x].epoch /\ data'[x].due = data[x].due
    BY <1>6, <2>1, <2>2 DEF ComputeSame, Hit, TypeOK, Entry
  <2>4. QED BY <1>6, <2>3, DataKept DEF ComputeSame
<1>7. ASSUME NEW k \in Keys, NEW t \in 0..MaxTime, Restore(k, t) PROVE DataInv'
  <2>1. t \in Nat
    BY BoundsAssumption
  <2>2. QED BY <1>7, <2>1, DataStored, DataExpired DEF Restore
<1>8. ASSUME NEW k \in Keys, Delete(k) PROVE DataInv'
  <2>1. \A x \in Keys : data'[x] # Null => x \notin {k} /\ data'[x] = data[x]
    BY <1>8 DEF Delete, TypeOK
  <2>2. QED BY <1>8, <2>1, DataInvalidate DEF Delete
<1>9. ASSUME NEW S \in Matches, DeleteMatching(S) PROVE DataInv'
  <2>1. \A x \in Keys : data'[x] # Null => x \notin S /\ data'[x] = data[x]
    BY <1>9 DEF DeleteMatching
  <2>2. QED BY <1>9, <2>1, DataInvalidate, FinitenessAssumption DEF DeleteMatching
<1>10. ASSUME NEW S \in Matches, MarkStale(S) PROVE DataInv'
  <2>1. ASSUME NEW x \in Keys, data'[x] # Null
        PROVE  /\ data[x] # Null
               /\ data'[x].epoch = data[x].epoch
               /\ data'[x].due = IF x \in S THEN "forced" ELSE data[x].due
    <3>1. data[x] # Null /\ data'[x] = IF x \in S THEN [data[x] EXCEPT !.due = "forced"] ELSE data[x]
      BY <1>10, <2>1 DEF MarkStale, Expired
    <3>2. data[x] \in Entry
      BY <3>1 DEF TypeOK
    <3>3. QED BY <3>1, <3>2 DEF Entry
  <2>2. QED BY <1>10, <2>1, DataInvalidate, FinitenessAssumption DEF MarkStale
<1>11. ASSUME NEW k \in Keys, NEW c \in Callers, RefreshJoin(c, k) \/ RefreshRetained(c, k)
       PROVE  DataInv'
  BY <1>11, DataExpired DEF RefreshJoin, RefreshRetained
<1>12. ASSUME NEW k \in Keys, NEW c \in Callers, NEW f \in Flights, RefreshStart(c, k, f)
       PROVE  DataInv'
  BY <1>12, DataExpired DEF RefreshStart
<1>13. ASSUME NEW f \in Flights, NEW store \in BOOLEAN, WorkerSucceeded(f, store) PROVE DataInv'
  <2>1. UNCHANGED <<epoch, purged>>
    BY <1>13 DEF WorkerSucceeded, Finish
  <2>2. flight[f].key \in Keys /\ flight[f].epoch = epoch[flight[f].key] /\ now \in Nat
    BY <1>13, NullAssumption
    DEF WorkerSucceeded, Finish, FlightInv, FlightKeyed, CurrentFlight, TypeOK
  <2>3. QED BY <1>13, <2>1, <2>2, DataStored, DataExpired DEF WorkerSucceeded
<1>14. ASSUME NEW f \in Flights, WorkerInvalidated(f) \/ WorkerFailed(f) PROVE DataInv'
  BY <1>14, DataExpired DEF WorkerInvalidated, WorkerFailed, Finish
<1>15. ASSUME NEW c \in Callers, WaitDone(c) \/ WaitCancelled(c) PROVE DataInv'
  BY <1>15, DataExpired DEF WaitDone, WaitCancelled
<1>16. QED
  BY <1>1, <1>2, <1>3, <1>4, <1>5, <1>6, <1>7, <1>8, <1>9, <1>10, <1>11, <1>12, <1>13,
     <1>14, <1>15 DEF Next, Worker

\* A late worker never brings back what Delete, Clear or DeleteMatching removed.
THEOREM RemovedStaysRemoved == Spec => []NoResurrection
<1>1. Init => TypeOK /\ FlightInv /\ DataInv
  BY TypeInit, FlightInit, DataInit
<1>2. TypeOK /\ FlightInv /\ DataInv /\ [Next]_vars => (TypeOK /\ FlightInv /\ DataInv)'
  BY TypeNext, FlightNext, DataNext
<1>3. QED BY <1>1, <1>2, PTL DEF Spec, DataInv

\* After MarkStale, nothing fetched on the previous path is taken for fresh.
THEOREM OldContentStaysDue == Spec => []OldContentIsDue
<1>1. Init => TypeOK /\ FlightInv /\ DataInv
  BY TypeInit, FlightInit, DataInit
<1>2. TypeOK /\ FlightInv /\ DataInv /\ [Next]_vars => (TypeOK /\ FlightInv /\ DataInv)'
  BY TypeNext, FlightNext, DataNext
<1>3. QED BY <1>1, <1>2, PTL DEF Spec, DataInv

-----------------------------------------------------------------------------
(* The cache implements CoalescedLookup. *)

WaitsMap == [c \in Callers |-> caller[c].flight]

AnswerMap == [c \in Callers |-> caller[c].answer]

\* What leaves flights and callers alone is no step of the abstract lookup.
LEMMA LookupStutter ==
  ASSUME UNCHANGED <<flights, flight, caller>>
  PROVE  UNCHANGED Lookup!lvars
BY DEF Lookup!lvars, Verdict

\* Invalidating the flights of S settles their lookups.
LEMMA LookupSettle ==
  ASSUME TypeOK, FlightInv, NEW S \in SUBSET Keys, InvalidateFlights(S), UNCHANGED caller
  PROVE  Lookup!Settle(S, "invalidated")
<1>1. flights' = [k \in Keys |-> IF k \in S THEN Null ELSE flights[k]]
  BY DEF InvalidateFlights
<1>2. ASSUME NEW f \in Flights
      PROVE  Verdict'[f] = IF \E k \in S : flights[k] = f THEN "invalidated" ELSE Verdict[f]
  <2>1. CASE \E k \in S : flights[k] = f
    <3>1. flight'[f] = [flight[f] EXCEPT !.result = "invalidated", !.closed = @ + 1]
      BY <2>1 DEF InvalidateFlights
    <3>2. Started(f)
      BY <2>1, NullAssumption DEF FlightInv, CurrentFlight
    <3>3. flight'[f].result = "invalidated" /\ flight'[f].worker = flight[f].worker
      BY <3>1 DEF TypeOK, Flight
    <3>4. QED BY <2>1, <3>2, <3>3 DEF Verdict
  <2>2. CASE ~\E k \in S : flights[k] = f
    BY <2>2 DEF InvalidateFlights, Verdict
  <2>3. QED BY <2>1, <2>2
<1>3. Verdict' = [f \in Flights |-> IF \E k \in S : flights[k] = f THEN "invalidated" ELSE Verdict[f]]
  BY <1>2 DEF Verdict
<1>4. QED BY <1>1, <1>3 DEF Lookup!Settle

\* A flight that finishes settles its lookup.
LEMMA LookupFinish ==
  ASSUME TypeOK, FlightInv, NEW f \in Flights, NEW r \in Result, Finish(f, r)
  PROVE  Lookup!Settle({flight[f].key}, r)
<1> DEFINE k == flight[f].key
<1>1. k \in Keys /\ flights[k] = f
  BY DEF Finish, FlightInv, FlightKeyed
<1>2. flights' = [x \in Keys |-> IF x \in {k} THEN Null ELSE flights[x]]
  BY DEF Finish, TypeOK
<1>3. ASSUME NEW g \in Flights
      PROVE  Verdict'[g] = IF \E x \in {k} : flights[x] = g THEN r ELSE Verdict[g]
  <2>1. CASE g = f
    <3>1. flight'[f].worker = "gone" /\ flight'[f].result = r
      BY DEF Finish, TypeOK, Flight
    <3>2. QED BY <1>1, <2>1, <3>1 DEF Verdict
  <2>2. CASE g # f
    <3>1. flight'[g] = flight[g]
      BY <2>2 DEF Finish, TypeOK
    <3>2. QED BY <1>1, <2>2, <3>1 DEF Verdict
  <2>3. QED BY <2>1, <2>2
<1>4. Verdict' = [g \in Flights |-> IF \E x \in {k} : flights[x] = g THEN r ELSE Verdict[g]]
  BY <1>3 DEF Verdict
<1>5. caller' = caller
  BY DEF Finish
<1>6. QED BY <1>2, <1>4, <1>5 DEF Lookup!Settle

\* To start a flight, or to join one, is to ask.
LEMMA LookupAsk ==
  ASSUME TypeOK, FlightInv, NEW c \in Callers, NEW k \in Keys,
         \/ RefreshJoin(c, k)
         \/ \E f \in Flights : RefreshStart(c, k, f)
  PROVE  Lookup!Ask(c, k)
<1>1. PICK f \in Flights : \/ RefreshJoin(c, k) /\ flights[k] = f
                           \/ RefreshStart(c, k, f)
  BY DEF RefreshJoin, TypeOK
<1>2. WaitsMap[c] = Null
  BY <1>1 DEF RefreshJoin, RefreshStart, Free, WaitsMap
<1>3. caller' = [caller EXCEPT ![c] = [flight |-> f, asked |-> epoch[k], answer |-> "pending"]]
  BY <1>1 DEF RefreshJoin, RefreshStart, Wait
<1>4. /\ WaitsMap' = [WaitsMap EXCEPT ![c] = f]
      /\ AnswerMap' = [AnswerMap EXCEPT ![c] = "pending"]
  BY <1>3 DEF WaitsMap, AnswerMap, TypeOK
<1>5. \/ flights[k] = f /\ flights' = flights /\ Verdict' = Verdict
      \/ /\ flights[k] = Null
         /\ Verdict[f] = "unused"
         /\ flights' = [flights EXCEPT ![k] = f]
         /\ Verdict' = [Verdict EXCEPT ![f] = "pending"]
  <2>1. CASE RefreshJoin(c, k) /\ flights[k] = f
    BY <2>1 DEF RefreshJoin, Verdict
  <2>2. CASE RefreshStart(c, k, f)
    <3>1. flight' = [flight EXCEPT ![f] = NewFlight(k, "fetching", epoch[k])]
      BY <2>2 DEF RefreshStart
    <3>2. Verdict' = [Verdict EXCEPT ![f] = "pending"]
      BY <3>1 DEF Verdict, NewFlight, TypeOK
    <3>3. QED BY <2>2, <3>2 DEF RefreshStart, Verdict
  <2>3. QED BY <1>1, <2>1, <2>2
<1>6. QED BY <1>2, <1>4, <1>5 DEF Lookup!Ask, WaitsMap, AnswerMap

\* To stop waiting is to be told, to give up or to ask what was retained.
LEMMA LookupLeave ==
  ASSUME TypeOK, FlightInv, NEW c \in Callers, WaitDone(c) \/ WaitCancelled(c)
  PROVE  Lookup!Tell(c) \/ Lookup!GiveUp(c) \/ Lookup!AskRetained(c)
<1>1. caller[c].flight \in Flights /\ WaitsMap[c] = caller[c].flight /\ WaitsMap[c] # Null
  BY NullAssumption DEF WaitDone, WaitCancelled, TypeOK, Caller, WaitsMap
<1>2. Verdict' = Verdict /\ flights' = flights
  BY DEF WaitDone, WaitCancelled, Verdict
<1>3. WaitsMap' = [WaitsMap EXCEPT ![c] = Null]
  <2>1. \A d \in Callers : caller[d] \in Caller
    BY DEF TypeOK
  <2>2. \A d \in Callers : caller'[d].flight = IF d = c THEN Null ELSE caller[d].flight
    BY <2>1 DEF WaitDone, WaitCancelled, Return, TypeOK, Caller
  <2>3. QED BY <2>2 DEF WaitsMap
<1>4. CASE WaitCancelled(c)
  <2>1. AnswerMap' = [AnswerMap EXCEPT ![c] = "cancelled"]
    BY <1>4 DEF WaitCancelled, Return, AnswerMap, TypeOK, Caller
  <2>2. QED BY <1>1, <1>2, <1>3, <2>1 DEF Lookup!GiveUp, WaitsMap, AnswerMap
<1>5. CASE WaitDone(c)
  <2>1. AnswerMap' = [AnswerMap EXCEPT ![c] = Verdict[WaitsMap[c]]]
    BY <1>1, <1>5 DEF WaitDone, Return, AnswerMap, TypeOK, Caller, Verdict, FlightInv, WaitsForStarted
  <2>2. Verdict[WaitsMap[c]] \in Lookup!Final
    BY <1>1, <1>5 DEF WaitDone, Verdict, Lookup!Final, TypeOK, Flight, Result,
       FlightInv, WaitsForStarted, VerdictBeforeWake
  <2>3. QED BY <1>1, <1>2, <1>3, <2>1, <2>2 DEF Lookup!Tell, WaitsMap, AnswerMap
<1>6. QED BY <1>4, <1>5

\* Every step is one of the abstract lookup, or none.
LEMMA LookupNext ==
  TypeOK /\ FlightInv /\ [Next]_vars => [Lookup!LookupNext]_(Lookup!lvars)
<1> SUFFICES ASSUME TypeOK, FlightInv, [Next]_vars
             PROVE  Lookup!LookupNext \/ UNCHANGED Lookup!lvars
  OBVIOUS
<1>1. CASE Tick \/ Snapshot \/ UNCHANGED vars
  BY <1>1, LookupStutter DEF Tick, Snapshot, vars
<1>2. ASSUME NEW k \in Keys, \/ GetWithExpire(k) \/ GetWithExpireRejected(k)
                             \/ SetWithExpire(k) \/ ComputeSame(k) \/ ComputeNew(k)
                             \/ \E t \in 0..MaxTime : Restore(k, t)
      PROVE  UNCHANGED Lookup!lvars
  BY <1>2, LookupStutter DEF GetWithExpire, GetWithExpireRejected, SetWithExpire,
     ComputeSame, ComputeNew, Restore
<1>3. ASSUME NEW S \in SUBSET Keys, InvalidateFlights(S), UNCHANGED caller
      PROVE  Lookup!LookupNext
  BY <1>3, LookupSettle DEF Lookup!LookupNext, Lookup!Final
<1>4. CASE Clear
  BY <1>3, <1>4 DEF Clear
<1>5. ASSUME NEW k \in Keys, Delete(k) PROVE Lookup!LookupNext
  BY <1>3, <1>5 DEF Delete
<1>6. ASSUME NEW S \in Matches, DeleteMatching(S) \/ MarkStale(S) PROVE Lookup!LookupNext
  BY <1>3, <1>6, FinitenessAssumption DEF DeleteMatching, MarkStale
<1>7. ASSUME NEW k \in Keys, NEW c \in Callers,
             RefreshJoin(c, k) \/ \E f \in Flights : RefreshStart(c, k, f)
      PROVE  Lookup!LookupNext
  BY <1>7, LookupAsk DEF Lookup!LookupNext
<1>8. ASSUME NEW k \in Keys, NEW c \in Callers, RefreshRetained(c, k)
      PROVE  Lookup!LookupNext
  <2>1. /\ WaitsMap[c] = Null
        /\ WaitsMap' = WaitsMap
        /\ AnswerMap' = [AnswerMap EXCEPT ![c] = "retained"]
    BY <1>8 DEF RefreshRetained, Free, WaitsMap, AnswerMap, TypeOK, Caller
  <2>2. flights' = flights /\ Verdict' = Verdict
    BY <1>8 DEF RefreshRetained, Verdict
  <2>3. Lookup!AskRetained(c)
    BY <2>1, <2>2 DEF Lookup!AskRetained, WaitsMap, AnswerMap
  <2>4. QED BY <2>3 DEF Lookup!LookupNext
<1>9. ASSUME NEW f \in Flights, WorkerInvalidated(f) PROVE UNCHANGED Lookup!lvars
  <2>1. Verdict' = Verdict
    <3>1. \A g \in Flights : /\ flight'[g].result = flight[g].result
                             /\ Started(g)' <=> Started(g)
      BY <1>9 DEF WorkerInvalidated, TypeOK, Flight
    <3>2. QED BY <3>1 DEF Verdict
  <2>2. QED BY <1>9, <2>1 DEF WorkerInvalidated, Lookup!lvars
<1>10. ASSUME NEW f \in Flights, NEW r \in {"ok", "failed"}, Finish(f, r)
       PROVE  Lookup!LookupNext
  <2>1. flight[f].key \in Keys
    BY <1>10 DEF Finish, FlightInv, FlightKeyed
  <2>2. Lookup!Settle({flight[f].key}, r)
    BY <1>10, LookupFinish DEF Result
  <2>3. QED BY <2>1, <2>2 DEF Lookup!LookupNext, Lookup!Final
<1>11. ASSUME NEW f \in Flights, WorkerFailed(f) \/ \E store \in BOOLEAN : WorkerSucceeded(f, store)
       PROVE  Lookup!LookupNext
  BY <1>10, <1>11 DEF WorkerFailed, WorkerSucceeded
<1>12. ASSUME NEW c \in Callers, WaitDone(c) \/ WaitCancelled(c) PROVE Lookup!LookupNext
  BY <1>12, LookupLeave DEF Lookup!LookupNext
<1>13. QED
  BY <1>1, <1>2, <1>4, <1>5, <1>6, <1>7, <1>8, <1>9, <1>11, <1>12 DEF Next, Worker

\* Refresh implements the coalesced lookup: one ticket per key, shared while it
\* is open, with one verdict that every holder is told.
THEOREM CacheImplementsLookup == Spec => ImplementsLookup
<1>1. Init => Lookup!LookupInit
  <2>1. ASSUME Init PROVE Verdict = [f \in Flights |-> "unused"]
    BY <2>1 DEF Init, Verdict, NewFlight
  <2>2. QED BY <2>1 DEF Init, Lookup!LookupInit
<1>2. Init => TypeOK /\ FlightInv
  BY TypeInit, FlightInit
<1>3. TypeOK /\ FlightInv /\ [Next]_vars => (TypeOK /\ FlightInv)'
  BY TypeNext, FlightNext
<1>4. QED BY <1>1, <1>2, <1>3, LookupNext, PTL DEF Spec, ImplementsLookup, Lookup!LookupSafety

\* A flight that was closed keeps its result.
LEMMA VerdictStep ==
  ASSUME TypeOK, FlightInv, [Next]_vars, NEW f \in Flights, flight[f].closed > 0
  PROVE  flight'[f].result = flight[f].result
<1>1. Started(f) /\ ~Current(f) /\ \A k \in Keys : flights[k] # f
  BY NullAssumption DEF FlightInv, FlightKeyed, NoOrphanWaiter, CurrentFlight
<1>2. ASSUME NEW S \in SUBSET Keys, InvalidateFlights(S) PROVE flight'[f] = flight[f]
  BY <1>1, <1>2 DEF InvalidateFlights
<1>3. CASE Clear
  BY <1>2, <1>3 DEF Clear
<1>4. ASSUME NEW k \in Keys, Delete(k) PROVE flight'[f] = flight[f]
  BY <1>2, <1>4 DEF Delete
<1>5. ASSUME NEW S \in Matches, DeleteMatching(S) \/ MarkStale(S) PROVE flight'[f] = flight[f]
  BY <1>2, <1>5, FinitenessAssumption DEF DeleteMatching, MarkStale
<1>6. ASSUME NEW k \in Keys, NEW c \in Callers, NEW g \in Flights, RefreshStart(c, k, g)
      PROVE  flight'[f] = flight[f]
  BY <1>1, <1>6 DEF RefreshStart, TypeOK
<1>7. ASSUME NEW g \in Flights, WorkerInvalidated(g) PROVE flight'[f].result = flight[f].result
  BY <1>7 DEF WorkerInvalidated, TypeOK, Flight
<1>8. ASSUME NEW g \in Flights, WorkerFailed(g) \/ \E store \in BOOLEAN : WorkerSucceeded(g, store)
      PROVE  flight'[f] = flight[f]
  BY <1>1, <1>8 DEF WorkerFailed, WorkerSucceeded, Finish, TypeOK
<1>9. CASE UNCHANGED flight
  BY <1>9
<1>10. QED
  BY <1>3, <1>4, <1>5, <1>6, <1>7, <1>8, <1>9
  DEF Next, Worker, vars, Tick, Snapshot, GetWithExpire, GetWithExpireRejected, SetWithExpire,
      ComputeSame, ComputeNew, Restore, RefreshJoin, RefreshRetained, WaitDone, WaitCancelled

\* A closed flight keeps its verdict, whatever its disowned worker does later.
THEOREM VerdictsAreFinal == Spec => VerdictIsFinal
<1>1. Init => TypeOK /\ FlightInv
  BY TypeInit, FlightInit
<1>2. TypeOK /\ FlightInv /\ [Next]_vars => (TypeOK /\ FlightInv)'
  BY TypeNext, FlightNext
<1>3. TypeOK /\ FlightInv /\ [Next]_vars =>
        [\A f \in Flights : flight[f].closed > 0 => flight'[f].result = flight[f].result]_vars
  BY VerdictStep
<1>4. QED BY <1>1, <1>2, <1>3, PTL DEF Spec, VerdictIsFinal
=============================================================================
