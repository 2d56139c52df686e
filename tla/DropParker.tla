----------------------------- MODULE DropParker -----------------------------
(***************************************************************************)
(* The parker of tunnel/reject.go: connections wait in one queue for their *)
(* common lifetime, a goroutine that exists only while there is work       *)
(* releases them in order, and a full queue evicts its oldest entries.     *)
(* Every step between two uses of the mutex is an action.                  *)
(***************************************************************************)
EXTENDS Naturals, Sequences, FiniteSets, SequencesExt, FiniteSetTheorems, TLAPS

CONSTANTS
  Drops,     \* connections to park
  Limit,     \* maxParkedDrops
  TTL,       \* C.DefaultDropTime, which is also udpTimeout
  MaxTime    \* bound on the clock

ASSUME ParkAssumption == {Limit, TTL, MaxTime} \subseteq Nat /\ Limit > 0 /\ MaxTime > TTL

VARIABLES
  now,
  queue,      \* parked connections, oldest first
  running,    \* the goroutine was started and has not decided to stop
  runners,    \* the goroutines themselves: where each one is and the drop it waits for
  deadline,   \* of the connections parked so far
  evicted,    \* taken out by Park and not yet released by it
  released    \* how often each connection was released

vars == <<now, queue, running, runners, deadline, evicted, released>>

Runner(at, drop) == [at |-> at, drop |-> drop]

Init ==
  /\ now = 0 /\ queue = <<>> /\ running = FALSE /\ runners = {}
  /\ deadline = <<>> /\ evicted = {} /\ released = [d \in Drops |-> 0]

\* Mutant: the limit is checked after the new entry is in
MutantKept(q) == IF Len(q) > Limit THEN SubSeq(q, 2, Len(q)) ELSE q

\* What a full queue keeps for one more entry
Kept(q) == IF Len(q) >= Limit THEN SubSeq(q, Len(q) - Limit + 2, Len(q)) ELSE q

\* Park, up to the unlock
Park(d) ==
  /\ d \notin DOMAIN deadline
  /\ queue' = Append(Kept(queue), d)
  /\ evicted' = evicted \cup (ToSet(queue) \ ToSet(Kept(queue)))
  /\ deadline' = [e \in DOMAIN deadline \cup {d} |-> IF e = d THEN now + TTL ELSE deadline[e]]
  /\ running' = TRUE
  /\ runners' = IF running THEN runners ELSE runners \cup {Runner("top", d)}
  /\ UNCHANGED <<now, released>>

Release(d) == released' = [released EXCEPT ![d] = @ + 1]

\* Park releases what it evicted
ReleaseEvicted(d) ==
  /\ d \in evicted /\ evicted' = evicted \ {d} /\ Release(d)
  /\ UNCHANGED <<now, queue, running, runners, deadline>>

Moves(r, s) == runners' = (runners \ {r}) \cup {s}

\* run: stop without work, or take the oldest entry's deadline
Top(r) ==
  /\ r.at = "top"
  /\ IF queue = <<>> THEN running' = FALSE /\ runners' = runners \ {r}
     ELSE Moves(r, Runner("sleep", Head(queue))) /\ UNCHANGED running
  /\ UNCHANGED <<now, queue, deadline, evicted, released>>

\* Mutant: the entry slept for is released although it was evicted
MutantWakeTwice(r) ==
  /\ r.at = "sleep" /\ now >= deadline[r.drop]
  /\ queue' = Remove(queue, r.drop) /\ Moves(r, Runner("release", r.drop))
  /\ UNCHANGED <<now, running, deadline, evicted, released>>

\* run after its sleep: the entry may have been evicted
Wake(r) ==
  /\ r.at = "sleep" /\ now >= deadline[r.drop]
  /\ IF queue # <<>> /\ Head(queue) = r.drop
     THEN queue' = Tail(queue) /\ Moves(r, Runner("release", r.drop))
     ELSE UNCHANGED queue /\ Moves(r, Runner("top", r.drop))
  /\ UNCHANGED <<now, running, deadline, evicted, released>>

RunReleases(r) ==
  /\ r.at = "release" /\ Release(r.drop) /\ Moves(r, Runner("top", r.drop))
  /\ UNCHANGED <<now, queue, running, deadline, evicted>>

Run(r) == Top(r) \/ Wake(r) \/ RunReleases(r)

Tick ==
  /\ now < MaxTime /\ now' = now + 1
  /\ UNCHANGED <<queue, running, runners, deadline, evicted, released>>

\* Nothing more is parked within the bound on the clock
Done == now = MaxTime /\ runners = {} /\ evicted = {} /\ UNCHANGED vars

Next ==
  \/ \E d \in Drops : (now + TTL <= MaxTime /\ Park(d)) \/ ReleaseEvicted(d)
  \/ \E r \in runners : Run(r)
  \/ Tick \/ Done

Spec == Init /\ [][Next]_vars

(***************************************************************************)
(* The queue is bounded, and a goroutine runs exactly while the parker     *)
(* says so: Park never starts a second one and never relies on one that    *)
(* is about to return.                                                     *)
(***************************************************************************)
OneRunner == Len(queue) <= Limit /\ Cardinality(runners) = (IF running THEN 1 ELSE 0)

(***************************************************************************)
(* No connection is released twice, whether by its deadline, by eviction   *)
(* or by both at once.                                                     *)
(***************************************************************************)
ReleasedOnce == \A d \in Drops : released[d] <= 1

-----------------------------------------------------------------------------
(* Proofs                                                                  *)

Distinct(q) == \A i, j \in 1..Len(q) : q[i] = q[j] => i = j

\* The members of a queue are its entries.
LEMMA Members ==
  ASSUME NEW q \in Seq(Drops)
  PROVE  /\ \A i \in 1..Len(q) : q[i] \in ToSet(q)
         /\ \A d \in ToSet(q) : d \in Drops /\ \E i \in 1..Len(q) : d = q[i]
BY DEF ToSet

\* The queue that Park leaves
LEMMA QueueParked ==
  ASSUME NEW q \in Seq(Drops), Len(q) <= Limit, Distinct(q), NEW d \in Drops, d \notin ToSet(q)
  PROVE  LET p == Append(Kept(q), d) IN
         /\ p \in Seq(Drops) /\ Len(p) <= Limit /\ Distinct(p)
         /\ ToSet(p) = ToSet(Kept(q)) \cup {d} /\ ToSet(Kept(q)) \subseteq ToSet(q)
<1> DEFINE k == Kept(q)
           n == Len(q) - Len(k)
           p == Append(k, d)
<1>1. /\ k \in Seq(Drops) /\ Len(k) < Limit /\ Len(k) <= Len(q)
      /\ \A i \in 1..Len(k) : k[i] = q[i + n] /\ i + n \in 1..Len(q)
  BY ParkAssumption DEF Kept
<1> HIDE DEF k
<1>2. /\ p \in Seq(Drops) /\ Len(p) = Len(k) + 1 /\ p[Len(p)] = d
      /\ \A i \in 1..Len(k) : p[i] = k[i]
  BY <1>1
<1>3. Len(p) <= Limit
  BY <1>1, <1>2, ParkAssumption
<1>4. \A i \in 1..Len(k) : k[i] \in ToSet(q)
  BY <1>1, Members
<1>5. ToSet(k) \subseteq ToSet(q)
  BY <1>1, <1>4 DEF ToSet
<1> HIDE DEF p
<1>6. ToSet(p) = ToSet(k) \cup {d}
  <2>1. ASSUME NEW i \in 1..Len(p) PROVE p[i] \in ToSet(k) \cup {d}
    <3>1. CASE i = Len(p)
      BY <3>1, <1>2
    <3>2. CASE i # Len(p)
      <4>1. i \in 1..Len(k)
        BY <3>2, <1>1, <1>2
      <4> QED BY <4>1, <1>1, <1>2 DEF ToSet
    <3> QED BY <3>1, <3>2
  <2>2. ASSUME NEW i \in 1..Len(k) PROVE k[i] \in ToSet(p)
    <3>1. i \in 1..Len(p)
      BY <1>1, <1>2
    <3> QED BY <3>1, <1>2 DEF ToSet
  <2>3. d \in ToSet(p)
    <3>1. Len(p) \in 1..Len(p)
      BY <1>1, <1>2
    <3> QED BY <3>1, <1>2 DEF ToSet
  <2>4. ToSet(p) \subseteq ToSet(k) \cup {d}
    BY <1>2, <2>1, Members
  <2>5. ToSet(k) \subseteq ToSet(p)
    BY <1>1, <2>2, Members
  <2> QED BY <2>3, <2>4, <2>5
<1>7. Distinct(p)
  <2> SUFFICES ASSUME NEW i \in 1..Len(p), NEW j \in 1..Len(p), p[i] = p[j] PROVE i = j
    BY DEF Distinct
  <2>1. CASE i # Len(p) /\ j # Len(p)
    <3>1. i \in 1..Len(k) /\ j \in 1..Len(k)
      BY <2>1, <1>1, <1>2
    <3>2. q[i + n] = q[j + n] /\ i + n \in 1..Len(q) /\ j + n \in 1..Len(q)
      BY <3>1, <1>1, <1>2
    <3>3. i + n = j + n
      BY <3>2 DEF Distinct
    <3> QED BY <3>1, <3>3, <1>1
  <2>2. CASE i = Len(p) /\ j # Len(p)
    <3>1. j \in 1..Len(k)
      BY <2>2, <1>1, <1>2
    <3> QED BY <2>2, <3>1, <1>2, <1>4
  <2>3. CASE i # Len(p) /\ j = Len(p)
    <3>1. i \in 1..Len(k)
      BY <2>3, <1>1, <1>2
    <3> QED BY <2>3, <3>1, <1>2, <1>4
  <2> QED BY <2>1, <2>2, <2>3
<1> QED
  BY <1>2, <1>3, <1>5, <1>6, <1>7 DEF p, k

\* The queue that run leaves
LEMMA QueueTail ==
  ASSUME NEW q \in Seq(Drops), Len(q) <= Limit, Distinct(q), q # <<>>
  PROVE  /\ Tail(q) \in Seq(Drops) /\ Len(Tail(q)) <= Limit /\ Distinct(Tail(q))
         /\ Head(q) \in ToSet(q) /\ ToSet(Tail(q)) \subseteq ToSet(q) \ {Head(q)}
<1> DEFINE t == Tail(q)
<1>1. /\ t \in Seq(Drops) /\ Len(t) = Len(q) - 1 /\ Head(q) = q[1] /\ 1 \in 1..Len(q)
      /\ \A i \in 1..Len(t) : t[i] = q[i + 1] /\ i + 1 \in 1..Len(q) /\ i + 1 # 1
  OBVIOUS
<1> HIDE DEF t
<1>2. Len(t) <= Limit
  BY <1>1, ParkAssumption
<1>3. Distinct(t)
  BY <1>1 DEF Distinct
<1>4. Head(q) \in ToSet(q)
  BY <1>1 DEF ToSet
<1>5. \A i \in 1..Len(t) : t[i] \in ToSet(q) \ {Head(q)}
  BY <1>1 DEF ToSet, Distinct
<1> QED
  BY <1>1, <1>2, <1>3, <1>4, <1>5 DEF ToSet, t

(***************************************************************************)
(* Why a connection is released once: it is in the queue, evicted, held by *)
(* the goroutine, or released, and never two of these at once.             *)
(***************************************************************************)
Holding(d) == \E r \in runners : r.at = "release" /\ r.drop = d

Queued ==
  /\ queue \in Seq(Drops) /\ Len(queue) <= Limit /\ Distinct(queue)
  /\ ToSet(queue) \subseteq DOMAIN deadline /\ evicted \subseteq DOMAIN deadline
  /\ evicted \cap ToSet(queue) = {}

Goroutines ==
  /\ \A r \in runners : r = Runner(r.at, r.drop) /\ r.at \in {"top", "sleep", "release"} /\ r.drop \in Drops
  /\ running => \E r : runners = {r}
  /\ ~running => runners = {}

OnceInv(d) ==
  /\ released[d] \in {0, 1}
  /\ released[d] = 1 => d \in DOMAIN deadline /\ d \notin ToSet(queue) \cup evicted /\ ~Holding(d)
  /\ Holding(d) => d \in DOMAIN deadline /\ d \notin ToSet(queue) \cup evicted

ParkInv ==
  /\ Queued /\ Goroutines
  /\ released \in [Drops -> Nat] /\ evicted \subseteq Drops
  /\ \A d \in Drops : OnceInv(d)

\* A goroutine that is about to do something is the only one.
LEMMA Alone ==
  ASSUME Goroutines, NEW r \in runners
  PROVE  running /\ runners = {r}
BY DEF Goroutines

\* The goroutine that moves stays the only one.
LEMMA OneMoves ==
  ASSUME Goroutines, NEW r \in runners, NEW at \in {"top", "sleep", "release"}, NEW d \in Drops,
         Moves(r, Runner(at, d)), running' = running
  PROVE  Goroutines' /\ runners' = {Runner(at, d)}
<1>1. running /\ runners = {r}
  BY Alone
<1>2. runners' = {Runner(at, d)}
  BY <1>1 DEF Moves
<1>3. \E s : runners' = {s}
  BY <1>2
<1>4. \A s \in runners' : s = Runner(s.at, s.drop) /\ s.at \in {"top", "sleep", "release"} /\ s.drop \in Drops
  BY <1>2 DEF Runner
<1> QED
  BY <1>1, <1>2, <1>3, <1>4 DEF Goroutines

\* Every step keeps the invariant.
LEMMA ParkStep == ASSUME ParkInv, [Next]_vars PROVE ParkInv'
<1> USE DEF ParkInv
<1>1. ASSUME NEW d \in Drops, Park(d) PROVE ParkInv'
  <2> DEFINE k == ToSet(Kept(queue))
  <2>1. /\ queue' \in Seq(Drops) /\ Len(queue') <= Limit /\ Distinct(queue')
        /\ ToSet(queue') = k \cup {d} /\ k \subseteq ToSet(queue)
    BY <1>1, QueueParked DEF Park, Queued
  <2>2. /\ d \notin DOMAIN deadline /\ DOMAIN deadline' = DOMAIN deadline \cup {d}
        /\ evicted' = evicted \cup (ToSet(queue) \ k)
        /\ released' = released /\ running'
        /\ runners' = IF running THEN runners ELSE runners \cup {Runner("top", d)}
    BY <1>1 DEF Park
  <2> HIDE DEF k
  <2>3. ToSet(queue) \subseteq Drops
    BY Members DEF Queued
  <2>4. Distinct(queue)' /\ ToSet(queue)' = ToSet(queue')
    BY <2>1 DEF Distinct, ToSet
  <2>5. Queued'
    BY <2>1, <2>2, <2>4 DEF Queued
  <2>6. Goroutines'
    <3>1. CASE running
      BY <2>2, <3>1 DEF Goroutines, Runner
    <3>2. CASE ~running
      <4>1. runners' = {Runner("top", d)}
        BY <2>2, <3>2 DEF Goroutines
      <4>2. \E r : runners' = {r}
        BY <4>1
      <4>3. \A r \in runners' : r = Runner(r.at, r.drop) /\ r.at \in {"top", "sleep", "release"} /\ r.drop \in Drops
        BY <4>1 DEF Runner
      <4> QED BY <2>2, <4>2, <4>3 DEF Goroutines
    <3> QED BY <3>1, <3>2
  <2>7. \A e \in Drops : Holding(e)' => Holding(e)
    BY <2>2 DEF Holding, Runner
  <2>8. ASSUME NEW e \in Drops PROVE OnceInv(e)'
    BY <2>1, <2>2, <2>4, <2>7 DEF OnceInv, Queued
  <2> QED
    BY <2>2, <2>3, <2>5, <2>6, <2>8
<1>2. ASSUME NEW d \in Drops, ReleaseEvicted(d) PROVE ParkInv'
  <2>1. /\ UNCHANGED <<queue, running, runners, deadline>> /\ d \in evicted /\ evicted' = evicted \ {d}
        /\ released' = [released EXCEPT ![d] = @ + 1]
    BY <1>2 DEF ReleaseEvicted, Release
  <2>2. Queued' /\ Goroutines'
    BY <2>1 DEF Queued, Goroutines, Distinct
  <2>3. released[d] = 0
    BY <2>1 DEF OnceInv
  <2>4. released' \in [Drops -> Nat] /\ \A e \in Drops : released'[e] = IF e = d THEN 1 ELSE released[e]
    BY <2>1, <2>3
  <2>5. \A e \in Drops : Holding(e)' <=> Holding(e)
    BY <2>1 DEF Holding
  <2>6. ASSUME NEW e \in Drops PROVE OnceInv(e)'
    BY <2>1, <2>4, <2>5 DEF OnceInv, Queued
  <2> QED
    BY <2>1, <2>2, <2>4, <2>6
<1>3. ASSUME NEW r \in runners, Top(r) PROVE ParkInv'
  <2>1. UNCHANGED <<queue, deadline, evicted, released>> /\ r.at = "top" /\ runners = {r}
    BY <1>3, Alone DEF Top
  <2>2. Queued'
    BY <2>1 DEF Queued, Distinct
  <2>3. CASE queue = <<>>
    <3>1. runners' = {} /\ running' = FALSE
      BY <1>3, <2>1, <2>3 DEF Top
    <3>2. Goroutines' /\ \A e \in Drops : ~Holding(e)'
      BY <3>1 DEF Goroutines, Holding
    <3>3. ASSUME NEW e \in Drops PROVE OnceInv(e)'
      BY <2>1, <3>2 DEF OnceInv
    <3> QED BY <2>1, <2>2, <3>2, <3>3
  <2>4. CASE queue # <<>>
    <3>1. Moves(r, Runner("sleep", Head(queue))) /\ running' = running
      BY <1>3, <2>4 DEF Top
    <3>2. Head(queue) \in Drops
      BY <2>4, QueueTail, Members DEF Queued
    <3>3. Goroutines' /\ runners' = {Runner("sleep", Head(queue))}
      BY <3>1, <3>2, OneMoves
    <3>4. \A e \in Drops : ~Holding(e)'
      BY <3>3 DEF Holding, Runner
    <3>5. ASSUME NEW e \in Drops PROVE OnceInv(e)'
      BY <2>1, <3>4 DEF OnceInv
    <3> QED BY <2>1, <2>2, <3>3, <3>5
  <2> QED BY <2>3, <2>4
<1>4. ASSUME NEW r \in runners, Wake(r) PROVE ParkInv'
  <2>1. /\ UNCHANGED <<running, deadline, evicted, released>> /\ r.at = "sleep" /\ r.drop \in Drops
        /\ runners = {r}
    BY <1>4, Alone DEF Wake, Goroutines
  <2>2. CASE queue # <<>> /\ Head(queue) = r.drop
    <3>1. Moves(r, Runner("release", r.drop)) /\ queue' = Tail(queue)
      BY <1>4, <2>2 DEF Wake
    <3>2. Goroutines' /\ runners' = {Runner("release", r.drop)}
      BY <2>1, <3>1, OneMoves
    <3>3. /\ queue' \in Seq(Drops) /\ Len(queue') <= Limit /\ Distinct(queue')
          /\ r.drop \in ToSet(queue) /\ ToSet(queue') \subseteq ToSet(queue) \ {r.drop}
      BY <2>2, <3>1, QueueTail DEF Queued
    <3>4. Distinct(queue)' /\ ToSet(queue)' = ToSet(queue')
      BY <3>3 DEF Distinct, ToSet
    <3>5. Queued'
      BY <2>1, <3>3, <3>4 DEF Queued
    <3>6. \A e \in Drops : Holding(e)' => e = r.drop
      BY <3>2 DEF Holding, Runner
    <3>7. ASSUME NEW e \in Drops PROVE OnceInv(e)'
      BY <2>1, <3>3, <3>4, <3>6 DEF OnceInv, Queued
    <3> QED BY <2>1, <3>2, <3>5, <3>7
  <2>3. CASE ~(queue # <<>> /\ Head(queue) = r.drop)
    <3>1. Moves(r, Runner("top", r.drop)) /\ queue' = queue
      BY <1>4, <2>3 DEF Wake
    <3>2. Goroutines' /\ runners' = {Runner("top", r.drop)}
      BY <2>1, <3>1, OneMoves
    <3>3. Queued' /\ \A e \in Drops : ~Holding(e)'
      BY <2>1, <3>1, <3>2 DEF Queued, Distinct, Holding, Runner
    <3>4. ASSUME NEW e \in Drops PROVE OnceInv(e)'
      BY <2>1, <3>1, <3>3 DEF OnceInv
    <3> QED BY <2>1, <3>2, <3>3, <3>4
  <2> QED BY <2>2, <2>3
<1>5. ASSUME NEW r \in runners, RunReleases(r) PROVE ParkInv'
  <2>1. /\ UNCHANGED <<queue, running, deadline, evicted>> /\ r.at = "release" /\ r.drop \in Drops
        /\ runners = {r} /\ Moves(r, Runner("top", r.drop))
        /\ released' = [released EXCEPT ![r.drop] = @ + 1]
    BY <1>5, Alone DEF RunReleases, Release, Goroutines
  <2>2. Goroutines' /\ runners' = {Runner("top", r.drop)}
    BY <2>1, OneMoves
  <2>3. Queued' /\ \A e \in Drops : ~Holding(e)'
    BY <2>1, <2>2 DEF Queued, Distinct, Holding, Runner
  <2>4. Holding(r.drop)
    BY <2>1 DEF Holding
  <2>5. released[r.drop] = 0
    BY <2>1, <2>4 DEF OnceInv
  <2>6. released' \in [Drops -> Nat] /\ \A e \in Drops : released'[e] = IF e = r.drop THEN 1 ELSE released[e]
    BY <2>1, <2>5
  <2>7. ASSUME NEW e \in Drops PROVE OnceInv(e)'
    BY <2>1, <2>3, <2>4, <2>6 DEF OnceInv
  <2> QED BY <2>1, <2>2, <2>3, <2>6, <2>7
<1>6. CASE UNCHANGED <<queue, running, runners, deadline, evicted, released>>
  <2>1. Queued' /\ Goroutines' /\ \A e \in Drops : Holding(e)' <=> Holding(e)
    BY <1>6 DEF Queued, Goroutines, Distinct, Holding
  <2>2. ASSUME NEW e \in Drops PROVE OnceInv(e)'
    BY <1>6, <2>1 DEF OnceInv
  <2> QED BY <1>6, <2>1, <2>2
<1> QED
  BY <1>1, <1>2, <1>3, <1>4, <1>5, <1>6 DEF Next, Run, Tick, Done, vars

\* The invariant holds throughout.
LEMMA ParkInvariant == Spec => []ParkInv
<1>1. Init => ParkInv
  <2> SUFFICES ASSUME Init PROVE ParkInv
    OBVIOUS
  <2>1. ToSet(queue) = {} /\ Queued
    BY ParkAssumption DEF Init, Queued, Distinct, ToSet
  <2>2. Goroutines /\ \A d \in Drops : OnceInv(d)
    BY <2>1 DEF Init, Goroutines, OnceInv, Holding
  <2> QED BY <2>1, <2>2 DEF Init, ParkInv
<1>2. ParkInv /\ [Next]_vars => ParkInv'
  BY ParkStep
<1> QED
  BY <1>1, <1>2, PTL DEF Spec

(***************************************************************************)
(* For any number of connections, any limit and any lifetime, the queue    *)
(* keeps its bound and the parker has one goroutine exactly while it says  *)
(* so.                                                                     *)
(***************************************************************************)
THEOREM ParkerRuns == Spec => []OneRunner
<1>1. ParkInv => OneRunner
  <2> SUFFICES ASSUME ParkInv PROVE OneRunner
    OBVIOUS
  <2>1. running => Cardinality(runners) = 1
    BY FS_Singleton DEF ParkInv, Goroutines
  <2>2. ~running => Cardinality(runners) = 0
    BY FS_EmptySet DEF ParkInv, Goroutines
  <2> QED
    BY <2>1, <2>2 DEF ParkInv, OneRunner, Queued
<1> QED
  BY <1>1, ParkInvariant, PTL

(***************************************************************************)
(* For the same values, no connection is released twice.                   *)
(***************************************************************************)
THEOREM ParkerReleases == Spec => []ReleasedOnce
<1>1. ParkInv => ReleasedOnce
  BY DEF ParkInv, ReleasedOnce, OnceInv
<1> QED
  BY <1>1, ParkInvariant, PTL
=============================================================================
