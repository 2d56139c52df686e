------------------------- MODULE DevRegistryProofs -------------------------
(***************************************************************************)
(* The instance of DevRegistry that TLC checks, and the proofs of its      *)
(* properties for every set of slots, namespaces and configurations and    *)
(* for every period.                                                       *)
(*                                                                         *)
(* Content exists in up to four copies per slot: the file, the registry    *)
(* (a cache, or pending while the namespace is not attached), a snapshot   *)
(* on its way to the file and what was read from the file.  A removal      *)
(* reaches only the registry's copy at once.  The invariant says, for      *)
(* every slot, how far the four may disagree in each phase of updateDNS,   *)
(* StoreCache and FlushDevCache.                                           *)
(***************************************************************************)
EXTENDS DevRegistry, TLAPS

-----------------------------------------------------------------------------
\* The instance: a winner and one DNS cache of each of two configurations, on
\* two networks; the configurations share a direct-source identity

MCNamespaceOf == [s \in Slots |-> CASE s = "w" -> "tcp" [] s = "a" -> "dnsA" [] s = "b" -> "dnsB"]
MCScopeOf == [s \in Slots |-> IF s = "b" THEN "away" ELSE "home"]
MCSameOrigin == {<<"dnsA", "dnsB">>, <<"dnsB", "dnsA">>}
MCConfigs == {{"dnsA"}, {"dnsB"}, {}}

-----------------------------------------------------------------------------
RegistryTypeOK ==
  /\ now \in Nat \ {0} /\ up \in BOOLEAN /\ dbOpen \in BOOLEAN /\ loaded \in BOOLEAN
  /\ disk \in Contents /\ mem \in Contents /\ pending \in Contents
  /\ apply \in [pc : {"boot", "idle", "load", "restore", "retain", "store"}, retire : BOOLEAN, read : Contents]
  /\ storing \in [by : {"nobody", "apply", "ticker", "flush", "shutdown"}, snap : Contents]
  /\ flush \in {"idle", "flushed", "flushedEarly"}
  /\ done \subseteq Removals

\* The registry's copy: in a cache or, while no cache of the namespace is
\* attached, pending
Cur(s) == IF NamespaceOf[s] \in attached THEN mem[s] ELSE pending[s]

\* There is no other
Owned == \A s \in Slots : IF NamespaceOf[s] \in attached THEN pending[s] = None ELSE mem[s] = None

\* The phases: what is restored was read from an open file; with a file, nothing
\* but a flush stores before the file was loaded; one thread stores at a time,
\* from the phase that has it store
Order ==
  /\ apply.pc = "restore" => dbOpen
  /\ ~loaded => pending = Nothing
  /\ ~loaded /\ dbOpen => apply.pc \in {"boot", "load", "restore"}
  /\ storing.by = "apply" => apply.pc = "store"
  /\ storing.by = "flush" => flush # "idle"
  /\ storing.by # "nobody" /\ dbOpen /\ ~loaded => storing.by = "flush"
  /\ hourly => loaded
  /\ storing.by = "nobody" => storing.snap = Nothing

\* Removals.  The registry's copy was never subject to one; nor is any copy that
\* could still reach the file or be loaded, once the removal has completed
Clean(r, why) == r # None => why \notin r.removed

ClearAt(s, why) ==
  /\ Clean(Cur(s), why)
  /\ why \in done => Clean(disk[s], why) /\ Clean(storing.snap[s], why)
  /\ ~loaded /\ dbOpen => Clean(disk[s], why) /\ Clean(storing.snap[s], why) /\ Clean(apply.read[s], why)
  /\ storing.by = "apply" => Clean(storing.snap[s], "retired")
  /\ storing.by = "flush" => Clean(storing.snap[s], "flushed")

\* Clocks.  Content of this version carries its own; a legacy record gets one
\* when it is restored, and all copies of it that have one have the same
Dated(r, t) ==
  r # None => /\ r.written <= t /\ r.updatedAt <= t
              /\ r.written # 0 => r.updatedAt = r.written

Clocked(r) == r # None => r.updatedAt # 0

SameClock(q, r) ==
  (q # None /\ r # None /\ q.written = r.written /\ q.updatedAt # 0 /\ r.updatedAt # 0) =>
    q.updatedAt = r.updatedAt

ClocksAt(s) ==
  /\ Dated(disk[s], now) /\ Dated(Cur(s), now) /\ Dated(storing.snap[s], now) /\ Dated(apply.read[s], now)
  /\ Clocked(Cur(s)) /\ Clocked(storing.snap[s])
  /\ SameClock(disk[s], Cur(s)) /\ SameClock(disk[s], storing.snap[s]) /\ SameClock(Cur(s), storing.snap[s])
  /\ ~loaded => /\ Cur(s) # None => Cur(s).written # 0
                /\ storing.snap[s] # None => storing.snap[s].written # 0
  /\ ~loaded /\ apply.pc = "restore" /\ disk[s] # None /\ apply.read[s] # None =>
       (disk[s].written = 0 /\ apply.read[s].written = 0 => disk[s].updatedAt = apply.read[s].updatedAt)

\* Losses.  Live content of the file, of a snapshot too, is covered by the
\* registry's copy, which is no older; before the file was loaded, by what was
\* read from it
Live(r, t) == r # None /\ r.removed = {} /\ r.updatedAt > t - RetentionPeriod

Covers(q, r, t) == Live(r, t) => q # None /\ q.updatedAt >= r.updatedAt

KeptAt(s) ==
  /\ dbOpen /\ (loaded \/ flush # "idle") => Covers(Cur(s), disk[s], now)
  /\ dbOpen /\ storing.by # "nobody" /\ Live(disk[s], now) => storing.snap[s] # None
  /\ Covers(Cur(s), storing.snap[s], now)
  /\ ~loaded /\ Cur(s) # None /\ Live(disk[s], now) => Cur(s).updatedAt >= disk[s].updatedAt
  /\ ~loaded /\ apply.pc = "restore" /\ Live(disk[s], now) =>
       \/ apply.read[s] # None /\ apply.read[s].updatedAt = disk[s].updatedAt
       \/ Covers(Cur(s), disk[s], now)

SlotsOK == \A s \in Slots : (\A why \in {"flushed", "retired"} : ClearAt(s, why)) /\ ClocksAt(s) /\ KeptAt(s)

RegInv == RegistryTypeOK /\ Owned /\ Order /\ SlotsOK

-----------------------------------------------------------------------------
\* The value for no record is none of the records.
LEMMA NoneIsNoRecord == None \notin Record
BY NoneAssumption

\* The fields of a record.
LEMMA RecordFields ==
  ASSUME NEW r \in Record
  PROVE  r # None /\ r.written \in Nat /\ r.updatedAt \in Nat /\ r.due \in Nat /\ r.removed \subseteq Removals
BY NoneIsNoRecord DEF Record

\* What a copy holds for a slot.
LEMMA ContentsAt ==
  ASSUME NEW f \in Contents, NEW s \in Slots
  PROVE  f[s] \in Record \cup {None}
BY DEF Contents

\* The empty copy.
LEMMA NothingIn == Nothing \in Contents /\ \A s \in Slots : Nothing[s] = None
BY DEF Nothing, Contents

\* What Drop returns.
LEMMA DropIn ==
  ASSUME NEW f \in Contents, NEW S
  PROVE  /\ Drop(f, S) \in Contents
         /\ \A s \in Slots : Drop(f, S)[s] = IF s \in S THEN None ELSE f[s]
BY DEF Drop, Contents

\* A removal leaves the content and its clock alone.
LEMMA MarkedRecord ==
  ASSUME NEW r \in Record, NEW why \in Removals
  PROVE  /\ Marked(r, why) \in Record
         /\ Marked(r, why).written = r.written
         /\ Marked(r, why).updatedAt = r.updatedAt
         /\ Marked(r, why).removed = r.removed \cup {why}
BY DEF Marked, Record

\* What Mark returns.
LEMMA MarkIn ==
  ASSUME NEW f \in Contents, NEW S, NEW why \in Removals
  PROVE  /\ Mark(f, S, why) \in Contents
         /\ \A s \in Slots : Mark(f, S, why)[s] = IF s \in S /\ f[s] # None THEN Marked(f[s], why) ELSE f[s]
<1>1. \A s \in Slots : Mark(f, S, why)[s] = IF s \in S /\ f[s] # None THEN Marked(f[s], why) ELSE f[s]
  BY DEF Mark, Marked
<1>2. \A s \in Slots : Mark(f, S, why)[s] \in Record \cup {None}
  BY <1>1, ContentsAt, MarkedRecord
<1> QED
  BY <1>1, <1>2 DEF Mark, Contents

\* What registered.load leaves in the caches: a held record that is not too old stays.
LEMMA LoadIn ==
  ASSUME NEW held \in Contents, NEW records \in Contents
  PROVE  /\ Load(held, records) \in Contents
         /\ \A s \in Slots : Load(held, records)[s] =
              IF records[s] = None \/ Old(records[s]) \/ (held[s] # None /\ ~Old(held[s]))
                THEN held[s] ELSE records[s]
<1> DEFINE V(s) == IF records[s] = None \/ Old(records[s]) \/ (held[s] # None /\ ~Old(held[s]))
                THEN held[s] ELSE records[s]
<1>1. \A s \in Slots : Load(held, records)[s] = V(s)
  BY DEF Load
<1>2. \A s \in Slots : V(s) \in Record \cup {None}
  BY ContentsAt
<1> QED
  BY <1>1, <1>2 DEF Load, Contents

\* What remains once expired records are gone.
LEMMA UnexpiredIn ==
  ASSUME NEW f \in Contents
  PROVE  /\ Unexpired(f) \in Contents
         /\ \A s \in Slots : Unexpired(f)[s] = IF f[s] # None /\ Old(f[s]) THEN None ELSE f[s]
BY DropIn DEF Unexpired

\* A snapshot is the registry's copy without what has expired, attached or not.
LEMMA SnapshotIn ==
  ASSUME mem \in Contents, pending \in Contents
  PROVE  /\ Snapshot \in Contents
         /\ \A s \in Slots : Snapshot[s] = IF Cur(s) # None /\ Old(Cur(s)) THEN None ELSE Cur(s)
<1>1. \A s \in Slots : Snapshot[s] = IF Cur(s) # None /\ Old(Cur(s)) THEN None ELSE Cur(s)
  BY UnexpiredIn DEF Snapshot, Cur, In
<1>2. \A s \in Slots : Snapshot[s] \in Record \cup {None}
  BY <1>1, ContentsAt DEF Cur
<1> QED
  BY <1>1, <1>2 DEF Snapshot, Contents

\* recordUpdatedAt never sets a clock back, nor changes one that is set.
LEMMA RestoredRecord ==
  ASSUME NEW r \in Record, now \in Nat \ {0}
  PROVE  /\ Restored(r) \in Record
         /\ Restored(r).written = r.written
         /\ Restored(r).removed = r.removed
         /\ Restored(r).updatedAt # 0
         /\ Restored(r).updatedAt <= now
         /\ r.updatedAt <= now => Restored(r).updatedAt >= r.updatedAt
         /\ r.updatedAt \in 1 .. now => Restored(r).updatedAt = r.updatedAt
<1>1. /\ RecordUpdatedAt(r) \in Nat \ {0} /\ RecordUpdatedAt(r) <= now
      /\ r.updatedAt <= now => RecordUpdatedAt(r) >= r.updatedAt
      /\ r.updatedAt \in 1 .. now => RecordUpdatedAt(r) = r.updatedAt
  BY RecordFields DEF RecordUpdatedAt
<1> QED
  BY <1>1 DEF Restored, Record

\* What restoreAt keeps of the records it is given.
LEMMA RestoredIn ==
  ASSUME NEW records \in Contents, now \in Nat \ {0}
  PROVE  /\ RestoredAll(records) \in Contents
         /\ \A s \in Slots : RestoredAll(records)[s] =
              IF records[s] = None THEN None
              ELSE IF Old(Restored(records[s])) THEN None ELSE Restored(records[s])
<1>1. \A s \in Slots : RestoredAll(records)[s] =
              IF records[s] = None THEN None
              ELSE IF Old(Restored(records[s])) THEN None ELSE Restored(records[s])
  BY DEF RestoredAll
<1>2. \A s \in Slots : RestoredAll(records)[s] \in Record \cup {None}
  BY <1>1, ContentsAt, RestoredRecord
<1> QED
  BY <1>1, <1>2 DEF RestoredAll, Contents

\* The first restore loads the attached caches and keeps the rest pending.
LEMMA RestoreIs ==
  ASSUME NEW records \in Contents, Restore(records), ~loaded
  PROVE  /\ loaded' = TRUE
         /\ mem' = Load(mem, Drop(RestoredAll(records), Slots \ In(attached)))
         /\ pending' = Drop(RestoredAll(records), In(attached))
BY DEF Restore, RestoredAll, Restored
\* The fields of the threads' records.
LEMMA Fields ==
  ASSUME RegistryTypeOK
  PROVE  /\ now \in Nat \ {0}
         /\ apply.pc \in {"boot", "idle", "load", "restore", "retain", "store"}
         /\ apply.read \in Contents
         /\ storing.by \in {"nobody", "apply", "ticker", "flush", "shutdown"}
         /\ storing.snap \in Contents
         /\ disk \in Contents /\ mem \in Contents /\ pending \in Contents
BY DEF RegistryTypeOK

\* The copies of one slot.
LEMMA FieldsAt ==
  ASSUME RegistryTypeOK, NEW s \in Slots
  PROVE  /\ disk[s] \in Record \cup {None} /\ mem[s] \in Record \cup {None}
         /\ pending[s] \in Record \cup {None} /\ storing.snap[s] \in Record \cup {None}
         /\ apply.read[s] \in Record \cup {None} /\ Cur(s) \in Record \cup {None}
BY Fields, ContentsAt DEF Cur

\* The copies of one slot after a step.
LEMMA FieldsNext ==
  ASSUME RegistryTypeOK', NEW s \in Slots
  PROVE  /\ disk'[s] \in Record \cup {None} /\ mem'[s] \in Record \cup {None}
         /\ pending'[s] \in Record \cup {None} /\ storing'.snap[s] \in Record \cup {None}
         /\ apply'.read[s] \in Record \cup {None} /\ Cur(s)' \in Record \cup {None}
<1>1. /\ disk' \in Contents /\ mem' \in Contents /\ pending' \in Contents
      /\ storing'.snap \in Contents /\ apply'.read \in Contents
  BY DEF RegistryTypeOK
<1> QED
  BY <1>1, ContentsAt DEF Cur

\* q is a later copy of r: the same content, with what it was subject to since
Copy(q, r) ==
  IF r = None THEN q = None
  ELSE /\ q \in Record /\ q.written = r.written /\ q.updatedAt = r.updatedAt
       /\ r.removed \subseteq q.removed

\* Being a copy is reflexive.
LEMMA CopyOfItself == ASSUME NEW r \in Record \cup {None} PROVE Copy(r, r)
BY DEF Copy

\* Mark yields copies, subject to one removal more.
LEMMA MarkIsCopy ==
  ASSUME NEW f \in Contents, NEW S, NEW why \in Removals, NEW s \in Slots
  PROVE  /\ Copy(Mark(f, S, why)[s], f[s])
         /\ s \in S /\ f[s] # None => Mark(f, S, why)[s].removed = f[s].removed \cup {why}
         /\ s \notin S => Mark(f, S, why)[s] = f[s]
<1>1. Mark(f, S, why)[s] = IF s \in S /\ f[s] # None THEN Marked(f[s], why) ELSE f[s]
  BY MarkIn
<1>2. f[s] \in Record \cup {None}
  BY ContentsAt
<1> QED
  BY <1>1, <1>2, MarkedRecord, RecordFields DEF Copy

\* A later copy has the dates of the earlier and is live only if that was.
LEMMA CopyFacts ==
  ASSUME NEW q, NEW r \in Record \cup {None}, Copy(q, r), NEW t \in Nat, NEW u \in Nat, t <= u
  PROVE  /\ q = None <=> r = None
         /\ q # None => q.written = r.written /\ q.updatedAt = r.updatedAt
         /\ Dated(r, t) => Dated(q, u)
         /\ Live(q, u) => Live(r, t)
<1>1. CASE r = None
  BY <1>1 DEF Copy, Dated, Live
<1>2. CASE r # None
  <2>1. r \in Record /\ q \in Record /\ q.written = r.written /\ q.updatedAt = r.updatedAt
    BY <1>2 DEF Copy
  <2>2. q # None /\ r.written \in Nat /\ r.updatedAt \in Nat
    BY <2>1, RecordFields
  <2>3. q.removed = {} => r.removed = {}
    BY <1>2 DEF Copy
  <2>4. Dated(r, t) => Dated(q, u)
    BY <1>2, <2>1, <2>2 DEF Dated
  <2>5. RetentionPeriod \in Nat
    BY NumbersAssumption
  <2>6. Live(q, u) => Live(r, t)
    BY <1>2, <2>1, <2>2, <2>3, <2>5 DEF Live
  <2> QED
    BY <1>2, <2>1, <2>2, <2>4, <2>6
<1> QED
  BY <1>1, <1>2

\* The order of two dates.
LEMMA NotBoth == ASSUME NEW a \in Nat, NEW b \in Nat, a < b PROVE ~(a >= b)
OBVIOUS

\* Content that is still live is newer than any record that is too old.
LEMMA LiveIsNewer ==
  ASSUME NEW q \in Record, NEW r \in Record, NEW t \in Nat, q.updatedAt <= t - RetentionPeriod, Live(r, t)
  PROVE  q.updatedAt < r.updatedAt
<1>1. q.updatedAt \in Nat /\ r.updatedAt \in Nat /\ RetentionPeriod \in Nat
  BY RecordFields, NumbersAssumption
<1>2. r.updatedAt > t - RetentionPeriod
  BY DEF Live
<1> QED
  BY <1>1, <1>2

\* A record that is too old covers no live content.
LEMMA OldCoversNothing ==
  ASSUME NEW q \in Record, NEW r \in Record \cup {None}, NEW t \in Nat,
         q.updatedAt <= t - RetentionPeriod, Covers(q, r, t)
  PROVE  ~Live(r, t)
<1> SUFFICES ASSUME Live(r, t) PROVE FALSE
  OBVIOUS
<1>1. r \in Record /\ q.updatedAt >= r.updatedAt
  BY DEF Covers, Live
<1>2. q.updatedAt < r.updatedAt
  BY <1>1, LiveIsNewer
<1>3. q.updatedAt \in Nat /\ r.updatedAt \in Nat
  BY <1>1, RecordFields
<1> QED
  BY <1>1, <1>2, <1>3

\* Every record covers itself.
LEMMA CoversItself == ASSUME NEW r \in Record \cup {None}, NEW t PROVE Covers(r, r, t)
<1>1. r # None => r.updatedAt >= r.updatedAt
  BY RecordFields
<1> QED
  BY <1>1 DEF Covers, Live

\* What covered a record covers its later copies, and so do its own later copies.
LEMMA CoveredByCopy ==
  ASSUME NEW c \in Record \cup {None}, NEW d \in Record \cup {None}, NEW c1, NEW d1, Copy(c1, c), Copy(d1, d),
         NEW t \in Nat, NEW u \in Nat, t <= u, Covers(c, d, t)
  PROVE  Covers(c1, d1, u)
<1>1. Live(d1, u) => Live(d, t)
  BY CopyFacts
<1>2. Live(d1, u) => d1.updatedAt = d.updatedAt
  <2>1. Live(d1, u) => d1 # None
    BY DEF Live
  <2> QED
    BY <2>1, CopyFacts
<1>3. c # None => c1 # None /\ c1.updatedAt = c.updatedAt
  BY CopyFacts
<1> QED
  BY <1>1, <1>2, <1>3 DEF Covers

\* A record nothing covers has no live later copy.
LEMMA Uncovered ==
  ASSUME NEW d \in Record \cup {None}, NEW d1, Copy(d1, d), NEW t \in Nat, NEW u \in Nat, t <= u, ~Live(d, t),
         NEW c1
  PROVE  Covers(c1, d1, u)
<1>1. ~Live(d1, u)
  BY CopyFacts
<1> QED
  BY <1>1 DEF Covers

\* Content of this version has one clock in all its copies.
LEMMA WrittenSameClock ==
  ASSUME NEW q, NEW r, NEW t, Dated(q, t), Dated(r, t), r.written # 0
  PROVE  SameClock(q, r) /\ SameClock(r, q)
BY DEF Dated, SameClock

\* The registry lost a slot's record, which was too old or was removed
Lost(s) == /\ Cur(s)' = None
           /\ \/ Cur(s) = None \/ Cur(s).updatedAt <= now - RetentionPeriod
              \/ ~Live(disk'[s], now') /\ ~Live(storing'.snap[s], now')

\* A step in which copies are only removed, marked or dropped for their age keeps
\* the clocks and loses nothing.
LEMMA Fading ==
  ASSUME RegistryTypeOK, RegistryTypeOK', now' >= now, UNCHANGED <<loaded, dbOpen>>,
         storing'.by = storing.by,
         NEW s \in Slots, ClocksAt(s), KeptAt(s),
         flush' = flush \/ ~Live(disk'[s], now'),
         Copy(disk'[s], disk[s]), Copy(storing'.snap[s], storing.snap[s]),
         Dated(apply'.read[s], now'),
         apply'.pc # "restore" \/ (apply'.pc = apply.pc /\ Copy(apply'.read[s], apply.read[s])),
         Copy(Cur(s)', Cur(s)) \/ Lost(s)
  PROVE  ClocksAt(s)' /\ KeptAt(s)'
<1> DEFINE d == disk[s] k == storing.snap[s] r == apply.read[s] c == Cur(s)
           d1 == disk'[s] k1 == storing'.snap[s] r1 == apply'.read[s] c1 == Cur(s)'
<1>0. now \in Nat /\ now' \in Nat
  BY DEF RegistryTypeOK
<1>1. /\ d \in Record \cup {None} /\ k \in Record \cup {None} /\ r \in Record \cup {None} /\ c \in Record \cup {None}
      /\ d1 \in Record \cup {None} /\ k1 \in Record \cup {None} /\ r1 \in Record \cup {None} /\ c1 \in Record \cup {None}
  BY FieldsAt, FieldsNext
<1>2. /\ d1 = None <=> d = None
      /\ d1 # None => d1.written = d.written /\ d1.updatedAt = d.updatedAt
      /\ Dated(d1, now') /\ (Live(d1, now') => Live(d, now))
  <2>1. d \in Record \cup {None} /\ Copy(d1, d) /\ now <= now'
    BY <1>0, <1>1
  <2>2. Dated(d, now)
    BY DEF ClocksAt
  <2> HIDE DEF d, d1
  <2> QED BY <1>0, <2>1, <2>2, CopyFacts
<1>3. /\ k1 = None <=> k = None
      /\ k1 # None => k1.written = k.written /\ k1.updatedAt = k.updatedAt
      /\ Dated(k1, now') /\ (Live(k1, now') => Live(k, now))
  <2>1. k \in Record \cup {None} /\ Copy(k1, k) /\ now <= now'
    BY <1>0, <1>1
  <2>2. Dated(k, now)
    BY DEF ClocksAt
  <2> HIDE DEF k, k1
  <2> QED BY <1>0, <2>1, <2>2, CopyFacts
<1>4. apply'.pc = "restore" => /\ apply.pc = "restore" /\ (r1 = None <=> r = None)
                               /\ r1 # None => r1.written = r.written /\ r1.updatedAt = r.updatedAt
  <2>1. r \in Record \cup {None} /\ (apply'.pc = "restore" => apply.pc = "restore" /\ Copy(r1, r))
    BY <1>1
  <2> HIDE DEF r, r1
  <2> QED BY <1>0, <2>1, CopyFacts
<1>5. \/ /\ c # None /\ c1 # None /\ c1.written = c.written /\ c1.updatedAt = c.updatedAt /\ Dated(c1, now')
      \/ c1 = None /\ c = None
      \/ c1 = None /\ c.updatedAt <= now - RetentionPeriod
      \/ c1 = None /\ ~Live(d1, now') /\ ~Live(k1, now')
  BY <1>0, <1>1, CopyFacts DEF ClocksAt, Lost
<1>6. /\ ClocksAt(s) /\ KeptAt(s) /\ Dated(r1, now') /\ (flush' = flush \/ ~Live(d1, now'))
      /\ now <= now' /\ Copy(d1, d) /\ Copy(k1, k)
      /\ \/ Copy(c1, c) \/ c = None \/ (c # None /\ c.updatedAt <= now - RetentionPeriod)
         \/ ~Live(d1, now') /\ ~Live(k1, now')
  BY <1>0 DEF Lost
<1>7. /\ Dated(d1, now') /\ Dated(c1, now') /\ Dated(k1, now') /\ Dated(r1, now')
      /\ Clocked(c1) /\ Clocked(k1)
      /\ SameClock(d1, c1) /\ SameClock(d1, k1) /\ SameClock(c1, k1)
  BY <1>1, <1>2, <1>3, <1>5, <1>6 DEF ClocksAt, Dated, SameClock, Clocked
<1>8. ClocksAt(s)'
  BY <1>1, <1>2, <1>3, <1>4, <1>5, <1>6, <1>7 DEF ClocksAt
<1>9. KeptAt(s)'
  <2>1. Covers(c, d, now) => Covers(c1, d1, now')
    <3> SUFFICES ASSUME Covers(c, d, now) PROVE Covers(c1, d1, now')
      OBVIOUS
    <3> HIDE DEF c, c1, d, d1, k, k1
    <3>0. now <= now' /\ Copy(d1, d) /\ c \in Record \cup {None} /\ d \in Record \cup {None}
      BY <1>1, <1>6
    <3>1. CASE Copy(c1, c)
      BY <1>0, <3>0, <3>1, CoveredByCopy
    <3>2. CASE c = None
      <4>1. ~Live(d, now)
        BY <3>2 DEF Covers
      <4> QED
        BY <1>0, <3>0, <4>1, Uncovered
    <3>3. CASE c # None /\ c.updatedAt <= now - RetentionPeriod
      <4>1. ~Live(d, now)
        BY <1>0, <3>0, <3>3, OldCoversNothing
      <4> QED
        BY <1>0, <3>0, <4>1, Uncovered
    <3>4. CASE ~Live(d1, now')
      BY <3>4 DEF Covers
    <3> QED
      BY <1>6, <3>1, <3>2, <3>3, <3>4
  <2>2. Covers(c, k, now) => Covers(c1, k1, now')
    <3> SUFFICES ASSUME Covers(c, k, now) PROVE Covers(c1, k1, now')
      OBVIOUS
    <3> HIDE DEF c, c1, d, d1, k, k1
    <3>0. now <= now' /\ Copy(k1, k) /\ c \in Record \cup {None} /\ k \in Record \cup {None}
      BY <1>1, <1>6
    <3>1. CASE Copy(c1, c)
      BY <1>0, <3>0, <3>1, CoveredByCopy
    <3>2. CASE c = None
      <4>1. ~Live(k, now)
        BY <3>2 DEF Covers
      <4> QED
        BY <1>0, <3>0, <4>1, Uncovered
    <3>3. CASE c # None /\ c.updatedAt <= now - RetentionPeriod
      <4>1. ~Live(k, now)
        BY <1>0, <3>0, <3>3, OldCoversNothing
      <4> QED
        BY <1>0, <3>0, <4>1, Uncovered
    <3>4. CASE ~Live(k1, now')
      BY <3>4 DEF Covers
    <3> QED
      BY <1>6, <3>1, <3>2, <3>3, <3>4
  <2>3. c1 # None => c # None /\ c1.updatedAt = c.updatedAt
    BY <1>5
  <2>4. ~Live(d1, now') => Covers(c1, d1, now')
    BY DEF Covers
  <2> HIDE DEF d1, k1, r1, c1
  <2> QED
    BY <1>2, <1>3, <1>4, <1>6, <2>1, <2>2, <2>3, <2>4 DEF KeptAt, d1, k1, r1, c1
<1> QED
  BY <1>8, <1>9

\* What Fading asks of a slot
Fades(s) ==
  /\ flush' = flush \/ ~Live(disk'[s], now')
  /\ Copy(disk'[s], disk[s]) /\ Copy(storing'.snap[s], storing.snap[s])
  /\ Dated(apply'.read[s], now')
  /\ apply'.pc # "restore" \/ (apply'.pc = apply.pc /\ Copy(apply'.read[s], apply.read[s]))
  /\ Copy(Cur(s)', Cur(s)) \/ Lost(s)

\* What a step that only fades leaves to be shown: the removals.
LEMMA FadingSlots ==
  ASSUME RegInv, RegistryTypeOK', Owned', Order', now' >= now, UNCHANGED <<loaded, dbOpen>>,
         storing'.by = storing.by, \A s \in Slots : Fades(s),
         \A s \in Slots : \A why \in {"flushed", "retired"} : ClearAt(s, why)'
  PROVE  RegInv'
<1>1. ASSUME NEW s \in Slots PROVE ClocksAt(s)' /\ KeptAt(s)'
  <2>1. RegistryTypeOK /\ ClocksAt(s) /\ KeptAt(s)
    BY DEF RegInv, SlotsOK
  <2> QED
    BY <2>1, Fading DEF Fades
<1> QED
  BY <1>1 DEF RegInv, SlotsOK

\* The clock.
LEMMA StepTick == ASSUME RegInv, Tick PROVE RegInv'
<1>1. /\ now \in Nat /\ now' = now + 1
      /\ UNCHANGED <<disk, mem, pending, storing, apply, attached, loaded, dbOpen, flush, done, hourly, up>>
  BY DEF Tick, process, caches, threads, RegInv, RegistryTypeOK
<1>2. RegistryTypeOK' /\ Owned' /\ Order'
  BY <1>1 DEF RegInv, RegistryTypeOK, Owned, Order
<1>3. \A s \in Slots : Cur(s)' = Cur(s)
  BY <1>1 DEF Cur
<1>4. ASSUME NEW s \in Slots
      PROVE  /\ Copy(disk[s], disk[s]) /\ Copy(storing.snap[s], storing.snap[s])
             /\ Copy(apply.read[s], apply.read[s]) /\ Copy(Cur(s), Cur(s))
             /\ Dated(apply.read[s], now')
  <2>1. /\ Copy(disk[s], disk[s]) /\ Copy(storing.snap[s], storing.snap[s])
        /\ Copy(apply.read[s], apply.read[s]) /\ Copy(Cur(s), Cur(s))
    BY FieldsAt, CopyOfItself DEF RegInv
  <2>2. Dated(apply.read[s], now) /\ apply.read[s] \in Record \cup {None}
    BY FieldsAt DEF RegInv, SlotsOK, ClocksAt
  <2>3. now' \in Nat /\ now <= now'
    BY <1>1
  <2>4. Dated(apply.read[s], now')
    BY <1>1, <2>1, <2>2, <2>3, CopyFacts
  <2> QED
    BY <2>1, <2>4
<1>5. \A s \in Slots : \A why \in {"flushed", "retired"} : ClearAt(s, why)'
  BY <1>1, <1>3 DEF RegInv, SlotsOK, ClearAt
<1>fades. ASSUME NEW s \in Slots PROVE Fades(s)
  BY <1>1, <1>3, <1>4 DEF Fades
<1>same. now' >= now /\ UNCHANGED <<loaded, dbOpen>> /\ storing'.by = storing.by
  BY <1>1
<1> QED
  BY <1>fades, <1>same, <1>2, <1>5, FadingSlots

\* A crash.
LEMMA StepCrash == ASSUME RegInv, Crash PROVE RegInv'
<1>1. /\ now \in Nat /\ up' = FALSE
      /\ UNCHANGED <<now, disk, mem, pending, storing, apply, attached, loaded, dbOpen, flush, done, hourly>>
  BY DEF Crash, process, caches, threads, RegInv, RegistryTypeOK
<1>2. RegistryTypeOK' /\ Owned' /\ Order'
  BY <1>1 DEF RegInv, RegistryTypeOK, Owned, Order
<1>3. \A s \in Slots : Cur(s)' = Cur(s)
  BY <1>1 DEF Cur
<1>4. ASSUME NEW s \in Slots
      PROVE  /\ Copy(disk[s], disk[s]) /\ Copy(storing.snap[s], storing.snap[s])
             /\ Copy(apply.read[s], apply.read[s]) /\ Copy(Cur(s), Cur(s))
             /\ Dated(apply.read[s], now')
  <2>1. /\ Copy(disk[s], disk[s]) /\ Copy(storing.snap[s], storing.snap[s])
        /\ Copy(apply.read[s], apply.read[s]) /\ Copy(Cur(s), Cur(s))
    BY FieldsAt, CopyOfItself DEF RegInv
  <2>2. Dated(apply.read[s], now) /\ apply.read[s] \in Record \cup {None}
    BY FieldsAt DEF RegInv, SlotsOK, ClocksAt
  <2>3. now' \in Nat /\ now <= now'
    BY <1>1
  <2>4. Dated(apply.read[s], now')
    BY <1>1, <2>1, <2>2, <2>3, CopyFacts
  <2> QED
    BY <2>1, <2>4
<1>5. \A s \in Slots : \A why \in {"flushed", "retired"} : ClearAt(s, why)'
  BY <1>1, <1>3 DEF RegInv, SlotsOK, ClearAt
<1>fades. ASSUME NEW s \in Slots PROVE Fades(s)
  BY <1>1, <1>3, <1>4 DEF Fades
<1>same. now' >= now /\ UNCHANGED <<loaded, dbOpen>> /\ storing'.by = storing.by
  BY <1>1
<1> QED
  BY <1>fades, <1>same, <1>2, <1>5, FadingSlots

\* A query or a dial stores new content.
LEMMA StepWrite == ASSUME RegInv, NEW x \in Slots, Write(x) PROVE RegInv'
<1>1. /\ now \in Nat \ {0} /\ UNCHANGED <<now, up, dbOpen, disk, attached, pending, loaded, current, apply, hourly, storing, flush, done>>
      /\ mem' = [mem EXCEPT ![x] = Fresh] /\ NamespaceOf[x] \in attached
  BY DEF Write, process, threads, RegInv, RegistryTypeOK
<1>2. Fresh \in Record /\ Fresh.written = now /\ Fresh.updatedAt = now /\ Fresh.removed = {}
  BY <1>1, NumbersAssumption DEF Fresh, Record, Removals
<1>3. mem' \in Contents /\ \A s \in Slots : mem'[s] = IF s = x THEN Fresh ELSE mem[s]
  BY <1>1, <1>2, Fields DEF Contents, RegInv
<1>4. \A s \in Slots : Cur(s)' = IF s = x THEN Fresh ELSE Cur(s)
  BY <1>1, <1>3 DEF Cur
<1>5. RegistryTypeOK' /\ Owned' /\ Order'
  BY <1>1, <1>3 DEF RegInv, RegistryTypeOK, Owned, Order
<1>6. ASSUME NEW s \in Slots PROVE ClocksAt(s)'
  <2>1. CASE s = x
    <3>1. /\ disk'[s] = disk[s] /\ storing'.snap[s] = storing.snap[s] /\ apply'.read[s] = apply.read[s]
          /\ Cur(s)' = Fresh /\ Fresh # None
      BY <2>1, <1>1, <1>2, <1>4, RecordFields
    <3>2. ClocksAt(s) /\ disk[s] \in Record \cup {None} /\ storing.snap[s] \in Record \cup {None}
      BY FieldsAt DEF RegInv, SlotsOK
    <3>3. Dated(Fresh, now) /\ Clocked(Fresh) /\ SameClock(disk[s], Fresh) /\ SameClock(Fresh, storing.snap[s])
      <4>1. Dated(Fresh, now) /\ Clocked(Fresh) /\ Fresh.written # 0
        BY <1>1, <1>2 DEF Dated, Clocked
      <4>2. Dated(disk[s], now) /\ Dated(storing.snap[s], now)
        BY <3>2 DEF ClocksAt
      <4> QED
        BY <4>1, <4>2, WrittenSameClock
    <3> QED
      BY <1>1, <1>2, <3>1, <3>2, <3>3 DEF ClocksAt
  <2>2. CASE s # x
    BY <2>2, <1>1, <1>4 DEF RegInv, SlotsOK, ClocksAt
  <2> QED
    BY <2>1, <2>2
<1>7. ASSUME NEW s \in Slots PROVE KeptAt(s)'
  <2>1. CASE s = x
    <3>1. /\ disk'[s] = disk[s] /\ storing'.snap[s] = storing.snap[s] /\ apply'.read[s] = apply.read[s]
          /\ Cur(s)' = Fresh /\ Fresh # None
      BY <2>1, <1>1, <1>2, <1>4, RecordFields
    <3>2. ClocksAt(s) /\ KeptAt(s) /\ disk[s] \in Record \cup {None} /\ storing.snap[s] \in Record \cup {None}
      BY FieldsAt DEF RegInv, SlotsOK
    <3>3. /\ Covers(Fresh, disk[s], now) /\ Covers(Fresh, storing.snap[s], now)
          /\ Live(disk[s], now) => Fresh.updatedAt >= disk[s].updatedAt
      BY <1>1, <1>2, <3>1, <3>2, RecordFields DEF ClocksAt, Dated, Covers, Live
    <3> QED
      BY <1>1, <1>2, <3>1, <3>2, <3>3 DEF KeptAt
  <2>2. CASE s # x
    BY <2>2, <1>1, <1>4 DEF RegInv, SlotsOK, KeptAt
  <2> QED
    BY <2>1, <2>2
<1>8. \A s \in Slots : \A why \in {"flushed", "retired"} : ClearAt(s, why)'
  BY <1>1, <1>2, <1>4 DEF RegInv, SlotsOK, ClearAt, Clean
<1> QED
  BY <1>5, <1>6, <1>7, <1>8 DEF RegInv, SlotsOK

\* RefreshScope keeps the update clock.
LEMMA StepRefresh == ASSUME RegInv, NEW scope, RefreshScope(scope) PROVE RegInv'
<1> DEFINE Stale(r) == [r EXCEPT !.due = 0]
<1> DEFINE New(s) == IF ScopeOf[s] = scope /\ Unexpired(mem)[s] # None THEN Stale(mem[s]) ELSE Unexpired(mem)[s]
<1>1. /\ now \in Nat \ {0} /\ UNCHANGED <<now, up, dbOpen, disk, attached, pending, loaded, current, apply, hourly, storing, flush, done>>
      /\ mem' = [s \in Slots |-> New(s)]
  BY DEF RefreshScope, process, threads, RegInv, RegistryTypeOK
<1>2. \A r \in Record : Stale(r) \in Record /\ Copy(Stale(r), r) /\ Stale(r).removed = r.removed
  BY NoneIsNoRecord DEF Record, Copy
<1>3. \A s \in Slots : New(s) = IF mem[s] = None \/ Old(mem[s]) THEN None ELSE IF ScopeOf[s] = scope THEN Stale(mem[s]) ELSE mem[s]
  BY Fields, UnexpiredIn DEF RegInv
<1> HIDE DEF Stale, New
<1>4. ASSUME NEW s \in Slots
      PROVE  /\ mem'[s] \in Record \cup {None}
             /\ mem[s] # None /\ ~Old(mem[s]) => Copy(mem'[s], mem[s]) /\ mem'[s].removed = mem[s].removed
             /\ mem[s] = None \/ Old(mem[s]) => mem'[s] = None
  BY <1>1, <1>2, <1>3, FieldsAt, CopyOfItself DEF RegInv
<1>5. mem' \in Contents
  BY <1>1, <1>4 DEF Contents
<1>6. RegistryTypeOK' /\ Owned' /\ Order'
  BY <1>1, <1>4, <1>5 DEF RegInv, RegistryTypeOK, Owned, Order
<1>7. ASSUME NEW s \in Slots
      PROVE  /\ Copy(Cur(s)', Cur(s)) /\ Cur(s)' # None => Cur(s)'.removed = Cur(s).removed
             /\ Copy(Cur(s)', Cur(s)) \/ Lost(s)
  BY <1>1, <1>4, FieldsAt, CopyOfItself DEF Cur, Lost, Old, RegInv
<1>8. \A s \in Slots : \A why \in {"flushed", "retired"} : ClearAt(s, why)'
  BY <1>1, <1>7 DEF RegInv, SlotsOK, ClearAt, Clean, Copy, Lost
<1>9. \A s \in Slots : /\ Copy(disk[s], disk[s]) /\ Copy(storing.snap[s], storing.snap[s])
                       /\ Copy(apply.read[s], apply.read[s]) /\ Dated(apply.read[s], now')
  BY <1>1, FieldsAt, CopyOfItself DEF RegInv, SlotsOK, ClocksAt
<1>fades. ASSUME NEW s \in Slots PROVE Fades(s)
  BY <1>1, <1>7, <1>9 DEF Fades
<1>same. now' >= now /\ UNCHANGED <<loaded, dbOpen>> /\ storing'.by = storing.by
  BY <1>1
<1> QED
  BY <1>fades, <1>same, <1>6, <1>8, FadingSlots

\* Marking copies: content and clocks stay, other marks too
LEMMA MarkFacts ==
  ASSUME NEW f \in Contents, NEW S, NEW why \in Removals, NEW s \in Slots
  PROVE  \A w : w # why /\ Clean(f[s], w) => Clean(Mark(f, S, why)[s], w)
<1>1. f[s] \in Record \cup {None}
  BY ContentsAt
<1> QED
  BY <1>1, MarkIsCopy DEF Clean, Copy

\* What a removal reaches is no longer live.
LEMMA MarkedAt ==
  ASSUME NEW f \in Contents, NEW S, NEW why \in Removals, NEW s \in Slots, NEW t
  PROVE  /\ s \in S => ~Live(Mark(f, S, why)[s], t)
         /\ Dated(f[s], t) => Dated(Mark(f, S, why)[s], t)
<1>1. f[s] \in Record \cup {None}
  BY ContentsAt
<1> QED
  <2> DEFINE q == Mark(f, S, why)[s]
  <2>1. /\ Copy(q, f[s]) /\ (s \in S /\ f[s] # None => q.removed = f[s].removed \cup {why})
    BY MarkIsCopy
  <2> HIDE DEF q
  <2>2. s \in S => ~Live(q, t)
    BY <2>1 DEF Live, Copy
  <2>3. Dated(f[s], t) => Dated(q, t)
    <3>1. f[s] = None => q = None
      BY <2>1 DEF Copy
    <3>2. f[s] # None => q.written = f[s].written /\ q.updatedAt = f[s].updatedAt
      BY <2>1 DEF Copy
    <3> QED
      BY <3>1, <3>2 DEF Dated
  <2> QED
    BY <2>2, <2>3 DEF q

\* EvictNetworkScope.
LEMMA StepEvict == ASSUME RegInv, NEW scope, EvictScope(scope) PROVE RegInv'
<1> DEFINE S == {s \in Slots : ScopeOf[s] = scope}
           why == IF loaded THEN "evicted" ELSE "evictedEarly"
<1>1. /\ now \in Nat \ {0} /\ UNCHANGED <<now, up, dbOpen, attached, loaded, current, hourly, flush, done>>
      /\ mem' = Drop(Unexpired(mem), S) /\ pending' = Drop(pending, S)
      /\ disk' = Mark(disk, S, why)
      /\ storing' = [storing EXCEPT !.snap = Mark(storing.snap, S, why)]
      /\ apply' = [apply EXCEPT !.read = Mark(apply.read, S, why)]
  BY DEF EvictScope, MarkCopies, process, RegInv, RegistryTypeOK
<1>2. why \in Removals /\ why # "flushed" /\ why # "retired"
  BY DEF Removals
<1> HIDE DEF S, why
<1>3. /\ disk' \in Contents /\ mem' \in Contents /\ pending' \in Contents
      /\ Mark(storing.snap, S, why) \in Contents /\ Mark(apply.read, S, why) \in Contents
  BY <1>1, <1>2, Fields, MarkIn, DropIn, UnexpiredIn DEF RegInv
<1>4. /\ storing'.by = storing.by /\ storing'.snap = Mark(storing.snap, S, why)
      /\ apply'.pc = apply.pc /\ apply'.read = Mark(apply.read, S, why)
  BY <1>1 DEF RegInv, RegistryTypeOK
<1>5. RegistryTypeOK'
  BY <1>1, <1>3, <1>4 DEF RegInv, RegistryTypeOK
<1>6. \A s \in Slots :
        /\ mem'[s] = IF s \in S \/ (mem[s] # None /\ Old(mem[s])) THEN None ELSE mem[s]
        /\ pending'[s] = IF s \in S THEN None ELSE pending[s]
  BY <1>1, Fields, DropIn, UnexpiredIn DEF RegInv
<1>7. \A s \in Slots :
        /\ Cur(s)' = Cur(s) \/ Cur(s)' = None
        /\ s \notin S => Cur(s)' = Cur(s) \/ (Cur(s)' = None /\ Old(Cur(s)))
  BY <1>1, <1>6 DEF Cur
<1>8. storing.snap = Nothing => storing'.snap = Nothing
  BY <1>2, <1>4, MarkIn, NothingIn DEF Nothing, Mark
<1>9. pending = Nothing => pending' = Nothing
  BY <1>1, DropIn, NothingIn DEF Drop, Nothing
<1>10. Owned' /\ Order'
  BY <1>1, <1>4, <1>6, <1>8, <1>9 DEF RegInv, Owned, Order
<1>11. ASSUME NEW s \in Slots
       PROVE  /\ Copy(disk'[s], disk[s]) /\ Copy(storing'.snap[s], storing.snap[s])
              /\ Dated(apply'.read[s], now') /\ Copy(apply'.read[s], apply.read[s])
              /\ s \in S => ~Live(disk'[s], now') /\ ~Live(storing'.snap[s], now')
  <2>1. Dated(apply.read[s], now)
    BY DEF RegInv, SlotsOK, ClocksAt
  <2>2. Copy(Mark(disk, S, why)[s], disk[s]) /\ (s \in S => ~Live(Mark(disk, S, why)[s], now))
    BY <1>2, Fields, MarkIsCopy, MarkedAt DEF RegInv
  <2>3. /\ Copy(Mark(storing.snap, S, why)[s], storing.snap[s])
        /\ s \in S => ~Live(Mark(storing.snap, S, why)[s], now)
    BY <1>2, Fields, MarkIsCopy, MarkedAt DEF RegInv
  <2>4. Copy(Mark(apply.read, S, why)[s], apply.read[s]) /\ Dated(Mark(apply.read, S, why)[s], now)
    BY <1>2, <2>1, Fields, MarkIsCopy, MarkedAt DEF RegInv
  <2> QED
    BY <1>1, <1>4, <2>1, <2>2, <2>3, <2>4
<1>12. ASSUME NEW s \in Slots PROVE Copy(Cur(s)', Cur(s)) \/ Lost(s)
  BY <1>7, <1>11, FieldsAt, CopyOfItself DEF Lost, Old, RegInv
<1>13. ASSUME NEW s \in Slots, NEW w \in {"flushed", "retired"} PROVE ClearAt(s, w)'
  <2>1. /\ Clean(Cur(s), w) => Clean(Cur(s)', w)
        /\ \A v \in {"flushed", "retired"} :
           /\ Clean(disk[s], v) => Clean(disk'[s], v)
           /\ Clean(storing.snap[s], v) => Clean(storing'.snap[s], v)
           /\ Clean(apply.read[s], v) => Clean(apply'.read[s], v)
    BY <1>1, <1>2, <1>4, <1>7, Fields, MarkFacts DEF RegInv, Clean
  <2> QED
    BY <1>1, <1>4, <2>1 DEF RegInv, SlotsOK, ClearAt
<1>fades. ASSUME NEW s \in Slots PROVE Fades(s)
  BY <1>1, <1>4, <1>11, <1>12 DEF Fades
<1>same. now' >= now /\ UNCHANGED <<loaded, dbOpen>> /\ storing'.by = storing.by
  BY <1>1, <1>4
<1> QED
  BY <1>fades, <1>same, <1>5, <1>10, <1>13, FadingSlots

\* FlushDevCache up to its store.
LEMMA StepFlush == ASSUME RegInv, Flush PROVE RegInv'
<1> DEFINE why == IF loaded THEN "flushed" ELSE "flushedEarly"
<1>1. /\ now \in Nat \ {0} /\ UNCHANGED <<now, up, dbOpen, attached, loaded, current, hourly>>
      /\ mem' = Nothing /\ pending' = Nothing
      /\ disk' = Mark(disk, Slots, why)
      /\ storing' = [storing EXCEPT !.snap = Mark(storing.snap, Slots, why)]
      /\ apply' = [apply EXCEPT !.read = Mark(apply.read, Slots, why)]
      /\ flush = "idle" /\ flush' = why /\ done' = done \ {why}
  BY DEF Flush, ClearAll, MarkCopies, process, RegInv, RegistryTypeOK
<1>2. /\ why \in Removals /\ why \in {"flushed", "flushedEarly"} /\ why # "idle" /\ why # "retired"
      /\ ~loaded => why # "flushed"
  BY DEF Removals
<1> HIDE DEF why
<1>3. /\ disk' \in Contents /\ mem' \in Contents /\ pending' \in Contents
      /\ Mark(storing.snap, Slots, why) \in Contents /\ Mark(apply.read, Slots, why) \in Contents
  BY <1>1, <1>2, Fields, MarkIn, NothingIn DEF RegInv
<1>4. /\ storing'.by = storing.by /\ storing'.snap = Mark(storing.snap, Slots, why)
      /\ apply'.pc = apply.pc /\ apply'.read = Mark(apply.read, Slots, why)
  BY <1>1 DEF RegInv, RegistryTypeOK
<1>5. RegistryTypeOK'
  BY <1>1, <1>2, <1>3, <1>4 DEF RegInv, RegistryTypeOK
<1>6. \A s \in Slots : mem'[s] = None /\ pending'[s] = None /\ Cur(s)' = None
  BY <1>1, NothingIn DEF Cur
<1>7. storing.snap = Nothing => storing'.snap = Nothing
  BY <1>2, <1>4, MarkIn, NothingIn DEF Nothing, Mark
<1>8. Owned' /\ Order'
  BY <1>1, <1>2, <1>4, <1>6, <1>7 DEF RegInv, Owned, Order
<1>9. ASSUME NEW s \in Slots
       PROVE  /\ Copy(disk'[s], disk[s]) /\ Copy(storing'.snap[s], storing.snap[s])
              /\ Dated(apply'.read[s], now') /\ Copy(apply'.read[s], apply.read[s])
              /\ ~Live(disk'[s], now') /\ ~Live(storing'.snap[s], now')
  <2>1. Dated(apply.read[s], now)
    BY DEF RegInv, SlotsOK, ClocksAt
  <2>2. Copy(Mark(disk, Slots, why)[s], disk[s]) /\ (s \in Slots => ~Live(Mark(disk, Slots, why)[s], now))
    BY <1>2, Fields, MarkIsCopy, MarkedAt DEF RegInv
  <2>3. /\ Copy(Mark(storing.snap, Slots, why)[s], storing.snap[s])
        /\ s \in Slots => ~Live(Mark(storing.snap, Slots, why)[s], now)
    BY <1>2, Fields, MarkIsCopy, MarkedAt DEF RegInv
  <2>4. Copy(Mark(apply.read, Slots, why)[s], apply.read[s]) /\ Dated(Mark(apply.read, Slots, why)[s], now)
    BY <1>2, <2>1, Fields, MarkIsCopy, MarkedAt DEF RegInv
  <2> QED
    BY <1>1, <1>4, <2>1, <2>2, <2>3, <2>4
<1>10. ASSUME NEW s \in Slots PROVE Lost(s)
  BY <1>6, <1>9 DEF Lost
<1>11. ASSUME NEW s \in Slots, NEW w \in {"flushed", "retired"} PROVE ClearAt(s, w)'
  <2>1. /\ Clean(Cur(s)', w)
        /\ \A v \in {"flushed", "retired"} : v # why =>
           /\ Clean(disk[s], v) => Clean(disk'[s], v)
           /\ Clean(storing.snap[s], v) => Clean(storing'.snap[s], v)
           /\ Clean(apply.read[s], v) => Clean(apply'.read[s], v)
    BY <1>1, <1>2, <1>4, <1>6, Fields, MarkFacts DEF RegInv, Clean
  <2>2. storing.by # "flush"
    BY <1>1 DEF RegInv, Order
  <2> QED
    BY <1>1, <1>2, <1>4, <2>1, <2>2 DEF RegInv, SlotsOK, ClearAt
<1>fades. ASSUME NEW s \in Slots PROVE Fades(s)
  BY <1>1, <1>4, <1>9, <1>10 DEF Fades
<1>same. now' >= now /\ UNCHANGED <<loaded, dbOpen>> /\ storing'.by = storing.by
  BY <1>1, <1>4
<1> QED
  BY <1>fades, <1>same, <1>5, <1>8, <1>11, FadingSlots

\* RetainNamespaces.
LEMMA StepRetain == ASSUME RegInv, Retain PROVE RegInv'
<1> DEFINE S == Slots \ In(Keep)
<1>1. /\ now \in Nat \ {0} /\ UNCHANGED <<now, up, dbOpen, loaded, current, hourly, flush>>
      /\ mem' = Drop(mem, S) /\ pending' = Drop(pending, S) /\ attached' = attached \cap Keep
      /\ disk' = Mark(disk, S, "retired")
      /\ storing' = [storing EXCEPT !.snap = Mark(storing.snap, S, "retired")]
      /\ apply' = [apply EXCEPT !.pc = "store"] /\ apply.pc = "retain"
      /\ done' = done \ {"retired"}
  BY DEF Retain, RetainNamespaces, process, RegInv, RegistryTypeOK
<1>2. "retired" \in Removals
  BY DEF Removals
<1>3. \A s \in Slots : s \in S <=> NamespaceOf[s] \notin Keep
  BY DEF In
<1> HIDE DEF S
<1>4. /\ disk' \in Contents /\ mem' \in Contents /\ pending' \in Contents
      /\ Mark(storing.snap, S, "retired") \in Contents
  BY <1>1, <1>2, Fields, MarkIn, DropIn DEF RegInv
<1>5. /\ storing'.by = storing.by /\ storing'.snap = Mark(storing.snap, S, "retired")
      /\ apply'.pc = "store" /\ apply'.read = apply.read
  BY <1>1 DEF RegInv, RegistryTypeOK
<1>6. RegistryTypeOK'
  BY <1>1, <1>4, <1>5 DEF RegInv, RegistryTypeOK
<1>7. \A s \in Slots :
        /\ mem'[s] = IF s \in S THEN None ELSE mem[s]
        /\ pending'[s] = IF s \in S THEN None ELSE pending[s]
        /\ Cur(s)' = IF s \in S THEN None ELSE Cur(s)
  BY <1>1, <1>3, Fields, DropIn DEF RegInv, Cur
<1>8. storing.snap = Nothing => storing'.snap = Nothing
  BY <1>2, <1>5, MarkIn, NothingIn DEF Nothing, Mark
<1>9. pending = Nothing => pending' = Nothing
  BY <1>1, DropIn, NothingIn DEF Drop, Nothing
<1>10. loaded \/ ~dbOpen
  BY <1>1 DEF RegInv, Order
<1>11. Owned' /\ Order'
  BY <1>1, <1>3, <1>5, <1>7, <1>8, <1>9, <1>10 DEF RegInv, Owned, Order
<1>12. ASSUME NEW s \in Slots
       PROVE  /\ Copy(disk'[s], disk[s]) /\ Copy(storing'.snap[s], storing.snap[s])
              /\ Dated(apply'.read[s], now')
              /\ s \in S => ~Live(disk'[s], now') /\ ~Live(storing'.snap[s], now')
  <2>1. Dated(apply.read[s], now)
    BY DEF RegInv, SlotsOK, ClocksAt
  <2>2. Copy(Mark(disk, S, "retired")[s], disk[s]) /\ (s \in S => ~Live(Mark(disk, S, "retired")[s], now))
    BY <1>2, Fields, MarkIsCopy, MarkedAt DEF RegInv
  <2>3. /\ Copy(Mark(storing.snap, S, "retired")[s], storing.snap[s])
        /\ s \in S => ~Live(Mark(storing.snap, S, "retired")[s], now)
    BY <1>2, Fields, MarkIsCopy, MarkedAt DEF RegInv
  <2> QED
    BY <1>1, <1>5, <2>1, <2>2, <2>3
<1>13. ASSUME NEW s \in Slots PROVE Copy(Cur(s)', Cur(s)) \/ Lost(s)
  BY <1>7, <1>12, FieldsAt, CopyOfItself DEF Lost, RegInv
<1>14. ASSUME NEW s \in Slots, NEW w \in {"flushed", "retired"} PROVE ClearAt(s, w)'
  <2>1. /\ Clean(Cur(s), w) => Clean(Cur(s)', w)
        /\ Clean(disk[s], "flushed") => Clean(disk'[s], "flushed")
        /\ Clean(storing.snap[s], "flushed") => Clean(storing'.snap[s], "flushed")
    BY <1>1, <1>2, <1>5, <1>7, Fields, MarkFacts DEF RegInv, Clean
  <2>2. storing.by # "apply"
    BY <1>1 DEF RegInv, Order
  <2> QED
    BY <1>1, <1>5, <1>10, <2>1, <2>2 DEF RegInv, SlotsOK, ClearAt
<1>fades. ASSUME NEW s \in Slots PROVE Fades(s)
  BY <1>1, <1>5, <1>12, <1>13 DEF Fades
<1>same. now' >= now /\ UNCHANGED <<loaded, dbOpen>> /\ storing'.by = storing.by
  BY <1>1, <1>5
<1> QED
  BY <1>fades, <1>same, <1>6, <1>11, <1>14, FadingSlots

\* Registering the caches of a configuration hands them their pending records.
LEMMA StepRegister == ASSUME RegInv, NEW cfg, NEW retire \in BOOLEAN, Register(cfg, retire) PROVE RegInv'
<1> DEFINE new == In(cfg \ attached)
<1>1. /\ now \in Nat \ {0} /\ UNCHANGED <<now, up, dbOpen, disk, loaded, hourly, storing, flush, done>>
      /\ attached' = attached \cup cfg
      /\ mem' = Load(mem, Drop(pending, Slots \ new)) /\ pending' = Drop(pending, new)
      /\ apply' = [pc |-> "load", retire |-> retire, read |-> Nothing]
      /\ apply.pc \in {"boot", "idle"}
  BY DEF Register, Attach, process, RegInv, RegistryTypeOK
<1>2. \A s \in Slots : s \in new <=> NamespaceOf[s] \in cfg /\ NamespaceOf[s] \notin attached
  BY DEF In
<1> HIDE DEF new
<1>3. /\ mem' \in Contents /\ pending' \in Contents
      /\ \A s \in Slots : Drop(pending, Slots \ new)[s] = IF s \in new THEN pending[s] ELSE None
      /\ \A s \in Slots : pending'[s] = IF s \in new THEN None ELSE pending[s]
      /\ mem \in Contents /\ Drop(pending, Slots \ new) \in Contents
  <2>1. mem \in Contents /\ pending \in Contents
    BY Fields DEF RegInv
  <2>2. /\ Drop(pending, Slots \ new) \in Contents /\ Drop(pending, new) \in Contents
        /\ \A s \in Slots : Drop(pending, Slots \ new)[s] = IF s \in new THEN pending[s] ELSE None
        /\ \A s \in Slots : Drop(pending, new)[s] = IF s \in new THEN None ELSE pending[s]
    BY <2>1, DropIn
  <2>3. Load(mem, Drop(pending, Slots \ new)) \in Contents
    BY <2>1, <2>2, LoadIn
  <2> QED
    BY <1>1, <2>1, <2>2, <2>3
<1>4. \A s \in Slots : mem'[s] = IF s \in new THEN (IF pending[s] = None \/ Old(pending[s]) THEN None ELSE pending[s])
                                 ELSE mem[s]
  <2> TAKE s \in Slots
  <2>1. s \in new => mem[s] = None
    BY <1>2 DEF RegInv, Owned
  <2>2. mem'[s] = LET d == Drop(pending, Slots \ new)[s] IN
                  IF d = None \/ Old(d) \/ (mem[s] # None /\ ~Old(mem[s])) THEN mem[s] ELSE d
    BY <1>1, <1>3, LoadIn
  <2> QED
    BY <1>3, <2>1, <2>2
<1>5. \A s \in Slots : Cur(s)' = Cur(s) \/ (Cur(s)' = None /\ Old(Cur(s)))
  BY <1>1, <1>2, <1>3, <1>4 DEF Cur
<1>6. RegistryTypeOK'
  BY <1>1, <1>3, NothingIn DEF RegInv, RegistryTypeOK
<1>7. pending = Nothing => pending' = Nothing
  BY <1>1, DropIn, NothingIn DEF Drop, Nothing
<1>8. apply'.pc = "load" /\ apply'.read = Nothing
  BY <1>1
<1>9. Owned' /\ Order'
  <2>1. \A s \in Slots : pending'[s] = IF s \in new THEN None ELSE pending[s]
    BY <1>3
  <2>2. Owned'
    BY <1>1, <1>2, <1>4, <2>1 DEF RegInv, Owned
  <2>3. Order'
    BY <1>1, <1>7, <1>8 DEF RegInv, Order
  <2> QED BY <2>2, <2>3
<1>10. ASSUME NEW s \in Slots
       PROVE  /\ Copy(disk'[s], disk[s]) /\ Copy(storing'.snap[s], storing.snap[s])
              /\ Dated(apply'.read[s], now') /\ (Copy(Cur(s)', Cur(s)) \/ Lost(s))
  BY <1>1, <1>5, <1>8, FieldsAt, NothingIn, CopyOfItself DEF RegInv, Dated, Lost, Old
<1>11. ASSUME NEW s \in Slots, NEW w \in {"flushed", "retired"} PROVE ClearAt(s, w)'
  <2>1. Clean(Cur(s), w) => Clean(Cur(s)', w)
    BY <1>5 DEF Clean
  <2>2. Clean(apply'.read[s], w)
    BY <1>8, NothingIn DEF Clean
  <2> QED
    BY <1>1, <2>1, <2>2 DEF RegInv, SlotsOK, ClearAt
<1>fades. ASSUME NEW s \in Slots PROVE Fades(s)
  BY <1>1, <1>8, <1>10 DEF Fades
<1>same. now' >= now /\ UNCHANGED <<loaded, dbOpen>> /\ storing'.by = storing.by
  BY <1>1
<1> QED
  BY <1>fades, <1>same, <1>6, <1>9, <1>11, FadingSlots

\* A load without a database.
LEMMA StepLoadFails == ASSUME RegInv, LoadFails PROVE RegInv'
<1>1. /\ now \in Nat \ {0} /\ ~dbOpen
      /\ UNCHANGED <<now, up, dbOpen, disk, mem, pending, attached, loaded, hourly, storing, flush, done>>
      /\ apply' = AfterLoad /\ apply.pc = "load"
  BY DEF LoadFails, process, caches, RegInv, RegistryTypeOK
<1>2. /\ AfterLoad \in [pc : {"idle", "retain"}, retire : BOOLEAN, read : {Nothing}]
  BY DEF AfterLoad, RegInv, RegistryTypeOK
<1>3. apply'.pc \in {"idle", "retain"} /\ apply'.read = Nothing
  BY <1>1, <1>2
<1>4. RegistryTypeOK'
  BY <1>1, <1>2, NothingIn DEF RegInv, RegistryTypeOK
<1>5. Owned' /\ Order'
  BY <1>1, <1>3 DEF RegInv, Owned, Order
<1>6. \A s \in Slots : Cur(s)' = Cur(s)
  BY <1>1 DEF Cur
<1>7. ASSUME NEW s \in Slots
      PROVE  /\ Copy(disk'[s], disk[s]) /\ Copy(storing'.snap[s], storing.snap[s])
             /\ Dated(apply'.read[s], now') /\ Copy(Cur(s)', Cur(s))
  BY <1>1, <1>3, <1>6, FieldsAt, NothingIn, CopyOfItself DEF RegInv, Dated
<1>8. ASSUME NEW s \in Slots, NEW w \in {"flushed", "retired"} PROVE ClearAt(s, w)'
  BY <1>1, <1>6 DEF RegInv, SlotsOK, ClearAt
<1>fades. ASSUME NEW s \in Slots PROVE Fades(s)
  BY <1>1, <1>3, <1>7 DEF Fades
<1>same. now' >= now /\ UNCHANGED <<loaded, dbOpen>> /\ storing'.by = storing.by
  BY <1>1
<1> QED
  BY <1>fades, <1>same, <1>4, <1>5, <1>8, FadingSlots

\* The read of the file.
LEMMA StepLoadReads == ASSUME RegInv, LoadReads PROVE RegInv'
<1>1. /\ now \in Nat \ {0} /\ dbOpen
      /\ UNCHANGED <<now, up, dbOpen, disk, mem, pending, attached, loaded, hourly, storing, flush, done>>
      /\ apply' = [apply EXCEPT !.pc = "restore", !.read = disk] /\ apply.pc = "load"
  BY DEF LoadReads, process, caches, RegInv, RegistryTypeOK
<1>2. apply'.pc = "restore" /\ apply'.read = disk
  BY <1>1 DEF RegInv, RegistryTypeOK
<1>3. RegistryTypeOK'
  BY <1>1 DEF RegInv, RegistryTypeOK
<1>4. Owned' /\ Order'
  BY <1>1, <1>2 DEF RegInv, Owned, Order
<1>5. \A s \in Slots : Cur(s)' = Cur(s)
  BY <1>1 DEF Cur
<1>6. ASSUME NEW s \in Slots PROVE ClocksAt(s)'
  BY <1>1, <1>2, <1>5 DEF RegInv, SlotsOK, ClocksAt
<1>7. ASSUME NEW s \in Slots PROVE KeptAt(s)'
  BY <1>1, <1>2, <1>5 DEF RegInv, SlotsOK, KeptAt, Live
<1>8. ASSUME NEW s \in Slots, NEW w \in {"flushed", "retired"} PROVE ClearAt(s, w)'
  BY <1>1, <1>2, <1>5 DEF RegInv, SlotsOK, ClearAt
<1> QED
  BY <1>3, <1>4, <1>6, <1>7, <1>8 DEF RegInv, SlotsOK

\* The restore of what was read, some steps before.
LEMMA StepLoadRestores == ASSUME RegInv, LoadRestores PROVE RegInv'
<1>1. /\ now \in Nat \ {0} /\ apply.pc = "restore" /\ dbOpen
      /\ UNCHANGED <<now, up, dbOpen, disk, attached, storing, flush, done>>
      /\ apply' = AfterLoad /\ hourly' = TRUE /\ Restore(apply.read)
  BY DEF LoadRestores, process, caches, RegInv, RegistryTypeOK, Order
<1>2. AfterLoad \in [pc : {"idle", "retain"}, retire : BOOLEAN, read : {Nothing}]
  BY DEF AfterLoad, RegInv, RegistryTypeOK
<1>3. apply'.pc \in {"idle", "retain"} /\ apply'.read = Nothing
  BY <1>1, <1>2
<1>4. CASE loaded
  <2>1. UNCHANGED <<mem, pending, loaded>>
    BY <1>1, <1>4 DEF Restore
  <2>2. RegistryTypeOK'
    BY <1>1, <1>2, <2>1, NothingIn DEF RegInv, RegistryTypeOK
  <2>3. Owned' /\ Order'
    BY <1>1, <1>3, <1>4, <2>1 DEF RegInv, Owned, Order
  <2>4. \A s \in Slots : Cur(s)' = Cur(s)
    BY <1>1, <2>1 DEF Cur
  <2>5. ASSUME NEW s \in Slots
        PROVE  /\ Copy(disk'[s], disk[s]) /\ Copy(storing'.snap[s], storing.snap[s])
               /\ Dated(apply'.read[s], now') /\ Copy(Cur(s)', Cur(s))
    BY <1>1, <1>3, <2>4, FieldsAt, NothingIn, CopyOfItself DEF RegInv, Dated
  <2>6. ASSUME NEW s \in Slots, NEW w \in {"flushed", "retired"} PROVE ClearAt(s, w)'
    BY <1>1, <1>4, <2>1, <2>4 DEF RegInv, SlotsOK, ClearAt
  <2>fades. ASSUME NEW s \in Slots PROVE Fades(s)
    BY <1>1, <1>3, <2>1, <2>5 DEF Fades
  <2>same. now' >= now /\ UNCHANGED <<loaded, dbOpen>> /\ storing'.by = storing.by
    BY <1>1, <2>1
  <2> QED
    BY <2>fades, <2>same, <2>2, <2>3, <2>6, FadingSlots
<1>5. CASE ~loaded
  <2> DEFINE kept == RestoredAll(apply.read)
  <2>1. /\ loaded' = TRUE /\ mem' = Load(mem, Drop(kept, Slots \ In(attached))) /\ pending' = Drop(kept, In(attached))
    BY <1>1, <1>5, Fields, RestoreIs DEF RegInv
  <2>2. /\ kept \in Contents
        /\ \A s \in Slots : kept[s] = IF apply.read[s] = None \/ Old(Restored(apply.read[s])) THEN None
                                      ELSE Restored(apply.read[s])
    BY <1>1, Fields, RestoredIn DEF RegInv
  <2> HIDE DEF kept
  <2>3. \A s \in Slots : s \in In(attached) <=> NamespaceOf[s] \in attached
    BY DEF In
  <2>4. /\ mem' \in Contents /\ pending' \in Contents
        /\ \A s \in Slots : pending'[s] = IF NamespaceOf[s] \in attached THEN None ELSE kept[s]
        /\ \A s \in Slots : Drop(kept, Slots \ In(attached))[s] = IF NamespaceOf[s] \in attached THEN kept[s] ELSE None
    <3>1. mem \in Contents
      BY Fields DEF RegInv
    <3>2. Drop(kept, Slots \ In(attached)) \in Contents /\ Drop(kept, In(attached)) \in Contents
      BY <2>2, DropIn
    <3>3. Load(mem, Drop(kept, Slots \ In(attached))) \in Contents
      BY <3>1, <3>2, LoadIn
    <3>4. \A s \in Slots : Drop(kept, In(attached))[s] = IF NamespaceOf[s] \in attached THEN None ELSE kept[s]
      BY <2>2, <2>3, DropIn
    <3>5. \A s \in Slots : Drop(kept, Slots \ In(attached))[s] = IF NamespaceOf[s] \in attached THEN kept[s] ELSE None
      BY <2>2, <2>3, DropIn
    <3> QED
      BY <2>1, <3>2, <3>3, <3>4, <3>5
  <2>5. \A s \in Slots : mem'[s] = LET k == Drop(kept, Slots \ In(attached))[s] IN
                    IF k = None \/ Old(k) \/ (mem[s] # None /\ ~Old(mem[s])) THEN mem[s] ELSE k
    <3> DEFINE recs == Drop(kept, Slots \ In(attached))
    <3>1. recs \in Contents
      BY <2>2, DropIn
    <3>2. mem \in Contents
      BY Fields DEF RegInv
    <3>3. mem' = Load(mem, recs)
      BY <2>1
    <3> HIDE DEF recs
    <3>4. \A s \in Slots : mem'[s] = IF recs[s] = None \/ Old(recs[s]) \/ (mem[s] # None /\ ~Old(mem[s])) THEN mem[s] ELSE recs[s]
      BY <3>1, <3>2, <3>3, LoadIn
    <3> QED
      BY <3>4 DEF recs
  <2>6. \A s \in Slots : NamespaceOf[s] \notin attached => mem[s] = None /\ pending[s] = None
    BY <1>5, NothingIn DEF RegInv, Owned, Order
  <2>7. \A s \in Slots : Cur(s)' = IF kept[s] = None \/ (Cur(s) # None /\ ~Old(Cur(s))) THEN Cur(s) ELSE kept[s]
    <3> TAKE s \in Slots
    <3>1. kept[s] # None => ~Old(kept[s])
      BY <2>2
    <3>2. CASE NamespaceOf[s] \in attached
      BY <1>1, <2>4, <2>5, <3>1, <3>2 DEF Cur
    <3>3. CASE NamespaceOf[s] \notin attached
      BY <1>1, <2>4, <2>6, <3>3 DEF Cur
    <3> QED
      BY <3>2, <3>3
  <2>8. RegistryTypeOK'
    BY <1>1, <1>2, <2>1, <2>4, NothingIn DEF RegInv, RegistryTypeOK
  <2>9. Owned' /\ Order'
    BY <1>1, <1>3, <2>1, <2>4, <2>5, <2>6 DEF RegInv, Owned, Order
  <2>10. ASSUME NEW s \in Slots
         PROVE ClocksAt(s)' /\ KeptAt(s)' /\ \A w \in {"flushed", "retired"} : ClearAt(s, w)'
    <3> DEFINE d == disk[s] c == Cur(s) k == storing.snap[s] r == apply.read[s] c1 == Cur(s)'
    <3>1. /\ d \in Record \cup {None} /\ c \in Record \cup {None} /\ k \in Record \cup {None} /\ r \in Record \cup {None}
          /\ disk'[s] = d /\ storing'.snap[s] = k /\ apply'.read[s] = None
      BY <1>1, <1>3, FieldsAt, NothingIn DEF RegInv
    <3>2. ClocksAt(s) /\ KeptAt(s) /\ \A w \in {"flushed", "retired"} : ClearAt(s, w)
      BY DEF RegInv, SlotsOK
    <3>3. CASE c1 = c
      <4>1. ClocksAt(s)'
        BY <1>1, <1>3, <2>1, <3>1, <3>2, <3>3 DEF ClocksAt, Dated
      <4>2. Live(d, now) => c # None /\ c.updatedAt >= d.updatedAt
        <5> SUFFICES ASSUME Live(d, now) PROVE c # None /\ c.updatedAt >= d.updatedAt
          OBVIOUS
        <5>1. c # None => c.updatedAt >= d.updatedAt
          BY <1>5, <3>2 DEF KeptAt
        <5>2. CASE c = None
          <6>1. r # None /\ r.updatedAt = d.updatedAt
            BY <1>1, <1>5, <3>2, <5>2 DEF KeptAt, Covers
          <6>2. kept[s] = None
            BY <2>2, <2>7, <3>3, <5>2
          <6>3. Old(Restored(r)) /\ Restored(r).updatedAt >= r.updatedAt /\ Restored(r) \in Record
            <7>1. r \in Record /\ r.updatedAt <= now
              BY <3>1, <3>2, <6>1 DEF ClocksAt, Dated
            <7>2. Restored(r) # None /\ Old(Restored(r))
              BY <1>1, <2>2, <6>1, <6>2, <7>1, RestoredRecord, NoneIsNoRecord
            <7> QED
              BY <1>1, <7>1, <7>2, RestoredRecord
          <6>4. d \in Record /\ d.updatedAt \in Nat /\ Restored(r).updatedAt \in Nat
            <7>1. d \in Record
              BY <3>1 DEF Live
            <7> QED
              BY <6>3, <7>1, RecordFields
          <6>5. Restored(r).updatedAt < d.updatedAt
            BY <1>1, <6>3, <6>4, LiveIsNewer DEF Old
          <6>6. ~(Restored(r).updatedAt >= d.updatedAt)
            BY <6>4, <6>5, NotBoth
          <6> QED
            BY <6>1, <6>3, <6>6
        <5> QED
          BY <5>1, <5>2
      <4>3. KeptAt(s)'
        BY <1>1, <1>3, <2>1, <3>1, <3>2, <3>3, <4>2 DEF KeptAt, Covers
      <4>4. \A w \in {"flushed", "retired"} : ClearAt(s, w)'
        BY <1>1, <2>1, <3>1, <3>2, <3>3 DEF ClearAt
      <4> QED
        BY <4>1, <4>3, <4>4
    <3>4. CASE c1 # c
      <4>1. /\ r \in Record /\ c1 = Restored(r) /\ ~Old(c1) /\ (c = None \/ Old(c))
        BY <2>2, <2>7, <3>1, <3>4
      <4>2. /\ c1 \in Record /\ c1.written = r.written /\ c1.removed = r.removed
            /\ c1.updatedAt # 0 /\ c1.updatedAt <= now /\ c1.updatedAt >= r.updatedAt
            /\ r.updatedAt # 0 => c1.updatedAt = r.updatedAt
        <5>1. r.updatedAt <= now /\ r.updatedAt \in Nat /\ r # None
          BY <3>2, <4>1, RecordFields DEF ClocksAt, Dated
        <5> HIDE DEF r, c1
        <5> QED
          BY <1>1, <4>1, <5>1, RestoredRecord
      <4>3. ClocksAt(s)'
        <5>1. Dated(c1, now) /\ Clocked(c1)
          BY <3>2, <4>1, <4>2, RecordFields DEF ClocksAt, Dated, Clocked
        <5>2. SameClock(d, c1)
          BY <1>1, <1>5, <3>1, <3>2, <4>1, <4>2, RecordFields DEF ClocksAt, Dated, SameClock
        <5>3. SameClock(c1, k)
          BY <1>1, <1>5, <3>1, <3>2, <4>1, <4>2, RecordFields DEF ClocksAt, Dated, SameClock
        <5> QED
          BY <1>1, <1>3, <2>1, <3>1, <3>2, <5>1, <5>2, <5>3 DEF ClocksAt, Dated
      <4>4. KeptAt(s)'
        <5>1. c1 # None /\ c1.updatedAt \in Nat
          BY <4>2, RecordFields
        <5>2. Live(d, now) => c1.updatedAt >= d.updatedAt
          <6> SUFFICES ASSUME Live(d, now) PROVE c1.updatedAt >= d.updatedAt
            OBVIOUS
          <6>0. d \in Record
            BY <3>1 DEF Live
          <6>1. c = None \/ (c \in Record /\ c.updatedAt < d.updatedAt)
            BY <1>1, <3>1, <4>1, <6>0, LiveIsNewer DEF Old
          <6>2. r.updatedAt = d.updatedAt
            <7>1. r.updatedAt = d.updatedAt \/ Covers(c, d, now)
              BY <1>1, <1>5, <3>2 DEF KeptAt
            <7>2. ASSUME c \in Record, c.updatedAt < d.updatedAt PROVE ~(c.updatedAt >= d.updatedAt)
              <8>1. c.updatedAt \in Nat /\ d.updatedAt \in Nat
                BY <6>0, <7>2, RecordFields
              <8> QED
                BY <7>2, <8>1, NotBoth
            <7>3. ~Covers(c, d, now)
              BY <6>1, <7>2 DEF Covers
            <7> QED
              BY <7>1, <7>3
          <6> QED
            BY <4>2, <6>2
        <5>3. ~Live(k, now)
          <6>1. Covers(c, k, now)
            BY <3>2 DEF KeptAt
          <6>2. CASE c = None
            BY <6>1, <6>2 DEF Covers
          <6>3. CASE c # None /\ Old(c)
            BY <1>1, <3>1, <6>1, <6>3, OldCoversNothing DEF Old
          <6> QED
            BY <4>1, <6>2, <6>3
        <5> QED
          BY <1>1, <1>3, <2>1, <3>1, <3>2, <5>1, <5>2, <5>3 DEF KeptAt, Covers
      <4>5. \A w \in {"flushed", "retired"} : ClearAt(s, w)'
        BY <1>1, <1>5, <2>1, <3>1, <3>2, <4>1, <4>2 , RecordFields DEF ClearAt, Clean
      <4> QED
        BY <4>3, <4>4, <4>5
    <3> QED
      BY <3>3, <3>4
  <2> QED
    BY <2>8, <2>9, <2>10 DEF RegInv, SlotsOK
<1> QED
  BY <1>4, <1>5

\* StoreCache takes storeMu and its snapshot.
LEMMA StepStoreBegin ==
  ASSUME RegInv, NEW by \in {"apply", "ticker", "flush", "shutdown"}, StoreBegin(by) PROVE RegInv'
<1>1. /\ now \in Nat \ {0} /\ UNCHANGED <<now, up, dbOpen, disk, attached, loaded, apply, hourly, flush, done>>
      /\ storing.by = "nobody" /\ MayStore(by)
      /\ storing' = [by |-> by, snap |-> Snapshot]
      /\ mem' = Unexpired(mem) /\ pending' = Unexpired(pending)
  BY DEF StoreBegin, process, RegInv, RegistryTypeOK
<1>2. storing'.by = by /\ storing'.snap = Snapshot
  BY <1>1
<1>3. /\ Snapshot \in Contents /\ mem' \in Contents /\ pending' \in Contents
      /\ \A s \in Slots : /\ Snapshot[s] = IF Cur(s) # None /\ Old(Cur(s)) THEN None ELSE Cur(s)
                          /\ mem'[s] = IF mem[s] # None /\ Old(mem[s]) THEN None ELSE mem[s]
                          /\ pending'[s] = IF pending[s] # None /\ Old(pending[s]) THEN None ELSE pending[s]
  BY <1>1, Fields, SnapshotIn, UnexpiredIn DEF RegInv
<1>4. \A s \in Slots : Cur(s)' = Snapshot[s]
  BY <1>1, <1>3 DEF Cur
<1>5. RegistryTypeOK'
  BY <1>1, <1>3 DEF RegInv, RegistryTypeOK
<1>6. pending = Nothing => pending' = Nothing
  BY <1>1, DropIn, NothingIn DEF Unexpired, Drop, Nothing
<1>7. /\ by = "apply" => apply.pc = "store"
      /\ by = "flush" => flush # "idle"
      /\ dbOpen /\ ~loaded => by = "flush"
  BY <1>1 DEF MayStore, RegInv, Order
<1>8. Owned' /\ Order'
  BY <1>1, <1>2, <1>3, <1>6, <1>7 DEF RegInv, Owned, Order
<1>9. ASSUME NEW s \in Slots
      PROVE ClocksAt(s)' /\ KeptAt(s)' /\ \A w \in {"flushed", "retired"} : ClearAt(s, w)'
  <2> DEFINE d == disk[s] c == Cur(s) r == apply.read[s] c1 == Cur(s)'
  <2>1. /\ d \in Record \cup {None} /\ c \in Record \cup {None} /\ r \in Record \cup {None}
        /\ disk'[s] = d /\ storing'.snap[s] = c1 /\ apply'.read[s] = r
        /\ c1 = IF c # None /\ Old(c) THEN None ELSE c
    BY <1>1, <1>2, <1>3, <1>4, FieldsAt DEF RegInv
  <2>2. ClocksAt(s) /\ KeptAt(s) /\ \A w \in {"flushed", "retired"} : ClearAt(s, w)
    BY DEF RegInv, SlotsOK
  <2>3. c1 = c \/ (c1 = None /\ c # None /\ Old(c))
    BY <2>1
  <2> HIDE DEF c1
  <2>4. ClocksAt(s)'
    BY <1>1, <2>1, <2>2, <2>3 DEF ClocksAt, Dated, Clocked, SameClock, c1
  <2>5. Covers(c, d, now) => Covers(c1, d, now)
    <3>1. CASE c1 = c
      BY <3>1
    <3>2. CASE c # None /\ Old(c)
      <4>1. Covers(c, d, now) => ~Live(d, now)
        BY <1>1, <2>1, <3>2, OldCoversNothing DEF Old
      <4> QED
        BY <4>1 DEF Covers
    <3> QED
      BY <2>3, <3>1, <3>2
  <2>6. Covers(c1, c1, now)
    BY <2>1, <2>3, CoversItself
  <2>7. KeptAt(s)'
    BY <1>1, <1>2, <1>7, <2>1, <2>2, <2>3, <2>5, <2>6 DEF KeptAt, Covers, c1
  <2>8. \A w \in {"flushed", "retired"} : ClearAt(s, w)'
    BY <1>1, <1>2, <2>1, <2>2, <2>3 DEF ClearAt, Clean, c1
  <2> QED
    BY <2>4, <2>7, <2>8
<1> QED
  BY <1>5, <1>8, <1>9 DEF RegInv, SlotsOK

\* StoreCache writes the file, or fails to, and its caller goes on.
LEMMA StepStoreEnd == ASSUME RegInv, NEW ok \in BOOLEAN, StoreEnd(ok) PROVE RegInv'
<1>1. /\ now \in Nat \ {0} /\ UNCHANGED <<now, dbOpen, mem, pending, attached, loaded, hourly>>
      /\ storing.by # "nobody" /\ storing' = NotStoring
      /\ (disk' = disk /\ done' = done) \/ (dbOpen /\ disk' = storing.snap
            /\ done' = done \cup (CASE storing.by = "apply" -> {"retired"} [] storing.by = "flush" -> {flush} [] OTHER -> {}))
      /\ apply' = IF storing.by = "apply" THEN Idle ELSE apply
      /\ flush' = IF storing.by = "flush" THEN "idle" ELSE flush
      /\ up' \in BOOLEAN
  BY DEF StoreEnd, caches, RegInv, RegistryTypeOK
<1>2. /\ storing'.by = "nobody" /\ storing'.snap = Nothing
      /\ Idle \in [pc : {"idle"}, retire : BOOLEAN, read : {Nothing}] /\ Idle.pc = "idle" /\ Idle.read = Nothing
  BY <1>1 DEF NotStoring, Idle
<1>3. done' \subseteq Removals
  <2>1. storing.by = "flush" => flush \in Removals
    BY DEF RegInv, RegistryTypeOK, Order, Removals
  <2>2. "retired" \in Removals /\ done \subseteq Removals
    BY DEF RegInv, RegistryTypeOK, Removals
  <2> QED
    BY <1>1, <2>1, <2>2
<1>4. storing' \in [by : {"nobody"}, snap : Contents] /\ disk' \in Contents
  BY <1>1, Fields, NothingIn DEF NotStoring, RegInv
<1>5. RegistryTypeOK'
  BY <1>1, <1>2, <1>3, <1>4, NothingIn DEF RegInv, RegistryTypeOK
<1>6. storing.by = "apply" => loaded \/ ~dbOpen
  BY DEF RegInv, Order
<1>7. Owned' /\ Order'
  BY <1>1, <1>2, <1>6 DEF RegInv, Owned, Order
<1>8. \A s \in Slots : Cur(s)' = Cur(s)
  BY <1>1 DEF Cur
<1>9. ASSUME NEW s \in Slots
      PROVE ClocksAt(s)' /\ KeptAt(s)' /\ \A w \in {"flushed", "retired"} : ClearAt(s, w)'
  <2> DEFINE d == disk[s] c == Cur(s) k == storing.snap[s] r == apply.read[s] d1 == disk'[s] r1 == apply'.read[s]
  <2>1. /\ d \in Record \cup {None} /\ c \in Record \cup {None} /\ k \in Record \cup {None} /\ r \in Record \cup {None}
        /\ Cur(s)' = c /\ storing'.snap[s] = None /\ Nothing[s] = None
    BY <1>2, <1>8, FieldsAt, NothingIn DEF RegInv
  <2>2. ClocksAt(s) /\ KeptAt(s) /\ \A w \in {"flushed", "retired"} : ClearAt(s, w)
    BY DEF RegInv, SlotsOK
  <2>3. d1 = d \/ (dbOpen /\ d1 = k)
    BY <1>1
  <2>4. apply'.pc = "restore" => r1 = r /\ apply.pc = "restore"
    BY <1>1, <1>2
  <2>5. r1 = r \/ r1 = None
    BY <1>1, <1>2, <2>1
  <2>6. flush' = "idle" \/ flush' = flush
    BY <1>1
  <2> HIDE DEF d1, r1
  <2>7. ClocksAt(s)'
    <3>1. Dated(d1, now) /\ Dated(r1, now) /\ SameClock(d1, c)
      BY <2>2, <2>3, <2>5 DEF ClocksAt, SameClock, Dated
    <3>2. ~loaded /\ apply'.pc = "restore" /\ d1 # None /\ r1 # None =>
           (d1.written = 0 /\ r1.written = 0 => d1.updatedAt = r1.updatedAt)
      BY <2>2, <2>3, <2>4 DEF ClocksAt
    <3> QED
      BY <1>1, <2>1, <2>2, <3>1, <3>2 DEF ClocksAt, Dated, Clocked, SameClock, d1, r1
  <2>8. KeptAt(s)'
    <3>1. dbOpen /\ (loaded \/ flush' # "idle") => Covers(c, d1, now)
      BY <2>2, <2>3, <2>6 DEF KeptAt
    <3>2. ~loaded /\ c # None /\ Live(d1, now) => c.updatedAt >= d1.updatedAt
      BY <2>2, <2>3 DEF KeptAt, Covers
    <3>3. ~loaded /\ apply'.pc = "restore" /\ Live(d1, now) =>
            (r1 # None /\ r1.updatedAt = d1.updatedAt) \/ Covers(c, d1, now)
      BY <2>2, <2>3, <2>4 DEF KeptAt
    <3> QED
      BY <1>1, <1>2, <2>1, <3>1, <3>2, <3>3 DEF KeptAt, Covers, Live, d1, r1
  <2>9. ASSUME NEW w \in {"flushed", "retired"} PROVE ClearAt(s, w)'
    <3>1. w \in done' => Clean(d1, w)
      <4>1. CASE disk' = disk /\ done' = done
        BY <2>2, <4>1 DEF ClearAt, d1
      <4>2. CASE disk' = storing.snap /\ storing.by = "apply" /\ done' = done \cup {"retired"}
        BY <2>2, <4>2 DEF ClearAt, d1
      <4>3. CASE disk' = storing.snap /\ storing.by = "flush" /\ done' = done \cup {flush}
        <5>1. flush \in {"idle", "flushed", "flushedEarly"} /\ flush # "idle"
          BY <4>3 DEF RegInv, RegistryTypeOK, Order
        <5> QED
          BY <2>2, <4>3, <5>1 DEF ClearAt, d1
      <4>4. CASE disk' = storing.snap /\ done' = done
        BY <2>2, <4>4 DEF ClearAt, d1
      <4> QED
        BY <1>1, <4>1, <4>2, <4>3, <4>4
    <3>2. ~loaded /\ dbOpen => Clean(d1, w) /\ Clean(r1, w)
      <4>1. ~loaded /\ dbOpen => Clean(disk[s], w) /\ Clean(storing.snap[s], w) /\ Clean(apply.read[s], w)
        BY <2>2 DEF ClearAt
      <4>2. Clean(None, w)
        BY DEF Clean
      <4> QED
        BY <2>3, <2>5, <4>1, <4>2
    <3> QED
      BY <1>1, <1>2, <2>1, <2>2, <3>1, <3>2 DEF ClearAt, Clean, d1, r1
  <2> QED
    BY <2>7, <2>8, <2>9
<1> QED
  BY <1>5, <1>7, <1>9 DEF RegInv, SlotsOK

\* A restart finds the file as it was last committed.
LEMMA StepStart == ASSUME RegInv, Start PROVE RegInv'
<1>1. /\ now \in Nat \ {0} /\ UNCHANGED <<now, done>> /\ up' = TRUE /\ dbOpen' \in BOOLEAN
      /\ attached' = Winners /\ mem' = Nothing /\ pending' = Nothing /\ loaded' = FALSE
      /\ apply' = [Idle EXCEPT !.pc = "boot"] /\ hourly' = FALSE /\ storing' = NotStoring /\ flush' = "idle"
      /\ disk' = [s \in Slots |-> IF disk[s] = None THEN None ELSE Stripped(disk[s])]
  BY DEF Start, Booted, RegInv, RegistryTypeOK, Stripped
<1>2. /\ apply'.pc = "boot" /\ apply'.read = Nothing /\ apply' \in [pc : {"boot"}, retire : BOOLEAN, read : {Nothing}]
      /\ storing'.by = "nobody" /\ storing'.snap = Nothing /\ storing' \in [by : {"nobody"}, snap : {Nothing}]
  BY <1>1 DEF Idle, NotStoring
<1>3. \A r \in Record : /\ Stripped(r) \in Record /\ Stripped(r).written = r.written /\ Stripped(r).updatedAt = r.updatedAt
                        /\ Stripped(r).removed = r.removed \cap (done \cup {"evicted"})
  BY DEF Stripped, Record
<1>4. \A s \in Slots : disk'[s] = IF disk[s] = None THEN None ELSE Stripped(disk[s])
  BY <1>1
<1>5. disk' \in Contents
  BY <1>1, <1>3, <1>4, FieldsAt DEF RegInv, Contents
<1>6. RegistryTypeOK'
  BY <1>1, <1>2, <1>5, NothingIn DEF RegInv, RegistryTypeOK
<1>7. Owned' /\ Order'
  BY <1>1, <1>2, NothingIn DEF Owned, Order
<1>8. ASSUME NEW s \in Slots
      PROVE ClocksAt(s)' /\ KeptAt(s)' /\ \A w \in {"flushed", "retired"} : ClearAt(s, w)'
  <2>1. Cur(s)' = None /\ storing'.snap[s] = None /\ apply'.read[s] = None
    BY <1>1, <1>2, NothingIn DEF Cur
  <2>2. ClocksAt(s) /\ \A w \in {"flushed", "retired"} : ClearAt(s, w)
    BY DEF RegInv, SlotsOK
  <2>3. disk[s] \in Record \cup {None}
    BY FieldsAt DEF RegInv
  <2>4. Dated(disk'[s], now') /\ \A w \in {"flushed", "retired"} : Clean(disk'[s], w)
    BY <1>1, <1>3, <1>4, <2>2, <2>3, RecordFields DEF ClocksAt, ClearAt, Dated, Clean
  <2>5. ClocksAt(s)' /\ KeptAt(s)'
    BY <1>1, <1>2, <2>1, <2>4 DEF ClocksAt, KeptAt, Dated, Clocked, SameClock, Covers, Live
  <2>6. \A w \in {"flushed", "retired"} : ClearAt(s, w)'
    BY <1>1, <1>2, <2>1, <2>4 DEF ClearAt, Clean
  <2> QED
    BY <2>5, <2>6
<1> QED
  BY <1>6, <1>7, <1>8 DEF RegInv, SlotsOK

\* The first start, with the file of this version, of an earlier one, or none.
LEMMA InitOK == Init => RegInv
<1> SUFFICES ASSUME Init PROVE RegInv
  OBVIOUS
<1> DEFINE legacy == [written |-> 0, updatedAt |-> 0, due |-> 0, removed |-> {}]
<1>1. /\ now = 1 /\ up = TRUE /\ dbOpen \in BOOLEAN /\ attached = Winners /\ mem = Nothing /\ pending = Nothing
      /\ loaded = FALSE /\ apply = [Idle EXCEPT !.pc = "boot"] /\ hourly = FALSE /\ storing = NotStoring
      /\ flush = "idle" /\ done = {}
      /\ disk \in [Slots -> {None, legacy, Fresh}]
  BY DEF Init
<1>2. /\ apply.pc = "boot" /\ apply.read = Nothing /\ apply \in [pc : {"boot"}, retire : BOOLEAN, read : {Nothing}]
      /\ storing.by = "nobody" /\ storing.snap = Nothing /\ storing \in [by : {"nobody"}, snap : {Nothing}]
  BY <1>1 DEF Idle, NotStoring
<1>3. /\ legacy \in Record /\ legacy.written = 0 /\ legacy.updatedAt = 0 /\ legacy.removed = {}
      /\ Fresh \in Record /\ Fresh.written = 1 /\ Fresh.updatedAt = 1 /\ Fresh.removed = {}
  BY <1>1, NumbersAssumption DEF Record, Fresh
<1> HIDE DEF legacy
<1>4. RegistryTypeOK
  <2>1. disk \in Contents
    BY <1>1, <1>3 DEF Contents
  <2>2. /\ apply \in [pc : {"boot", "idle", "load", "restore", "retain", "store"}, retire : BOOLEAN, read : Contents]
        /\ storing \in [by : {"nobody", "apply", "ticker", "flush", "shutdown"}, snap : Contents]
    BY <1>2, NothingIn
  <2>3. now \in Nat \ {0}
    BY <1>1, SMT
  <2>6. up \in BOOLEAN /\ loaded \in BOOLEAN /\ dbOpen \in BOOLEAN
    BY <1>1, Zenon
  <2>4. mem \in Contents /\ pending \in Contents /\ done \subseteq Removals
    BY <1>1, NothingIn
  <2>5. flush \in {"idle", "flushed", "flushedEarly"}
    BY <1>1
  <2> QED
    BY <2>1, <2>2, <2>3, <2>4, <2>5, <2>6 DEF RegistryTypeOK
<1>5. Owned /\ Order
  BY <1>1, <1>2, NothingIn DEF Owned, Order
<1>6. ASSUME NEW s \in Slots
      PROVE ClocksAt(s) /\ KeptAt(s) /\ \A w \in {"flushed", "retired"} : ClearAt(s, w)
  <2>1. Cur(s) = None /\ storing.snap[s] = None /\ apply.read[s] = None
    BY <1>1, <1>2, NothingIn DEF Cur
  <2>2. Dated(disk[s], now) /\ \A w \in {"flushed", "retired"} : Clean(disk[s], w)
    BY <1>1, <1>3 DEF Dated, Clean
  <2> QED
    BY <1>1, <1>2, <2>1, <2>2 DEF ClocksAt, KeptAt, ClearAt, Dated, Clocked, SameClock, Covers, Live, Clean
<1> QED
  BY <1>4, <1>5, <1>6 DEF RegInv, SlotsOK

\* The invariant holds in every reachable state.
THEOREM RegistryCorrect == Spec => []RegInv
<1>1. RegInv /\ [Next]_vars => RegInv'
  <2> SUFFICES ASSUME RegInv, [Next]_vars PROVE RegInv'
    OBVIOUS
  <2>1. CASE UNCHANGED vars
    <3>1. UNCHANGED <<now, up, disk, mem, pending, storing, apply, attached, loaded, dbOpen, flush, done, hourly>>
      BY <2>1 DEF vars, process, caches, threads
    <3>2. \A s \in Slots : Cur(s)' = Cur(s)
      BY <3>1 DEF Cur
    <3>3. ASSUME NEW s \in Slots PROVE ClocksAt(s)'
      BY <3>1, <3>2 DEF RegInv, SlotsOK, ClocksAt
    <3>4. ASSUME NEW s \in Slots PROVE KeptAt(s)'
      BY <3>1, <3>2 DEF RegInv, SlotsOK, KeptAt
    <3>5. ASSUME NEW s \in Slots, NEW w \in {"flushed", "retired"} PROVE ClearAt(s, w)'
      BY <3>1, <3>2 DEF RegInv, SlotsOK, ClearAt
    <3>6. RegistryTypeOK'
      BY <3>1 DEF RegInv, RegistryTypeOK
    <3>7. Owned' /\ Order'
      BY <3>1 DEF RegInv, Owned, Order
    <3> QED
      BY <3>3, <3>4, <3>5, <3>6, <3>7 DEF RegInv, SlotsOK
  <2>2. CASE Tick \/ Crash \/ Start
    BY <2>2, StepTick, StepCrash, StepStart
  <2>3. CASE \E s \in Slots : Write(s)
    BY <2>3, StepWrite
  <2>4. CASE \E scope \in Scopes : RefreshScope(scope) \/ EvictScope(scope)
    BY <2>4, StepRefresh, StepEvict
  <2>5. CASE \E cfg \in Configs, retire \in BOOLEAN : Register(cfg, retire)
    BY <2>5, StepRegister
  <2>6. CASE LoadFails \/ LoadReads \/ LoadRestores \/ Retain \/ Flush
    BY <2>6, StepLoadFails, StepLoadReads, StepLoadRestores, StepRetain, StepFlush
  <2>7. CASE \E by \in {"apply", "ticker", "flush", "shutdown"} : StoreBegin(by)
    BY <2>7, StepStoreBegin
  <2>8. CASE \E ok \in BOOLEAN : StoreEnd(ok)
    BY <2>8, StepStoreEnd
  <2> QED
    BY <2>1, <2>2, <2>3, <2>4, <2>5, <2>6, <2>7, <2>8 DEF Next
<1> QED
  BY <1>1, InitOK, PTL DEF Spec

\* A flush after the load, or the retirement of a namespace, that has completed is
\* final: no copy in use or in the file has been subject to it (FlushDevCache,
\* RetainCurrentCaches).
THEOREM RemovalsAreFinal == Spec => []RemovalIsFinal
<1>1. RegInv => RemovalIsFinal
  <2> SUFFICES ASSUME RegInv, NEW why \in {"flushed", "retired"} \cap done, NEW r \in Held PROVE why \notin r.removed
    BY DEF RemovalIsFinal
  <2>1. PICK s \in Slots : r \in {disk[s], mem[s], pending[s]} /\ r # None
    BY DEF Held
  <2>2. Clean(disk[s], why) /\ Clean(Cur(s), why)
    BY DEF RegInv, SlotsOK, ClearAt
  <2>3. mem[s] \in {None, Cur(s)} /\ pending[s] \in {None, Cur(s)}
    BY DEF RegInv, Owned, Cur
  <2> QED
    BY <2>1, <2>2, <2>3 DEF Clean
<1> QED
  BY <1>1, RegistryCorrect, PTL

\* Restarts do not renew content: a record that comes back from the file has the
\* update clock it was stored with (recordUpdatedAt, restoreAt).
THEOREM ClocksAreKept == Spec => []RestartKeepsTheClock
<1>1. RegInv => RestartKeepsTheClock
  <2> SUFFICES ASSUME RegInv, NEW s \in Slots, NEW f \in {mem, pending}, f[s] # None, disk[s] # None,
                      f[s].written = disk[s].written, disk[s].updatedAt # 0
               PROVE  f[s].updatedAt = disk[s].updatedAt
    BY DEF RestartKeepsTheClock
  <2>1. f[s] = Cur(s)
    BY DEF RegInv, Owned, Cur
  <2> QED
    BY <2>1 DEF RegInv, SlotsOK, ClocksAt, SameClock, Clocked
<1> QED
  BY <1>1, RegistryCorrect, PTL

\* No write of the file loses content that was not removed and has not outlived
\* its retention (StoreCache, snapshotAt).
THEOREM StoresLoseNothing == Spec => StoreLosesNothing
<1> DEFINE Gone(s) == disk[s] # None /\ disk'[s] = None
           Excused(s) == disk[s].removed # {} \/ now - disk[s].updatedAt >= RetentionPeriod
<1>1. ASSUME RegInv, [Next]_vars, NEW s \in Slots, Gone(s) PROVE Excused(s)
  <2>0. disk \in Contents /\ disk[s] \in Record
    BY <1>1, Fields, FieldsAt DEF RegInv
  <2>1. disk' # disk
    BY <1>1
  <2>2. CASE \E ok \in BOOLEAN : StoreEnd(ok)
    <3>1. dbOpen /\ disk' = storing.snap /\ storing.by # "nobody"
      BY <2>1, <2>2 DEF StoreEnd
    <3>2. ~Live(disk[s], now)
      BY <1>1, <3>1 DEF RegInv, SlotsOK, KeptAt
    <3>3. now \in Nat /\ disk[s].updatedAt \in Nat /\ disk[s] # None
      BY <1>1, <2>0, RecordFields DEF RegInv, RegistryTypeOK
    <3> QED
      BY <3>2, <3>3, NumbersAssumption DEF Live
  <2>3. CASE Start
    <3>1. disk'[s] = Stripped(disk[s])
      BY <1>1, <2>3 DEF Start, Stripped
    <3>2. Stripped(disk[s]) \in Record
      BY <2>0 DEF Stripped, Record
    <3> QED
      BY <1>1, <3>1, <3>2, NoneIsNoRecord
  <2>4. ASSUME NEW S, NEW why \in Removals, disk' = Mark(disk, S, why) PROVE FALSE
    BY <1>1, <2>0, <2>4, MarkIsCopy, NoneIsNoRecord DEF Copy
  <2>5. CASE (\E scope \in Scopes : EvictScope(scope)) \/ Retain \/ Flush
    <3>1. {"evicted", "evictedEarly", "retired", "flushed", "flushedEarly"} \subseteq Removals
      BY DEF Removals
    <3> QED
      BY <2>4, <2>5, <3>1 DEF EvictScope, Retain, Flush, MarkCopies
  <2> QED
    BY <1>1, <2>1, <2>2, <2>3, <2>5 DEF Next, vars, Tick, Crash, Write, RefreshScope, Register, LoadFails, LoadReads,
       LoadRestores, StoreBegin
<1>2. RegInv /\ [Next]_vars => [\A s \in Slots : Gone(s) => Excused(s)]_disk
  BY <1>1
<1> QED
  BY <1>2, RegistryCorrect, PTL DEF Spec, StoreLosesNothing

\* A cache's content only gets newer until it is removed or outlives its retention:
\* a restore does not replace what start-up traffic has stored (registered.load).
THEOREM ContentGetsNewer == Spec => ContentOnlyGetsNewer
<1> DEFINE Stays(s) == up /\ up' /\ mem[s] # None /\ ~Old(mem[s]) /\ mem'[s] # None
           Newer(s) == mem'[s].written >= mem[s].written
<1>1. ASSUME RegInv, [Next]_vars, NEW s \in Slots, Stays(s) PROVE Newer(s)
  <2>0. /\ mem \in Contents /\ pending \in Contents /\ mem[s] \in Record /\ mem[s].written \in Nat /\ mem[s].written <= now
        /\ now \in Nat \ {0} /\ apply.read \in Contents
    <3>1. mem[s] = Cur(s)
      BY <1>1 DEF RegInv, Owned, Cur
    <3>2. mem[s] \in Record
      BY <1>1, FieldsAt DEF RegInv
    <3> QED
      BY <1>1, <3>1, <3>2, Fields, RecordFields DEF RegInv, SlotsOK, ClocksAt, Dated
  <2>1. CASE mem'[s] = mem[s]
    BY <2>0, <2>1
  <2>2. CASE \E x \in Slots : Write(x)
    <3>1. mem'[s] = Fresh \/ mem'[s] = mem[s]
      BY <2>0, <2>2 DEF Write, Contents
    <3>2. Fresh.written = now
      BY DEF Fresh
    <3> QED
      BY <2>0, <2>1, <3>1, <3>2
  <2>3. CASE \E scope \in Scopes : RefreshScope(scope)
    <3> DEFINE stale == [mem[s] EXCEPT !.due = 0]
    <3>1. mem'[s] \in {mem[s], stale, None}
      <4>1. Unexpired(mem)[s] \in {mem[s], None}
        BY <2>0, UnexpiredIn
      <4>2. mem'[s] \in {stale, Unexpired(mem)[s]}
        BY <2>3 DEF RefreshScope
      <4> QED
        BY <4>1, <4>2
    <3>2. stale.written = mem[s].written
      BY <2>0 DEF Record
    <3> HIDE DEF stale
    <3>3. mem'[s] # None
      BY <1>1
    <3>4. mem'[s].written = mem[s].written
      BY <3>1, <3>2, <3>3
    <3> QED
      BY <2>0, <3>4
  <2>4. CASE \E scope \in Scopes : EvictScope(scope)
    <3>1. PICK S : mem' = Drop(Unexpired(mem), S)
      BY <2>4 DEF EvictScope
    <3>2. mem'[s] = None \/ mem'[s] = Unexpired(mem)[s]
      <4>1. Unexpired(mem) \in Contents
        BY <2>0, UnexpiredIn
      <4> QED
        BY <3>1, <4>1, DropIn
    <3>3. Unexpired(mem)[s] = mem[s]
      BY <1>1, <2>0, UnexpiredIn
    <3> QED
      BY <1>1, <2>1, <3>2, <3>3
  <2>5. ASSUME NEW records \in Contents, mem' = Load(mem, records) PROVE mem'[s] = mem[s]
    <3>1. mem[s] # None /\ ~Old(mem[s])
      BY <1>1
    <3> QED
      BY <2>0, <2>5, <3>1, LoadIn
  <2>6. CASE \E cfg \in Configs, retire \in BOOLEAN : Register(cfg, retire)
    <3>1. PICK cfg \in Configs : mem' = Load(mem, Drop(pending, Slots \ In(cfg \ attached)))
      BY <2>6 DEF Register, Attach
    <3> QED
      BY <2>0, <2>1, <2>5, <3>1, DropIn
  <2>7. CASE LoadRestores
    <3>1. CASE loaded
      BY <2>1, <2>7, <3>1 DEF LoadRestores, Restore
    <3>2. CASE ~loaded
      <4>1. mem' = Load(mem, Drop(RestoredAll(apply.read), Slots \ In(attached)))
        BY <2>0, <2>7, <3>2, RestoreIs DEF LoadRestores
      <4>2. RestoredAll(apply.read) \in Contents
        BY <2>0, RestoredIn
      <4> QED
        BY <2>1, <2>5, <4>1, <4>2, DropIn
    <3> QED
      BY <3>1, <3>2
  <2>8. CASE Retain
    BY <1>1, <2>0, <2>1, <2>8, DropIn DEF Retain, RetainNamespaces
  <2>9. CASE \E by \in {"apply", "ticker", "flush", "shutdown"} : StoreBegin(by)
    BY <1>1, <2>0, <2>1, <2>9, UnexpiredIn DEF StoreBegin
  <2>10. CASE Flush
    BY <1>1, <2>10, NothingIn DEF Flush, ClearAll
  <2>11. CASE Start
    BY <1>1, <2>11 DEF Start
  <2> QED
    BY <1>1, <2>1, <2>2, <2>3, <2>4, <2>6, <2>7, <2>8, <2>9, <2>10, <2>11
       DEF Next, vars, caches, Tick, Crash, LoadFails, LoadReads, StoreEnd
<1>2. RegInv /\ [Next]_vars => [\A s \in Slots : Stays(s) => Newer(s)]_mem
  BY <1>1
<1> QED
  BY <1>2, RegistryCorrect, PTL DEF Spec, ContentOnlyGetsNewer
=============================================================================
