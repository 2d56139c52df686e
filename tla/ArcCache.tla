------------------------------ MODULE ArcCache ------------------------------
(***************************************************************************)
(* common/arc/arc.go: the adaptive replacement cache.  t1 and t2 hold the  *)
(* resident entries, b1 and b2 the keys of evicted ones ("ghosts"); the    *)
(* most recent element of a list comes first.  An entry's ghost flag and   *)
(* the list it is in are separate, as in the code.                         *)
(*                                                                         *)
(* Every method holds a.mutex, so every method is one action.  A method    *)
(* that dereferences the Back() of an empty list panics; the state then    *)
(* only records that.                                                      *)
(***************************************************************************)
EXTENDS Integers, SequencesExt

CONSTANTS
  Keys,
  Capacity,   \* a.c
  MaxDebt     \* bound: a.len is followed down to minus this

ASSUME CapacityAssumption == Capacity \in Nat \ {0} /\ MaxDebt \in Nat

VARIABLES
  arc,        \* the ARC struct
  lastSet     \* history: the key the last step stored, as a set

vars == <<arc, lastSet>>

Lists == {"t1", "b1", "t2", "b2"}

Empty == [t1 |-> <<>>, b1 |-> <<>>, t2 |-> <<>>, b2 |-> <<>>,
          p |-> 0, len |-> 0, ghost |-> {}, panic |-> FALSE]

\* a.cache[key] and the entry's ll; "nil" is a new entry
ListOf(a, k) == IF \E l \in Lists : Contains(a[l], k)
                THEN CHOOSE l \in Lists : Contains(a[l], k)
                ELSE "nil"

Cached(a) == UNION {ToSet(a[l]) : l \in Lists}

Live(a) == Cached(a) \ a.ghost

Panic(a) == [a EXCEPT !.panic = TRUE]

Detach(a, k) == IF ListOf(a, k) = "nil" THEN a ELSE [a EXCEPT ![ListOf(a, k)] = Remove(@, k)]

SetMRU(a, k, l) == [Detach(a, k) EXCEPT ![l] = <<k>> \o @]

\* delLRU forgets the oldest entry of a list
DelLRU(a, l) ==
  IF a[l] = <<>> THEN Panic(a)
  ELSE [a EXCEPT ![l] = Front(@), !.len = @ - 1, !.ghost = @ \ {Last(a[l])}]

ReplaceFrom(a, from) ==
  IF /\ Len(a.t1) > 0
     /\ Len(a.t1) > a.p \/ (from = "b2" /\ Len(a.t1) = a.p)
  THEN "t1" ELSE "t2"

\* replace demotes the oldest resident entry to a ghost
Replace(a, from) ==
  LET src == ReplaceFrom(a, from) IN
  IF a.panic THEN a
  ELSE IF a[src] = <<>> THEN Panic(a)
  ELSE [SetMRU(a, Last(a[src]), IF src = "t1" THEN "b1" ELSE "b2") EXCEPT
          !.len = @ - 1, !.ghost = @ \cup {Last(a[src])}]

\* The larger history list adapts p by one, the smaller one by the quotient
Step(mine, other) == IF Len(mine) >= Len(other) THEN 1 ELSE Len(other) \div Len(mine)

AtMost(x, y) == IF x < y THEN x ELSE y

AtLeast(x, y) == IF x > y THEN x ELSE y

ReqHistory(a, k, from) ==
  LET p == IF from = "b1" THEN AtMost(a.p + Step(a.b1, a.b2), Capacity)
                          ELSE AtLeast(a.p - Step(a.b2, a.b1), 0) IN
  SetMRU(Replace([a EXCEPT !.p = p], from), k, "t2")

ReqNew(a, k) ==
  LET l1 == Len(a.t1) + Len(a.b1)
      total == l1 + Len(a.t2) + Len(a.b2)
      room == IF l1 = Capacity
              THEN IF Len(a.t1) < Capacity THEN Replace(DelLRU(a, "b1"), "nil")
                                           ELSE DelLRU(a, "t1")
              ELSE IF l1 < Capacity /\ total >= Capacity
              THEN Replace(IF total = 2 * Capacity THEN DelLRU(a, "b2") ELSE a, "nil")
              ELSE a IN
  SetMRU(room, k, "t1")

Req(a, k) ==
  LET from == ListOf(a, k) IN
  CASE from \in {"t1", "t2"} -> SetMRU(a, k, "t2")
    [] from \in {"b1", "b2"} -> ReqHistory(a, k, from)
    [] OTHER -> ReqNew(a, k)

-----------------------------------------------------------------------------
Init == arc = Empty /\ lastSet = {}

Running == ~arc.panic

Bounded == arc.len > -MaxDebt

\* Mutant: storing over a ghost leaves its flag set
MutantSet(k) ==
  /\ Running /\ Bounded
  /\ arc' = Req([arc EXCEPT !.len = IF k \in Live(arc) THEN @ ELSE @ + 1], k)
  /\ lastSet' = {k}

Set(k) ==
  /\ Running /\ Bounded
  /\ arc' = Req([arc EXCEPT !.len = IF k \in Live(arc) THEN @ ELSE @ + 1,
                            !.ghost = @ \ {k}], k)
  /\ lastSet' = {k}

Get(k) ==
  /\ Running /\ Bounded
  /\ arc' = IF k \in Cached(arc) THEN Req(arc, k) ELSE arc
  /\ lastSet' = {}

Delete(k) ==
  /\ Running /\ k \in Cached(arc)
  /\ arc' = [Detach(arc, k) EXCEPT !.len = IF k \in Live(arc) THEN @ - 1 ELSE @,
                                   !.ghost = @ \ {k}]
  /\ lastSet' = {}

Clear ==
  /\ Running
  /\ arc' = Empty
  /\ lastSet' = {}

\* make([]Item, 0, a.len) panics for a negative length
Snapshot ==
  /\ Running
  /\ arc' = IF arc.len < 0 THEN Panic(arc) ELSE arc
  /\ lastSet' = {}

Next ==
  \/ \E k \in Keys : Set(k) \/ Get(k) \/ Delete(k)
  \/ Clear
  \/ Snapshot

Spec == Init /\ [][Next]_vars

-----------------------------------------------------------------------------
\* What was stored last is served: no insertion evicts the entry it inserts.
StoredIsServed == Running => lastSet \subseteq Live(arc)

\* No sequence of Set, Get, Delete and Snapshot makes a method panic.
NeverPanics == Running
=============================================================================
