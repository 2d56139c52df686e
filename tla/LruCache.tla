------------------------------ MODULE LruCache ------------------------------
(***************************************************************************)
(* common/lru/lrucache.go.  The list is kept as the sequence of its keys,  *)
(* least recently used first; values play no part.  Every method holds     *)
(* c.mu, so every method is one action.                                    *)
(***************************************************************************)
EXTENDS Integers, SequencesExt

CONSTANTS
  Keys,
  MaxSize,         \* WithSize
  MaxAge,          \* WithAge; 0 is no age
  UpdateAgeOnGet,  \* WithUpdateAgeOnGet
  StaleReturn,     \* WithStale
  MaxTime          \* bound on the clock

VARIABLES
  lru,      \* c.lru and c.cache
  expires,  \* the entries' deadlines
  now,
  recency   \* history: all keys in the order of their last use

Init ==
  /\ lru = <<>>
  /\ expires = [k \in Keys |-> 0]
  /\ now = 0
  /\ recency = <<>>

In(k) == Contains(lru, k)

Aging == ~StaleReturn /\ MaxAge > 0

\* Mutant: a lookup does not count as a use
MutantMoveToBack(s, k) == IF Contains(s, k) THEN s ELSE Append(s, k)

MoveToBack(s, k) == Append(Remove(s, k), k)

\* maybeDeleteOldest: expired entries go, as long as they are at the front
DeleteOldest(s, e) ==
  IF Aging /\ s # <<>>
  THEN LET kept == {i \in DOMAIN s : e[s[i]] > now} IN
       IF kept = {} THEN <<>> ELSE SubSeq(s, CHOOSE i \in kept : \A j \in kept : i <= j, Len(s))
  ELSE s

\* Mutant: the new length is compared before the element is pushed
MutantEvict(s) == IF Len(s) > MaxSize + 1 THEN Tail(s) ELSE s

Evict(s) == IF Len(s) > MaxSize THEN Tail(s) ELSE s

Deadline == IF MaxAge > 0 THEN now + MaxAge ELSE 0

Used(k) == recency' = Append(Remove(recency, k), k)

Store(s, k, due) ==
  LET e == [expires EXCEPT ![k] = due] IN
  /\ expires' = e
  /\ lru' = DeleteOldest(IF Contains(s, k) THEN MoveToBack(s, k) ELSE Evict(Append(s, k)), e)

\* The list after get, and whether get found the key
Expired(k) == Aging /\ expires[k] <= now

Hit(k) == In(k) /\ ~Expired(k)

AfterGet(k) ==
  IF ~In(k) THEN lru
  ELSE IF Expired(k) THEN DeleteOldest(Remove(lru, k), expires)
  ELSE MoveToBack(lru, k)

Touch(k) ==
  expires' = IF Hit(k) /\ MaxAge > 0 /\ UpdateAgeOnGet
             THEN [expires EXCEPT ![k] = now + MaxAge] ELSE expires

-----------------------------------------------------------------------------
Tick ==
  /\ now < MaxTime
  /\ now' = now + 1
  /\ UNCHANGED <<lru, expires, recency>>

\* Get and GetWithExpire differ only in what they return
Get(k) ==
  /\ lru' = AfterGet(k)
  /\ Touch(k)
  /\ IF Hit(k) THEN Used(k) ELSE UNCHANGED recency
  /\ UNCHANGED now

GetOrStore(k) ==
  /\ IF Hit(k) THEN lru' = AfterGet(k) /\ Touch(k) ELSE Store(AfterGet(k), k, Deadline)
  /\ Used(k)
  /\ UNCHANGED now

Set(k) ==
  /\ Store(lru, k, Deadline)
  /\ Used(k)
  /\ UNCHANGED now

SetWithExpire(k, due) ==
  /\ Store(lru, k, due)
  /\ Used(k)
  /\ UNCHANGED now

Delete(k) ==
  /\ lru' = Remove(lru, k)
  /\ UNCHANGED <<expires, now, recency>>

\* Compute looks the key up, then stores or deletes
Compute(k, del) ==
  /\ IF del
     THEN /\ lru' = IF Hit(k) THEN Remove(lru, k) ELSE AfterGet(k)
          /\ Touch(k)
          /\ UNCHANGED recency
     ELSE Store(AfterGet(k), k, Deadline) /\ Used(k)
  /\ UNCHANGED now

Clear ==
  /\ lru' = <<>>
  /\ UNCHANGED <<expires, now, recency>>

Next ==
  \/ Tick
  \/ Clear
  \/ \E k \in Keys :
       \/ Get(k)
       \/ GetOrStore(k)
       \/ Set(k)
       \/ \E due \in 0..MaxTime : SetWithExpire(k, due)
       \/ Delete(k)
       \/ \E del \in BOOLEAN : Compute(k, del)

-----------------------------------------------------------------------------
\* The list is the cached keys in the order of their last use, so the element
\* setWithExpire evicts is the least recently used one, whatever mixture of
\* lookups, stores and removals came before.
ListIsRecency == lru = SelectSeq(recency, In)
=============================================================================
