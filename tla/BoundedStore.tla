---------------------------- MODULE BoundedStore ----------------------------
(***************************************************************************)
(* What component/dev_cache expects of a backend (the interface "backend"  *)
(* of cache.go): a set of keys of bounded size.  Storing a key keeps it    *)
(* and may cost one other key; a key may also be dropped or all of them.   *)
(***************************************************************************)
EXTENDS Naturals, FiniteSets

CONSTANTS Keys, Capacity

VARIABLE stored

Put(k) ==
  \E lost \in SUBSET (stored \ {k}) :
    /\ Cardinality(lost) <= 1
    /\ stored' = (stored \cup {k}) \ lost

Drop(k) == stored' = stored \ {k}

StoreNext ==
  /\ \/ \E k \in Keys : Put(k) \/ Drop(k)
     \/ stored' = {}
  /\ Cardinality(stored') <= Capacity

StoreSpec == stored = {} /\ [][StoreNext]_stored
=============================================================================
