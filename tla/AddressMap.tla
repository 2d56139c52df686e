----------------------------- MODULE AddressMap -----------------------------
(***************************************************************************)
(* What the fake-IP stores promise their pool: a one-to-one map from hosts *)
(* to addresses that changes by giving one host an address, which its      *)
(* previous owner loses in the same step, and by forgetting hosts.         *)
(***************************************************************************)
CONSTANTS Hosts, Addrs, None

VARIABLE addrOf   \* [Hosts -> Addrs \cup {None}]

Forgets(h) == addrOf'[h] \in {addrOf[h], None}

Assign(h, a) ==
  /\ addrOf'[h] = a
  /\ \A g \in Hosts \ {h} : Forgets(g) /\ addrOf'[g] # a

Forget == \A h \in Hosts : Forgets(h)

MapInit == addrOf = [h \in Hosts |-> None]

MapNext ==
  /\ addrOf' \in [Hosts -> Addrs \cup {None}]
  /\ Forget \/ \E h \in Hosts, a \in Addrs : Assign(h, a)

MapSpec == MapInit /\ [][MapNext]_addrOf
=============================================================================
