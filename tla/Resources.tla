----------------------------- MODULE Resources -----------------------------
(***************************************************************************)
(* What goroutines share and have to give back: the connections of the DNS *)
(* upstreams and of the AnyTLS client, connections a rule drops, which the *)
(* parker holds for a while, and the packets queued in a UDP session.  The *)
(* components do not call each other.  A behaviour follows one of them and *)
(* the others keep their initial values; their actors are numbered.        *)
(***************************************************************************)
EXTENDS DropParker

CONSTANTS
  Callers, Servers, V6Servers, NoServer, MaxVersion,  \* of AddressRace
  Queries, MaxResets,                                 \* of SharedConnection
  PoolQueries, MaxOld, MaxPoolResets,                 \* of ConnectionPool
  Streams, MaxDialled, MinIdle,                       \* of AnyTlsPool
  Targets, N, Capacity, Workers, MaxSessions          \* of UdpSession

ASSUME SessionAssumption == {N, Capacity, Workers, MaxSessions} \subseteq Nat /\ Capacity > 0 /\ Workers > 0

VARIABLES
  part,                                                                   \* the component followed
  winner, winnerVersion, clients, transport, selection, exchange, query,  \* of AddressRace
  protocol, current, open, lock, asker, resets,                           \* of SharedConnection
  connections, closed, worker, asking, poolResets,                        \* of ConnectionPool
  client, counter, session, doomed, stream,                               \* of AnyTlsPool
  target, table, hand, sender, owner, home, drops, written                \* of UdpSession

Race == INSTANCE AddressRace
Shared == INSTANCE SharedConnection
Pool == INSTANCE ConnectionPool
AnyTls == INSTANCE AnyTlsPool
Udp == INSTANCE UdpSession

raceVars == <<winner, winnerVersion, clients, transport, selection, exchange, query>>
sharedVars == <<protocol, current, open, lock, asker, resets>>
poolVars == <<connections, closed, worker, asking, poolResets>>
anyTlsVars == <<client, counter, session, doomed, stream>>
udpVars == <<target, table, hand, sender, owner, home, drops, written>>
allVars == <<part, vars, raceVars, sharedVars, poolVars, anyTlsVars, udpVars>>

Parts == {"parker", "race", "shared", "pool", "anytls", "udp"}

ResourcesInit ==
  /\ part \in Parts
  /\ Init /\ Race!Init /\ Shared!Init /\ Pool!Init /\ AnyTls!PoolInit /\ Udp!Init
  /\ part = "udp" \/ target = [p \in 1..N |-> CHOOSE t \in Targets : TRUE]

\* An action of one component
ParkerOnly(A) == part = "parker" /\ A /\ UNCHANGED <<part, raceVars, sharedVars, poolVars, anyTlsVars, udpVars>>
RaceOnly(A) == part = "race" /\ A /\ UNCHANGED <<part, vars, sharedVars, poolVars, anyTlsVars, udpVars>>
SharedOnly(A) == part = "shared" /\ A /\ UNCHANGED <<part, vars, raceVars, poolVars, anyTlsVars, udpVars>>
PoolOnly(A) == part = "pool" /\ A /\ UNCHANGED <<part, vars, raceVars, sharedVars, anyTlsVars, udpVars>>
AnyTlsOnly(A) == part = "anytls" /\ A /\ UNCHANGED <<part, vars, raceVars, sharedVars, poolVars, udpVars>>
UdpOnly(A) == part = "udp" /\ A /\ UNCHANGED <<part, vars, raceVars, sharedVars, poolVars, anyTlsVars>>

ResourcesNext ==
  \/ ParkerOnly(Next)
  \/ RaceOnly(Race!Next)
  \/ SharedOnly(Shared!Next)
  \/ PoolOnly(Pool!Next)
  \/ AnyTlsOnly(AnyTls!PoolNext)
  \/ UdpOnly(Udp!Next)

\* Goroutine number i
Goroutine(i) ==
  \/ i \in Drops /\ ParkerOnly(ReleaseEvicted(i))
  \/ i \in Callers /\ RaceOnly(Race!Steps(i))
  \/ i \in PoolQueries /\ PoolOnly(Pool!Work(i))
  \/ i \in Streams /\ AnyTlsOnly(AnyTls!CreateStream(i))
  \/ i \in 1..MaxSessions /\ UdpOnly(Udp!Loop(i))

\* Another goroutine for the same stream or session
Other(i) ==
  \/ i \in Streams /\ AnyTlsOnly(AnyTls!EndStream(i))
  \/ i \in 1..MaxSessions /\ UdpOnly(Udp!Delete(i))

\* The parker's goroutine, the rest of Client.Close, the worker that sends packets
Single ==
  \/ ParkerOnly(\E r \in runners : Run(r))
  \/ AnyTlsOnly(AnyTls!Snapshot)
  \/ UdpOnly(Udp!Send)

\* Goroutine i waits for a mutex or for the one slot of a channel
Contends(i) ==
  \/ i \in Callers /\ RaceOnly(Race!Select(i))
  \/ i \in Queries /\ SharedOnly(Shared!Query(i))

(***************************************************************************)
(* Only one component takes steps, so each condition is the fairness of    *)
(* whichever that is.  Goroutines are scheduled; exchanges and dials end   *)
(* with their contexts; a Go mutex and a Go channel serve who has waited   *)
(* long enough.                                                            *)
(***************************************************************************)
ResourcesFairness ==
  /\ \A i \in 1..4 : WF_allVars(Goroutine(i))
  /\ \A i \in 1..2 : WF_allVars(Other(i)) /\ SF_allVars(Contends(i))
  /\ \A s \in 1..MaxDialled : WF_allVars(AnyTlsOnly(AnyTls!SessionClose(s)))
  /\ WF_allVars(Single) /\ WF_allVars(ParkerOnly(Tick))

ResourcesSpec == ResourcesInit /\ [][ResourcesNext]_allVars /\ ResourcesFairness

-----------------------------------------------------------------------------
(***************************************************************************)
(* Connections are accounted for, whichever goroutines overlap.  A         *)
(* transport of the address race is retired only without users, and no     *)
(* loser stays open; the open connection of DoQ or DoH is the current one; *)
(* a DoT connection is in the pool once or used by one query; an AnyTLS    *)
(* session serves one stream at a time and is never forgotten.             *)
(***************************************************************************)
ConnectionsAccounted ==
  /\ part = "race" => Race!InUseIsKept /\ Race!LosersRetired
  /\ part = "shared" => Shared!OnlyCurrentOpen
  /\ part = "pool" => Pool!PoolIsExclusive
  /\ part = "anytls" => AnyTls!PoolTypeOK /\ AnyTls!OneStreamPerSession /\ AnyTls!NoneForgotten

(***************************************************************************)
(* Nothing is ended for the failure or the end of another: a late failure  *)
(* does not clear a newer winner, a QUIC connection is closed by a query   *)
(* that failed on it, and a UDP session deletes only its own NAT entry.    *)
(***************************************************************************)
EndsOnlyItsOwn ==
  /\ Race!LateFailureIsHarmless
  /\ Shared!ClosedForItsFailure
  /\ Udp!DeletesItself

(***************************************************************************)
(* A packet the UDP sender accepted is dropped at most once, is in one     *)
(* queue until then, and none is left behind; the packets for one target   *)
(* are written in the order they came.                                     *)
(***************************************************************************)
PacketsAccounted == part = "udp" => Udp!NoneStranded /\ Udp!OrderKept

(***************************************************************************)
(* What is held is given back: a parked connection is released, a caller   *)
(* of an upstream returns, the sessions of a closed AnyTLS client close,   *)
(* and a target whose resolution never ends holds up no packet for a       *)
(* target that is prepared.                                                *)
(***************************************************************************)
Held ==
  \/ 1 \in DOMAIN deadline /\ released[1] = 0
  \/ exchange[1].at # "idle"
  \/ asker[1].at \notin {"idle", "over"}
  \/ worker[1].at \notin {"idle", "over"}
  \/ client = "closed" /\ \E s \in 1..counter : session[s].closer # "closed"
  \/ \E s \in 1..MaxSessions, p \in 1..N :
       Contains(sender[s].ch, p) /\ sender[s].loop # "none" /\ target[p] \in sender[s].prepared

GivenBack == []<>~Held
=============================================================================
