---------------------------- MODULE AddressRace ----------------------------
(***************************************************************************)
(* dns/address_race.go: the client of a name server known by its host      *)
(* name.  Every address of the host owns a transport; the first one that   *)
(* answers a complete exchange is the winner later callers use, one caller *)
(* at a time selects a new winner, and the transports that lost are        *)
(* retired as soon as nobody uses them.  Each use of the mutex is an       *)
(* action, and so is each event of a race.                                 *)
(***************************************************************************)
EXTENDS Naturals, FiniteSets, FiniteSetsExt

CONSTANTS
  Callers,     \* calls of ExchangeContext that may overlap
  Servers,     \* addresses of the host
  V6Servers,   \* those the AAAA lookup returns
  NoServer,    \* the zero netip.Addr
  MaxVersion   \* bound: no call starts once the winner has changed so often

VARIABLES
  winner, winnerVersion,
  clients,     \* per address, the transport in the map, or 0
  transport,   \* the addressClientEntry objects
  selection,   \* the callers in the one slot of the channel
  exchange,    \* per caller, where it is
  query        \* per caller and address, the goroutine of the race

vars == <<winner, winnerVersion, clients, transport, selection, exchange, query>>

Transports == 1..Cardinality(Servers) * (Cardinality(Callers) + 1)

Lookups == {V6Servers, Servers \ V6Servers}

Unused == [users |-> 0, stale |-> FALSE]

NewExchange == [at |-> "idle", uses |-> 0, version |-> 0, lookups |-> {}, keep |-> {}, cancelled |-> FALSE]

NoQuery == [at |-> "none", uses |-> 0]

Init ==
  /\ winner = NoServer /\ winnerVersion = 0
  /\ clients = [a \in Servers |-> 0]
  /\ transport = [t \in Transports |-> Unused]
  /\ selection = {} /\ exchange = [c \in Callers |-> NewExchange]
  /\ query = [c \in Callers |-> [a \in Servers |-> NoQuery]]

Moves(c, to) == exchange' = [exchange EXCEPT ![c].at = to]

\* A transport that is neither in the map nor referred to
Fresh ==
  Min({t \in Transports :
         /\ \A a \in Servers : clients[a] # t /\ \A c \in Callers : query[c][a].uses # t
         /\ \A c \in Callers : exchange[c].uses # t})

Acquired(a) == IF clients[a] # 0 THEN clients[a] ELSE Fresh

\* Mutant: a user does not count
MutantAcquire(a) ==
  /\ clients' = [clients EXCEPT ![a] = Acquired(a)]
  /\ transport' = [transport EXCEPT ![Acquired(a)] =
       IF clients[a] # 0 THEN [@ EXCEPT !.stale = FALSE] ELSE [users |-> 1, stale |-> FALSE]]

\* acquireLocked
Acquire(a) ==
  /\ clients' = [clients EXCEPT ![a] = Acquired(a)]
  /\ transport' = [transport EXCEPT ![Acquired(a)] =
       IF clients[a] # 0 THEN [users |-> @.users + 1, stale |-> FALSE] ELSE [users |-> 1, stale |-> FALSE]]

\* Mutant: the last user leaves a stale transport in the map
MutantRelease(t, a) ==
  /\ transport' = [transport EXCEPT ![t].users = @ - 1] /\ UNCHANGED clients

\* The function acquireLocked returns
Release(t, a) ==
  LET close == transport[t].stale /\ transport[t].users = 1 IN
  /\ transport' = [transport EXCEPT ![t] = IF close THEN Unused ELSE [@ EXCEPT !.users = @ - 1]]
  /\ clients' = [clients EXCEPT ![a] = IF close THEN 0 ELSE @]

Returns(c) == exchange' = [exchange EXCEPT ![c] = NewExchange]

\* race starts both lookups; the others wait for the slot
SelectOrRace(c) ==
  exchange' = [exchange EXCEPT ![c] =
    IF c \in selection THEN [NewExchange EXCEPT !.at = "racing", !.lookups = Lookups]
    ELSE [NewExchange EXCEPT !.at = "selecting"]]

\* exchangeWinner up to the exchange
ReadWinner(c) ==
  /\ IF winner # NoServer
     THEN /\ Acquire(winner)
          /\ exchange' = [exchange EXCEPT ![c].at = "asking", ![c].uses = Acquired(winner), ![c].version = winnerVersion]
     ELSE SelectOrRace(c) /\ UNCHANGED <<clients, transport>>
  /\ UNCHANGED <<winner, winnerVersion, selection, query>>

\* ExchangeContext
Call(c) ==
  /\ exchange[c].at = "idle" /\ winnerVersion < MaxVersion /\ \A a \in Servers : query[c][a] = NoQuery
  /\ ReadWinner(c)

\* The caller has the slot: is there a winner now?
Recheck(c) == exchange[c].at = "winner" /\ ReadWinner(c)

\* The winner answers, or the context ends; a failure is one while the context has not
WinnerAnswers(c) ==
  /\ exchange[c].at = "asking" /\ (Moves(c, "answered") \/ Moves(c, "failed"))
  /\ UNCHANGED <<winner, winnerVersion, clients, transport, selection, query>>

\* Mutant: any failure clears the winner
MutantClearWinner(c) ==
  /\ exchange[c].at = "failed" /\ Moves(c, "retry")
  /\ winner' = NoServer /\ winnerVersion' = winnerVersion + 1
  /\ UNCHANGED <<clients, transport, selection, query>>

\* A failure clears the winner it was asked of
ClearWinner(c) ==
  /\ exchange[c].at = "failed" /\ Moves(c, "retry")
  /\ IF winnerVersion = exchange[c].version
     THEN winner' = NoServer /\ winnerVersion' = winnerVersion + 1
     ELSE UNCHANGED <<winner, winnerVersion>>
  /\ UNCHANGED <<clients, transport, selection, query>>

AddressOf(t) == CHOOSE a \in Servers : clients[a] = t

\* The deferred release of exchangeWinner: the caller returns an answer, or because
\* its context has ended, and else goes on to select a new winner
ReleaseWinner(c) ==
  /\ exchange[c].at \in {"answered", "retry"}
  /\ Release(exchange[c].uses, AddressOf(exchange[c].uses))
  /\ \/ Returns(c) /\ selection' = selection \ {c}
     \/ exchange[c].at = "retry" /\ SelectOrRace(c) /\ UNCHANGED selection
  /\ UNCHANGED <<winner, winnerVersion, query>>

\* The one slot of the selection channel
Select(c) ==
  /\ exchange[c].at = "selecting" /\ selection = {} /\ selection' = {c} /\ Moves(c, "winner")
  /\ UNCHANGED <<winner, winnerVersion, clients, transport, query>>

\* The context ends before the slot is free, or is found ended with the slot
Abandon(c) ==
  /\ exchange[c].at \in {"selecting", "winner"}
  /\ Returns(c) /\ selection' = selection \ {c}
  /\ UNCHANGED <<winner, winnerVersion, clients, transport, query>>

\* The context of a call ends during its race
Cancel(c) ==
  /\ exchange[c].at = "racing" /\ exchange' = [exchange EXCEPT ![c].cancelled = TRUE]
  /\ UNCHANGED <<winner, winnerVersion, clients, transport, selection, query>>

\* seen: the addresses of this race, each asked once
Seen(c) == {a \in Servers : query[c][a].at # "none"}

\* A lookup returns one more address of its family, which is acquired and asked
LookupReturns(c, l, a) ==
  /\ exchange[c].at = "racing" /\ l \in exchange[c].lookups /\ a \in l \ Seen(c)
  /\ Acquire(a)
  /\ query' = [query EXCEPT ![c][a] = [at |-> "asking", uses |-> Acquired(a)]]
  /\ UNCHANGED <<winner, winnerVersion, selection, exchange>>

\* It has returned all it will, or an error
LookupEnds(c, l) ==
  /\ exchange[c].at = "racing" /\ l \in exchange[c].lookups
  /\ exchange' = [exchange EXCEPT ![c].lookups = @ \ {l}]
  /\ UNCHANGED <<winner, winnerVersion, clients, transport, selection, query>>

Pending(c) == exchange[c].lookups # {} \/ \E a \in Servers : query[c][a].at = "asking"

\* The loop of the race receives a useful answer: a new winner
Wins(c, a) ==
  /\ exchange[c].at = "racing" /\ query[c][a].at = "asking"
  /\ query' = [query EXCEPT ![c][a].at = "sent"]
  /\ winner' = a /\ winnerVersion' = winnerVersion + 1
  /\ exchange' = [exchange EXCEPT ![c].at = "prune", ![c].keep = {a}]
  /\ UNCHANGED <<clients, transport, selection>>

\* It receives a failure
Fails(c, a) ==
  /\ exchange[c].at = "racing" /\ query[c][a].at = "asking"
  /\ query' = [query EXCEPT ![c][a].at = "sent"]
  /\ UNCHANGED <<winner, winnerVersion, clients, transport, selection, exchange>>

\* The context ended, or nothing is pending
RaceOver(c) ==
  /\ exchange[c].at = "racing" /\ (exchange[c].cancelled \/ ~Pending(c)) /\ Moves(c, "prune")
  /\ UNCHANGED <<winner, winnerVersion, clients, transport, selection, query>>

\* Mutant: transports in use are retired too
MutantPrune(c) ==
  /\ exchange[c].at = "prune" /\ Moves(c, "leave")
  /\ clients' = [a \in Servers |-> IF a \in exchange[c].keep THEN clients[a] ELSE 0]
  /\ UNCHANGED <<winner, winnerVersion, transport, selection, query>>

\* The deferred prune: what is not kept is retired now, or by its last user
Prune(c) ==
  LET lost == {a \in Servers \ exchange[c].keep : clients[a] # 0} IN
  /\ exchange[c].at = "prune" /\ Moves(c, "leave")
  /\ transport' = [t \in Transports |->
       IF transport[t].users > 0 /\ \E a \in lost : clients[a] = t THEN [transport[t] EXCEPT !.stale = TRUE]
       ELSE transport[t]]
  /\ clients' = [a \in Servers |-> IF a \in lost /\ transport[clients[a]].users = 0 THEN 0 ELSE clients[a]]
  /\ UNCHANGED <<winner, winnerVersion, selection, query>>

\* The deferred cancel of the race's context and the slot
Leave(c) ==
  /\ exchange[c].at = "leave" /\ Returns(c) /\ selection' = selection \ {c}
  /\ query' = [query EXCEPT ![c] = [a \in Servers |-> IF @[a].uses = 0 THEN NoQuery ELSE @[a]]]
  /\ UNCHANGED <<winner, winnerVersion, clients, transport>>

\* The deferred release of a query whose event was received or whose context has ended
QueryReleases(c, a) ==
  /\ \/ query[c][a].at = "sent"
     \/ query[c][a].at = "asking" /\ (exchange[c].cancelled \/ exchange[c].at = "idle")
  /\ Release(query[c][a].uses, a)
  /\ query' = [query EXCEPT ![c][a] = [at |-> IF exchange[c].at = "idle" THEN "none" ELSE "over", uses |-> 0]]
  /\ UNCHANGED <<winner, winnerVersion, selection, exchange>>

Caller(c) ==
  \/ WinnerAnswers(c) \/ ClearWinner(c) \/ ReleaseWinner(c) \/ Select(c)
  \/ Recheck(c)
  \/ RaceOver(c) \/ Prune(c) \/ Leave(c)

Event(c) ==
  \/ \E l \in Lookups : LookupEnds(c, l) \/ \E a \in Servers : LookupReturns(c, l, a)
  \/ \E a \in Servers : Wins(c, a) \/ Fails(c, a)

\* The bound is reached
Done == winnerVersion >= MaxVersion /\ (\A c \in Callers : exchange[c].at = "idle") /\ UNCHANGED vars

Next ==
  \/ \E c \in Callers :
       \/ Call(c) \/ Abandon(c) \/ Cancel(c) \/ Caller(c) \/ Event(c)
       \/ \E a \in Servers : QueryReleases(c, a)
  \/ Done

Steps(c) == Caller(c) \/ Event(c) \/ \E a \in Servers : QueryReleases(c, a)

-----------------------------------------------------------------------------
Holders(t) ==
  Cardinality({c \in Callers : exchange[c].uses = t}) +
  Cardinality({u \in Callers \X Servers : query[u[1]][u[2]].uses = t})

(***************************************************************************)
(* A transport is retired only without users: while somebody uses it, it   *)
(* is the one the map has for its address, and its count is right.         *)
(***************************************************************************)
InUseIsKept ==
  \A t \in Transports :
    /\ Holders(t) > 0 => \E a \in Servers : clients[a] = t
    /\ (\E a \in Servers : clients[a] = t) => transport[t].users = Holders(t)

(***************************************************************************)
(* Outside a race no loser stays open: at most one transport is unused,    *)
(* and if there is a winner it is the winner's.                            *)
(***************************************************************************)
LosersRetired ==
  LET unused == {a \in Servers : clients[a] # 0 /\ transport[clients[a]].users = 0} IN
  selection = {} => Cardinality(unused) <= 1 /\ (winner # NoServer => unused \subseteq {winner})

(***************************************************************************)
(* A failure that arrives late never clears the winner that replaced the   *)
(* one it was asked of.                                                    *)
(***************************************************************************)
LateFailureIsHarmless ==
  [][winner # NoServer /\ winner' = NoServer =>
       \E c \in Callers : exchange[c].at = "failed" /\ exchange'[c].at = "retry" /\ clients[winner] = exchange[c].uses]_vars

\* Exchanges and lookups end with their context; a Go channel serves blocked senders in order
Spec == Init /\ [][Next]_vars /\ \A c \in Callers : WF_vars(Steps(c)) /\ SF_vars(Select(c))
=============================================================================
