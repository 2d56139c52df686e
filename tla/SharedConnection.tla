-------------------------- MODULE SharedConnection --------------------------
(***************************************************************************)
(* The upstreams that share one connection between queries: dns/doq.go (a  *)
(* QUIC connection) and dns/doh.go (an HTTP client with its transport).    *)
(* Queries get the connection or open it, the lock held meanwhile, and on  *)
(* an error re-open it and try again, at most twice.  doq.go closes a      *)
(* connection only if it is still the one that failed; doh.go closes       *)
(* whichever is current.                                                   *)
(***************************************************************************)
EXTENDS Naturals, FiniteSets, FiniteSetsExt

CONSTANTS
  Queries,
  MaxResets     \* bound on ResetConnection

VARIABLES
  protocol,     \* "doq" or "doh"
  current,      \* doq.conn, doh.client: a connection or 0
  open,         \* the connections that were opened and not closed
  lock,         \* the query that opens a connection under connMu, clientMu
  asker,        \* per query, where it is
  resets

vars == <<protocol, current, open, lock, asker, resets>>

Retries == 2

NewQuery == [at |-> "idle", had |-> FALSE, used |-> 0, tries |-> 0]

Init ==
  /\ protocol = "unset" /\ current = 0 /\ open = {} /\ lock = {} /\ resets = 0
  /\ asker = [q \in Queries |-> NewQuery]

Choose ==
  /\ protocol = "unset" /\ protocol' \in {"doq", "doh"}
  /\ UNCHANGED <<current, open, lock, asker, resets>>

\* An identity nobody refers to
Fresh == Min({n \in 1..Cardinality(Queries) + 2 : n # current /\ n \notin open /\ \A q \in Queries : asker[q].used # n})

\* hasConnection, over QUIC
Begin(q) ==
  /\ protocol # "unset" /\ asker[q].at = "idle" /\ lock = {}
  /\ asker' = [asker EXCEPT ![q].at = "get", ![q].had = (protocol = "doq" /\ current # 0)]
  /\ UNCHANGED <<protocol, current, open, lock, resets>>

\* getConnection, getClient: the connection there is, or the lock to open one; isCached, over HTTPS
Get(q) ==
  /\ asker[q].at = "get" /\ lock = {}
  /\ IF current # 0
     THEN /\ asker' = [asker EXCEPT ![q].at = "exchange", ![q].used = current,
                                    ![q].had = IF protocol = "doh" /\ asker[q].tries = 0 THEN TRUE ELSE @]
          /\ UNCHANGED lock
     ELSE asker' = [asker EXCEPT ![q].at = "opening"] /\ lock' = {q}
  /\ UNCHANGED <<protocol, current, open, resets>>

\* openConnection, createClient: stored under the lock
Opens(q) ==
  /\ asker[q].at = "opening" /\ lock' = {}
  /\ current' = Fresh /\ open' = open \cup {Fresh}
  /\ asker' = [asker EXCEPT ![q].at = "exchange", ![q].used = Fresh]
  /\ UNCHANGED <<protocol, resets>>

\* The dial, the handshake or the transport fails, or the context has ended; over QUIC a query that
\* had a connection may try again
OpenFails(q) ==
  /\ asker[q].at = "opening" /\ lock' = {} /\ current' = 0
  /\ \/ asker' = [asker EXCEPT ![q] = [NewQuery EXCEPT !.at = "over"]]
     \/ protocol = "doq" /\ asker[q].had /\ asker[q].tries < Retries /\ asker' = [asker EXCEPT ![q].at = "reopen"]
  /\ UNCHANGED <<protocol, open, resets>>

Ends(q) == asker' = [asker EXCEPT ![q] = [NewQuery EXCEPT !.at = "over"]]

\* An answer, or the end of the context
Returns(q) ==
  /\ asker[q].at = "exchange" /\ Ends(q)
  /\ UNCHANGED <<protocol, current, open, lock, resets>>

\* An error that calls for another connection, of a query that had one before
Retryable(q) ==
  /\ asker[q].tries < Retries
  /\ asker[q].had \/ (protocol = "doq" /\ asker[q].used # 0)

ExchangeFails(q) ==
  /\ asker[q].at = "exchange"
  /\ \/ Retryable(q) /\ asker' = [asker EXCEPT ![q].at = "reopen"]
     \/ asker' = [asker EXCEPT ![q].at = "close"]
  /\ UNCHANGED <<protocol, current, open, lock, resets>>

\* Mutant: closeConn does not look at the connection
MutantCloseIfCurrent(q) == current' = 0 /\ open' = open \ {current}

\* closeConnIfCurrent
CloseIfCurrent(q) ==
  IF current # 0 /\ current = asker[q].used
  THEN current' = 0 /\ open' = open \ {current}
  ELSE UNCHANGED <<current, open>>

\* Mutant: the old client is replaced without being closed
MutantResetClient(q) ==
  /\ current' = 0 /\ lock' = {q} /\ UNCHANGED open

\* resetClient: close the current client and open another under the same lock
ResetClient(q) ==
  /\ current' = 0 /\ open' = open \ {current} /\ lock' = {q}

\* Another attempt
Reopen(q) ==
  /\ asker[q].at = "reopen" /\ lock = {}
  /\ \/ /\ protocol = "doq" /\ CloseIfCurrent(q) /\ UNCHANGED lock
        /\ asker' = [asker EXCEPT ![q].at = "get", ![q].used = 0, ![q].tries = @ + 1]
     \/ /\ protocol = "doh" /\ ResetClient(q)
        /\ asker' = [asker EXCEPT ![q].at = "opening", ![q].used = 0, ![q].tries = @ + 1]
  /\ UNCHANGED <<protocol, resets>>

\* The last attempt failed: the connection is not used again
Close(q) ==
  /\ asker[q].at = "close" /\ lock = {}
  /\ \/ protocol = "doq" /\ CloseIfCurrent(q) /\ Ends(q) /\ UNCHANGED lock
     \/ protocol = "doh" /\ ResetClient(q) /\ asker' = [asker EXCEPT ![q].at = "reset", ![q].used = 0]
  /\ UNCHANGED <<protocol, resets>>

\* The client resetClient opens last serves later queries
ResetOpens(q) ==
  /\ asker[q].at = "reset" /\ lock' = {} /\ Ends(q)
  /\ \/ current' = Fresh /\ open' = open \cup {Fresh}
     \/ UNCHANGED <<current, open>>
  /\ UNCHANGED <<protocol, resets>>

\* ResetConnection after a change of the network
ResetConnection ==
  /\ protocol # "unset" /\ lock = {} /\ resets < MaxResets /\ resets' = resets + 1
  /\ current' = 0 /\ open' = open \ {current}
  /\ UNCHANGED <<protocol, lock, asker>>

Query(q) ==
  \/ Get(q) \/ Opens(q) \/ OpenFails(q) \/ Returns(q) \/ ExchangeFails(q)
  \/ Reopen(q) \/ Close(q) \/ ResetOpens(q)

Done == (\A q \in Queries : asker[q].at = "over") /\ resets = MaxResets /\ UNCHANGED vars

Next == Choose \/ ResetConnection \/ Done \/ \E q \in Queries : Begin(q) \/ Query(q)

\* A Go mutex is handed to a waiter that has waited long enough; exchanges and dials end with their context
Spec == Init /\ [][Next]_vars /\ \A q \in Queries : SF_vars(Query(q))

-----------------------------------------------------------------------------
(***************************************************************************)
(* Every connection that is open is the current one: none is left behind,  *)
(* whoever re-opens it while others use it, and the lock is never lost.    *)
(***************************************************************************)
OnlyCurrentOpen ==
  /\ open = {current} \ {0}
  /\ \A q \in Queries : q \in lock <=> asker[q].at \in {"opening", "reset"}

(***************************************************************************)
(* "A canceled opener must never replace a connection used by other        *)
(* queries" (dns/doq.go:319): over QUIC a connection is closed only by a   *)
(* query that failed on it, or by ResetConnection.                         *)
(***************************************************************************)
ClosedForItsFailure ==
  [][protocol = "doq" /\ resets' = resets =>
       \A c \in open \ open' : \E q \in Queries : asker[q].used = c /\ asker[q].at \in {"reopen", "close"} /\ asker' # asker]_vars
=============================================================================
