--------------------------- MODULE ConnectionPool ---------------------------
(***************************************************************************)
(* dns/dot.go: queries over TLS take the connection used last from a       *)
(* pool, dial without one, try again as long as it was an old connection   *)
(* that failed, and put a connection that answered back.  A full pool      *)
(* closes its oldest connection, ResetConnection all it has.               *)
(***************************************************************************)
EXTENDS Naturals, Sequences, FiniteSets, FiniteSetsExt, SequencesExt

CONSTANTS
  PoolQueries,
  MaxOld,         \* maxOldDotConns
  MaxPoolResets   \* bound

VARIABLES
  connections,    \* the deque, newest last
  closed,         \* connections closed by this side that somebody may still hold
  worker,         \* per query, its goroutine: the connection and whether it is old
  asking,         \* queries whose caller still waits
  poolResets

vars == <<connections, closed, worker, asking, poolResets>>

Conns == 1..Cardinality(PoolQueries) + MaxOld + 1

NoWork == [at |-> "idle", conn |-> 0, old |-> FALSE]

Init ==
  /\ connections = <<>> /\ closed = {} /\ asking = {} /\ poolResets = 0
  /\ worker = [q \in PoolQueries |-> NoWork]

Held == {worker[q].conn : q \in PoolQueries} \ {0}

Fresh == Min(Conns \ (Held \cup ToSet(connections)))

Exchange(q) ==
  /\ worker[q].at = "idle" /\ worker' = [worker EXCEPT ![q].at = "pop"] /\ asking' = asking \cup {q}
  /\ UNCHANGED <<connections, closed, poolResets>>

\* The context ends: the caller leaves, its goroutine closes the connection
CallerLeaves(q) ==
  /\ q \in asking /\ asking' = asking \ {q}
  /\ closed' = IF worker[q].at = "exchange" THEN closed \cup {worker[q].conn} ELSE closed
  /\ UNCHANGED <<connections, worker, poolResets>>

Ends(q) == worker' = [worker EXCEPT ![q] = [NoWork EXCEPT !.at = "over"]]

\* The top of the retry loop
Pop(q) ==
  /\ worker[q].at = "pop"
  /\ \/ q \notin asking /\ Ends(q) /\ UNCHANGED connections
     \/ /\ q \in asking
        /\ IF connections = <<>>
           THEN worker' = [worker EXCEPT ![q].at = "dial"] /\ UNCHANGED connections
           ELSE /\ worker' = [worker EXCEPT ![q] = [at |-> "exchange", conn |-> Last(connections), old |-> TRUE]]
                /\ connections' = Front(connections)
  /\ UNCHANGED <<closed, asking, poolResets>>

Dial(q) ==
  /\ worker[q].at = "dial"
  /\ \/ /\ worker' = [worker EXCEPT ![q] = [at |-> "exchange", conn |-> Fresh, old |-> FALSE]]
        /\ closed' = IF q \in asking THEN closed ELSE closed \cup {Fresh}
        /\ UNCHANGED asking
     \/ Ends(q) /\ asking' = asking \ {q} /\ UNCHANGED closed
  /\ UNCHANGED <<connections, poolResets>>

\* Mutant: the connection of a query that was left goes back to the pool
MutantAnswered(q) ==
  /\ worker[q].at = "exchange" /\ Ends(q) /\ asking' = asking \ {q}
  /\ connections' = Append(IF Len(connections) >= MaxOld THEN Tail(connections) ELSE connections, worker[q].conn)
  /\ UNCHANGED <<closed, poolResets>>

\* An answer before the context ended: the connection goes back
Answered(q) ==
  /\ worker[q].at = "exchange" /\ q \in asking /\ Ends(q) /\ asking' = asking \ {q}
  /\ connections' = Append(IF Len(connections) >= MaxOld THEN Tail(connections) ELSE connections, worker[q].conn)
  /\ UNCHANGED <<closed, poolResets>>

\* The context ended first
Cancelled(q) ==
  /\ worker[q].at = "exchange" /\ q \notin asking /\ Ends(q) /\ closed' = closed \ {worker[q].conn}
  /\ UNCHANGED <<connections, asking, poolResets>>

\* Mutant: a new connection that fails is replaced too
MutantFails(q) ==
  /\ worker[q].at = "exchange" /\ q \in asking
  /\ worker' = [worker EXCEPT ![q] = [NoWork EXCEPT !.at = "pop"]] /\ UNCHANGED asking
  /\ UNCHANGED <<connections, closed, poolResets>>

\* The exchange fails: only an old connection is replaced
Fails(q) ==
  /\ worker[q].at = "exchange" /\ q \in asking
  /\ IF worker[q].old THEN worker' = [worker EXCEPT ![q] = [NoWork EXCEPT !.at = "pop"]] /\ UNCHANGED asking
     ELSE Ends(q) /\ asking' = asking \ {q}
  /\ UNCHANGED <<connections, closed, poolResets>>

ResetConnection ==
  /\ poolResets < MaxPoolResets /\ poolResets' = poolResets + 1 /\ connections' = <<>>
  /\ UNCHANGED <<closed, worker, asking>>

Work(q) == Pop(q) \/ Dial(q) \/ Answered(q) \/ Cancelled(q) \/ Fails(q)

Done == (\A q \in PoolQueries : worker[q].at = "over") /\ poolResets = MaxPoolResets /\ UNCHANGED vars

Next == ResetConnection \/ Done \/ \E q \in PoolQueries : Exchange(q) \/ CallerLeaves(q) \/ Work(q)

Spec == Init /\ [][Next]_vars /\ \A q \in PoolQueries : WF_vars(Work(q))

-----------------------------------------------------------------------------
(***************************************************************************)
(* A connection is in the pool once or used by one query, the pool is      *)
(* bounded, and what it holds was not closed by a query whose context      *)
(* ended in the middle of its exchange.                                    *)
(***************************************************************************)
PoolIsExclusive ==
  /\ IsInjective(connections) /\ Len(connections) <= MaxOld
  /\ ToSet(connections) \cap (Held \cup closed) = {}
  /\ \A p, q \in PoolQueries : p # q /\ worker[p].conn # 0 => worker[p].conn # worker[q].conn
=============================================================================
