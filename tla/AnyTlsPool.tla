----------------------------- MODULE AnyTlsPool -----------------------------
(***************************************************************************)
(* transport/anytls/session: the client that keeps idle sessions for reuse *)
(* and opens one stream at a time on each.                                 *)
(*                                                                         *)
(* CreateStream, the hook that runs when a stream dies, Session.Close and  *)
(* Client.Close take different locks and are interleaved at each of them.  *)
(* Frames are reduced to what ends a stream or a session; a failed write,  *)
(* a read error, an alert and a missed SYNACK all end in Session.Close.    *)
(***************************************************************************)
EXTENDS Naturals, FiniteSets

CONSTANTS
    Streams,        \* calls of CreateStream and the streams they return
    MaxDialled,    \* bound: sessions dialled
    MinIdle         \* minIdleSession

VARIABLES
    client,     \* c.die and the place of Client.Close
    counter,    \* sessionCounter
    session,    \* per seq: die, the closer's place, membership in the pool and in c.sessions
    doomed,     \* sessionToClose of Client.Close and of idleCleanupExpTime
    stream      \* per stream: its place and its session

poolVars == <<client, counter, session, doomed, stream>>

Seqs == 1..MaxDialled
NoSeq == 0

\* closer: "none" | "unpool" | "unregister" | "streams" | "closed".
\* opened: streams opened so far, up to 2; aged: idleSince is before expTime;
\* stranded: a stream ended before its hook was set.
NewSession == [closer |-> "none", idle |-> FALSE, registered |-> FALSE,
               opened |-> 0, aged |-> FALSE, stranded |-> FALSE]

PoolTypeOK ==
    /\ client \in {"open", "closing", "closed"}
    /\ counter \in 0..MaxDialled
    /\ session \in [Seqs -> [closer : {"none", "unpool", "unregister", "streams", "closed"},
                             idle : BOOLEAN, registered : BOOLEAN, opened : 0..2,
                             aged : BOOLEAN, stranded : BOOLEAN]]
    /\ doomed \subseteq Seqs
    /\ stream \in [Streams -> [pc : {"idle", "get", "dial", "register", "open", "add", "hook", "using",
                                     "ended", "check", "insert", "done", "failed"},
                               seq : Seqs \cup {NoSeq}]]

PoolInit ==
    /\ client = "open"
    /\ counter = 0
    /\ session = [s \in Seqs |-> NewSession]
    /\ doomed = {}
    /\ stream = [t \in Streams |-> [pc |-> "idle", seq |-> NoSeq]]

IsClosed(s) == session[s].closer # "none"

\* The part of Session.Close that runs once: die is closed, the rest follows
\* step by step. A session that is closed already is left alone.
Closing(s) == [session EXCEPT ![s].closer = IF @ = "none" THEN "unpool" ELSE @]

Goes(t, pc) == stream' = [stream EXCEPT ![t].pc = pc]

Pool == {s \in Seqs : session[s].idle}

\* The pool is ordered by MaxUint64 - seq: its first element is the newest.
Newest(S) == CHOOSE s \in S : \A r \in S : r <= s

\* The check of c.die with which CreateStream begins.
Create(t) ==
    /\ stream[t].pc = "idle"
    /\ Goes(t, IF client = "open" THEN "get" ELSE "failed")
    /\ UNCHANGED <<client, counter, session, doomed>>

\* Mutant: the session stays in the pool.
MutantGetIdleSession(t) ==
    /\ stream[t].pc = "get"
    /\ IF Pool = {}
       THEN Goes(t, "dial") /\ UNCHANGED session
       ELSE /\ stream' = [stream EXCEPT ![t] = [pc |-> "open", seq |-> Newest(Pool)]]
            /\ UNCHANGED session
    /\ UNCHANGED <<client, counter, doomed>>

GetIdleSession(t) ==
    /\ stream[t].pc = "get"
    /\ IF Pool = {}
       THEN Goes(t, "dial") /\ UNCHANGED session
       ELSE /\ stream' = [stream EXCEPT ![t] = [pc |-> "open", seq |-> Newest(Pool)]]
            /\ session' = [session EXCEPT ![Newest(Pool)].idle = FALSE]
    /\ UNCHANGED <<client, counter, doomed>>

\* createSession up to the session counter.
Dial(t) ==
    /\ stream[t].pc = "dial"
    /\ counter < MaxDialled
    /\ counter' = counter + 1
    /\ stream' = [stream EXCEPT ![t] = [pc |-> "register", seq |-> counter + 1]]
    /\ UNCHANGED <<client, session, doomed>>

DialFails(t) ==
    /\ stream[t].pc = "dial"
    /\ Goes(t, "failed")
    /\ UNCHANGED <<client, counter, session, doomed>>

\* c.sessions[seq] = session, and Run.
Register(t) ==
    /\ stream[t].pc = "register"
    /\ session' = [session EXCEPT ![stream[t].seq].registered = TRUE]
    /\ Goes(t, "open")
    /\ UNCHANGED <<client, counter, doomed>>

\* OpenStream up to the SYN: the session may be closed already.
OpenStream(t) ==
    LET s == stream[t].seq IN
    /\ stream[t].pc = "open"
    /\ IF IsClosed(s)
       THEN Goes(t, "failed") /\ UNCHANGED session
       ELSE /\ Goes(t, "add")
            /\ session' = [session EXCEPT ![s].opened = IF @ = 2 THEN 2 ELSE @ + 1]
    /\ UNCHANGED <<client, counter, doomed>>

\* The SYN cannot be written: writeControlFrame and CreateStream close the session.
SynFails(t) ==
    /\ stream[t].pc = "open"
    /\ ~IsClosed(stream[t].seq)
    /\ session' = Closing(stream[t].seq)
    /\ Goes(t, "failed")
    /\ UNCHANGED <<client, counter, doomed>>

\* OpenStream under streamLock: the stream joins s.streams unless the session died.
AddStream(t) ==
    /\ stream[t].pc = "add"
    /\ Goes(t, IF IsClosed(stream[t].seq) THEN "failed" ELSE "hook")
    /\ UNCHANGED <<client, counter, session, doomed>>

\* stream.dieHook is set and CreateStream returns.
SetHook(t) ==
    /\ stream[t].pc \in {"hook", "ended"}
    /\ Goes(t, IF stream[t].pc = "hook" THEN "using" ELSE "done")
    /\ UNCHANGED <<client, counter, session, doomed>>

\* The stream ends once: by Stream.Close or an error SYNACK, after the FIN is
\* written; or by the FIN of the peer.
EndStream(t) ==
    /\ stream[t].pc = "using"
    /\ Goes(t, "check")
    /\ UNCHANGED <<client, counter, session, doomed>>

\* The FIN cannot be written.
FinFails(t) ==
    /\ stream[t].pc = "using"
    /\ ~IsClosed(stream[t].seq)
    /\ session' = Closing(stream[t].seq)
    /\ Goes(t, "check")
    /\ UNCHANGED <<client, counter, doomed>>

\* The peer ends a stream whose hook is not set yet. On a fresh session the SYN
\* is still buffered, so the peer has not seen the stream.
EarlyFin(t) ==
    LET s == stream[t].seq IN
    /\ stream[t].pc = "hook"
    /\ session[s].opened > 1
    /\ ~IsClosed(s)
    /\ Goes(t, "ended")
    /\ session' = [session EXCEPT ![s].stranded = TRUE]
    /\ UNCHANGED <<client, counter, doomed>>

\* stream.dieHook up to the lock: a closed session is left, a closed client
\* closes the session, otherwise the session goes to the pool.
Hook(t) ==
    LET s == stream[t].seq IN
    /\ stream[t].pc = "check"
    /\ CASE IsClosed(s)                     -> Goes(t, "done") /\ UNCHANGED session
         [] ~IsClosed(s) /\ client # "open" -> Goes(t, "done") /\ session' = Closing(s)
         [] OTHER                           -> Goes(t, "insert") /\ UNCHANGED session
    /\ UNCHANGED <<client, counter, doomed>>

Insert(t) ==
    /\ stream[t].pc = "insert"
    /\ session' = [session EXCEPT ![stream[t].seq].idle = TRUE, ![stream[t].seq].aged = FALSE]
    /\ Goes(t, "done")
    /\ UNCHANGED <<client, counter, doomed>>

\* The session fails: recvLoop returns, or the SYNACK is late.
SessionFails(s) ==
    /\ session[s].registered
    /\ ~IsClosed(s)
    /\ session' = Closing(s)
    /\ UNCHANGED <<client, counter, doomed, stream>>

\* session.dieHook: out of the pool, then out of c.sessions.
Unpool(s) ==
    /\ session[s].closer = "unpool"
    /\ session' = [session EXCEPT ![s].closer = "unregister", ![s].idle = FALSE]
    /\ UNCHANGED <<client, counter, doomed, stream>>

Unregister(s) ==
    /\ session[s].closer = "unregister"
    /\ session' = [session EXCEPT ![s].closer = "streams", ![s].registered = FALSE]
    /\ UNCHANGED <<client, counter, doomed, stream>>

\* Every stream in s.streams is closed locally; its hook finds the session closed.
CloseStreams(s) ==
    /\ session[s].closer = "streams"
    /\ session' = [session EXCEPT ![s].closer = "closed"]
    /\ stream' = [t \in Streams |->
                    IF stream[t].seq = s /\ stream[t].pc = "using" THEN [stream[t] EXCEPT !.pc = "done"]
                    ELSE IF stream[t].seq = s /\ stream[t].pc = "hook" THEN [stream[t] EXCEPT !.pc = "ended"]
                    ELSE stream[t]]
    /\ UNCHANGED <<client, counter, doomed>>

\* Client.Close: dieCancel, then the snapshot of c.sessions.
ClientClose ==
    /\ client = "open"
    /\ client' = "closing"
    /\ UNCHANGED <<counter, session, doomed, stream>>

Snapshot ==
    /\ client = "closing"
    /\ client' = "closed"
    /\ doomed' = doomed \cup {s \in Seqs : session[s].registered}
    /\ session' = [s \in Seqs |-> [session[s] EXCEPT !.registered = FALSE]]
    /\ UNCHANGED <<counter, stream>>

\* Time passes: an idle session has been idle longer than the timeout.
Ages(s) ==
    /\ session[s].idle
    /\ ~session[s].aged
    /\ session' = [session EXCEPT ![s].aged = TRUE]
    /\ UNCHANGED <<client, counter, doomed, stream>>

\* The newest MinIdle sessions of the pool stay whatever their age.
Stays(s) == ~session[s].aged \/ Cardinality({r \in Pool : r > s}) < MinIdle

\* idleCleanupExpTime under idleSessionLock. A pass that began before
\* Client.Close may end after it.
IdleCleanup ==
    /\ Pool # {}
    /\ session' = [s \in Seqs |->
                     IF s \notin Pool THEN session[s]
                     ELSE IF Stays(s) THEN [session[s] EXCEPT !.aged = FALSE]
                     ELSE [session[s] EXCEPT !.idle = FALSE]]
    /\ doomed' = doomed \cup {s \in Pool : ~Stays(s)}
    /\ UNCHANGED <<client, counter, stream>>

\* The loops that close what Client.Close and the cleanup collected.
CloseDoomed(s) ==
    /\ s \in doomed
    /\ doomed' = doomed \ {s}
    /\ session' = Closing(s)
    /\ UNCHANGED <<client, counter, stream>>

\* What a goroutine inside the client does next.
CreateStream(t) ==
    \/ GetIdleSession(t) \/ Dial(t) \/ DialFails(t) \/ Register(t)
    \/ OpenStream(t) \/ SynFails(t) \/ AddStream(t) \/ SetHook(t)
    \/ Hook(t) \/ Insert(t)

SessionClose(s) == Unpool(s) \/ Unregister(s) \/ CloseStreams(s) \/ CloseDoomed(s)

\* The client is closed and its callers have returned
PoolOver ==
    /\ client = "closed" /\ \A t \in Streams : stream[t].pc \in {"done", "failed", "ended"}
    /\ UNCHANGED poolVars

PoolNext ==
    \/ \E t \in Streams :
        Create(t) \/ CreateStream(t) \/ EndStream(t) \/ FinFails(t) \/ EarlyFin(t)
    \/ \E s \in Seqs : SessionClose(s) \/ SessionFails(s) \/ Ages(s)
    \/ ClientClose
    \/ Snapshot
    \/ IdleCleanup
    \/ PoolOver

\* Goroutines are scheduled; a stream is closed by whoever uses it, in the end.
PoolFairness ==
    /\ \A t \in Streams : WF_poolVars(CreateStream(t)) /\ WF_poolVars(EndStream(t))
    /\ \A s \in Seqs : WF_poolVars(SessionClose(s))
    /\ WF_poolVars(Snapshot)

PoolSpec == PoolInit /\ [][PoolNext]_poolVars /\ PoolFairness

-----------------------------------------------------------------------------
(* Properties                                                              *)

\* The streams that have session s in hand, from the moment they take or dial
\* it until their hook has run.
Holders(s) ==
    {t \in Streams : stream[t].seq = s /\ stream[t].pc \notin {"done", "failed", "ended"}}

\* A session serves one stream at a time: it is never in two hands, nor in the
\* pool or on the cleanup's list while a stream has it.
OneStreamPerSession ==
    \A s \in Seqs :
        /\ Cardinality(Holders(s)) <= 1
        /\ session[s].idle => Holders(s) = {}

\* No session is forgotten: one that is open is in the pool, in the hands of a
\* stream, or about to be closed. The exception is a stream the peer ended
\* before its hook was set.
NoneForgotten ==
    \A s \in 1..counter :
        ~IsClosed(s) => session[s].idle \/ s \in doomed \/ Holders(s) # {} \/ session[s].stranded

=============================================================================
