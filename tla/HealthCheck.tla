---------------------------- MODULE HealthCheck -----------------------------
(***************************************************************************)
(* adapter/provider healthcheck.go over adapter/adapter.go URLTest and     *)
(* adapter/urltest_pacer.go: the ticker, updates of the provider and the   *)
(* API all ask for a check; singleDo lets one run and answers the others;  *)
(* its probes queue for the shared pacer and record what they find. One    *)
(* test URL; a probe of another URL is a probe of another slot.            *)
(***************************************************************************)
EXTENDS Naturals, FiniteSets

CONSTANTS
    Names,        \* the proxies, each an object of one update
    Asking,       \* goroutines of check() other than the ticker's
    Slots,        \* healthCheckConcurrency: probe goroutines of a check
    Manual,       \* probe goroutines of the API and of Fallback.Set
    HistoryNum    \* defaultHistoriesNum

VARIABLES
    proxies,    \* hc.proxies
    listed,     \* the proxies of this update and the ones before
    closed,     \* hc.ctx is done
    singleDo,   \* the check that runs, and whether the last is still fresh
    asking,     \* per goroutine of check(): its place, and the proxies left to launch
    pacer,      \* urlTestProbePacer.mu: its holder
    probing,    \* per probe goroutine
    history,    \* p.history.Len(), state.history.Len()
    unprobed    \* proxies listed and not probed since

vars == <<proxies, listed, closed, singleDo, asking, pacer, probing, history, unprobed>>

Ticker == "ticker"
Checks == Asking \cup {Ticker}
Probes == Slots \cup Manual
None == "none"

AtRest == [pc |-> "idle", todo |-> {}, of |-> None]
NoProbe == [pc |-> "free", proxy |-> None]

TypeOK ==
    /\ proxies \in SUBSET Names /\ listed \in SUBSET Names /\ closed \in BOOLEAN
    /\ singleDo \in [call : Checks \cup {None}, fresh : BOOLEAN]
    /\ asking \in [Checks -> [pc : {"idle", "check", "launch", "join"}, todo : SUBSET Names,
                              of : Checks \cup {None}]]
    /\ pacer \in Probes \cup {None}
    /\ probing \in [Probes -> [pc : {"free", "queued", "paced", "running", "put"}, proxy : Names \cup {None}]]
    /\ history \in [Names -> 0..(HistoryNum + Cardinality(Probes))]
    /\ unprobed \in SUBSET Names

Init ==
    /\ proxies = {} /\ listed = {} /\ closed = FALSE
    /\ singleDo = [call |-> None, fresh |-> FALSE]
    /\ asking = [c \in Checks |-> AtRest]
    /\ pacer = None
    /\ probing = [p \in Probes |-> NoProbe]
    /\ history = [n \in Names |-> 0]
    /\ unprobed = {}

-----------------------------------------------------------------------------
(* Who asks for a check                                                    *)

Ask(c) ==
    /\ asking[c].pc = "idle"
    /\ asking' = [asking EXCEPT ![c].pc = "check"]

\* baseProvider.setProxies: the proxies are new objects; a goroutine checks.
SetProxies ==
    /\ \E new \in SUBSET (Names \ listed) \ {{}} :
         /\ proxies' = new
         /\ listed' = listed \cup new
         /\ unprobed' = new
    /\ \E c \in Asking : Ask(c)
    /\ UNCHANGED <<closed, singleDo, pacer, probing, history>>

\* process: the interval is over. (A lazy check of an unused provider skips it.)
Tick ==
    /\ ~closed
    /\ Ask(Ticker)
    /\ UNCHANGED <<proxies, listed, closed, singleDo, pacer, probing, history, unprobed>>

Close ==
    /\ ~closed
    /\ closed' = TRUE
    /\ UNCHANGED <<proxies, listed, singleDo, asking, pacer, probing, history, unprobed>>

-----------------------------------------------------------------------------
(* check                                                                   *)

\* No proxies, a check less than a second old, or one under way: nothing to
\* launch. The proxies of a new check are the ones listed now.
Check(c) ==
    /\ asking[c].pc = "check"
    /\ \/ /\ proxies = {} \/ singleDo.fresh
          /\ asking' = [asking EXCEPT ![c] = AtRest]
          /\ UNCHANGED singleDo
       \/ /\ proxies # {} /\ ~singleDo.fresh /\ singleDo.call # None
          /\ asking' = [asking EXCEPT ![c] = [AtRest EXCEPT !.pc = "join", !.of = singleDo.call]]
          /\ UNCHANGED singleDo
       \/ /\ proxies # {} /\ ~singleDo.fresh /\ singleDo.call = None
          /\ asking' = [asking EXCEPT ![c] = [AtRest EXCEPT !.pc = "launch", !.todo = proxies]]
          /\ singleDo' = [singleDo EXCEPT !.call = c]
    /\ UNCHANGED <<proxies, listed, closed, pacer, probing, history, unprobed>>

\* b.Go in execute: a probe per proxy, at most one per slot at a time.
Launch(c, s) ==
    /\ asking[c].pc = "launch"
    /\ probing[s] = NoProbe
    /\ \E n \in asking[c].todo :
         /\ asking' = [asking EXCEPT ![c].todo = @ \ {n}]
         /\ probing' = [probing EXCEPT ![s] = [pc |-> "queued", proxy |-> n]]
    /\ UNCHANGED <<proxies, listed, closed, singleDo, pacer, history, unprobed>>

\* Mutant: the result is kept, and whoever asked meanwhile keeps waiting.
MutantFinish(c) ==
    /\ asking[c].pc = "launch" /\ asking[c].todo = {}
    /\ \A s \in Slots : probing[s] = NoProbe
    /\ singleDo' = [call |-> None, fresh |-> TRUE]
    /\ asking' = [asking EXCEPT ![c] = AtRest]
    /\ UNCHANGED <<proxies, listed, closed, pacer, probing, history, unprobed>>

\* b.Wait: every probe of the check has ended. Do keeps the result.
Finish(c) ==
    /\ asking[c].pc = "launch" /\ asking[c].todo = {}
    /\ \A s \in Slots : probing[s] = NoProbe
    /\ singleDo' = [call |-> None, fresh |-> TRUE]
    /\ asking' = [d \in Checks |-> IF d = c \/ asking[d].of = c THEN AtRest ELSE asking[d]]
    /\ UNCHANGED <<proxies, listed, closed, pacer, probing, history, unprobed>>

\* A second has passed.
Ages ==
    /\ singleDo.fresh
    /\ singleDo' = [singleDo EXCEPT !.fresh = FALSE]
    /\ UNCHANGED <<proxies, listed, closed, asking, pacer, probing, history, unprobed>>

-----------------------------------------------------------------------------
(* Probes                                                                  *)

ManualTest(m) ==
    /\ probing[m] = NoProbe
    /\ ~closed
    /\ \E n \in proxies : probing' = [probing EXCEPT ![m] = [pc |-> "queued", proxy |-> n]]
    /\ UNCHANGED <<proxies, listed, closed, singleDo, asking, pacer, history, unprobed>>

\* Mutant: the pacer keeps its lock when the context ends while it waits.
MutantPaced(p) ==
    /\ probing[p].pc = "paced"
    /\ probing' = [probing EXCEPT ![p] = IF closed THEN NoProbe ELSE [@ EXCEPT !.pc = "running"]]
    /\ pacer' = IF closed THEN pacer ELSE None
    /\ UNCHANGED <<proxies, listed, closed, singleDo, asking, history, unprobed>>

\* probeStartPacer.wait: one probe at a time waits out its interval under the
\* lock. A context that ends meanwhile ends the probe, and nothing is recorded.
Pace(p) ==
    /\ probing[p].pc = "queued"
    /\ pacer = None
    /\ pacer' = p
    /\ probing' = [probing EXCEPT ![p].pc = "paced"]
    /\ UNCHANGED <<proxies, listed, closed, singleDo, asking, history, unprobed>>

Paced(p) ==
    /\ probing[p].pc = "paced"
    /\ probing' = [probing EXCEPT ![p] = IF closed THEN NoProbe ELSE [@ EXCEPT !.pc = "running"]]
    /\ pacer' = None
    /\ UNCHANGED <<proxies, listed, closed, singleDo, asking, history, unprobed>>

\* URLTest's deferred function: the record is put ...
Record(p) ==
    LET n == probing[p].proxy IN
    /\ probing[p].pc = "running"
    /\ history' = [history EXCEPT ![n] = @ + 1]
    /\ unprobed' = unprobed \ {n}
    /\ probing' = [probing EXCEPT ![p].pc = "put"]
    /\ UNCHANGED <<proxies, listed, closed, singleDo, asking, pacer>>

\* Mutant: the oldest record goes when the history is exactly one too long.
MutantTrim(p) ==
    LET n == probing[p].proxy IN
    /\ probing[p].pc = "put"
    /\ history' = [history EXCEPT ![n] = IF @ = HistoryNum + 1 THEN @ - 1 ELSE @]
    /\ probing' = [probing EXCEPT ![p] = NoProbe]
    /\ UNCHANGED <<proxies, listed, closed, singleDo, asking, pacer, unprobed>>

\* ... and then the oldest record goes if the history has become too long:
\* other probes of the proxy may have put theirs in between.
Trim(p) ==
    LET n == probing[p].proxy IN
    /\ probing[p].pc = "put"
    /\ history' = [history EXCEPT ![n] = IF @ > HistoryNum THEN @ - 1 ELSE @]
    /\ probing' = [probing EXCEPT ![p] = NoProbe]
    /\ UNCHANGED <<proxies, listed, closed, singleDo, asking, pacer, unprobed>>

Probing(p) == Paced(p) \/ Record(p) \/ Trim(p)

\* A goroutine inside check.
Checking(c) == Check(c) \/ Finish(c) \/ \E s \in Slots : Launch(c, s)

\* A closed provider may stop for good.
Stopped == closed /\ UNCHANGED vars

Next ==
    \/ Stopped
    \/ SetProxies \/ Tick \/ Close \/ Ages
    \/ \E c \in Checks : Checking(c)
    \/ \E m \in Manual : ManualTest(m)
    \/ \E p \in Probes : Pace(p) \/ Probing(p)

\* The ticker ticks, goroutines are scheduled, probes time out, results age;
\* sync.Mutex hands the pacer to a waiter that would otherwise starve.
Spec ==
    /\ Init /\ [][Next]_vars
    /\ WF_vars(Tick) /\ WF_vars(Ages)
    /\ \A c \in Checks : WF_vars(Checking(c))
    /\ \A p \in Probes : SF_vars(Pace(p)) /\ WF_vars(Probing(p))

-----------------------------------------------------------------------------
(* Properties                                                              *)

\* However the probes of one proxy interleave between their put and their
\* check of the length, the history is back within defaultHistoriesNum when
\* they have ended.
HistoryBounded ==
    \A n \in Names :
        history[n] <= HistoryNum + Cardinality({p \in Probes : probing[p] = [pc |-> "put", proxy |-> n]})
=============================================================================
