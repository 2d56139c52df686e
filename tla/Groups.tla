------------------------------- MODULE Groups -------------------------------
(***************************************************************************)
(* Proxy groups and providers: the coalescing of calls (common/singledo),  *)
(* the list of a group, the choice of a node, the failures a group counts, *)
(* the health checks of a provider and the fetcher of its contents.  Each  *)
(* takes what it asks of the others as arbitrary, so a behaviour follows   *)
(* one of them, and the others keep their initial values.                  *)
(***************************************************************************)
EXTENDS SingleDo, ProxyList

CONSTANTS
  NumChoices, Delays, Tolerance,                                               \* of NodeChoice
  NumNodes, Dials, MaxFailedTimes, MaxTurns,                                   \* of GroupFailures
  Names, Asking, Slots, Manual, HistoryNum,                                    \* of HealthCheck
  MaxRemote, Broken, Updaters, MaxCrashes                                      \* of Fetcher

VARIABLES
  part,                                                                        \* the component followed
  kind, length, record, selected, fastest, idx, entry, pick, turn,             \* of NodeChoice
  up, turns, alive, fastNode, fastSingle, failedTimes, failedTesting, dial,    \* of GroupFailures
  proxies, listed, closed, singleDo, asking, pacer, probing, history, unprobed,  \* of HealthCheck
  remote, etag, file, hash, contents, fetch, initial, crashes                  \* of Fetcher

Choice == INSTANCE NodeChoice WITH NumNodes <- NumChoices, fastNode <- fastest
Failures == INSTANCE GroupFailures
Health == INSTANCE HealthCheck
Fetch == INSTANCE Fetcher

choiceVars == <<kind, length, record, selected, fastest, idx, entry, pick, turn>>
failureVars == <<up, turns, alive, fastNode, fastSingle, failedTimes, failedTesting, dial>>
healthVars == <<proxies, listed, closed, singleDo, asking, pacer, probing, history, unprobed>>
fetchVars == <<remote, etag, file, hash, contents, fetch, initial, crashes>>
vars == <<part, singleVars, listVars, choiceVars, failureVars, healthVars, fetchVars>>

Parts == {"single", "list", "choice", "failures", "health", "fetch"}

Init ==
  /\ part \in Parts
  /\ SingleInit /\ ListInit /\ Choice!Init /\ Failures!Init /\ Health!Init /\ Fetch!Init

\* An action of one component
SingleOnly(A) ==
  part = "single" /\ A /\ UNCHANGED <<part, listVars, choiceVars, failureVars, healthVars, fetchVars>>
ListOnly(A) ==
  part = "list" /\ A /\ UNCHANGED <<part, singleVars, choiceVars, failureVars, healthVars, fetchVars>>
ChoiceOnly(A) ==
  part = "choice" /\ A /\ UNCHANGED <<part, singleVars, listVars, failureVars, healthVars, fetchVars>>
FailuresOnly(A) ==
  part = "failures" /\ A /\ UNCHANGED <<part, singleVars, listVars, choiceVars, healthVars, fetchVars>>
HealthOnly(A) ==
  part = "health" /\ A /\ UNCHANGED <<part, singleVars, listVars, choiceVars, failureVars, fetchVars>>
FetchOnly(A) ==
  part = "fetch" /\ A /\ UNCHANGED <<part, singleVars, listVars, choiceVars, failureVars, healthVars>>

Next ==
  \/ SingleOnly(SingleNext)
  \/ ListOnly(ListNext)
  \/ ChoiceOnly(Choice!Next)
  \/ FailuresOnly(Failures!Next)
  \/ HealthOnly(Health!Next)
  \/ FetchOnly(Fetch!Next)

\* Goroutine i: a caller of Do, a dial, a probe, an update from the API
Goroutine(i) ==
  \/ i \in Users /\ SingleOnly(Do(i))
  \/ i \in Dials /\ FailuresOnly(Failures!Progress(i))
  \/ i \in Slots \cup Manual /\ HealthOnly(Health!Probing(i))
  \/ i \in Updaters /\ FetchOnly(Fetch!Fetches(i))

\* A goroutine that runs in the background
Background ==
  \/ HealthOnly(Health!Checking(Health!Ticker))
  \/ FetchOnly(Fetch!Fetches(Fetch!PullLoop))
  \/ FailuresOnly(Failures!Expire)

\* What its timer makes it do
Timer ==
  \/ HealthOnly(Health!Tick)
  \/ FetchOnly(Fetch!Update(Fetch!PullLoop))

\* A probe waits for the pacer's mutex, a fetch for a good answer of the server,
\* for the mutex and for the disk
Succeeds(i) ==
  \/ i \in Slots \cup Manual /\ HealthOnly(Health!Pace(i))
  \/ i = "1" /\ FetchOnly(Fetch!Responds(Fetch!PullLoop))
  \/ i = "2" /\ FetchOnly(Fetch!LoadBuf(Fetch!PullLoop))
  \/ i = "3" /\ FetchOnly(Fetch!Published(Fetch!PullLoop))

(***************************************************************************)
(* Only one component takes steps, so each condition is the fairness of    *)
(* whichever that is.  Goroutines are scheduled, dials, probes and         *)
(* requests end with their contexts, timers fire and what is kept for a    *)
(* time expires; a Go mutex serves who has waited long enough; and the     *)
(* server answers and the disk takes a file now and then.                  *)
(***************************************************************************)
Fairness ==
  /\ \A i \in {"1", "2", "3"} : WF_vars(Goroutine(i)) /\ SF_vars(Succeeds(i))
  /\ WF_vars(Background) /\ WF_vars(Timer)
  /\ WF_vars(HealthOnly(Health!Ages) \/ FetchOnly(Fetch!Starts))
  /\ \A c \in Asking : WF_vars(HealthOnly(Health!Checking(c)))
  /\ \A n \in 1..NumNodes : WF_vars(FailuresOnly(Failures!Probe(n)))

Spec == Init /\ [][Next]_vars /\ Fairness

-----------------------------------------------------------------------------
(***************************************************************************)
(* What a group chooses follows the tests of its nodes, under every        *)
(* strategy.                                                               *)
(***************************************************************************)
ChoiceFollowsTests == Choice!ChoiceFollowsTests

(***************************************************************************)
(* What is remembered of turns, tests and contents is right, and of its    *)
(* type: round robin gives every node its turn before it gives one twice,  *)
(* one check of the group runs at a time, the history of a proxy is        *)
(* bounded, and the hash is the one of the contents in use.                *)
(***************************************************************************)
RecordsAreRight ==
  /\ part = "choice" => Choice!TypeOK /\ Choice!TurnsAreEven
  /\ part = "failures" => Failures!TypeOK /\ Failures!OneGroupCheck
  /\ part = "health" => Health!TypeOK /\ Health!HistoryBounded
  /\ part = "fetch" => Fetch!TypeOK /\ Fetch!HashIsContents

(***************************************************************************)
(* Nothing waits or stays out of date for ever: a caller of Do, a dial     *)
(* with what it does after failing, a proxy that was listed and not probed *)
(* while the provider is open, contents the server has replaced.           *)
(***************************************************************************)
Behind ==
  \/ user["1"].pc \in {"running", "waiting", "done"}
  \/ dial["1"].pc # "idle"
  \/ (CHOOSE n \in Names : TRUE) \in unprobed /\ ~closed
  \/ part = "fetch" /\ contents # remote /\ remote \notin Broken

CatchesUp == []<>~Behind

(***************************************************************************)
(* Once the nodes stop going up and down, a group with a node that works   *)
(* gives out nodes that work.                                              *)
(***************************************************************************)
ChoiceSettles ==
  <>[]((\E n \in 1..NumNodes : up[n]) => \A d \in Dials : dial[d].pc = "dialing" => up[dial[d].node])
=============================================================================
