--------------------------- MODULE GroupFailures ----------------------------
(***************************************************************************)
(* adapter/outboundgroup: dials through a url-test group, the health check *)
(* that their failures set off (onDialFailed, recordDialFailure,           *)
(* healthCheck, onDialSuccess), and the choice of the node they share      *)
(* through fastSingle, which a check resets before and after. Delays are   *)
(* left out: any live node may be the fastest (NodeChoice has the rule).   *)
(***************************************************************************)
EXTENDS Naturals, FiniteSets

CONSTANTS
    NumNodes,
    Dials,           \* goroutines that dial, and count and check afterwards
    MaxFailedTimes,  \* gb.maxFailedTimes
    MaxTurns         \* bound: how often a node goes up or down

VARIABLES
    up, turns,      \* which nodes work
    alive,          \* what the probes last recorded
    fastNode,       \* u.fastNode
    fastSingle,     \* the dial whose call is current, and the kept node
    failedTimes, failedTesting,
    dial

vars == <<up, turns, alive, fastNode, fastSingle, failedTimes, failedTesting, dial>>

Nodes == 1..NumNodes
NoNode == 0
NoDial == "none"
Idle == [pc |-> "idle", node |-> NoNode, of |-> NoDial]

\* pc: "idle" | "choosing" fn has read the nodes, "node" is its choice |
\*     "written" fastNode is set | "waiting" for the call of "of" |
\*     "dialing" "node" | "failed" the goroutine of onDialFailed |
\*     "check" healthCheck before its lock | "testing" | "checked" after it.
Steps == {"idle", "choosing", "written", "waiting", "dialing", "failed", "check", "testing", "checked"}

TypeOK ==
    /\ up \in [Nodes -> BOOLEAN] /\ turns \in 0..MaxTurns
    /\ alive \in [Nodes -> BOOLEAN]
    /\ fastNode \in Nodes \cup {NoNode}
    /\ fastSingle \in [call : Dials \cup {NoDial}, kept : Nodes \cup {NoNode}]
    /\ failedTimes \in 0..MaxFailedTimes /\ failedTesting \in BOOLEAN
    /\ dial \in [Dials -> [pc : Steps, node : Nodes \cup {NoNode}, of : Dials \cup {NoDial}]]

Forgotten == [call |-> NoDial, kept |-> NoNode]

Init ==
    /\ up = [n \in Nodes |-> TRUE] /\ turns = 0
    /\ alive = [n \in Nodes |-> TRUE]
    /\ fastNode = NoNode
    /\ fastSingle = Forgotten
    /\ failedTimes = 0 /\ failedTesting = FALSE
    /\ dial = [d \in Dials |-> Idle]

At(d, pc) == dial' = [dial EXCEPT ![d].pc = pc]

-----------------------------------------------------------------------------
(* The choice: fast through fastSingle.Do                                  *)

AliveNodes == {n \in Nodes : alive[n]}

\* Mutant: the current node is kept whether it is alive or not.
MutantChoices == IF fastNode # NoNode THEN {fastNode} ELSE IF AliveNodes = {} THEN {1} ELSE AliveNodes

\* The function of fast: a live node, or the first of the list.
Choices == IF AliveNodes = {} THEN {1} ELSE AliveNodes

Do(d) ==
    /\ dial[d].pc = "idle"
    /\ \/ /\ fastSingle.kept # NoNode
          /\ dial' = [dial EXCEPT ![d] = [Idle EXCEPT !.pc = "dialing", !.node = fastSingle.kept]]
          /\ UNCHANGED fastSingle
       \/ /\ fastSingle.kept = NoNode
          /\ fastSingle.call # NoDial
          /\ dial' = [dial EXCEPT ![d] = [Idle EXCEPT !.pc = "waiting", !.of = fastSingle.call]]
          /\ UNCHANGED fastSingle
       \/ /\ fastSingle = Forgotten
          /\ \E n \in Choices :
                dial' = [dial EXCEPT ![d] = [Idle EXCEPT !.pc = "choosing", !.node = n]]
          /\ fastSingle' = [fastSingle EXCEPT !.call = d]
    /\ UNCHANGED <<up, turns, alive, fastNode, failedTimes, failedTesting>>

WriteFast(d) ==
    /\ dial[d].pc = "choosing"
    /\ fastNode' = dial[d].node
    /\ At(d, "written")
    /\ UNCHANGED <<up, turns, alive, fastSingle, failedTimes, failedTesting>>

\* fn returns what u.fastNode now is, which a call that Reset overtook may have
\* written since. Do hands it to the waiters, and keeps it unless it was reset.
FastReturns(d) ==
    /\ dial[d].pc = "written"
    /\ dial' = [w \in Dials |-> IF w = d \/ (dial[w].pc = "waiting" /\ dial[w].of = d)
                                THEN [Idle EXCEPT !.pc = "dialing", !.node = fastNode]
                                ELSE dial[w]]
    /\ fastSingle' = IF fastSingle.call = d THEN [call |-> NoDial, kept |-> fastNode] ELSE fastSingle
    /\ UNCHANGED <<up, turns, alive, fastNode, failedTimes, failedTesting>>

\* The kept choice is ten seconds old.
Expire ==
    /\ fastSingle.kept # NoNode
    /\ fastSingle' = [fastSingle EXCEPT !.kept = NoNode]
    /\ UNCHANGED <<up, turns, alive, fastNode, failedTimes, failedTesting, dial>>

-----------------------------------------------------------------------------
(* The dial and its failure                                                *)

\* The first write succeeds: onDialSuccess.
DialSucceeds(d) ==
    /\ dial[d].pc = "dialing"
    /\ up[dial[d].node]
    /\ failedTimes' = IF failedTesting THEN failedTimes ELSE 0
    /\ dial' = [dial EXCEPT ![d] = Idle]
    /\ UNCHANGED <<up, turns, alive, fastNode, fastSingle, failedTesting>>

\* Dials fail when the node is down, and for reasons of their own.
DialFails(d) ==
    /\ dial[d].pc = "dialing"
    /\ dial' = [dial EXCEPT ![d] = [Idle EXCEPT !.pc = "failed"]]
    /\ UNCHANGED <<up, turns, alive, fastNode, fastSingle, failedTimes, failedTesting>>

\* "connection refused" goes straight to the check.
Refused(d) ==
    /\ dial[d].pc = "failed"
    /\ At(d, "check")
    /\ fastSingle' = Forgotten
    /\ UNCHANGED <<up, turns, alive, fastNode, failedTimes, failedTesting>>

\* recordDialFailure: nothing counts while a check runs; a failure outside the
\* window of the first starts a new window. At the threshold URLTest.healthCheck
\* begins, which resets the choice.
RecordFailure(d) ==
    /\ dial[d].pc = "failed"
    /\ IF failedTesting
       THEN dial' = [dial EXCEPT ![d] = Idle] /\ UNCHANGED <<failedTimes, fastSingle>>
       ELSE \E times \in {failedTimes + 1, 1} :
              /\ failedTimes' = IF times > MaxFailedTimes THEN MaxFailedTimes ELSE times
              /\ IF times >= MaxFailedTimes
                 THEN At(d, "check") /\ fastSingle' = Forgotten
                 ELSE dial' = [dial EXCEPT ![d] = Idle] /\ UNCHANGED fastSingle
    /\ UNCHANGED <<up, turns, alive, fastNode, failedTesting>>

\* Mutant: the flag is read before the lock.
MutantHealthCheck(d) ==
    /\ dial[d].pc = "check"
    /\ failedTesting' = TRUE
    /\ At(d, "testing")
    /\ UNCHANGED <<up, turns, alive, fastNode, fastSingle, failedTimes>>

\* GroupBase.healthCheck up to its unlock: one check at a time.
HealthCheck(d) ==
    /\ dial[d].pc = "check"
    /\ failedTesting' = TRUE
    /\ At(d, IF failedTesting THEN "checked" ELSE "testing")
    /\ UNCHANGED <<up, turns, alive, fastNode, fastSingle, failedTimes>>

\* Every provider has been checked. A provider whose last check is a second old
\* answers without probing again.
Tested(d) ==
    /\ dial[d].pc = "testing"
    /\ alive' \in {up, alive}
    /\ failedTimes' = 0
    /\ failedTesting' = FALSE
    /\ At(d, "checked")
    /\ UNCHANGED <<up, turns, fastNode, fastSingle>>

\* The second Reset of URLTest.healthCheck.
CheckEnds(d) ==
    /\ dial[d].pc = "checked"
    /\ fastSingle' = Forgotten
    /\ dial' = [dial EXCEPT ![d] = Idle]
    /\ UNCHANGED <<up, turns, alive, fastNode, failedTimes, failedTesting>>

-----------------------------------------------------------------------------
(* Nodes and periodic probes                                               *)

Turn(n) ==
    /\ turns < MaxTurns
    /\ turns' = turns + 1
    /\ up' = [up EXCEPT ![n] = ~@]
    /\ UNCHANGED <<alive, fastNode, fastSingle, failedTimes, failedTesting, dial>>

\* HealthCheck.process: a provider probes at its interval.
Probe(n) ==
    /\ alive' = [alive EXCEPT ![n] = up[n]]
    /\ UNCHANGED <<up, turns, fastNode, fastSingle, failedTimes, failedTesting, dial>>

Progress(d) ==
    \/ WriteFast(d) \/ FastReturns(d)
    \/ DialSucceeds(d) \/ DialFails(d) \/ Refused(d) \/ RecordFailure(d)
    \/ HealthCheck(d) \/ Tested(d) \/ CheckEnds(d)

Next ==
    \/ \E d \in Dials : Do(d) \/ Progress(d)
    \/ Expire
    \/ \E n \in Nodes : Turn(n) \/ Probe(n)

\* Goroutines are scheduled, dials time out, a kept choice grows old, and the
\* providers probe at their interval.
Spec ==
    /\ Init /\ [][Next]_vars
    /\ \A d \in Dials : WF_vars(Progress(d))
    /\ WF_vars(Expire)
    /\ \A n \in Nodes : WF_vars(Probe(n))

-----------------------------------------------------------------------------
(* Properties                                                              *)

\* groupbase_test.go: "failure during an active check triggered another check".
\* The flag is set exactly while one goroutine is testing, so that a failure
\* recorded meanwhile counts for nothing and a second check waits for nothing.
OneGroupCheck ==
    /\ failedTesting <=> \E d \in Dials : dial[d].pc = "testing"
    /\ \A d, e \in Dials : (dial[d].pc = "testing" /\ dial[e].pc = "testing") => d = e
=============================================================================
