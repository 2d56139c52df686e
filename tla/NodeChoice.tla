----------------------------- MODULE NodeChoice -----------------------------
(***************************************************************************)
(* adapter/outboundgroup: which node a group gives a dial (URLTest.fast,   *)
(* Fallback.findAliveProxy and the three load-balance strategies), while   *)
(* probes, provider updates and the user change what it chooses from.      *)
(* Nodes are the indices of the list that GetProxies returns; a name stays *)
(* with its index, and an update cuts the list or brings nodes back.       *)
(***************************************************************************)
EXTENDS Naturals, Sequences, FiniteSets, FiniteSetsExt, SequencesExt

CONSTANTS
    NumNodes,   \* nodes the providers have ever listed
    Delays,     \* milliseconds a probe can measure
    Tolerance   \* u.tolerance

VARIABLES
    kind,       \* the type of the group and its strategy
    length,     \* len(proxies)
    record,     \* the last probe of the group's test URL, per node
    selected,   \* the fixed node, or NoNode
    fastNode,   \* u.fastNode
    idx,        \* round robin
    entry,      \* sticky sessions: the node kept for the key, or NoNode
    pick,       \* the last pick since anything changed, or NoNode
    turn        \* round robin: the picks since anything changed

vars == <<kind, length, record, selected, fastNode, idx, entry, pick, turn>>

Nodes == 1..NumNodes
NoNode == 0
MaxDelay == 65535
Kinds == {"url-test", "fallback", "round-robin", "hashing", "sticky"}
Fixable == {"url-test", "fallback"}

TypeOK ==
    /\ kind \in Kinds \cup {"none"}
    /\ length \in Nodes
    /\ record \in [Nodes -> [alive : BOOLEAN, delay : Delays \cup {0}]]
    /\ {selected, fastNode, entry, pick} \subseteq Nodes \cup {NoNode}
    /\ idx \in 0..(NumNodes - 1)
    /\ turn \in BoundedSeq(Nodes, NumNodes)

Init ==
    /\ kind = "none"
    /\ length = NumNodes
    /\ record = [n \in Nodes |-> [alive |-> TRUE, delay |-> 0]]
    /\ selected = NoNode
    /\ fastNode = NoNode
    /\ idx = 0
    /\ entry = NoNode
    /\ pick = NoNode
    /\ turn = <<>>

Configure ==
    /\ kind = "none"
    /\ kind' \in Kinds
    /\ UNCHANGED <<length, record, selected, fastNode, idx, entry, pick, turn>>

-----------------------------------------------------------------------------
(* What is chosen from (adapter.Proxy)                                     *)

Listed == 1..length

\* AliveForTestUrl: a node that was never tested is taken to be alive.
Alive(n) == record[n].alive
AliveNodes == {n \in Listed : Alive(n)}

\* LastDelayForTestUrl: a node without a record, a failed one and one whose
\* delay rounds to zero have the largest delay.
LastDelay(n) == IF record[n].alive /\ record[n].delay # 0 THEN record[n].delay ELSE MaxDelay

\* A probe ends: Proxy.URLTest records a delay or a failure. Probes matter to
\* round robin, hashing and sticky sessions only by success or failure.
Probe(n) ==
    /\ kind # "none"
    /\ \/ \E t \in (IF kind = "url-test" THEN Delays ELSE {0}) :
            record' = [record EXCEPT ![n] = [alive |-> TRUE, delay |-> t]]
       \/ record' = [record EXCEPT ![n] = [alive |-> FALSE, delay |-> 0]]
    /\ pick' = NoNode
    /\ turn' = <<>>
    /\ UNCHANGED <<kind, length, selected, fastNode, idx, entry>>

\* A provider update gives GetProxies another list.
Update ==
    /\ kind # "none"
    /\ length' \in Nodes
    /\ pick' = NoNode
    /\ turn' = <<>>
    /\ UNCHANGED <<kind, record, selected, fastNode, idx, entry>>

\* ForceSet, and Set of a listed node; the empty name fixes nothing.
ForceSet ==
    /\ kind \in Fixable
    /\ selected' \in Nodes \cup {NoNode}
    /\ pick' = NoNode
    /\ UNCHANGED <<kind, length, record, fastNode, idx, entry, turn>>

\* The entry of the sticky session is older than the age of its cache.
Expire ==
    /\ entry # NoNode
    /\ entry' = NoNode
    /\ pick' = NoNode
    /\ UNCHANGED <<kind, length, record, selected, fastNode, idx, turn>>

-----------------------------------------------------------------------------
(* Picks                                                                   *)

Picked(n) == pick' = n /\ UNCHANGED <<kind, length, record>>

\* The least delay of the first node and the nodes alive; the earliest of equals.
Fast ==
    LET c == AliveNodes \cup {1} IN
    CHOOSE n \in c : \A m \in c \ {n} : LastDelay(n) < LastDelay(m) \/ (LastDelay(n) = LastDelay(m) /\ n < m)

\* Mutant: the tolerance is added to the wrong side.
MutantLeaves ==
    \/ fastNode \notin 2..length
    \/ ~Alive(fastNode)
    \/ (LastDelay(fastNode) + Tolerance) % 65536 > LastDelay(Fast)

\* The current node is kept unless it is gone (the loop looks for it from the
\* second node on), not alive, or slower by more than the tolerance: an
\* addition of uint16.
Leaves ==
    \/ fastNode \notin 2..length
    \/ ~Alive(fastNode)
    \/ LastDelay(fastNode) > (LastDelay(Fast) + Tolerance) % 65536

\* URLTest.fast, the function fastSingle runs.
PickFast ==
    /\ kind = "url-test"
    /\ fastNode' = IF selected \in AliveNodes THEN selected ELSE IF Leaves THEN Fast ELSE fastNode
    /\ Picked(fastNode')
    /\ UNCHANGED <<selected, idx, entry, turn>>

\* Fallback.findAliveProxy. The loop looks at the fixed node alone until it
\* meets it; if that one is dead the rest of the list is searched, and nothing
\* before it.
PickFallback ==
    LET dead == selected \in Listed /\ ~Alive(selected)
        after == {n \in AliveNodes : n > selected}
        candidates == CASE selected = NoNode -> AliveNodes
                        [] selected \in AliveNodes -> {selected}
                        [] dead -> after
                        [] OTHER -> {}
    IN
    /\ kind = "fallback"
    /\ selected' = IF dead THEN NoNode ELSE selected
    /\ Picked(IF candidates = {} THEN 1 ELSE Min(candidates))
    /\ UNCHANGED <<fastNode, idx, entry, turn>>

\* Mutant: the search starts at the node that was given last.
MutantNextIdx(n) == n - 1

\* i++ before the return: the next search starts after the node given.
NextIdx(n) == n % length

\* strategyRoundRobin: the first node alive from idx on, around the list; idx
\* moves when the pick is a dial (touch).
PickRoundRobin ==
    LET at(i) == ((idx + i) % length) + 1
        hits == {i \in 0..(length - 1) : Alive(at(i))}
    IN
    /\ kind = "round-robin"
    /\ \E touch \in BOOLEAN :
         LET n == IF hits = {} THEN 1 ELSE at(Min(hits)) IN
         /\ Picked(n)
         /\ idx' = IF ~touch THEN idx ELSE IF hits = {} THEN idx % length ELSE NextIdx(n)
         /\ turn' = IF ~touch THEN turn
                    ELSE IF Len(turn) = length THEN <<n>> ELSE Append(turn, n)
    /\ UNCHANGED <<selected, fastNode, entry>>

\* strategyConsistentHashing: five hashes of the key, then the whole list.
PickHashing ==
    /\ kind = "hashing"
    /\ \E n \in (IF AliveNodes = {} THEN {1} ELSE AliveNodes) : Picked(n)
    /\ UNCHANGED <<selected, fastNode, idx, entry, turn>>

\* strategyStickySessions: the node kept for the key, or a random one; a dead
\* node is replaced by random tries, and by the first node when they fail too.
\* What was kept changes when nothing was kept or a later try was taken.
PickSticky ==
    /\ kind = "sticky"
    /\ \E first \in (IF entry \in Listed THEN {entry} ELSE Listed) :
         \/ /\ Alive(first)
            /\ Picked(first)
            /\ entry' = IF entry = NoNode THEN first ELSE entry
         \/ /\ ~Alive(first)
            /\ \E n \in AliveNodes : Picked(n) /\ entry' = n
         \/ /\ ~Alive(first)
            /\ Picked(1)
            /\ entry' = 1
    /\ UNCHANGED <<selected, fastNode, idx, turn>>

Pick == PickFast \/ PickFallback \/ PickRoundRobin \/ PickHashing \/ PickSticky

Next ==
    \/ Configure
    \/ \E n \in Nodes : Probe(n)
    \/ Update
    \/ ForceSet
    \/ Expire
    \/ Pick

Spec == Init /\ [][Next]_vars

-----------------------------------------------------------------------------
(* Properties                                                              *)

Measured == {n \in AliveNodes : LastDelay(n) # MaxDelay}

\* A dial is not sent to a node that failed its test while the group has one it
\* may use: a live fixed node is taken; otherwise load balancing and fallback
\* (with no fixed node) take a live node, fallback the first of them, and
\* url-test a live one as soon as one has been measured. A measured node is
\* left only for one that is faster by more than the tolerance, unless it is
\* the first of the list.
ChoiceFollowsTests ==
    [][Pick =>
        /\ (kind \in Fixable /\ selected \in AliveNodes) => pick' = selected
        /\ (kind \in {"round-robin", "hashing"} /\ AliveNodes # {}) => pick' \in AliveNodes
        /\ (kind = "fallback" /\ selected = NoNode /\ AliveNodes # {}) => pick' = Min(AliveNodes)
        /\ (kind = "url-test" /\ Measured # {}) => pick' \in AliveNodes
        /\ (kind = "url-test" /\ selected = NoNode /\ fastNode \in Measured \ {1} /\ pick' # fastNode) =>
              LastDelay(fastNode) > LastDelay(pick') + Tolerance]_vars

\* Round robin gives every node of an unchanged list, all alive, its turn before
\* it gives one twice: across calls that only look, and whatever index an
\* earlier, longer list left behind.
TurnsAreEven == AliveNodes = Listed => IsInjective(turn)

\* docs/config.yaml: "fallback 将按照 url 测试结果按照节点顺序选择" (fallback
\* chooses by the results of the url test, in the order of the nodes): with a
\* live node in the list it does not give a dead one.
FallbackFollowsTests == [][(PickFallback /\ AliveNodes # {}) => pick' \in AliveNodes]_vars
=============================================================================
