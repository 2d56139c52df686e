-------------------------- MODULE DirectCandidates --------------------------
(***************************************************************************)
(* LookupIPCandidates (dns/direct_candidates.go): one lookup of the DIRECT *)
(* resolver, which publishes the retained addresses of every source in a   *)
(* batch, asks the sources that are due, or one source after the other,    *)
(* and closes its channel.  Each pass over the caches is an action: other  *)
(* lookups' refreshes, the clock, a network handover and a flush change    *)
(* them in between.  An answer is reduced to whether it has addresses of   *)
(* the family, an entry to that and to whether it is due.                  *)
(***************************************************************************)
EXTENDS Naturals, FiniteSets

CONSTANTS
  Sources,     \* 1..len(r.main), each with a cache of its own
  MaxChanges   \* bound on the changes others make to the caches

Aggregate == 0    \* r.cache, which holds the answers of no particular source

Origins == Sources \cup {Aggregate}

NoEntry == [full |-> FALSE, fresh |-> FALSE, hit |-> FALSE]

Entry(full, fresh) == [full |-> full, fresh |-> fresh, hit |-> TRUE]

VARIABLES
  cache,       \* per source and for r.cache, the retained answer
  step,        \* where the goroutine is, and the source it looks at
  origins,     \* whose retained answers the candidates come from
  state,       \* what the second pass found out
  source,      \* per source, what this lookup heard of it
  output,      \* the batches sent: how many, whose addresses, an error
  appeared,    \* sources whose answer was stored between the two passes
  changes

vars == <<cache, step, origins, state, source, output, appeared, changes>>

At(p, i) == [at |-> p, i |-> i]

To(p) == step' = At(p, 1)

NoState == [fresh |-> FALSE, hasSource |-> FALSE, allFresh |-> TRUE, stale |-> FALSE, warm |-> FALSE, saw |-> {}]

NoOutput == [count |-> 0, of |-> {}, err |-> FALSE]

Init ==
  /\ cache = [o \in Origins |-> NoEntry] /\ step = At("idle", 1) /\ origins = {}
  /\ state = NoState /\ source = [s \in Sources |-> "unasked"] /\ output = NoOutput
  /\ appeared = {} /\ changes = 0

\* The caches as the lookup finds them, with or without a policy for its host
Start ==
  /\ step.at = "idle" /\ (To("policy") \/ To("candidates"))
  /\ cache' \in [Origins -> {NoEntry} \cup {Entry(full, fresh) : full, fresh \in BOOLEAN}]
  /\ UNCHANGED <<origins, state, source, output, appeared, changes>>

\* The entries the lookup may still read; what becomes of the others does not matter to it
Unread ==
  CASE step.at = "policy" -> {Aggregate}
    [] step.at \in {"candidates", "freshness", "aggregate"} -> Origins
    [] OTHER -> {s \in Sources : source[s] \in {"unasked", "asking"}}

\* A refresh for another lookup is stored, a deadline passes or is brought forward, an entry is flushed
Others ==
  /\ step.at \notin {"idle", "over"} /\ changes < MaxChanges /\ changes' = changes + 1
  /\ \E o \in Unread :
       \/ /\ \E full \in BOOLEAN : cache' = [cache EXCEPT ![o] = Entry(full, TRUE)]
          /\ appeared' = IF step.at \in {"candidates", "freshness"} THEN appeared \cup {o} ELSE appeared
       \/ cache[o].fresh /\ cache' = [cache EXCEPT ![o].fresh = FALSE] /\ UNCHANGED appeared
       \/ cache[o].hit /\ cache' = [cache EXCEPT ![o] = NoEntry] /\ UNCHANGED appeared
  /\ UNCHANGED <<step, origins, state, source, output>>

\* output <- batch
Sent(of) == [output EXCEPT !.count = @ + 1, !.of = @ \cup of]

Send(of) == output' = Sent(of)

\* What a refresh of entry o may come to: the answer it stored, or none.  The lookup does not
\* read the entry again, so its new deadline does not matter
Answers(o, out) ==
  \/ out = "failed" /\ UNCHANGED cache
  \/ out \in {"empty", "full"} /\ cache' = [cache EXCEPT ![o] = Entry(out = "full", TRUE)]

\* Servers named by a policy: one shared answer, refreshed in the background if due
LookupByPolicy ==
  /\ step.at = "policy" /\ To("over")
  /\ \/ cache[Aggregate].hit /\ Send(IF cache[Aggregate].full THEN {Aggregate} ELSE {}) /\ UNCHANGED cache
     \/ /\ ~cache[Aggregate].hit
        /\ \E out \in {"failed", "empty", "full"} :
             /\ Answers(Aggregate, out)
             /\ output' = [Sent(IF out = "full" THEN {Aggregate} ELSE {}) EXCEPT !.err = (out = "failed")]
  /\ UNCHANGED <<origins, state, source, appeared, changes>>

\* directCachedCandidates
Candidates ==
  /\ step.at = "candidates" /\ To("freshness")
  /\ origins' = {s \in Sources : cache[s].full}
  /\ UNCHANGED <<cache, state, source, output, appeared, changes>>

\* The second pass, over deadlines
Freshness ==
  /\ step.at = "freshness" /\ To("aggregate")
  /\ state' = [state EXCEPT
       !.hasSource = \E s \in Sources : cache[s].hit,
       !.fresh = \E s \in Sources : cache[s].fresh,
       !.stale = \E s \in Sources : cache[s].hit /\ ~cache[s].fresh,
       !.allFresh = \A s \in Sources : cache[s].fresh,
       !.saw = {s \in Sources : cache[s].full}]
  /\ UNCHANGED <<cache, origins, source, output, appeared, changes>>

\* Mutant: the aggregate is used beside the sources
MutantAggregateAnswer ==
  LET e == cache[Aggregate]
      all == origins \cup {o \in {Aggregate} : e.full}
      warm == all # {}
      fresh == (IF ~state.hasSource /\ e.hit THEN e.fresh /\ warm ELSE state.fresh) /\ ~state.stale
  IN /\ step.at = "aggregate" /\ origins' = all
     /\ state' = [state EXCEPT !.warm = warm, !.fresh = IF warm THEN fresh ELSE state.allFresh]
     /\ To("publish")
     /\ UNCHANGED <<cache, source, output, appeared, changes>>

\* The aggregate, which counts only while no source has an entry; whether the candidates are fresh
AggregateAnswer ==
  LET e == cache[Aggregate]
      used == ~state.hasSource /\ e.hit
      all == origins \cup {o \in {Aggregate} : used /\ e.full}
      warm == all # {}
      fresh == (IF used THEN e.fresh /\ warm ELSE state.fresh) /\ ~state.stale
  IN /\ step.at = "aggregate" /\ origins' = all
     /\ state' = [state EXCEPT !.warm = warm, !.fresh = IF warm THEN fresh ELSE state.allFresh]
     /\ To("publish")
     /\ UNCHANGED <<cache, source, output, appeared, changes>>

\* The retained candidates are sent, and a fresh answer ends the lookup
Publish ==
  /\ step.at = "publish"
  /\ output' = IF state.warm \/ state.fresh THEN Sent(origins) ELSE output
  /\ step' = IF state.fresh THEN At("over", 1) ELSE IF state.warm THEN At("select", 1) ELSE At("serial", 1)
  /\ UNCHANGED <<cache, origins, state, source, appeared, changes>>

\* With candidates at hand: the first two sources and every one that is due are refreshed at once
Select ==
  /\ step.at = "select" /\ To("parallel")
  /\ source' = [s \in Sources |-> IF s <= 2 \/ (cache[s].hit /\ ~cache[s].fresh) THEN "asking" ELSE "unasked"]
  /\ UNCHANGED <<cache, origins, state, output, appeared, changes>>

\* fetch: the fresh entry, or what the shared refresh or the end of the context makes of it
Fetch(s, out) ==
  \/ cache[s].fresh /\ out = (IF cache[s].full THEN "full" ELSE "empty") /\ UNCHANGED cache
  \/ ~cache[s].fresh /\ Answers(s, out)

Asking == {s \in Sources : source[s] = "asking"}

\* One of the parallel refreshes answers
Parallel(s) ==
  /\ step.at = "parallel" /\ s \in Asking
  /\ \E out \in {"failed", "empty", "full"} :
       /\ Fetch(s, out) /\ source' = [source EXCEPT ![s] = out]
       /\ IF out = "failed" THEN UNCHANGED output ELSE Send({o \in {s} : out = "full"})
  /\ UNCHANGED <<step, origins, state, appeared, changes>>

\* Mutant: an empty answer is enough
MutantParallelOver ==
  /\ step.at = "parallel" /\ Asking = {}
  /\ step' = IF \E s \in Sources : source[s] \in {"full", "empty"} THEN At("over", 1) ELSE At("serial", 1)
  /\ UNCHANGED <<cache, origins, state, source, output, appeared, changes>>

\* All have: addresses end the lookup
ParallelOver ==
  /\ step.at = "parallel" /\ Asking = {}
  /\ step' = IF \E s \in Sources : source[s] = "full" THEN At("over", 1) ELSE At("serial", 1)
  /\ UNCHANGED <<cache, origins, state, source, output, appeared, changes>>

NextSource == step' = IF step.i < Cardinality(Sources) THEN At("serial", step.i + 1) ELSE At("ending", 1)

\* The sources not tried yet, one after the other until one has addresses
Serial ==
  /\ step.at = "serial"
  /\ IF source[step.i] # "unasked" THEN NextSource /\ UNCHANGED <<cache, source, output>>
     ELSE \E out \in {"failed", "empty", "full"} :
            /\ Fetch(step.i, out) /\ source' = [source EXCEPT ![step.i] = out]
            /\ IF out = "failed" THEN UNCHANGED output ELSE Send({o \in {step.i} : out = "full"})
            /\ IF out = "full" THEN step' = At("over", 1) ELSE NextSource
  /\ UNCHANGED <<origins, state, appeared, changes>>

Ending ==
  /\ step.at = "ending" /\ To("over")
  /\ output' = IF \E s \in Sources : source[s] # "failed" THEN output ELSE [Sent({}) EXCEPT !.err = TRUE]
  /\ UNCHANGED <<cache, origins, state, source, appeared, changes>>

Lookup ==
  \/ LookupByPolicy \/ Candidates \/ Freshness \/ AggregateAnswer \/ Publish \/ Select
  \/ (\E s \in Sources : Parallel(s)) \/ ParallelOver \/ Serial \/ Ending

Over == step.at = "over" /\ UNCHANGED vars

Next == Start \/ Others \/ Lookup \/ Over

Spec == Init /\ [][Next]_vars /\ WF_vars(Lookup)

-----------------------------------------------------------------------------
(***************************************************************************)
(* "One upstream's empty answer cannot hide another source's addresses"    *)
(* (dns/direct_candidates.go:169): a lookup that asks and gets no address  *)
(* asks every source; one that asks nobody and has no address found every  *)
(* source's answer empty, unless another answer was stored while it was    *)
(* between its two passes over the caches.  It ends with an error only if  *)
(* every source failed.                                                    *)
(***************************************************************************)
AllHeard ==
  step.at = "over" =>
    /\ output.of = {} =>
         \A s \in Sources : source[s] = "unasked" => s \notin state.saw \/ s \in appeared
    /\ (\E s \in Sources : source[s] # "unasked") =>
         \/ \E s \in Sources : source[s] = "full"
         \/ \A s \in Sources : source[s] # "unasked"
    /\ source # [s \in Sources |-> "unasked"] => (output.err <=> \A s \in Sources : source[s] = "failed")

(***************************************************************************)
(* An aggregate answer never brings back addresses that the sources' own   *)
(* answers have replaced.                                                  *)
(***************************************************************************)
NothingResurrected == Aggregate \in origins => ~state.hasSource

(***************************************************************************)
(* The channel holds every batch a lookup sends, so that its goroutine     *)
(* ends also when nobody reads.                                            *)
(***************************************************************************)
NeverBlocks == output.count <= Cardinality(Sources) + 2
=============================================================================
