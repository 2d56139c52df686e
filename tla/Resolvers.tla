----------------------------- MODULE Resolvers -----------------------------
(***************************************************************************)
(* Who answers a question: the resolver with its main, fallback and policy *)
(* servers, the DIRECT lookup over every source, and the client that asks  *)
(* the proxy server of a domain.  They meet only in calls whose outcomes   *)
(* each takes as arbitrary.  A behaviour follows one of them, and the      *)
(* others keep their initial values.                                       *)
(***************************************************************************)
EXTENDS Naturals, FiniteSets

CONSTANTS
  Sources, MaxChanges,                            \* of DirectCandidates
  Clients, Main, Fallback, Policy, MaxRefreshes,  \* of DnsResolver
  Asks, MaxAsked                                  \* of DomainClient

VARIABLES
  part,                                                              \* the component followed
  cache, step, origins, state, source, output, appeared, changes,    \* of DirectCandidates
  options, retained, refresh, batch, server, client, refreshes,      \* of DnsResolver
  capability, entries, flight, ask, asked                            \* of DomainClient

Candidates == INSTANCE DirectCandidates
Resolver == INSTANCE DnsResolver
Domain == INSTANCE DomainClient

candidateVars == <<cache, step, origins, state, source, output, appeared, changes>>
resolverVars == <<options, retained, refresh, batch, server, client, refreshes>>
domainVars == <<capability, entries, flight, ask, asked>>
vars == <<part, candidateVars, resolverVars, domainVars>>

Parts == {"candidates", "resolver", "domain"}

Init == part \in Parts /\ Candidates!Init /\ Resolver!Init /\ Domain!Init

\* An action of one component
CandidatesOnly(A) == part = "candidates" /\ A /\ UNCHANGED <<part, resolverVars, domainVars>>
ResolverOnly(A) == part = "resolver" /\ A /\ UNCHANGED <<part, candidateVars, domainVars>>
DomainOnly(A) == part = "domain" /\ A /\ UNCHANGED <<part, candidateVars, resolverVars>>

Next ==
  \/ CandidatesOnly(Candidates!Next)
  \/ ResolverOnly(Resolver!Next)
  \/ DomainOnly(Domain!Next)

\* Goroutine number i
Goroutine(i) ==
  \/ i = 1 /\ CandidatesOnly(Candidates!Lookup)
  \/ i = 1 /\ ResolverOnly(Resolver!Work)
  \/ i \in Asks /\ DomainOnly(Domain!Question(i))

(***************************************************************************)
(* Goroutines are scheduled, and exchanges end with their contexts.  Only  *)
(* one component takes steps, so each condition is the fairness of         *)
(* whichever that is.                                                      *)
(***************************************************************************)
Fairness ==
  /\ \A i \in 1..2 : WF_vars(Goroutine(i))
  /\ \A f \in Domain!Flights : WF_vars(DomainOnly(Domain!Work(f)))

Spec == Init /\ [][Next]_vars /\ Fairness

-----------------------------------------------------------------------------
(***************************************************************************)
(* An answer comes from a server that may give it: the main servers'       *)
(* answer is not used where fallback-filter rejects it, and a question for *)
(* a proxied domain never leaves its route.                                *)
(***************************************************************************)
AnswerIsRightful ==
  /\ part = "resolver" => Resolver!FilterHolds
  /\ part = "domain" => Domain!StaysOnRoute

(***************************************************************************)
(* A DIRECT lookup that asks and finds no address has asked every source,  *)
(* uses no aggregate answer once a source has an answer of its own, and    *)
(* never sends more batches than its channel holds.                        *)
(***************************************************************************)
SourcesHeard ==
  part = "candidates" => Candidates!AllHeard /\ Candidates!NothingResurrected /\ Candidates!NeverBlocks

(***************************************************************************)
(* A failure takes nothing away that still serves: a failed refresh leaves *)
(* the retained answer in use, and a node with a retained answer is not    *)
(* silenced for a transient failure.                                       *)
(***************************************************************************)
FailureIsContained == Resolver!StaysAvailable /\ Domain!UsefulNodeStaysSupported

(***************************************************************************)
(* Every question is answered, for one asker that stands for all of them.  *)
(***************************************************************************)
Waiting ==
  \/ step.at \notin {"idle", "over"}
  \/ client[1] = "waiting"
  \/ ask[1].at \notin {"idle", "answered"}

EveryQuestionAnswered == []<>~Waiting
=============================================================================
