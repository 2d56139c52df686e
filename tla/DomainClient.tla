---------------------------- MODULE DomainClient ----------------------------
(***************************************************************************)
(* The client that asks a domain's own proxy server (dns/domain_client.go) *)
(* over its tunnel, for one node and one host: the bundle of addresses and *)
(* service records, single records, and what is remembered of the node's   *)
(* capabilities (component/tunneldns).  A question is for an address, for  *)
(* HTTPS, which a bundle answers too, or for another record.  Each read of *)
(* a cache or of a registry that another goroutine may change in between   *)
(* is an action.                                                           *)
(***************************************************************************)
EXTENDS Naturals, FiniteSets

CONSTANTS
  Asks,        \* questions in flight together
  MaxAsked     \* bound on the questions

Kinds == {"address", "https", "other"}

Routes == {"node", "direct", "reject", "unknown"}

Flights == {"bundle", "https", "other"}    \* one coalesced refresh per cache entry

VARIABLES
  capability,  \* per registry ("server_dns", "domain_bundle"), whether the node is worth asking
  entries,     \* per flight, the retained answer: "none", "fresh" or "due"
  flight,      \* per flight, where its work is
  ask,         \* per question, its kind, route and where it is
  asked

vars == <<capability, entries, flight, ask, asked>>

Registries == {"server_dns", "domain_bundle"}

NoAsk == [at |-> "idle", kind |-> "other", route |-> "node", bundle |-> "none", by |-> "none"]

NoFlight == [at |-> "none", retained |-> FALSE, stores |-> TRUE]

Init ==
  /\ capability = [r \in Registries |-> "supported"]
  /\ entries = [f \in Flights |-> "none"] /\ flight = [f \in Flights |-> NoFlight]
  /\ ask = [a \in Asks |-> NoAsk] /\ asked = 0

Supported(r) == capability[r] # "unsupported"

To(a, p) == ask' = [ask EXCEPT ![a].at = p]

Answered(a, who) == [ask[a] EXCEPT !.at = "answered", !.by = who, !.bundle = "none"]

Answer(a, who) == ask' = [ask EXCEPT ![a] = Answered(a, who)]

\* The flight of f runs on or starts
Refreshing(f) ==
  flight' = IF flight[f].at = "none" THEN [flight EXCEPT ![f] = [NoFlight EXCEPT !.at = "start"]] ELSE flight

RecordOf(a) == ask[a].kind

\* exchangeRouted, and the routes that do not lead to a node: DIRECT asks its own resolver, nothing
\* connects through a rejected domain, and only other records may go to the public resolver
Ask(a) ==
  /\ ask[a].at \in {"idle", "answered"} /\ asked < MaxAsked /\ asked' = asked + 1
  /\ \E k \in Kinds, r \in Routes :
       ask' = [ask EXCEPT ![a] = [NoAsk EXCEPT !.kind = k, !.route = r,
         !.at = IF r = "node" THEN "bundle" ELSE "answered",
         !.by = IF r = "node" THEN "none"
                ELSE IF k = "address" THEN "error"
                ELSE IF r = "direct" THEN "direct"
                ELSE IF r = "reject" THEN "empty" ELSE "public"]]
  /\ UNCHANGED <<capability, entries, flight>>

\* The retained bundle, as the rest of exchangePrepared uses it
ReadBundle(a) ==
  /\ ask[a].at = "bundle"
  /\ ask' = [ask EXCEPT ![a].bundle = entries["bundle"], ![a].at = IF entries["bundle"] = "none" THEN "server" ELSE "use"]
  /\ UNCHANGED <<capability, entries, flight, asked>>

\* A node in backoff is asked only for a record it has answered before
ReadServer(a) ==
  /\ ask[a].at = "server"
  /\ IF Supported("server_dns") \/ (ask[a].kind # "address" /\ entries[RecordOf(a)] # "none") THEN To(a, "bundles")
     ELSE Answer(a, IF ask[a].kind = "address" THEN "error" ELSE "public")
  /\ UNCHANGED <<capability, entries, flight, asked>>

\* A node without bundles answers single records
ReadBundles(a) ==
  /\ ask[a].at = "bundles"
  /\ IF Supported("domain_bundle") THEN To(a, "use")
     ELSE IF ask[a].kind = "address" THEN Answer(a, "error") ELSE To(a, "record")
  /\ UNCHANGED <<capability, entries, flight, asked>>

\* A retained bundle answers at once, and is refreshed if due; without one the question waits
UseBundle(a) ==
  /\ ask[a].at = "use"
  /\ \/ ask[a].kind = "other" /\ To(a, "record") /\ UNCHANGED flight
     \/ ask[a].kind # "other" /\ ask[a].bundle = "fresh" /\ Answer(a, "bundle") /\ UNCHANGED flight
     \/ ask[a].kind # "other" /\ ask[a].bundle = "due" /\ Answer(a, "bundle") /\ Refreshing("bundle")
     \/ ask[a].kind # "other" /\ ask[a].bundle = "none" /\ To(a, "wait bundle") /\ Refreshing("bundle")
  /\ UNCHANGED <<capability, entries, asked>>

\* cachedExchange
UseRecord(a) ==
  LET f == RecordOf(a) IN
  /\ ask[a].at = "record"
  /\ IF entries[f] = "none" THEN To(a, "wait record") /\ Refreshing(f)
     ELSE Answer(a, "record") /\ IF entries[f] = "due" THEN Refreshing(f) ELSE UNCHANGED flight
  /\ UNCHANGED <<capability, entries, asked>>

\* The question's own context ends; without its bundle a record is still looked up
GiveUp(a) ==
  /\ \/ ask[a].at = "wait bundle" /\ (IF ask[a].kind = "address" THEN Answer(a, "error") ELSE To(a, "record"))
     \/ ask[a].at = "wait record" /\ Answer(a, "error")
  /\ UNCHANGED <<capability, entries, flight, asked>>

Waits(a, f) == IF f = "bundle" THEN ask[a].at = "wait bundle" ELSE ask[a].at = "wait record" /\ RecordOf(a) = f

\* Mutant: addresses too are left to the public resolver
MutantMissed(a, f) ==
  IF f = "bundle" /\ ask[a].kind # "address" THEN [ask[a] EXCEPT !.at = "record"]
  ELSE Answered(a, "public")

\* A bundle that did not come leaves records to cachedExchange, a record to the public resolver
Missed(a, f) ==
  IF f = "bundle" /\ ask[a].kind # "address" THEN [ask[a] EXCEPT !.at = "record"]
  ELSE Answered(a, IF f = "bundle" THEN "error" ELSE "public")

Ends(f, ok) ==
  /\ flight' = [flight EXCEPT ![f] = NoFlight]
  /\ ask' = [a \in Asks |->
       IF ~Waits(a, f) THEN ask[a]
       ELSE IF ok THEN Answered(a, IF f = "bundle" THEN "bundle" ELSE "record")
       ELSE Missed(a, f)]

\* The work of a flight begins: a bundle may have become fresh, and what is retained is remembered
Begin(f) ==
  /\ flight[f].at = "start"
  /\ IF f = "bundle" /\ entries[f] = "fresh" THEN Ends(f, TRUE)
     ELSE flight' = [flight EXCEPT ![f].at = "exchange", ![f].retained = (entries[f] # "none")] /\ UNCHANGED ask
  /\ UNCHANGED <<capability, entries, asked>>

\* Mutant: any failure is a verdict
MutantNodeFails(f) ==
  /\ flight[f].at = "exchange" /\ Ends(f, FALSE)
  /\ \/ capability' = [capability EXCEPT !["server_dns"] = "unsupported"]
     \/ UNCHANGED capability
  /\ UNCHANGED <<entries, asked>>

\* exchangeNode fails: a verdict on the node unless an answer of its is retained or the work's time is over
NodeFails(f) ==
  /\ flight[f].at = "exchange" /\ Ends(f, FALSE)
  /\ \/ ~flight[f].retained /\ capability' = [capability EXCEPT !["server_dns"] = "unsupported"]
     \/ UNCHANGED capability
  /\ UNCHANGED <<entries, asked>>

\* It answers
NodeAnswers(f) ==
  /\ flight[f].at = "exchange" /\ flight' = [flight EXCEPT ![f].at = "verdict"]
  /\ capability' = [capability EXCEPT !["server_dns"] = "supported"]
  /\ UNCHANGED <<entries, ask, asked>>

\* The answer is a complete bundle or a usable record, and replaces the retained one
Stores(f) ==
  /\ flight[f].at = "verdict" /\ Ends(f, TRUE)
  /\ entries' = [entries EXCEPT ![f] = IF flight[f].stores THEN "fresh" ELSE @]
  /\ capability' = IF f = "bundle" THEN [capability EXCEPT !["domain_bundle"] = "supported"] ELSE capability
  /\ UNCHANGED asked

\* It is not; a success without the extension says that the node has none
Refuses(f) ==
  /\ flight[f].at = "verdict" /\ Ends(f, FALSE)
  /\ \/ f = "bundle" /\ capability' = [capability EXCEPT !["domain_bundle"] = "unsupported"]
     \/ UNCHANGED capability
  /\ UNCHANGED <<entries, asked>>

\* An unsupported verdict is over after UnsupportedTTL or with a reload (Reset); an unknown, an expired and
\* a supported node are asked alike
VerdictEnds(r) ==
  /\ ~Supported(r) /\ capability' = [capability EXCEPT ![r] = "supported"]
  /\ UNCHANGED <<entries, flight, ask, asked>>

\* A deadline passes, or ClearVolatileCache brings it forward
EntryDue(f) ==
  /\ entries[f] = "fresh" /\ entries' = [entries EXCEPT ![f] = "due"]
  /\ UNCHANGED <<capability, flight, ask, asked>>

\* Answers of an earlier run are restored before the first question
Restore ==
  /\ asked = 0 /\ entries = [f \in Flights |-> "none"] /\ entries' \in [Flights -> {"none", "due"}]
  /\ UNCHANGED <<capability, flight, ask, asked>>

\* ClearCache
Clear ==
  /\ \E f \in Flights : entries[f] # "none"
  /\ entries' = [f \in Flights |-> "none"] /\ flight' = [f \in Flights |-> [flight[f] EXCEPT !.stores = FALSE]]
  /\ UNCHANGED <<capability, ask, asked>>

Question(a) == ReadBundle(a) \/ ReadServer(a) \/ ReadBundles(a) \/ UseBundle(a) \/ UseRecord(a)

Work(f) == Begin(f) \/ NodeFails(f) \/ NodeAnswers(f) \/ Stores(f) \/ Refuses(f)

Bounded == asked = MaxAsked /\ UNCHANGED vars

Next ==
  \/ \E a \in Asks : Ask(a) \/ Question(a) \/ GiveUp(a)
  \/ \E f \in Flights : Work(f) \/ EntryDue(f)
  \/ \E r \in Registries : VerdictEnds(r)
  \/ Restore \/ Clear \/ Bounded

Spec ==
  /\ Init /\ [][Next]_vars
  /\ \A a \in Asks : WF_vars(Question(a))
  /\ \A f \in Flights : WF_vars(Work(f))

-----------------------------------------------------------------------------
(***************************************************************************)
(* A question is answered along its own route: an address only by the      *)
(* node's bundle, a DIRECT domain's records only by direct-nameserver, and *)
(* the public resolver never sees a question for an address or for a       *)
(* domain of DIRECT or REJECT.                                             *)
(***************************************************************************)
StaysOnRoute ==
  \A a \in Asks : ask[a].at = "answered" =>
    /\ ask[a].kind = "address" => ask[a].by \in {"bundle", "error"}
    /\ ask[a].by = "public" => ask[a].route \in {"node", "unknown"}
    /\ ask[a].by = "direct" <=> ask[a].route = "direct" /\ ask[a].kind # "address"

(***************************************************************************)
(* "A transient failure of a previously useful node belongs to refresh     *)
(* backoff, not the five-minute unsupported-server capability cache"       *)
(* (dns/domain_client.go:285): a flight that began with a retained answer  *)
(* never silences the node.                                                *)
(***************************************************************************)
UsefulNodeStaysSupported ==
  [][Supported("server_dns") /\ ~Supported("server_dns")' =>
       \E f \in Flights : flight[f].at = "exchange" /\ ~flight[f].retained /\ flight'[f].at = "none"]_vars
=============================================================================
