---------------------------- MODULE DnsResolver ----------------------------
(***************************************************************************)
(* ExchangeContext of a Resolver (dns/resolver.go) for one question, with  *)
(* the refresh it coalesces, ipExchange's choice between the policy's, the *)
(* main and the fallback servers, and batchExchange's race inside a group, *)
(* which is common/picker.  An answer is reduced to what the code tells    *)
(* apart: addresses outside or inside the fallback filter, no addresses,   *)
(* and a response that batchExchange takes and refreshAnswer refuses       *)
(* (truncated, or another response code).                                  *)
(***************************************************************************)
EXTENDS Naturals, FiniteSets

CONSTANTS
  Clients,                \* callers of ExchangeContext
  Main, Fallback, Policy, \* the servers of each group
  MaxRefreshes            \* bound

Groups == {Main, Fallback, Policy}

AllServers == UNION Groups

Answers == {"clean", "filtered", "empty", "unusable"}

NoAnswer == "none"

VARIABLES
  options,      \* of the resolver and the question
  retained,     \* the cached answer and whether it is due
  refresh,      \* the flight: where ipExchange is and what it returned
  batch,        \* per group, the batchExchange of this flight
  server,       \* per server, its goroutine
  client,       \* per caller, what it waits for or was returned
  refreshes

vars == <<options, retained, refresh, batch, server, client, refreshes>>

NoOptions == [ip |-> TRUE, policy |-> FALSE, only |-> FALSE, fallback |-> FALSE, lazy |-> FALSE, rcode |-> FALSE]

NoBatch == [at |-> "none", picked |-> NoAnswer]

NotRetained == [answer |-> NoAnswer, due |-> FALSE]

Init ==
  /\ options = NoOptions /\ retained = NotRetained
  /\ refresh = [at |-> "unset", result |-> NoAnswer, stores |-> FALSE]
  /\ batch = [g \in Groups |-> NoBatch] /\ server = [s \in AllServers |-> "idle"]
  /\ client = [c \in Clients |-> "idle"] /\ refreshes = 0

\* The configuration the question meets
Configure ==
  /\ refresh.at = "unset" /\ refresh' = [refresh EXCEPT !.at = "none"]
  /\ \E o \in [DOMAIN NoOptions -> BOOLEAN] :
       /\ o.only \/ o.lazy => o.fallback
       /\ options' = o
  /\ UNCHANGED <<retained, batch, server, client, refreshes>>

\* batchExchange starts a goroutine for each server before an rcode client, which the main group may end with
Begin(g) == batch[g].at = "none" /\ batch' = [batch EXCEPT ![g].at = "running"]

Asked(g) == server' = [s \in AllServers |-> IF s \in g THEN "asking" ELSE server[s]]

FirstGroup ==
  IF options.policy THEN Policy ELSE IF options.ip /\ options.only THEN Fallback ELSE Main

\* The fallback is asked at once unless it is lazy
Eager == options.ip /\ FirstGroup = Main /\ options.fallback /\ ~options.lazy

StartRefresh ==
  LET started == {FirstGroup} \cup (IF Eager THEN {Fallback} ELSE {}) IN
  /\ refresh' = [at |-> "first", result |-> NoAnswer, stores |-> TRUE]
  /\ batch' = [g \in Groups |-> IF g \in started THEN [NoBatch EXCEPT !.at = "running"] ELSE NoBatch]
  /\ server' = [s \in AllServers |-> IF s \in UNION started THEN "asking" ELSE server[s]]
  /\ refreshes' = refreshes + 1

\* No flight, and no goroutine of an old one whose slot a new flight would take
CanStart == refresh.at = "none" /\ refreshes < MaxRefreshes /\ \A s \in AllServers : server[s] = "idle"

\* ExchangeContext: a retained answer is returned at once, and refreshed if it is due
Warm(c) ==
  /\ refresh.at # "unset" /\ client[c] = "idle" /\ retained.answer # NoAnswer
  /\ client' = [client EXCEPT ![c] = "answered"]
  /\ IF retained.due /\ refresh.at = "none" THEN CanStart /\ StartRefresh
     ELSE UNCHANGED <<refresh, batch, server, refreshes>>
  /\ UNCHANGED <<options, retained>>

\* Without one the caller waits for the flight
Cold(c) ==
  /\ refresh.at # "unset" /\ client[c] = "idle" /\ retained.answer = NoAnswer
  /\ client' = [client EXCEPT ![c] = "waiting"]
  /\ IF refresh.at = "none" THEN CanStart /\ StartRefresh ELSE UNCHANGED <<refresh, batch, server, refreshes>>
  /\ UNCHANGED <<options, retained>>

\* The caller's own context ends
GiveUp(c) ==
  /\ client[c] = "waiting" /\ client' = [client EXCEPT ![c] = "failed"]
  /\ UNCHANGED <<options, retained, refresh, batch, server, refreshes>>

GroupOf(s) == CHOOSE g \in Groups : s \in g

\* A server answers; the first usable one is picked and cancels the others
ServerAnswers(s) ==
  /\ server[s] = "asking" /\ server' = [server EXCEPT ![s] = "idle"]
  /\ \E a \in Answers :
       batch' = [batch EXCEPT ![GroupOf(s)].picked = IF @ = NoAnswer /\ batch[GroupOf(s)].at = "running" THEN a ELSE @]
  /\ UNCHANGED <<options, retained, refresh, client, refreshes>>

\* A server fails, refuses, or is cancelled or timed out
ServerFails(s) ==
  /\ server[s] = "asking" /\ server' = [server EXCEPT ![s] = "idle"]
  /\ UNCHANGED <<options, retained, refresh, batch, client, refreshes>>

\* Mutant: Wait waits for a result
MutantWait(g) ==
  /\ batch[g].at = "running" /\ batch[g].picked # NoAnswer
  /\ batch' = [batch EXCEPT ![g].at = "done"]
  /\ UNCHANGED <<options, retained, refresh, server, client, refreshes>>

\* Wait returns when every goroutine of the group has
Wait(g) ==
  /\ batch[g].at = "running" /\ \A s \in g : server[s] = "idle"
  /\ batch' = [batch EXCEPT ![g].at = "done"]
  /\ UNCHANGED <<options, retained, refresh, server, client, refreshes>>

\* An rcode client at the end of the main group: its message is the result, the others are cancelled
Rcode ==
  /\ options.rcode /\ batch[Main].at = "running"
  /\ \E a \in {"empty", "unusable"} : batch' = [batch EXCEPT ![Main] = [at |-> "done", picked |-> a]]
  /\ UNCHANGED <<options, retained, refresh, server, client, refreshes>>

Returned(a) == refresh' = [refresh EXCEPT !.at = "result", !.result = a]

\* Mutant: any answer of the main servers will do
MutantFirstResult ==
  /\ refresh.at = "first" /\ batch[FirstGroup].at = "done"
  /\ IF FirstGroup = Main /\ options.ip /\ options.fallback /\ batch[Main].picked = NoAnswer
     THEN /\ refresh' = [refresh EXCEPT !.at = "fallback"]
          /\ IF Eager THEN UNCHANGED <<batch, server>> ELSE Begin(Fallback) /\ Asked(Fallback)
     ELSE Returned(batch[FirstGroup].picked) /\ UNCHANGED <<batch, server>>
  /\ UNCHANGED <<options, retained, client, refreshes>>

\* The first group's result: only addresses outside the filter spare the fallback
FirstResult ==
  /\ refresh.at = "first" /\ batch[FirstGroup].at = "done"
  /\ IF FirstGroup = Main /\ options.ip /\ options.fallback /\ batch[Main].picked # "clean"
     THEN /\ refresh' = [refresh EXCEPT !.at = "fallback"]
          /\ IF Eager THEN UNCHANGED <<batch, server>> ELSE Begin(Fallback) /\ Asked(Fallback)
     ELSE Returned(batch[FirstGroup].picked) /\ UNCHANGED <<batch, server>>
  /\ UNCHANGED <<options, retained, client, refreshes>>

FallbackResult ==
  /\ refresh.at = "fallback" /\ batch[Fallback].at = "done" /\ Returned(batch[Fallback].picked)
  /\ UNCHANGED <<options, retained, batch, server, client, refreshes>>

Usable(a) == a \notin {NoAnswer, "unusable"}

\* Only batchExchange knows an rcode client's message, and ipExchange does not ask
Cacheable == options.ip \/ ~(options.rcode /\ FirstGroup = Main)

\* The flight ends: a usable answer is stored and returned to the callers, else they fail and nothing is replaced
Finish ==
  /\ refresh.at = "result" /\ refresh' = [refresh EXCEPT !.at = "none"]
  /\ IF Usable(refresh.result) /\ Cacheable /\ refresh.stores
     THEN \E due \in BOOLEAN : retained' = [answer |-> refresh.result, due |-> due]
     ELSE UNCHANGED retained
  /\ client' = [c \in Clients |->
       IF client[c] # "waiting" THEN client[c] ELSE IF Usable(refresh.result) THEN "answered" ELSE "failed"]
  /\ UNCHANGED <<options, batch, server, refreshes>>

\* The deadline passes, or ClearVolatileCache marks the answer of this network
Due ==
  /\ retained.answer # NoAnswer /\ ~retained.due /\ retained' = [retained EXCEPT !.due = TRUE]
  /\ UNCHANGED <<options, refresh, batch, server, client, refreshes>>

\* ClearCache: a running flight stores nothing
ClearCache ==
  /\ retained.answer # NoAnswer /\ retained' = NotRetained
  /\ refresh' = [refresh EXCEPT !.stores = FALSE]
  /\ UNCHANGED <<options, batch, server, client, refreshes>>

Work ==
  \/ \E s \in AllServers : ServerAnswers(s) \/ ServerFails(s)
  \/ \E g \in Groups : Wait(g)
  \/ Rcode \/ FirstResult \/ FallbackResult \/ Finish

\* Nobody waits, and the bound is reached or every caller was served
Bounded ==
  /\ refresh.at = "none" /\ (refreshes = MaxRefreshes \/ \A c \in Clients : client[c] # "idle")
  /\ UNCHANGED vars

Next ==
  \/ Configure \/ Work \/ Due \/ ClearCache \/ Bounded
  \/ \E c \in Clients : Warm(c) \/ Cold(c) \/ GiveUp(c)

Spec == Init /\ [][Next]_vars /\ WF_vars(Work)

-----------------------------------------------------------------------------
(***************************************************************************)
(* With fallback servers and no policy, addresses the fallback filter      *)
(* matches are never kept from the main servers' answer: ipExchange asks   *)
(* the fallback instead, whichever group answers first.                    *)
(***************************************************************************)
FilterHolds ==
  options.ip /\ options.fallback /\ ~options.policy /\ refresh.at = "result" /\ Usable(refresh.result) =>
    \/ refresh.result = "clean" /\ batch[Main].picked = "clean"
    \/ batch[Fallback].at = "done" /\ refresh.result = batch[Fallback].picked

(***************************************************************************)
(* "A TTL is a refresh deadline, never a local availability deadline"      *)
(* (dns/resolver.go:157): while an answer is retained callers do not wait  *)
(* and do not fail, and neither a failed refresh nor a useless response    *)
(* takes it away; only a flush does.                                       *)
(***************************************************************************)
StaysAvailable ==
  [][/\ retained.answer # NoAnswer /\ retained'.answer = NoAnswer => refresh'.stores = FALSE /\ refresh'.at = refresh.at
     /\ \A c \in Clients : client[c] = "idle" /\ retained.answer # NoAnswer => client'[c] \in {"idle", "answered"}]_vars
=============================================================================
