----------------------------- MODULE ProxyList ------------------------------
(***************************************************************************)
(* adapter/outboundgroup GroupBase.GetProxies over                         *)
(* adapter/provider baseProvider: a group keeps the list it derived from   *)
(* its providers under the versions it read before deriving it, while the  *)
(* providers replace their proxies. A provider's proxies are abstracted to *)
(* the version they arrived with, and to whether any passes the filters.   *)
(***************************************************************************)
EXTENDS Naturals, FiniteSets

CONSTANTS
    NumProviders,  \* the group's providers, read in the order of the slice
    Filters,       \* pd.Proxies() is read once per filter
    Readers,       \* goroutines in GetProxies
    MaxVersion     \* bound: setProxies per provider

ASSUME ListAssumption == NumProviders \in Nat \ {0} /\ Filters \in Nat \ {0} /\ MaxVersion \in Nat

VARIABLES
    version,    \* bp.version of every provider
    matching,   \* the providers some proxy of which passes the filters
    mutex,      \* getProxiesMutex: its holder, or NoReader
    kept,       \* providerVersions and the versions providerProxies came from
    reader      \* per goroutine: what it has read so far

listVars == <<version, matching, mutex, kept, reader>>

Providers == 1..NumProviders
Versions == 0..MaxVersion
Rounds == 1..Filters
VersionSets == [Providers -> SUBSET Versions]
NoReader == "none"
Unread == [p \in Providers |-> {}]

\* at: the provider to read next; round: the filter under way; versions and
\* lists: the versions read, and the versions the collected proxies come from;
\* found: the providers that proxies were collected from.
Fresh == [pc |-> "idle", at |-> 1, round |-> 1, versions |-> Unread, lists |-> Unread, found |-> {}]

Reading == [pc : {"idle", "versions", "lock", "lists", "end", "returned"},
            at : Providers, round : Rounds, versions : VersionSets, lists : VersionSets,
            found : SUBSET Providers]

ListTypeOK ==
    /\ version \in [Providers -> Versions]
    /\ matching \in SUBSET Providers
    /\ mutex \in Readers \cup {NoReader}
    /\ kept \in [versions : VersionSets, lists : VersionSets]
    /\ reader \in [Readers -> Reading]

ListInit ==
    /\ version = [p \in Providers |-> 0]
    /\ matching = Providers
    /\ mutex = NoReader
    /\ kept = [versions |-> Unread, lists |-> Unread]
    /\ reader = [r \in Readers |-> Fresh]

\* setProxies: the proxies and their version change under the provider's lock.
SetProxies(p) ==
    /\ version[p] < MaxVersion
    /\ version' = [version EXCEPT ![p] = @ + 1]
    /\ matching' \in {matching \cup {p}, matching \ {p}}
    /\ UNCHANGED <<mutex, kept, reader>>

Moves(r, x) == reader' = [reader EXCEPT ![r] = x]

Begin(r) ==
    /\ reader[r].pc \in {"idle", "returned"}
    /\ Moves(r, [Fresh EXCEPT !.pc = "versions"])
    /\ UNCHANGED <<version, matching, mutex, kept>>

\* The versions are read one provider after the other, before the mutex.
ReadVersion(r) ==
    LET p == reader[r].at IN
    /\ reader[r].pc = "versions"
    /\ Moves(r, [reader[r] EXCEPT !.versions = [@ EXCEPT ![p] = {version[p]}],
                                  !.at = IF p = NumProviders THEN 1 ELSE p + 1,
                                  !.pc = IF p = NumProviders THEN "lock" ELSE "versions"])
    /\ UNCHANGED <<version, matching, mutex, kept>>

\* Under the mutex: the kept list answers when its versions are the ones read.
Lock(r) ==
    /\ reader[r].pc = "lock"
    /\ mutex = NoReader
    /\ \/ /\ kept.versions = reader[r].versions
          /\ Moves(r, [reader[r] EXCEPT !.pc = "returned", !.lists = kept.lists])
          /\ UNCHANGED mutex
       \/ /\ kept.versions # reader[r].versions
          /\ Moves(r, [reader[r] EXCEPT !.pc = "lists"])
          /\ mutex' = r
    /\ UNCHANGED <<version, matching, kept>>

\* One pd.Proxies() call: a provider is read once for every filter, and may
\* have changed since its version, or since the last filter, was read.
ReadList(r) ==
    LET p == reader[r].at
        lastRound == reader[r].round = Filters
        lists == [reader[r].lists EXCEPT ![p] = @ \cup {version[p]}]
    IN
    /\ reader[r].pc = "lists"
    /\ Moves(r, [reader[r] EXCEPT !.lists = lists,
                                  !.found = @ \cup (matching \cap {p}),
                                  !.round = IF lastRound THEN 1 ELSE @ + 1,
                                  !.at = IF lastRound /\ p < NumProviders THEN p + 1 ELSE p,
                                  !.pc = IF lastRound /\ p = NumProviders THEN "end" ELSE "lists"])
    /\ UNCHANGED <<version, matching, mutex, kept>>

\* Mutant: the versions are read again when the list is kept.
MutantKeepList(r) ==
    /\ reader[r].pc = "end"
    /\ mutex' = NoReader
    /\ kept' = IF reader[r].found = {} THEN kept
               ELSE [versions |-> [p \in Providers |-> {version[p]}], lists |-> reader[r].lists]
    /\ Moves(r, [reader[r] EXCEPT !.pc = "returned", !.found = {}])
    /\ UNCHANGED <<version, matching>>

\* The end of GetProxies: an empty list is answered by the empty fallback and
\* is not kept; any other list is kept under the versions read at the start.
KeepList(r) ==
    /\ reader[r].pc = "end"
    /\ mutex' = NoReader
    /\ kept' = IF reader[r].found = {} THEN kept
               ELSE [versions |-> reader[r].versions, lists |-> reader[r].lists]
    /\ Moves(r, [reader[r] EXCEPT !.pc = "returned", !.found = {}])
    /\ UNCHANGED <<version, matching>>

GetProxies(r) == ReadVersion(r) \/ Lock(r) \/ ReadList(r) \/ KeepList(r)

ListNext ==
    \/ \E p \in Providers : SetProxies(p)
    \/ \E r \in Readers : Begin(r) \/ GetProxies(r)

ListSpec == ListInit /\ [][ListNext]_listVars

-----------------------------------------------------------------------------
(* Properties                                                              *)

\* A list that GetProxies returns holds no proxy that a provider had already
\* replaced when the call read its versions, however the calls interleave with
\* each other and with updates. A list kept under versions that are current
\* is therefore itself current.
ListNotStale ==
    /\ \A r \in Readers : reader[r].pc = "returned" =>
         \A p \in Providers : \A v \in reader[r].versions[p], l \in reader[r].lists[p] : l >= v
    /\ \A p \in Providers : \A v \in kept.versions[p], l \in kept.lists[p] :
         /\ l >= v
         /\ v = version[p] => l = v
=============================================================================
