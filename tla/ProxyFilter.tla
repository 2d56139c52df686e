---------------------------- MODULE ProxyFilter -----------------------------
(***************************************************************************)
(* adapter/outboundgroup GroupBase.GetProxies, the list it derives: filter *)
(* every provider, put the whole in the order of the filters, drop what is *)
(* excluded. A proxy is its name; a filter is the set of names it matches; *)
(* what the exclude filters and types drop is one set of names.            *)
(***************************************************************************)
EXTENDS Naturals, Sequences, FiniteSets, SequencesExt

CONSTANTS
    Names,
    EmptyFallback,
    MaxProviders, MaxProxies, MaxFilters, MaxExcluded   \* bounds of the inputs

VARIABLES group, proxies

vars == <<group, proxies>>

Lists == {s \in BoundedSeq(Names, MaxProxies) : IsInjective(s)}
Providers == [compatible : BOOLEAN, list : Lists]
NoGroup == [providers |-> <<>>, filters |-> <<>>, excluded |-> {}]

Groups == [providers : BoundedSeq(Providers, MaxProviders) \ {<<>>},
           filters : BoundedSeq(SUBSET Names, MaxFilters),
           excluded : {x \in SUBSET Names : Cardinality(x) <= MaxExcluded}]

\* proxiesSet: a name is appended the first time it comes up.
Firsts(s) ==
    LET first == {i \in DOMAIN s : \A j \in 1..(i - 1) : s[j] # s[i]}
        at == SetToSortSeq(first, <)
    IN [k \in DOMAIN at |-> s[at[k]]]

\* for filterReg ... for p ...: what matches the first filter, then the second ...
InFilterOrder(s, filters) ==
    Firsts(FlattenSeq([i \in DOMAIN filters |-> SelectSeq(s, LAMBDA n : n \in filters[i])]))

\* A compatible provider needs no filter; without filters nothing is filtered.
OfProvider(pd, filters) ==
    IF filters = <<>> \/ pd.compatible THEN pd.list ELSE InFilterOrder(pd.list, filters)

Collected(g) == FlattenSeq([i \in DOMAIN g.providers |-> OfProvider(g.providers[i], g.filters)])

\* Mutant: only the lists of the providers are in order.
MutantReordered(g) == Collected(g)

\* With several providers the whole is put in order again, and what no filter
\* matches comes last.
Reordered(g) ==
    LET all == Collected(g) IN
    IF Len(g.providers) > 1 /\ Len(g.filters) > 1
    THEN Firsts(InFilterOrder(all, g.filters) \o all)
    ELSE all

GetProxies(g) ==
    LET left == SelectSeq(Reordered(g), LAMBDA n : n \notin g.excluded) IN
    IF left = <<>> THEN <<EmptyFallback>> ELSE left

Init == group = NoGroup /\ proxies = <<>>

Get ==
    /\ group = NoGroup
    /\ \E g \in Groups : group' = g /\ proxies' = GetProxies(g)

Done == group # NoGroup /\ UNCHANGED vars

Next == Get \/ Done

Spec == Init /\ [][Next]_vars

-----------------------------------------------------------------------------
(* Properties                                                              *)

Wanted(g) ==
    UNION {{n \in ToSet(pd.list) : \/ g.filters = <<>>
                                   \/ pd.compatible
                                   \/ \E f \in ToSet(g.filters) : n \in f}
             : pd \in ToSet(g.providers)} \ g.excluded

Rank(g, n) == Min({i \in DOMAIN g.filters : n \in g.filters[i]} \cup {Len(g.filters) + 1})

\* The list is never empty, holds exactly the wanted proxies, and "multiple
\* filers means that proxies are sorted in the order in which the filers
\* appear": in every group of several providers, and in every provider that is
\* filtered. Proxies that the same filter ranks keep the order of the providers.
FilterOrderHolds ==
    group # NoGroup =>
        /\ proxies # <<>>
        /\ IF Wanted(group) = {} THEN proxies = <<EmptyFallback>> ELSE ToSet(proxies) = Wanted(group)
        /\ (Len(group.filters) > 1 /\ Wanted(group) # {}
              /\ (Len(group.providers) > 1 \/ ~group.providers[1].compatible)) =>
             \A i, j \in DOMAIN proxies : i < j =>
                 \/ Rank(group, proxies[i]) < Rank(group, proxies[j])
                 \/ /\ Rank(group, proxies[i]) = Rank(group, proxies[j])
                    /\ proxies[i] # proxies[j]
                    /\ LET all == FlattenSeq([k \in DOMAIN group.providers |-> group.providers[k].list])
                       IN \E k, l \in DOMAIN all : all[k] = proxies[i] /\ all[l] = proxies[j] /\ k < l
=============================================================================
