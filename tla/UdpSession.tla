----------------------------- MODULE UdpSession -----------------------------
(***************************************************************************)
(* The UDP sessions of one NAT key (tunnel): the worker that hands packets *)
(* to the key's sender, the goroutine that dials and then runs the         *)
(* sender's Process loop, the resolvers that loop starts, and the read     *)
(* loop whose end closes the session.  A session leaves the NAT table some *)
(* steps after its sender is closed, and a packet may start a new one.     *)
(* Packets are numbered in the order they are received: a key is always    *)
(* served by the same worker.                                              *)
(***************************************************************************)
EXTENDS Naturals, Sequences, FiniteSets, SequencesExt

CONSTANTS
  Targets, N,        \* destinations and the number of packets (bound)
  Capacity,          \* senderCapacity
  Workers,           \* resolvers at a time: 1, or 8 for DIRECT
  MaxSessions        \* bound

Packets == 1..N

Sessions == 1..MaxSessions

VARIABLES
  target,    \* the destination of each packet
  table,     \* the session in the NAT table, or 0
  hand,      \* the worker: the next packet and, once looked up, its session
  sender,    \* per session, the packetSender and its Process loop
  owner,     \* per session, the goroutine that still has to delete its entry
  home,      \* the session whose queue accepted a packet, or 0
  drops,     \* how often a packet was dropped (writing it drops it too)
  written    \* per session, the packets written, in order

vars == <<target, table, hand, sender, owner, home, drops, written>>

\* pending[k] holds the packets waiting for k; group the packets being written after a resolution
NewSender == [closed |-> FALSE, ch |-> <<>>, loop |-> "none", prepared |-> {}, pending |-> [k \in Targets |-> <<>>],
              waiting |-> <<>>, active |-> {}, group |-> <<>>, first |-> 0]

Init ==
  /\ target \in [Packets -> Targets] /\ table = 0 /\ hand = [packet |-> 1, session |-> 0]
  /\ sender = [s \in Sessions |-> NewSender]
  /\ owner = [s \in Sessions |-> "unused"]
  /\ home = [p \in Packets |-> 0] /\ drops = [p \in Packets |-> 0]
  /\ written = [s \in Sessions |-> <<>>]

Dropped(ps) == drops' = [p \in Packets |-> IF p \in ps THEN drops[p] + 1 ELSE drops[p]]

Becomes(s, r) == sender' = [sender EXCEPT ![s] = r]

\* handleUDPConn finds or creates the session; a new one starts to dial
GetOrCreate ==
  /\ hand.packet <= N /\ hand.session = 0
  /\ \/ table # 0 /\ hand' = [hand EXCEPT !.session = table] /\ UNCHANGED <<table, owner, sender>>
     \/ /\ table = 0
        /\ \E s \in Sessions :
             /\ owner[s] = "unused" /\ \A r \in Sessions : r < s => owner[r] # "unused"
             /\ table' = s /\ hand' = [hand EXCEPT !.session = s] /\ owner' = [owner EXCEPT ![s] = "dialing"]
             /\ Becomes(s, [NewSender EXCEPT !.first = hand.packet])
  /\ UNCHANGED <<target, home, drops, written>>

Slots(s) == Cardinality({p \in Packets : home[p] = s /\ drops[p] = 0})

\* Mutant: a packet may be queued in a closed sender
MutantSend ==
  /\ hand.session # 0 /\ hand' = [packet |-> hand.packet + 1, session |-> 0]
  /\ LET s == hand.session IN
     IF Slots(s) >= Capacity THEN Dropped({hand.packet}) /\ UNCHANGED <<sender, home>>
     ELSE /\ Becomes(s, [sender[s] EXCEPT !.ch = Append(@, hand.packet)])
          /\ home' = [home EXCEPT ![hand.packet] = s] /\ UNCHANGED drops
  /\ UNCHANGED <<target, table, owner, written>>

\* Send, under the read lock that Close excludes
Send ==
  /\ hand.session # 0 /\ hand' = [packet |-> hand.packet + 1, session |-> 0]
  /\ LET s == hand.session IN
     IF sender[s].closed \/ Slots(s) >= Capacity THEN Dropped({hand.packet}) /\ UNCHANGED <<sender, home>>
     ELSE /\ Becomes(s, [sender[s] EXCEPT !.ch = Append(@, hand.packet)])
          /\ home' = [home EXCEPT ![hand.packet] = s] /\ UNCHANGED drops
  /\ UNCHANGED <<target, table, owner, written>>

\* Close: cancel and dropAll
Closed(r) == [r EXCEPT !.closed = TRUE, !.ch = <<>>]

\* The dial succeeds: the read loop owns the entry and Process runs
DialSucceeds(s) ==
  /\ owner[s] = "dialing" /\ owner' = [owner EXCEPT ![s] = "reading"]
  /\ Becomes(s, [sender[s] EXCEPT !.loop = "select", !.prepared = {target[sender[s].first]}])      \* AddMapping
  /\ UNCHANGED <<target, table, hand, home, drops, written>>

\* Mutant: the entry is deleted with the close, and once more by its owner
MutantClosesTwice(s) ==
  /\ owner[s] \in {"dialing", "reading"} /\ owner' = [owner EXCEPT ![s] = "deleting"] /\ table' = 0
  /\ Becomes(s, Closed(sender[s])) /\ Dropped(ToSet(sender[s].ch))
  /\ UNCHANGED <<target, hand, home, written>>

\* The dial fails, the rules reject the session, or the read loop ends: the sender closes, the entry stays
Closes(s) ==
  /\ owner[s] \in {"dialing", "reading"} /\ owner' = [owner EXCEPT ![s] = "deleting"]
  /\ Becomes(s, Closed(sender[s])) /\ Dropped(ToSet(sender[s].ch))
  /\ UNCHANGED <<target, table, hand, home, written>>

\* natTable.Delete, by the dialler, the read loop or the parker
Delete(s) ==
  /\ owner[s] = "deleting" /\ owner' = [owner EXCEPT ![s] = "gone"] /\ table' = 0
  /\ UNCHANGED <<target, hand, sender, home, drops, written>>

\* startWaiting
Started(r) ==
  LET n == Min({Workers - Cardinality(r.active), Len(r.waiting)}) IN
  IF r.closed THEN r
  ELSE [r EXCEPT !.active = @ \cup ToSet(SubSeq(r.waiting, 1, n)), !.waiting = SubSeq(@, n + 1, Len(@))]

Writes(s, p) == Dropped({p}) /\ written' = [written EXCEPT ![s] = Append(@, p)]

\* Mutant: packets for one target wait while another is resolved
MutantTake(s) ==
  LET r == sender[s]
      p == Head(r.ch)
      k == target[p]
      q == [r EXCEPT !.ch = Tail(@)]
  IN /\ r.loop = "select" /\ r.ch # <<>> /\ r.active = {}
     /\ \/ /\ k \notin r.prepared
           /\ Becomes(s, Started([q EXCEPT !.pending[k] = <<p>>, !.waiting = Append(@, k)]))
           /\ UNCHANGED <<drops, written>>
        \/ k \in r.prepared /\ Becomes(s, q) /\ Writes(s, p)
     /\ UNCHANGED <<target, table, hand, owner, home>>

\* Mutant: the loop goes on while a resolved group is being written
MutantTakeEarly(s) ==
  LET r == sender[s]
      p == Head(r.ch)
      k == target[p]
      q == [r EXCEPT !.ch = Tail(@)]
  IN /\ r.loop \in {"select", "group"} /\ r.ch # <<>>
     /\ \/ r.pending[k] # <<>> /\ Becomes(s, [q EXCEPT !.pending[k] = Append(@, p)]) /\ UNCHANGED <<drops, written>>
        \/ /\ r.pending[k] = <<>> /\ k \notin r.prepared
           /\ Becomes(s, Started([q EXCEPT !.pending[k] = <<p>>, !.waiting = Append(@, k)]))
           /\ UNCHANGED <<drops, written>>
        \/ r.pending[k] = <<>> /\ k \in r.prepared /\ Becomes(s, q) /\ Writes(s, p)
     /\ UNCHANGED <<target, table, hand, owner, home>>

\* The loop receives a packet: it joins those waiting for its target, is written, or starts a resolution
Take(s) ==
  LET r == sender[s]
      p == Head(r.ch)
      k == target[p]
      q == [r EXCEPT !.ch = Tail(@)]
  IN /\ r.loop = "select" /\ r.ch # <<>>
     /\ \/ r.pending[k] # <<>> /\ Becomes(s, [q EXCEPT !.pending[k] = Append(@, p)]) /\ UNCHANGED <<drops, written>>
        \/ /\ r.pending[k] = <<>> /\ k \notin r.prepared
           /\ Becomes(s, Started([q EXCEPT !.pending[k] = <<p>>, !.waiting = Append(@, k)]))
           /\ UNCHANGED <<drops, written>>
        \/ r.pending[k] = <<>> /\ k \in r.prepared /\ Becomes(s, q) /\ Writes(s, p)
     /\ UNCHANGED <<target, table, hand, owner, home>>

\* The loop receives a resolution: its packets are dropped, or are the group to write
Resolved(s, k) ==
  LET r == sender[s]
      q == [r EXCEPT !.active = @ \ {k}, !.pending[k] = <<>>]
  IN /\ r.loop = "select" /\ k \in r.active
     /\ \/ Becomes(s, Started(q)) /\ Dropped(ToSet(r.pending[k]))
        \/ Becomes(s, [q EXCEPT !.prepared = @ \cup {k}, !.group = r.pending[k], !.loop = "group"]) /\ UNCHANGED drops
     /\ UNCHANGED <<target, table, hand, owner, home, written>>

\* One packet of the group, which a Close in between turns into a drop
WriteGroup(s) ==
  LET r == sender[s]
      q == [r EXCEPT !.group = Tail(@)]
  IN /\ r.loop = "group"
     /\ Becomes(s, IF q.group = <<>> THEN Started([q EXCEPT !.loop = "select"]) ELSE q)
     /\ IF r.closed THEN Dropped({Head(r.group)}) /\ UNCHANGED written ELSE Writes(s, Head(r.group))
     /\ UNCHANGED <<target, table, hand, owner, home>>

Waiting(r) == UNION {ToSet(r.pending[k]) : k \in Targets}

\* The loop sees the sender closed: it drops what is waiting
LoopEnds(s) ==
  LET r == sender[s] IN
  /\ r.loop = "select" /\ r.closed
  /\ Becomes(s, [r EXCEPT !.loop = "over", !.ch = <<>>, !.pending = [k \in Targets |-> <<>>], !.active = {}])
  /\ Dropped(ToSet(r.ch) \cup Waiting(r))
  /\ UNCHANGED <<target, table, hand, owner, home, written>>

Loop(s) == Take(s) \/ WriteGroup(s) \/ LoopEnds(s)

\* The bound on packets or sessions is reached and the loops wait
Done == (hand.packet > N \/ \A s \in Sessions : owner[s] # "unused") /\ UNCHANGED vars

Next ==
  \/ GetOrCreate \/ Send \/ Done
  \/ \E s \in Sessions : DialSucceeds(s) \/ Closes(s) \/ Delete(s) \/ Loop(s)
  \/ \E s \in Sessions, k \in Targets : Resolved(s, k)

\* Neither a dial, nor a resolution, nor the end of a session is ever certain
Fairness == WF_vars(Send) /\ \A s \in Sessions : WF_vars(Loop(s)) /\ WF_vars(Delete(s))

Spec == Init /\ [][Next]_vars /\ Fairness

(***************************************************************************)
(* A packet the sender accepted is dropped at most once, is in exactly one *)
(* queue until then and occupies one of its slots; once the session has    *)
(* ended none is left behind, whatever Send, Close and the loop's end      *)
(* overlap.                                                                *)
(***************************************************************************)
NoneStranded ==
  /\ \A p \in Packets : drops[p] <= 1
  /\ \A s \in Sessions :
       LET r == sender[s]
           held == ToSet(r.ch) \cup Waiting(r) \cup ToSet(r.group)
       IN /\ held = {p \in Packets : home[p] = s /\ drops[p] = 0}
          /\ Len(r.ch) + Cardinality(Waiting(r)) + Len(r.group) = Cardinality(held)
          /\ Cardinality(held) <= Capacity
          /\ r.closed /\ r.loop \in {"none", "over"} => held = {}

(***************************************************************************)
(* Within a session the packets for one target are written in the order    *)
(* they were received, although targets are resolved in parallel.          *)
(***************************************************************************)
OrderKept ==
  \A s \in Sessions : \A i, j \in DOMAIN written[s] :
    i < j /\ target[written[s][i]] = target[written[s][j]] => written[s][i] < written[s][j]

(***************************************************************************)
(* Only the session in the table is deleted from it, so the end of an old  *)
(* session never cuts off the one that replaced it.                        *)
(***************************************************************************)
DeletesItself == [][\A s \in Sessions : owner[s] = "deleting" /\ owner'[s] = "gone" => table = s]_vars
=============================================================================
