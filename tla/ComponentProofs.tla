-------------------------- MODULE ComponentProofs --------------------------
(***************************************************************************)
(* What three components promise, each proved on its own and for every     *)
(* value of its constants: mKCP, the shared call of common/singledo and    *)
(* the list of proxies a group keeps.                                      *)
(***************************************************************************)
EXTENDS Mkcp, SingleDo, ProxyList, TLAPS

-----------------------------------------------------------------------------
(* Mkcp                                                                    *)

Open == {"Active", "ReadyToClose"}

KcpShape ==
    /\ state \in [Ends -> States]
    /\ sendNext \in [Ends -> Nat]
    /\ sendWindow \in [Ends -> SUBSET Nat]
    /\ recvNext \in [Ends -> Nat]
    /\ recvCache \in [Ends -> SUBSET Nat]
    /\ ackList \in [Ends -> SUBSET Nat]
    /\ net = [e \in Ends |-> net[e]]

\* What end e has written
Written(e) == 0..(sendNext[e] - 1)

(***************************************************************************)
(* One direction, from e to its peer. What the peer holds was written;     *)
(* what the acknowledgements of the peer say, on their list or under way,  *)
(* stays true, because the peer gives up nothing it has received; so a     *)
(* segment leaves the send window only when the peer holds it, or when     *)
(* e gives up, and every segment under way was written.                    *)
(***************************************************************************)
Link(e) ==
    /\ sendWindow[e] \subseteq Written(e)
    /\ state[e] \in Open \/ sendWindow[e] = {}
    /\ Received(Peer(e)) \subseteq Written(e)
    /\ ackList[Peer(e)] \subseteq Received(Peer(e))
    /\ e \in gaveUp \/ Written(e) \subseteq sendWindow[e] \cup Received(Peer(e))
    /\ \A p \in net[Peer(e)] : p.type = "data" => p.number \in Written(e)
    /\ \A p \in net[e] : p.type # "data" => p.receivingNext \in 0..recvNext[Peer(e)]
    /\ \A p \in net[e] : p.type = "ack" => p.numbers \subseteq Received(Peer(e))

KcpInv == KcpShape /\ \A e \in Ends : Link(e)

\* Two ends, each the peer of the other.
LEMMA Peers ==
  \A e \in Ends : Peer(e) \in Ends /\ Peer(e) # e /\ Peer(Peer(e)) = e /\ Ends = {e, Peer(e)}
BY DEF Ends, Peer

\* A step of the sender keeps its direction when what leaves the window is held
\* by the receiver, or the sender gives up.
LEMMA SenderMoves ==
  ASSUME NEW e \in Ends, Link(e), KcpShape,
         sendNext'[e] = sendNext[e], sendWindow'[e] \subseteq sendWindow[e],
         state'[e] \in Open \/ sendWindow'[e] = {},
         e \in gaveUp => e \in gaveUp',
         e \in gaveUp' \/ sendWindow[e] \ sendWindow'[e] \subseteq Received(Peer(e)),
         recvNext'[Peer(e)] = recvNext[Peer(e)], recvCache'[Peer(e)] = recvCache[Peer(e)],
         ackList'[Peer(e)] = ackList[Peer(e)],
         \A p \in net'[Peer(e)] : p.type = "data" => p \in net[Peer(e)] \/ p.number \in sendWindow[e],
         \A p \in net'[e] : p \in net[e]
  PROVE  Link(e)'
<1>1. Received(Peer(e))' = Received(Peer(e)) /\ Written(e)' = Written(e)
  BY DEF Received, Written
<1>2. e \in gaveUp' \/ Written(e) \subseteq sendWindow'[e] \cup Received(Peer(e))
  BY DEF Link
<1>3. \A p \in net'[Peer(e)] : p.type = "data" => p.number \in Written(e)
  BY DEF Link
<1> QED
  BY <1>1, <1>2, <1>3 DEF Link

\* A step of the receiver keeps the direction when it gives up nothing it held.
LEMMA ReceiverMoves ==
  ASSUME NEW e \in Ends, Link(e), KcpShape, KcpShape',
         sendNext'[e] = sendNext[e], sendWindow'[e] = sendWindow[e], state'[e] = state[e],
         e \in gaveUp => e \in gaveUp',
         Received(Peer(e)) \subseteq Received(Peer(e))', Received(Peer(e))' \subseteq Written(e),
         recvNext[Peer(e)] <= recvNext'[Peer(e)], ackList'[Peer(e)] \subseteq Received(Peer(e))',
         \A p \in net'[Peer(e)] : p.type = "data" => p \in net[Peer(e)],
         \A p \in net'[e] : p.type # "data" =>
            \/ p \in net[e]
            \/ p.receivingNext = recvNext[Peer(e)] /\ (p.type = "ack" => p.numbers = ackList[Peer(e)])
  PROVE  Link(e)'
<1>1. Written(e)' = Written(e)
  BY DEF Written
<1>2. recvNext[Peer(e)] \in Nat /\ recvNext'[Peer(e)] \in Nat
  BY Peers DEF KcpShape
<1>3. \A p \in net'[e] : p.type # "data" => p.receivingNext \in 0..recvNext'[Peer(e)]
  BY <1>2 DEF Link
<1>4. \A p \in net'[e] : p.type = "ack" => p.numbers \subseteq Received(Peer(e))'
  BY DEF Link
<1> QED
  BY <1>1, <1>3, <1>4 DEF Link

\* A state that the code sets after another keeps the window, or empties it
\* when nothing is left in it, or when the end gives up.
LEMMA WindowKept ==
  ASSUME NEW w, NEW s
  PROVE  /\ s \in Open => WindowIn(s, w) = w
         /\ s \notin Open => WindowIn(s, w) = {}
         /\ WindowIn(s, w) \subseteq w
BY DEF WindowIn, Open

\* Write: a new segment is written and in the window.
LEMMA StepWrite ==
  ASSUME KcpInv, NEW e \in Ends, Write(e)
  PROVE  KcpInv'
<1> DEFINE o == Peer(e)
<1>0. o \in Ends /\ o # e /\ Peer(o) = e /\ Ends = {e, o}
  BY Peers
<1>1. KcpShape /\ Link(e) /\ Link(o)
  BY <1>0 DEF KcpInv
<1>2. /\ UNCHANGED <<state, firstUnacked, recvNext, recvCache, ackList, gaveUp, net>> /\ state[e] = "Active"
      /\ sendWindow' = [sendWindow EXCEPT ![e] = @ \cup {sendNext[e]}]
      /\ sendNext' = [sendNext EXCEPT ![e] = @ + 1]
  BY DEF Write
<1>3. KcpShape'
  BY <1>1, <1>2 DEF KcpShape
<1>4. /\ sendNext[e] \in Nat /\ sendNext'[e] = sendNext[e] + 1 /\ sendWindow'[e] = sendWindow[e] \cup {sendNext[e]}
      /\ sendNext'[o] = sendNext[o] /\ sendWindow'[o] = sendWindow[o]
  BY <1>0, <1>1, <1>2 DEF KcpShape
<1>5. Written(e)' = Written(e) \cup {sendNext[e]}
  BY <1>4 DEF Written
<1>6. Received(o)' = Received(o) /\ Received(e)' = Received(e)
  BY <1>2 DEF Received
<1> HIDE DEF o
<1>7. Link(e)'
  BY <1>1, <1>2, <1>4, <1>5, <1>6 DEF Link, o, Open
<1>8. Link(o)'
  BY <1>0, <1>1, <1>2, <1>4, <1>6 DEF Link, Written
<1> QED
  BY <1>0, <1>3, <1>7, <1>8 DEF KcpInv

\* Becomes, with the datagrams to e thinned out and those to its peer as given
LEMMA StepBecomes ==
  ASSUME KcpInv, NEW e \in Ends, NEW s \in States, NEW forced, Becomes(e, s, forced),
         s \in Open \/ sendWindow[e] = {} \/ forced,
         UNCHANGED <<sendNext, recvNext, recvCache, ackList>>, KcpShape',
         \A p \in net'[e] : p \in net[e],
         \A p \in net'[Peer(e)] :
            \/ p \in net[Peer(e)]
            \/ p.type = "data" /\ p.number \in sendWindow[e]
            \/ p.type # "data" /\ p.receivingNext = recvNext[e] /\ (p.type = "ack" => p.numbers = ackList[e])
  PROVE  KcpInv'
<1> DEFINE o == Peer(e)
<1>0. o \in Ends /\ o # e /\ Peer(o) = e /\ Ends = {e, o}
  BY Peers
<1>1. KcpShape /\ Link(e) /\ Link(o)
  BY <1>0 DEF KcpInv
<1>2. /\ state'[e] = s /\ state'[o] = state[o]
      /\ sendWindow'[e] = WindowIn(s, sendWindow[e]) /\ sendWindow'[o] = sendWindow[o]
      /\ gaveUp \subseteq gaveUp' /\ (forced => e \in gaveUp')
  BY <1>0, <1>1 DEF Becomes, Only, KcpShape
<1>3. Link(e)'
  <2>1. sendWindow'[e] \subseteq sendWindow[e] /\ (state'[e] \in Open \/ sendWindow'[e] = {})
    BY <1>2, WindowKept
  <2>2. e \in gaveUp' \/ sendWindow[e] \ sendWindow'[e] \subseteq Received(o)
    BY <1>2, WindowKept
  <2>3. \A p \in net'[o] : p.type = "data" => p \in net[o] \/ p.number \in sendWindow[e]
    OBVIOUS
  <2> QED
    BY <1>1, <1>2, <2>1, <2>2, <2>3, SenderMoves
<1>4. Link(o)'
  <2>1. Received(e)' = Received(e)
    BY DEF Received
  <2>2. recvNext[e] <= recvNext[e] /\ Received(e) \subseteq Written(o) /\ ackList[e] \subseteq Received(e)
    BY <1>0, <1>1 DEF KcpShape, Link
  <2>3. \A p \in net'[o] : p.type # "data" =>
          p \in net[o] \/ (p.receivingNext = recvNext[e] /\ (p.type = "ack" => p.numbers = ackList[e]))
    OBVIOUS
  <2> HIDE DEF o
  <2> QED
    BY <1>0, <1>1, <1>2, <2>1, <2>2, <2>3, ReceiverMoves
<1> QED
  BY <1>0, <1>3, <1>4 DEF KcpInv

\* A change of state alone keeps the types.
LEMMA ShapeBecomes ==
  ASSUME KcpShape, NEW e \in Ends, NEW s \in States, NEW forced, Becomes(e, s, forced),
         UNCHANGED <<sendNext, recvNext, recvCache, ackList>>, net' = [f \in Ends |-> net'[f]]
  PROVE  KcpShape'
<1>1. WindowIn(s, sendWindow[e]) \in SUBSET Nat
  BY WindowKept DEF KcpShape
<1> QED
  BY <1>1 DEF KcpShape, Becomes

\* Close.
LEMMA StepClose ==
  ASSUME KcpInv, NEW e \in Ends, Close(e)
  PROVE  KcpInv'
<1> DEFINE s == CASE state[e] = "Active"     -> "ReadyToClose"
                  [] state[e] = "PeerClosed" -> "Terminating"
                  [] OTHER                   -> "Terminated"
<1>1. KcpShape /\ Link(e)
  BY DEF KcpInv
<1>2. /\ Becomes(e, s, FALSE) /\ UNCHANGED <<sendNext, recvNext, recvCache, ackList, net>>
      /\ state[e] \in {"Active", "PeerClosed", "PeerTerminating"}
  BY DEF Close
<1>3. s \in States
  BY <1>2 DEF States
<1>4. s \in Open \/ sendWindow[e] = {}
  BY <1>1, <1>2 DEF Link, Open
<1> HIDE DEF s
<1>5. KcpShape'
  BY <1>1, <1>2, <1>3, ShapeBecomes DEF KcpShape
<1> QED
  BY <1>2, <1>3, <1>4, <1>5, StepBecomes

\* What the close option and the terminate command do to a state
LEMMA OptionSteps ==
  ASSUME KcpInv, NEW e \in Ends, NEW option
  PROVE  /\ AfterOption(state[e], option) \in States
         /\ option = "close" \/ AfterOption(state[e], option) = state[e]
         /\ AfterOption(state[e], option) \in Open \/ sendWindow[e] = {} \/ option = "close"
<1>1. state[e] \in States /\ (state[e] \in Open \/ sendWindow[e] = {})
  BY DEF KcpInv, KcpShape, Link
<1> QED
  BY <1>1 DEF AfterOption, States

\* A terminate leads to a state.
LEMMA TerminateSteps ==
  ASSUME NEW s \in States
  PROVE  AfterTerminate(s) \in States
BY DEF AfterTerminate, States

\* Input of a data segment.
LEMMA StepData ==
  ASSUME KcpInv, NEW e \in Ends, NEW p \in net[e], Taken(e, p), p.type = "data", InputData(e, p)
  PROVE  KcpInv'
<1> DEFINE o == Peer(e)
           s == AfterOption(state[e], p.option)
           fits == p.number >= recvNext[e] /\ p.number < recvNext[e] + ReceiveWindow
           new == IF fits THEN {p.number} ELSE {}
           c == recvCache[e] \cup new
<1>0. o \in Ends /\ o # e /\ Peer(o) = e /\ Ends = {e, o}
  BY Peers
<1>1. KcpShape /\ Link(e) /\ Link(o)
  BY <1>0 DEF KcpInv
<1>2. PICK next \in recvNext[e]..(recvNext[e] + ReceiveWindow) :
        /\ FirstMissing(recvNext[e], c, next)
        /\ recvNext' = [recvNext EXCEPT ![e] = next]
        /\ recvCache' = [recvCache EXCEPT ![e] = {n \in c : n >= next}]
  BY DEF InputData
<1>3. /\ Becomes(e, s, p.option = "close") /\ sendNext' = sendNext
      /\ ackList' = [ackList EXCEPT ![e] = StillToAck(e, p.sendingNext) \cup new]
  BY DEF InputData
<1>4. new \subseteq Written(o) /\ new \subseteq Nat
  <2>1. new \subseteq {p.number}
    OBVIOUS
  <2>2. p.number \in Written(o)
    BY <1>0, <1>1 DEF Link
  <2>3. Written(o) \subseteq Nat
    BY DEF Written
  <2> QED
    BY <2>1, <2>2, <2>3
<1>5. s \in States /\ (s \in Open \/ sendWindow[e] = {} \/ p.option = "close")
  BY OptionSteps
<1> HIDE DEF o, s, new
<1>6. recvNext[e] \in Nat /\ recvCache[e] \subseteq Nat /\ next \in Nat /\ recvNext[e] <= next
  BY <1>1, <1>2, ReceiveWindowAssumption DEF KcpShape
<1>7. /\ recvNext'[e] = next /\ recvNext'[o] = recvNext[o] /\ recvCache'[e] = {n \in c : n >= next}
      /\ recvCache'[o] = recvCache[o] /\ ackList'[o] = ackList[o]
      /\ ackList'[e] = StillToAck(e, p.sendingNext) \cup new
  BY <1>0, <1>1, <1>2, <1>3 DEF KcpShape
<1>8. /\ state'[e] = s /\ state'[o] = state[o]
      /\ sendWindow'[e] = WindowIn(s, sendWindow[e]) /\ sendWindow'[o] = sendWindow[o]
      /\ gaveUp \subseteq gaveUp' /\ (p.option = "close" => e \in gaveUp')
  BY <1>0, <1>1, <1>3 DEF Becomes, Only, KcpShape
<1>9. net' = [f \in Ends |-> net'[f]] /\ \A f \in Ends : \A q \in net'[f] : q \in net[f]
  BY <1>1 DEF Taken, KcpShape
<1>10. StillToAck(e, p.sendingNext) \subseteq ackList[e]
  BY DEF StillToAck
<1>11. KcpShape'
  <2>1. WindowIn(s, sendWindow[e]) \in SUBSET Nat
    BY <1>1, WindowKept DEF KcpShape
  <2>2. state' \in [Ends -> States] /\ sendWindow' \in [Ends -> SUBSET Nat] /\ sendNext' \in [Ends -> Nat]
    BY <1>1, <1>3, <1>5, <2>1 DEF KcpShape, Becomes
  <2>3. recvNext' \in [Ends -> Nat] /\ recvCache' \in [Ends -> SUBSET Nat]
    <3>1. {n \in c : n >= next} \in SUBSET Nat
      BY <1>4, <1>6
    <3> QED BY <1>1, <1>2, <1>6, <3>1 DEF KcpShape
  <2>4. ackList' \in [Ends -> SUBSET Nat]
    <3>1. StillToAck(e, p.sendingNext) \cup new \in SUBSET Nat
      BY <1>1, <1>4, <1>10 DEF KcpShape
    <3> QED BY <1>1, <1>3, <3>1 DEF KcpShape
  <2> QED BY <1>9, <2>2, <2>3, <2>4 DEF KcpShape
<1>12. Received(e)' = Received(e) \cup new
  <2>1. recvNext[e]..(next - 1) \subseteq recvCache[e] \cup new
    BY <1>2 DEF FirstMissing
  <2>2. \A n \in 0..(next - 1) : n \in 0..(recvNext[e] - 1) \/ n \in recvNext[e]..(next - 1)
    BY <1>6
  <2>3. ASSUME NEW n \in recvCache[e] \cup new PROVE n >= next \/ n \in 0..(next - 1)
    <3>1. n \in Nat
      BY <1>4, <1>6
    <3> QED BY <1>6, <3>1
  <2>4. 0..(recvNext[e] - 1) \subseteq 0..(next - 1)
    BY <1>6
  <2>5. Received(e)' = 0..(next - 1) \cup {n \in c : n >= next}
    BY <1>7 DEF Received
  <2> QED
    BY <2>1, <2>2, <2>3, <2>4, <2>5 DEF Received
<1>13. Link(e)'
  <2>1. sendWindow'[e] \subseteq sendWindow[e] /\ (state'[e] \in Open \/ sendWindow'[e] = {})
    BY <1>8, WindowKept
  <2>2. e \in gaveUp' \/ sendWindow[e] \ sendWindow'[e] \subseteq Received(o)
    BY <1>5, <1>8, WindowKept
  <2>3. sendNext'[e] = sendNext[e]
    BY <1>3
  <2> QED
    BY <1>0, <1>1, <1>7, <1>8, <1>9, <2>1, <2>2, <2>3, SenderMoves DEF o
<1>14. Link(o)'
  <2>1. Received(e) \subseteq Written(o) /\ ackList[e] \subseteq Received(e)
    BY <1>0, <1>1 DEF Link
  <2>2. ackList'[e] \subseteq Received(e)' /\ Received(e)' \subseteq Written(o)
    BY <1>4, <1>7, <1>10, <1>12, <2>1
  <2>3. recvNext[e] <= recvNext'[e] /\ sendNext'[o] = sendNext[o]
    BY <1>3, <1>6, <1>7
  <2> QED
    BY <1>0, <1>1, <1>8, <1>9, <1>11, <1>12, <2>2, <2>3, ReceiverMoves
<1> QED
  BY <1>0, <1>11, <1>13, <1>14 DEF KcpInv

\* An acknowledgement or a command: w is what it leaves in the send window of e.
LEMMA StepConfirmed ==
  ASSUME KcpInv, NEW e \in Ends, NEW p \in net[e], Taken(e, p), p.type # "data",
         NEW s \in States, NEW quits, NEW w,
         s \in Open \/ sendWindow[e] = {} \/ e \in quits,
         w \subseteq WindowIn(s, sendWindow[e]),
         \A n \in WindowIn(s, sendWindow[e]) \ w : n < p.receivingNext \/ (p.type = "ack" /\ n \in p.numbers),
         state' = [state EXCEPT ![e] = s], sendWindow' = [sendWindow EXCEPT ![e] = w],
         gaveUp' = gaveUp \cup quits, UNCHANGED <<sendNext, recvNext, recvCache>>,
         NEW acks \in SUBSET ackList[e], ackList' = [ackList EXCEPT ![e] = acks]
  PROVE  KcpInv'
<1> DEFINE o == Peer(e)
<1>0. o \in Ends /\ o # e /\ Peer(o) = e /\ Ends = {e, o}
  BY Peers
<1>1. KcpShape /\ Link(e) /\ Link(o)
  BY <1>0 DEF KcpInv
<1>2. w \subseteq WindowIn(s, sendWindow[e]) /\ w \subseteq sendWindow[e]
  BY WindowKept
<1>3. KcpShape'
  <2>1. w \in SUBSET Nat /\ acks \in SUBSET Nat
    BY <1>1, <1>2 DEF KcpShape
  <2>2. net' = [f \in Ends |-> net'[f]]
    BY <1>1 DEF Taken, KcpShape
  <2> QED BY <1>1, <2>1, <2>2 DEF KcpShape
<1>4. /\ state'[e] = s /\ state'[o] = state[o] /\ sendWindow'[e] = w /\ sendWindow'[o] = sendWindow[o]
      /\ gaveUp \subseteq gaveUp' /\ (e \in quits => e \in gaveUp')
      /\ ackList'[e] = acks /\ ackList'[o] = ackList[o]
  BY <1>0, <1>1 DEF KcpShape
<1>5. \A f \in Ends : \A q \in net'[f] : q \in net[f]
  BY <1>1 DEF Taken, KcpShape
<1>6. Received(e)' = Received(e)
  BY DEF Received
<1>7. /\ p.receivingNext \in 0..recvNext[o] /\ recvNext[o] \in Nat
      /\ p.type = "ack" => p.numbers \subseteq Received(o)
  BY <1>0, <1>1 DEF Link, KcpShape
<1>8. ASSUME NEW n \in sendWindow[e], n \notin w, s \in Open PROVE n \in Received(o)
  <2>1. n \in Nat /\ n \in WindowIn(s, sendWindow[e])
    BY <1>1, <1>8, WindowKept DEF KcpShape
  <2>2. CASE n < p.receivingNext
    BY <1>7, <2>1, <2>2 DEF Received
  <2>3. CASE p.type = "ack" /\ n \in p.numbers
    BY <1>7, <2>3
  <2> QED BY <1>8, <2>1, <2>2, <2>3
<1> HIDE DEF o
<1>9. Link(e)'
  <2>1. state'[e] \in Open \/ sendWindow'[e] = {}
    BY <1>2, <1>4, WindowKept
  <2>2. e \in gaveUp' \/ sendWindow[e] \ sendWindow'[e] \subseteq Received(o)
    BY <1>4, <1>8
  <2> QED
    BY <1>0, <1>1, <1>2, <1>4, <1>5, <2>1, <2>2, SenderMoves DEF o
<1>10. Link(o)'
  <2>1. Received(e) \subseteq Written(o) /\ acks \subseteq Received(e) /\ recvNext[e] <= recvNext[e]
    BY <1>0, <1>1 DEF Link, KcpShape
  <2> QED
    BY <1>0, <1>1, <1>3, <1>4, <1>5, <1>6, <2>1, ReceiverMoves
<1> QED
  BY <1>0, <1>3, <1>9, <1>10 DEF KcpInv

\* Input of an acknowledgement.
LEMMA StepAck ==
  ASSUME KcpInv, NEW e \in Ends, NEW p \in net[e], Taken(e, p), p.type = "ack", InputAck(e, p)
  PROVE  KcpInv'
<1> DEFINE s == AfterOption(state[e], p.option)
           quits == Only(p.option = "close", e)
           w == {n \in WindowIn(s, sendWindow[e]) : n >= p.receivingNext /\ n \notin p.numbers}
<1>1. s \in States /\ (s \in Open \/ sendWindow[e] = {} \/ e \in quits)
  BY OptionSteps DEF Only
<1>2. /\ state' = [state EXCEPT ![e] = s] /\ sendWindow' = [sendWindow EXCEPT ![e] = w]
      /\ gaveUp' = gaveUp \cup quits /\ UNCHANGED <<sendNext, recvNext, recvCache, ackList>>
  BY DEF InputAck
<1>3. ackList[e] \in SUBSET ackList[e] /\ ackList' = [ackList EXCEPT ![e] = ackList[e]]
  BY <1>2 DEF KcpInv, KcpShape
<1>4. /\ w \subseteq WindowIn(s, sendWindow[e]) /\ p.type # "data"
      /\ \A n \in WindowIn(s, sendWindow[e]) \ w : n < p.receivingNext \/ (p.type = "ack" /\ n \in p.numbers)
  <2>1. p.receivingNext \in Nat /\ WindowIn(s, sendWindow[e]) \subseteq Nat
    <3>1. recvNext[Peer(e)] \in Nat /\ sendWindow[e] \subseteq Nat
      BY Peers DEF KcpInv, KcpShape
    <3>2. p.receivingNext \in 0..recvNext[Peer(e)]
      BY DEF KcpInv, Link
    <3>3. WindowIn(s, sendWindow[e]) \subseteq sendWindow[e]
      BY WindowKept
    <3> QED
      BY <3>1, <3>2, <3>3
  <2> QED
    BY <2>1
<1> HIDE DEF s, quits, w
<1> QED
  BY <1>1, <1>2, <1>3, <1>4, StepConfirmed

\* Input of a ping or a terminate.
LEMMA StepCmd ==
  ASSUME KcpInv, NEW e \in Ends, NEW p \in net[e], Taken(e, p), p.type \in {"ping", "terminate"}, InputCmd(e, p)
  PROVE  KcpInv'
<1> DEFINE o == AfterOption(state[e], p.option)
           s == IF p.type = "terminate" THEN AfterTerminate(o) ELSE o
           w == {n \in WindowIn(s, sendWindow[e]) : n >= p.receivingNext}
           acks == StillToAck(e, p.sendingNext)
           quits == Only(p.option = "close" \/ p.type = "terminate", e)
<1>1. s \in States /\ (s \in Open \/ sendWindow[e] = {} \/ e \in quits)
  BY OptionSteps, TerminateSteps DEF Only
<1>2. /\ state' = [state EXCEPT ![e] = s] /\ sendWindow' = [sendWindow EXCEPT ![e] = w]
      /\ gaveUp' = gaveUp \cup quits /\ UNCHANGED <<sendNext, recvNext, recvCache>>
      /\ ackList' = [ackList EXCEPT ![e] = acks]
  BY DEF InputCmd
<1>3. acks \in SUBSET ackList[e]
  BY DEF StillToAck
<1>4. /\ w \subseteq WindowIn(s, sendWindow[e]) /\ p.type # "data"
      /\ \A n \in WindowIn(s, sendWindow[e]) \ w : n < p.receivingNext \/ (p.type = "ack" /\ n \in p.numbers)
  <2>1. p.receivingNext \in Nat /\ WindowIn(s, sendWindow[e]) \subseteq Nat
    <3>1. recvNext[Peer(e)] \in Nat /\ sendWindow[e] \subseteq Nat
      BY Peers DEF KcpInv, KcpShape
    <3>2. p.receivingNext \in 0..recvNext[Peer(e)]
      BY DEF KcpInv, Link
    <3>3. WindowIn(s, sendWindow[e]) \subseteq sendWindow[e]
      BY WindowKept
    <3> QED
      BY <3>1, <3>2, <3>3
  <2> QED
    BY <2>1
<1> HIDE DEF s, quits, acks, w
<1> QED
  BY <1>1, <1>2, <1>3, <1>4, StepConfirmed

\* flush: what it sends was written, and what it acknowledges was received.
LEMMA StepFlush ==
  ASSUME KcpInv, NEW e \in Ends, NEW quiet \in BOOLEAN, NEW expired \in BOOLEAN, Flush(e, quiet, expired)
  PROVE  KcpInv'
<1> DEFINE s == BeforeFlush(e, quiet)
           late == expired /\ s = state[e]
<1>0. Peer(e) \in Ends /\ Peer(e) # e
  BY Peers
<1>1. KcpShape /\ Link(e) /\ state[e] \in States
  BY DEF KcpInv, KcpShape
<1>2. s \in States /\ (s \in Open \/ sendWindow[e] = {})
  BY <1>1 DEF BeforeFlush, Link, Open, States
<1>3. /\ FlushTerminating(e, s, late) \/ FlushOpen(e, s, late)
      /\ UNCHANGED <<sendNext, recvNext, recvCache, ackList>>
  BY DEF Flush
<1> HIDE DEF s, late
<1>4. ASSUME NEW new, Sent(Peer(e), new)
      PROVE  /\ net' = [f \in Ends |-> net'[f]]
             /\ \A p \in net'[e] : p \in net[e]
             /\ \A p \in net'[Peer(e)] : p \in net[Peer(e)] \/ p \in new
  BY <1>0, <1>1, <1>4 DEF Sent, KcpShape
<1>5. CASE FlushTerminating(e, s, late)
  <2> DEFINE t == IF late THEN "Terminated" ELSE s
             new == {CmdSegment(e, "terminate", s)}
  <2>1. Becomes(e, t, FALSE) /\ Sent(Peer(e), new) /\ s = "Terminating"
    BY <1>5 DEF FlushTerminating
  <2>2. t \in States /\ sendWindow[e] = {}
    BY <1>2, <2>1 DEF States, Open
  <2>3. \A p \in new : p.type = "terminate" /\ p.receivingNext = recvNext[e]
    BY DEF CmdSegment
  <2> HIDE DEF t, new
  <2>4. KcpShape'
    BY <1>1, <1>3, <1>4, <2>1, <2>2, ShapeBecomes
  <2>5. \A p \in net'[Peer(e)] :
            \/ p \in net[Peer(e)]
            \/ p.type = "data" /\ p.number \in sendWindow[e]
            \/ p.type # "data" /\ p.receivingNext = recvNext[e] /\ (p.type = "ack" => p.numbers = ackList[e])
    BY <1>4, <2>1, <2>3
  <2> QED
    BY <1>3, <1>4, <2>1, <2>2, <2>4, <2>5, StepBecomes
<1>6. CASE FlushOpen(e, s, late)
  <2> DEFINE t == IF late /\ s \in {"PeerTerminating", "ReadyToClose"} THEN "Terminating" ELSE s
             acks == IF ackList[e] = {} THEN {} ELSE {AckSegment(e, t)}
             data == {DataSegment(e, n, t) : n \in WindowIn(t, sendWindow[e])}
             ping == {CmdSegment(e, "ping", t)}
  <2>1. Becomes(e, t, t # s) /\ Sent(Peer(e), acks \cup data \cup ping)
    BY <1>6 DEF FlushOpen
  <2>2. t \in States /\ (t \in Open \/ sendWindow[e] = {} \/ t # s)
    BY <1>2 DEF States
  <2>3. \A p \in acks : p.type = "ack" /\ p.receivingNext = recvNext[e] /\ p.numbers = ackList[e]
    BY DEF AckSegment
  <2>4. \A p \in data : p.type = "data" /\ p.number \in sendWindow[e]
    BY WindowKept DEF DataSegment
  <2>5. \A p \in ping : p.type = "ping" /\ p.receivingNext = recvNext[e]
    BY DEF CmdSegment
  <2> HIDE DEF t, acks, data, ping
  <2>6. KcpShape'
    BY <1>1, <1>3, <1>4, <2>1, <2>2, ShapeBecomes
  <2>7. \A p \in net'[Peer(e)] :
            \/ p \in net[Peer(e)]
            \/ p.type = "data" /\ p.number \in sendWindow[e]
            \/ p.type # "data" /\ p.receivingNext = recvNext[e] /\ (p.type = "ack" => p.numbers = ackList[e])
    BY <1>4, <2>1, <2>3, <2>4, <2>5
  <2> QED
    BY <1>3, <1>4, <2>1, <2>2, <2>6, <2>7, StepBecomes
<1> QED
  BY <1>3, <1>5, <1>6

\* What only the reader of a connection does is not in the invariant.
LEMMA StepRead ==
  ASSUME KcpInv, UNCHANGED <<state, sendNext, sendWindow, recvNext, recvCache, ackList, gaveUp, net>>
  PROVE  KcpInv'
BY DEF KcpInv, KcpShape, Link, Written, Received

\* The initial states.
LEMMA KcpStarts == KcpInit => KcpInv
<1> SUFFICES ASSUME KcpInit PROVE KcpInv
  OBVIOUS
<1>1. KcpShape
  BY DEF KcpInit, KcpShape, States
<1>2. ASSUME NEW e \in Ends PROVE Link(e)
  <2>1. Peer(e) \in Ends
    BY Peers
  <2>2. Written(e) = {} /\ Received(Peer(e)) = {}
    BY <2>1 DEF KcpInit, Written, Received
  <2> QED
    BY <2>1, <2>2 DEF KcpInit, Link, Open
<1> QED
  BY <1>1, <1>2 DEF KcpInv

\* Every step keeps both directions right.
LEMMA KcpStep == KcpInv /\ [KcpNext]_kcpVars => KcpInv'
<1> SUFFICES ASSUME KcpInv, [KcpNext]_kcpVars PROVE KcpInv'
  OBVIOUS
<1>1. CASE UNCHANGED kcpVars
  BY <1>1, StepRead DEF kcpVars
<1>2. CASE KcpNext
  <2>1. PICK e \in Ends :
          \/ Write(e)
          \/ Read(e)
          \/ Close(e)
          \/ \E p \in net[e] : Input(e, p)
          \/ Flush(e, FALSE, FALSE) \/ Expires(e) \/ FallsSilent(e)
    BY <1>2 DEF KcpNext
  <2>2. CASE Write(e)
    BY <2>2, StepWrite
  <2>3. CASE Read(e)
    BY <2>3, StepRead DEF Read
  <2>4. CASE Close(e)
    BY <2>4, StepClose
  <2>5. ASSUME NEW p \in net[e], Input(e, p) PROVE KcpInv'
    BY <2>5, StepData, StepAck, StepCmd DEF Input
  <2>6. ASSUME NEW quiet \in BOOLEAN, NEW expired \in BOOLEAN, Flush(e, quiet, expired) PROVE KcpInv'
    BY <2>6, StepFlush
  <2> QED
    BY <2>1, <2>2, <2>3, <2>4, <2>5, <2>6 DEF Expires, FallsSilent
<1> QED
  BY <1>1, <1>2

\* mKCP loses no segment that was written while neither the peer nor a timer has
\* ended the sending, and delivers none that was not written: for any numbers of
\* segments and sizes of the windows, and whatever the network loses, repeats
\* or overtakes.
THEOREM MkcpCorrect == KcpSpec => []NoSegmentLost
<1>1. KcpInv => NoSegmentLost
  BY DEF KcpInv, Link, Written, NoSegmentLost
<1> QED
  BY <1>1, KcpStarts, KcpStep, PTL DEF KcpSpec

-----------------------------------------------------------------------------
(* SingleDo                                                                *)

\* A call that computes or is about to keep its value
Active(u) == user[u].pc \in {"running", "done"}

\* Every step keeps the types.
LEMMA SingleTypeStep == ASSUME SingleTypeOK, [SingleNext]_singleVars PROVE SingleTypeOK'
<1> USE DEF SingleTypeOK
<1>0. 0 \in Epochs
  BY UsersAssumption DEF Epochs
<1>1. ASSUME NEW u \in Users, DoKept(u) PROVE SingleTypeOK'
  <2>1. PICK v \in result : user' = [user EXCEPT ![u] = [Idle EXCEPT !.pc = "returned", !.born = epoch, !.value = v]]
    BY <1>1 DEF DoKept
  <2>2. [Idle EXCEPT !.pc = "returned", !.born = epoch, !.value = v] \in UserState
    BY <1>0 DEF Idle, UserState
  <2> QED
    BY <1>1, <2>1, <2>2 DEF DoKept
<1>2. ASSUME NEW u \in Users, DoJoin(u) PROVE SingleTypeOK'
  <2>1. call \in Users /\ user[call] \in UserState
    BY <1>2 DEF DoJoin
  <2>2. [Idle EXCEPT !.pc = "returned", !.born = epoch, !.value = user[call].value] \in UserState
    BY <1>0, <2>1 DEF Idle, UserState
  <2>3. [Idle EXCEPT !.pc = "waiting", !.born = epoch, !.of = call] \in UserState
    BY <1>0, <2>1 DEF Idle, UserState
  <2> QED
    BY <1>2, <2>2, <2>3 DEF DoJoin
<1>3. ASSUME NEW u \in Users, DoStart(u) PROVE SingleTypeOK'
  <2>1. [Idle EXCEPT !.pc = "running", !.born = epoch, !.value = epoch] \in UserState
    BY <1>0 DEF Idle, UserState
  <2> QED
    BY <1>3, <2>1 DEF DoStart
<1>4. ASSUME NEW u \in Users, FnReturns(u) PROVE SingleTypeOK'
  <2>1. [user[u] EXCEPT !.pc = "done"] \in UserState
    BY DEF UserState
  <2>2. \A w \in Users :
          [user[w] EXCEPT !.pc = "returned", !.value = user[u].value, !.of = NoCall] \in UserState
    BY DEF UserState
  <2> QED
    BY <1>4, <2>1, <2>2 DEF FnReturns
<1>5. ASSUME NEW u \in Users, Keep(u) PROVE SingleTypeOK'
  <2>1. [user[u] EXCEPT !.pc = "returned"] \in UserState /\ user[u].value \in Epochs
    BY DEF UserState
  <2> QED
    BY <1>5, <2>1 DEF Keep
<1>6. ASSUME NEW u \in Users, Again(u) PROVE SingleTypeOK'
  <2>1. Idle \in UserState
    BY <1>0 DEF Idle, UserState
  <2> QED
    BY <1>6, <2>1 DEF Again
<1>7. CASE Expire
  BY <1>7 DEF Expire
<1>8. CASE Reset
  BY <1>8, UsersAssumption DEF Reset, Epochs
<1>9. CASE UNCHANGED singleVars
  BY <1>9 DEF singleVars
<1> QED
  BY <1>1, <1>2, <1>3, <1>4, <1>5, <1>6, <1>7, <1>8, <1>9 DEF SingleNext, Do

(***************************************************************************)
(* Why a Reset is final: the current call and the kept result are of the   *)
(* present epoch, a call of the present epoch is the current one, and      *)
(* whoever waits, waits for a running call that began after its Do.        *)
(***************************************************************************)
CallInv ==
    /\ call # NoCall => Active(call) /\ user[call].value = epoch
    /\ result \subseteq {epoch}

UserInv(u) ==
    /\ user[u].born <= epoch
    /\ Active(u) => user[u].value <= epoch /\ user[u].value >= user[u].born
    /\ Active(u) /\ user[u].value = epoch => call = u
    /\ user[u].pc = "waiting" =>
         user[u].of \in Users /\ user[user[u].of].pc = "running" /\ user[user[u].of].value >= user[u].born

SingleInv == SingleTypeOK /\ CallInv /\ (\A u \in Users : UserInv(u)) /\ ResetIsFinal

\* What the type says of the numbers
LEMMA Numbers ==
  ASSUME SingleTypeOK
  PROVE  epoch \in Nat /\ \A u \in Users : user[u].born \in Nat /\ user[u].value \in Nat
BY UsersAssumption DEF SingleTypeOK, UserState, Epochs

\* A step that changes the place of one goroutine
LEMMA OneUserMoves ==
  ASSUME NEW u \in Users, NEW x, SingleTypeOK, user' = [user EXCEPT ![u] = x]
  PROVE  user'[u] = x /\ \A w \in Users \ {u} : user'[w] = user[w]
BY DEF SingleTypeOK

\* Every step keeps the invariant.
LEMMA SingleStep == ASSUME SingleInv, [SingleNext]_singleVars PROVE SingleInv'
<1> USE DEF SingleInv, Active
<1>a. SingleTypeOK'
  BY SingleTypeStep
<1>b. epoch \in Nat /\ \A w \in Users : user[w].born \in Nat /\ user[w].value \in Nat
  BY Numbers
<1>c. call \in Users \cup {NoCall} /\ NoCall \notin Users
  BY UsersAssumption DEF SingleTypeOK
<1>1. ASSUME NEW u \in Users, DoKept(u) PROVE SingleInv'
  <2>0. user' = [user EXCEPT ![u] = [Idle EXCEPT !.pc = "returned", !.born = epoch, !.value = epoch]]
    BY <1>1 DEF DoKept, CallInv
  <2>1. user'[u] = [Idle EXCEPT !.pc = "returned", !.born = epoch, !.value = epoch]
    BY <2>0, OneUserMoves
  <2>2. user'[u].pc = "returned" /\ user'[u].born = epoch /\ user'[u].value = epoch
    BY <2>1 DEF Idle
  <2>3. \A w \in Users \ {u} : user'[w] = user[w]
    BY <1>1, OneUserMoves DEF DoKept
  <2>4. epoch' = epoch /\ call' = call /\ result' = result /\ user[u].pc = "idle"
    BY <1>1 DEF DoKept
  <2>5. CallInv'
    BY <1>c, <2>3, <2>4 DEF CallInv
  <2>6. ASSUME NEW w \in Users PROVE UserInv(w)'
    BY <1>b, <2>2, <2>3, <2>4 DEF UserInv
  <2>7. ResetIsFinal'
    BY <1>b, <2>2, <2>3, <2>4 DEF ResetIsFinal
  <2> QED BY <1>a, <2>5, <2>6, <2>7
<1>2. ASSUME NEW u \in Users, DoJoin(u), user[call].pc = "done" PROVE SingleInv'
  <2>1. user'[u] = [Idle EXCEPT !.pc = "returned", !.born = epoch, !.value = user[call].value]
    BY <1>2, OneUserMoves DEF DoJoin
  <2>2. user'[u].pc = "returned" /\ user'[u].born = epoch /\ user'[u].value = user[call].value
    BY <2>1 DEF Idle
  <2>3. \A w \in Users \ {u} : user'[w] = user[w]
    BY <1>2, OneUserMoves DEF DoJoin
  <2>4. epoch' = epoch /\ call' = call /\ result' = result /\ user[u].pc = "idle" /\ call \in Users
    BY <1>2, <1>c DEF DoJoin
  <2>5. CallInv' /\ user[call].value = epoch
    BY <1>c, <2>3, <2>4 DEF CallInv
  <2>6. ASSUME NEW w \in Users PROVE UserInv(w)'
    BY <1>b, <2>2, <2>3, <2>4 DEF UserInv
  <2>7. ResetIsFinal'
    BY <1>b, <2>2, <2>3, <2>4, <2>5 DEF ResetIsFinal
  <2> QED BY <1>a, <2>5, <2>6, <2>7
<1>3. ASSUME NEW u \in Users, DoJoin(u), user[call].pc # "done" PROVE SingleInv'
  <2>1. user'[u] = [Idle EXCEPT !.pc = "waiting", !.born = epoch, !.of = call]
    BY <1>3, OneUserMoves DEF DoJoin
  <2>2. user'[u].pc = "waiting" /\ user'[u].born = epoch /\ user'[u].of = call
    BY <2>1 DEF Idle
  <2>3. \A w \in Users \ {u} : user'[w] = user[w]
    BY <1>3, OneUserMoves DEF DoJoin
  <2>4. epoch' = epoch /\ call' = call /\ result' = result /\ user[u].pc = "idle" /\ call \in Users
    BY <1>3, <1>c DEF DoJoin
  <2>5. CallInv' /\ user[call].value = epoch /\ user[call].pc = "running"
    BY <1>3, <1>c, <2>3, <2>4 DEF CallInv
  <2>6. ASSUME NEW w \in Users PROVE UserInv(w)'
    BY <1>b, <2>2, <2>3, <2>4, <2>5 DEF UserInv
  <2>7. ResetIsFinal'
    BY <1>b, <2>2, <2>3, <2>4 DEF ResetIsFinal
  <2> QED BY <1>a, <2>5, <2>6, <2>7
<1>4. ASSUME NEW u \in Users, DoStart(u) PROVE SingleInv'
  <2>1. user'[u] = [Idle EXCEPT !.pc = "running", !.born = epoch, !.value = epoch]
    BY <1>4, OneUserMoves DEF DoStart
  <2>2. user'[u].pc = "running" /\ user'[u].born = epoch /\ user'[u].value = epoch
    BY <2>1 DEF Idle
  <2>3. \A w \in Users \ {u} : user'[w] = user[w]
    BY <1>4, OneUserMoves DEF DoStart
  <2>4. epoch' = epoch /\ call' = u /\ call = NoCall /\ result' = result /\ user[u].pc = "idle"
    BY <1>4 DEF DoStart
  <2>5. CallInv'
    BY <2>2, <2>4 DEF CallInv
  <2>6. ASSUME NEW w \in Users PROVE UserInv(w)'
    BY <1>b, <1>c, <2>2, <2>3, <2>4 DEF UserInv
  <2>7. ResetIsFinal'
    BY <1>b, <1>c, <2>2, <2>3, <2>4 DEF UserInv, ResetIsFinal
  <2> QED BY <1>a, <2>5, <2>6, <2>7
<1>5. ASSUME NEW u \in Users, FnReturns(u) PROVE SingleInv'
  <2> DEFINE Joined(w) == w # u /\ user[w].pc = "waiting" /\ user[w].of = u
  <2>1. user'[u] = [user[u] EXCEPT !.pc = "done"]
    BY <1>5 DEF FnReturns
  <2>2. /\ user'[u].pc = "done" /\ user[u].pc = "running"
        /\ user'[u].born = user[u].born /\ user'[u].value = user[u].value
    BY <1>5, <2>1 DEF FnReturns, SingleTypeOK, UserState
  <2>3. \A w \in Users \ {u} : ~Joined(w) => user'[w] = user[w]
    BY <1>5 DEF FnReturns
  <2>4. \A w \in Users : Joined(w) =>
          user'[w] = [user[w] EXCEPT !.pc = "returned", !.value = user[u].value, !.of = NoCall]
    BY <1>5 DEF FnReturns
  <2>5. \A w \in Users : Joined(w) =>
          user'[w].pc = "returned" /\ user'[w].value = user[u].value /\ user'[w].born = user[w].born
    BY <2>4 DEF SingleTypeOK, UserState
  <2>6. epoch' = epoch /\ call' = call /\ result' = result
    BY <1>5 DEF FnReturns
  <2>7. CallInv'
    BY <1>c, <2>2, <2>3, <2>6 DEF CallInv
  <2>8. ASSUME NEW w \in Users PROVE UserInv(w)'
    BY <1>b, <2>2, <2>3, <2>5, <2>6 DEF UserInv
  <2>9. ResetIsFinal'
    BY <1>b, <2>2, <2>3, <2>5, <2>6 DEF UserInv, ResetIsFinal
  <2> QED BY <1>a, <2>7, <2>8, <2>9
<1>6. ASSUME NEW u \in Users, Keep(u) PROVE SingleInv'
  <2>1. user'[u] = [user[u] EXCEPT !.pc = "returned"]
    BY <1>6 DEF Keep, SingleTypeOK
  <2>2. /\ user'[u].pc = "returned" /\ user[u].pc = "done"
        /\ user'[u].born = user[u].born /\ user'[u].value = user[u].value
    BY <1>6, <2>1 DEF Keep, SingleTypeOK, UserState
  <2>3. \A w \in Users \ {u} : user'[w] = user[w]
    BY <1>6 DEF Keep, SingleTypeOK
  <2>4. /\ epoch' = epoch
        /\ call = u => call' = NoCall /\ result' = {user[u].value}
        /\ call # u => call' = call /\ result' = result
    BY <1>6 DEF Keep
  <2>5. CallInv'
    BY <1>c, <2>2, <2>3, <2>4 DEF CallInv
  <2>6. ASSUME NEW w \in Users PROVE UserInv(w)'
    BY <1>b, <1>c, <2>2, <2>3, <2>4 DEF UserInv
  <2>7. ResetIsFinal'
    BY <1>b, <2>2, <2>3, <2>4 DEF UserInv, ResetIsFinal
  <2> QED BY <1>a, <2>5, <2>6, <2>7
<1>7. ASSUME NEW u \in Users, Again(u) PROVE SingleInv'
  <2>1. user'[u] = Idle
    BY <1>7, OneUserMoves DEF Again
  <2>2. user'[u].pc = "idle" /\ user'[u].born = 0
    BY <2>1 DEF Idle
  <2>3. \A w \in Users \ {u} : user'[w] = user[w]
    BY <1>7, OneUserMoves DEF Again
  <2>4. epoch' = epoch /\ call' = call /\ result' = result /\ user[u].pc = "returned"
    BY <1>7 DEF Again
  <2>5. CallInv'
    BY <1>c, <2>3, <2>4 DEF CallInv
  <2>6. ASSUME NEW w \in Users PROVE UserInv(w)'
    BY <1>b, <2>2, <2>3, <2>4 DEF UserInv
  <2>7. ResetIsFinal'
    BY <1>b, <2>2, <2>3, <2>4 DEF ResetIsFinal
  <2> QED BY <1>a, <2>5, <2>6, <2>7
<1>8. CASE Expire
  <2>1. CallInv' /\ ResetIsFinal'
    BY <1>8 DEF Expire, CallInv, ResetIsFinal
  <2>2. ASSUME NEW w \in Users PROVE UserInv(w)'
    BY <1>8 DEF Expire, UserInv
  <2> QED BY <1>a, <2>1, <2>2
<1>9. CASE Reset
  <2>1. CallInv' /\ ResetIsFinal'
    BY <1>9 DEF Reset, CallInv, ResetIsFinal
  <2>2. ASSUME NEW w \in Users PROVE UserInv(w)'
    BY <1>9, <1>b DEF Reset, UserInv
  <2> QED BY <1>a, <2>1, <2>2
<1>10. CASE UNCHANGED singleVars
  <2>1. CallInv' /\ ResetIsFinal'
    BY <1>10 DEF singleVars, CallInv, ResetIsFinal
  <2>2. ASSUME NEW w \in Users PROVE UserInv(w)'
    BY <1>10 DEF singleVars, UserInv
  <2> QED BY <1>a, <2>1, <2>2
<1> QED
  BY <1>1, <1>2, <1>3, <1>4, <1>5, <1>6, <1>7, <1>8, <1>9, <1>10 DEF SingleNext, Do

(***************************************************************************)
(* For any number of goroutines and of Resets, no Do returns a value that  *)
(* a Reset before it should have forgotten, and calls do not overlap       *)
(* between Resets.                                                         *)
(***************************************************************************)
THEOREM SingleCorrect == SingleSpec => []ResetIsFinal
<1>1. SingleInit => SingleInv
  BY UsersAssumption DEF SingleInit, SingleInv, SingleTypeOK, UserState, CallInv, UserInv, Epochs, Active, Idle, ResetIsFinal
<1>2. SingleInv /\ [SingleNext]_singleVars => SingleInv'
  BY SingleStep
<1>3. SingleInv => ResetIsFinal
  BY DEF SingleInv
<1> QED
  BY <1>1, <1>2, <1>3, PTL DEF SingleSpec

-----------------------------------------------------------------------------
(* ProxyList                                                               *)

(***************************************************************************)
(* Why a list is never older than the versions it is kept under: a version *)
(* only grows, and every list is read after every version.                 *)
(***************************************************************************)
Dated(x) ==
    \A p \in Providers :
      /\ \A v \in x.versions[p] : v <= version[p]
      /\ \A l \in x.lists[p] : l <= version[p] /\ \A v \in x.versions[p] : v <= l

ReaderInv(r) ==
    /\ Dated(reader[r])
    /\ reader[r].pc \in {"versions", "lock"} => reader[r].lists = Unread

ListInv == ListTypeOK /\ Dated(kept) /\ \A r \in Readers : ReaderInv(r)

\* A step that changes what one goroutine has read
LEMMA OneReaderMoves ==
  ASSUME NEW r \in Readers, NEW x \in Reading, ListTypeOK, Moves(r, x)
  PROVE  reader' \in [Readers -> Reading] /\ reader'[r] = x /\ \A s \in Readers \ {r} : reader'[s] = reader[s]
BY DEF ListTypeOK, Moves

\* The fields of what a goroutine has read.
LEMMA Fields ==
  ASSUME NEW x \in Reading
  PROVE  /\ x.at \in Providers /\ x.round \in Rounds /\ x.found \subseteq Providers
         /\ x.versions \in VersionSets /\ x.lists \in VersionSets
BY DEF Reading

\* A call starts with nothing read.
LEMMA FreshReads ==
  LET y == [Fresh EXCEPT !.pc = "versions"] IN
  Fresh \in Reading /\ y \in Reading /\ y.pc = "versions" /\ y.versions = Unread /\ y.lists = Unread
<1>1. 1 \in Providers /\ 1 \in Rounds /\ Unread \in VersionSets
  BY ListAssumption DEF Providers, Rounds, Unread, VersionSets
<1> QED
  BY <1>1 DEF Fresh, Reading

\* A goroutine's step that keeps its own reading dated keeps the invariant.
LEMMA ReaderSteps ==
  ASSUME ListInv, NEW r \in Readers, NEW x \in Reading, Moves(r, x), UNCHANGED <<version, matching>>,
         mutex' \in Readers \cup {NoReader}, kept' \in [versions : VersionSets, lists : VersionSets],
         Dated(kept)', Dated(x), x.pc \in {"versions", "lock"} => x.lists = Unread
  PROVE  ListInv'
<1>1. reader' \in [Readers -> Reading] /\ reader'[r] = x /\ \A s \in Readers \ {r} : reader'[s] = reader[s]
  BY OneReaderMoves DEF ListInv
<1>2. ListTypeOK'
  BY <1>1 DEF ListInv, ListTypeOK
<1>3. ASSUME NEW s \in Readers PROVE ReaderInv(s)'
  BY <1>1 DEF ListInv, ReaderInv, Dated
<1> QED
  BY <1>2, <1>3 DEF ListInv

\* Every step keeps the readings dated.
LEMMA ListStep == ASSUME ListInv, [ListNext]_listVars PROVE ListInv'
<1>0. /\ version \in [Providers -> Versions] /\ matching \subseteq Providers
      /\ mutex \in Readers \cup {NoReader} /\ kept \in [versions : VersionSets, lists : VersionSets]
      /\ kept.versions \in VersionSets /\ kept.lists \in VersionSets
      /\ Dated(kept)
  BY DEF ListInv, ListTypeOK
<1>1. ASSUME NEW p \in Providers, SetProxies(p) PROVE ListInv'
  <2>1. /\ version' \in [Providers -> Versions] /\ matching' \subseteq Providers
        /\ UNCHANGED <<mutex, kept, reader>>
    BY <1>0, <1>1, ListAssumption DEF SetProxies, Versions
  <2>2. \A q \in Providers : version[q] <= version'[q] /\ version[q] \in Nat /\ version'[q] \in Nat
    BY <1>0, <1>1, ListAssumption DEF SetProxies, Versions
  <2>3. Dated(kept)'
    BY <1>0, <2>1, <2>2, ListAssumption DEF Dated, VersionSets, Versions
  <2>4. ASSUME NEW s \in Readers PROVE ReaderInv(s)'
    <3>1. reader[s].versions \in VersionSets /\ reader[s].lists \in VersionSets /\ ReaderInv(s)
      BY Fields DEF ListInv, ListTypeOK
    <3> QED
      BY <2>1, <2>2, <3>1, ListAssumption DEF ReaderInv, Dated, VersionSets, Versions
  <2> QED
    BY <2>1, <2>3, <2>4 DEF ListInv, ListTypeOK
<1>2. ASSUME NEW r \in Readers, Begin(r) \/ GetProxies(r) PROVE ListInv'
  <2> DEFINE p == reader[r].at
             lastRound == reader[r].round = Filters
  <2>0. /\ reader[r] \in Reading /\ p \in Providers /\ reader[r].versions \in VersionSets
        /\ reader[r].lists \in VersionSets /\ reader[r].round \in Rounds /\ reader[r].found \subseteq Providers
        /\ ReaderInv(r) /\ Dated(reader[r])
    BY Fields DEF ListInv, ListTypeOK, ReaderInv
  <2>1. CASE Begin(r)
    <3> DEFINE x == [Fresh EXCEPT !.pc = "versions"]
    <3>1. x \in Reading /\ x.lists = Unread /\ x.versions = Unread
      BY FreshReads
    <3>2. Dated(x)
      BY <3>1 DEF Dated, Unread
    <3>3. Moves(r, x) /\ UNCHANGED <<version, matching, mutex, kept>> /\ Dated(kept)'
      BY <1>0, <2>1 DEF Begin, Dated
    <3> HIDE DEF x
    <3> QED BY <1>0, <3>1, <3>2, <3>3, ReaderSteps
  <2>2. CASE ReadVersion(r)
    <3> DEFINE vs == [reader[r].versions EXCEPT ![p] = {version[p]}]
               at == IF p = NumProviders THEN 1 ELSE p + 1
               pc == IF p = NumProviders THEN "lock" ELSE "versions"
               x == [reader[r] EXCEPT !.versions = vs, !.at = at, !.pc = pc]
    <3>1. vs \in VersionSets /\ \A q \in Providers : vs[q] = IF q = p THEN {version[p]} ELSE reader[r].versions[q]
      BY <1>0, <2>0 DEF VersionSets
    <3>2. at \in Providers /\ pc \in {"lock", "versions"} /\ version[p] \in Nat
      BY <1>0, <2>0, ListAssumption DEF Providers, Versions
    <3>3. Moves(r, x) /\ UNCHANGED <<version, matching, mutex, kept>> /\ Dated(kept)' /\ reader[r].lists = Unread
      BY <1>0, <2>0, <2>2 DEF ReadVersion, Dated, ReaderInv
    <3> HIDE DEF vs, at, pc
    <3>4. x \in Reading /\ x.versions = vs /\ x.lists = Unread
      BY <2>0, <3>1, <3>2, <3>3 DEF Reading
    <3>5. Dated(x)
      BY <2>0, <3>1, <3>2, <3>4 DEF Dated, Unread
    <3> HIDE DEF x
    <3> QED BY <1>0, <3>3, <3>4, <3>5, ReaderSteps
  <2>3. CASE Lock(r) /\ kept.versions = reader[r].versions
    <3> DEFINE x == [reader[r] EXCEPT !.pc = "returned", !.lists = kept.lists]
    <3>1. x \in Reading /\ x.pc = "returned" /\ x.versions = kept.versions /\ x.lists = kept.lists
      BY <1>0, <2>0, <2>3 DEF Reading
    <3>2. Dated(x)
      BY <1>0, <3>1 DEF Dated
    <3>3. Moves(r, x) /\ UNCHANGED <<version, matching, mutex, kept>> /\ Dated(kept)'
      BY <1>0, <2>3 DEF Lock, Dated
    <3> HIDE DEF x
    <3> QED BY <1>0, <3>1, <3>2, <3>3, ReaderSteps
  <2>4. CASE Lock(r) /\ kept.versions # reader[r].versions
    <3> DEFINE x == [reader[r] EXCEPT !.pc = "lists"]
    <3>1. x \in Reading /\ x.pc = "lists" /\ x.versions = reader[r].versions /\ x.lists = reader[r].lists
      BY <2>0 DEF Reading
    <3>2. Dated(x)
      BY <2>0, <3>1 DEF Dated
    <3>3. Moves(r, x) /\ UNCHANGED <<version, matching, kept>> /\ mutex' = r /\ Dated(kept)'
      BY <1>0, <2>4 DEF Lock, Dated
    <3> HIDE DEF x
    <3> QED BY <1>0, <3>1, <3>2, <3>3, ReaderSteps
  <2>5. CASE ReadList(r)
    <3> DEFINE ls == [reader[r].lists EXCEPT ![p] = @ \cup {version[p]}]
               ps == reader[r].found \cup (matching \cap {p})
               round == IF lastRound THEN 1 ELSE reader[r].round + 1
               at == IF lastRound /\ p < NumProviders THEN p + 1 ELSE p
               pc == IF lastRound /\ p = NumProviders THEN "end" ELSE "lists"
               x == [reader[r] EXCEPT !.lists = ls, !.found = ps, !.round = round, !.at = at, !.pc = pc]
    <3>1. /\ ls \in VersionSets
          /\ \A q \in Providers : ls[q] = reader[r].lists[q] \cup (IF q = p THEN {version[p]} ELSE {})
      BY <1>0, <2>0 DEF VersionSets
    <3>2. at \in Providers /\ pc \in {"lists", "end"} /\ version[p] \in Nat
      BY <1>0, <2>0, ListAssumption DEF Providers, Versions
    <3>3. round \in Rounds /\ ps \in SUBSET Providers
      BY <1>0, <2>0, ListAssumption DEF Rounds
    <3>4. Moves(r, x) /\ UNCHANGED <<version, matching, mutex, kept>> /\ Dated(kept)'
      BY <1>0, <2>5 DEF ReadList, Dated
    <3> HIDE DEF ls, ps, round, at, pc
    <3>5. x \in Reading /\ x.pc = pc /\ x.versions = reader[r].versions /\ x.lists = ls
      BY <2>0, <3>1, <3>2, <3>3 DEF Reading
    <3>6. Dated(x)
      BY <2>0, <3>1, <3>2, <3>5 DEF Dated
    <3>7. x.pc \notin {"versions", "lock"}
      BY <3>2, <3>5
    <3> HIDE DEF x
    <3> QED BY <1>0, <3>4, <3>5, <3>6, <3>7, ReaderSteps
  <2>6. CASE KeepList(r)
    <3> DEFINE x == [reader[r] EXCEPT !.pc = "returned", !.found = {}]
               list == [versions |-> reader[r].versions, lists |-> reader[r].lists]
    <3>1. x \in Reading /\ x.pc = "returned" /\ x.versions = reader[r].versions /\ x.lists = reader[r].lists
      BY <2>0 DEF Reading
    <3>2. Dated(x) /\ Dated(list) /\ list \in [versions : VersionSets, lists : VersionSets]
      BY <2>0, <3>1 DEF Dated
    <3>3. Moves(r, x) /\ UNCHANGED <<version, matching>> /\ mutex' = NoReader /\ kept' \in {kept, list}
      BY <2>6 DEF KeepList
    <3> HIDE DEF x, list
    <3>4. Dated(kept)' /\ kept' \in [versions : VersionSets, lists : VersionSets]
      BY <1>0, <3>2, <3>3 DEF Dated
    <3> QED BY <3>1, <3>2, <3>3, <3>4, ReaderSteps
  <2> QED
    BY <1>2, <2>1, <2>2, <2>3, <2>4, <2>5, <2>6 DEF GetProxies
<1>3. CASE UNCHANGED listVars
  <2>1. ListTypeOK' /\ Dated(kept)'
    BY <1>3 DEF ListInv, ListTypeOK, Dated, listVars
  <2>2. ASSUME NEW s \in Readers PROVE ReaderInv(s)'
    BY <1>3 DEF ListInv, ReaderInv, Dated, listVars
  <2> QED BY <2>1, <2>2 DEF ListInv
<1> QED
  BY <1>1, <1>2, <1>3 DEF ListNext

(***************************************************************************)
(* For any number of providers, filters, updates and concurrent callers,   *)
(* GetProxies returns and keeps no list older than the versions it read.   *)
(***************************************************************************)
THEOREM ListCorrect == ListSpec => []ListNotStale
<1>1. ListInit => ListInv
  <2> SUFFICES ASSUME ListInit PROVE ListInv
    OBVIOUS
  <2>1. Fresh \in Reading /\ Unread \in VersionSets /\ 0 \in Versions
    BY FreshReads, ListAssumption DEF Unread, VersionSets, Versions
  <2>2. ListTypeOK
    BY <2>1 DEF ListInit, ListTypeOK
  <2>3. Dated(kept) /\ \A r \in Readers : reader[r] = Fresh
    BY DEF ListInit, Dated, Unread
  <2>4. \A r \in Readers : ReaderInv(r)
    BY <2>3 DEF Fresh, ReaderInv, Dated, Unread
  <2> QED BY <2>2, <2>3, <2>4 DEF ListInv
<1>2. ListInv /\ [ListNext]_listVars => ListInv'
  BY ListStep
<1>3. ListInv => ListNotStale
  <2> SUFFICES ASSUME ListInv PROVE ListNotStale
    OBVIOUS
  <2>1. \A r \in Readers : Dated(reader[r])
    BY DEF ListInv, ReaderInv
  <2>2. /\ kept.versions \in VersionSets /\ kept.lists \in VersionSets /\ Dated(kept)
        /\ version \in [Providers -> Nat]
    BY ListAssumption DEF ListInv, ListTypeOK, Versions
  <2>3. \A r \in Readers : reader[r].versions \in VersionSets /\ reader[r].lists \in VersionSets
    BY Fields DEF ListInv, ListTypeOK
  <2> QED
    BY <2>1, <2>2, <2>3, ListAssumption DEF ListNotStale, Dated, VersionSets, Versions
<1> QED
  BY <1>1, <1>2, <1>3, PTL DEF ListSpec
=============================================================================
