-------------------------------- MODULE Mkcp --------------------------------
(***************************************************************************)
(* transport/mkcp: a reliable connection over datagrams that are lost,     *)
(* repeated and reordered.                                                 *)
(*                                                                         *)
(* Two ends run the same code. A segment is its number: a number is given  *)
(* to one payload and never changes. Clocks are left out: which timers     *)
(* have run out is an arbitrary choice of every flush. Window sizes and    *)
(* the congestion control decide how much of what is due goes out at once, *)
(* which that choice includes; the round-trip estimate sets timers only.   *)
(* Numbers stay below 2^32.                                                *)
(***************************************************************************)
EXTENDS Integers, FiniteSets

CONSTANTS
    ClientWrites,   \* bound: segments the client writes
    ServerWrites,   \* bound: segments the server writes
    SendBuffer,     \* sendingBufferSize
    ReceiveWindow,  \* receivingInFlightSize
    Capacity        \* bound: datagrams under way to one end

ASSUME WritesAssumption == ClientWrites \in Nat /\ ServerWrites \in Nat
ASSUME SendBufferAssumption == SendBuffer \in Nat
ASSUME ReceiveWindowAssumption == ReceiveWindow \in Nat \ {0}
ASSUME CapacityAssumption == Capacity \in Nat

VARIABLES
    state,          \* c.state
    sendNext,       \* c.sendNext
    sendWindow,     \* numbers in c.sendWindow
    firstUnacked,   \* c.firstUnacked
    recvNext,       \* c.recvNext; what is below it went to readBuf
    recvCache,      \* numbers in c.recvCache
    ackList,        \* numbers in c.ackList
    read,           \* segments the reader has taken from readBuf
    eof,            \* the ends where Read has returned io.EOF
    gaveUp,         \* the ends whose sending the close of the peer or a timer has ended
    left,           \* the ends that closed by themselves: Close, or 30 s of silence
    net             \* datagrams under way, per receiving end

kcpVars == <<state, sendNext, sendWindow, firstUnacked, recvNext, recvCache, ackList, read, eof, gaveUp, left, net>>

States == {"Active", "ReadyToClose", "PeerClosed", "Terminating", "PeerTerminating", "Terminated"}

Ends == {"client", "server"}
Peer(e) == IF e = "client" THEN "server" ELSE "client"
Writes(e) == IF e = "client" THEN ClientWrites ELSE ServerWrites

\* option: segmentOptionClose, or none.
Options == {"none", "close"}
Data == [type : {"data"}, number : Nat, sendingNext : Nat, option : Options]
Ack == [type : {"ack"}, receivingNext : Nat, numbers : SUBSET Nat, option : Options]
CmdOnly == [type : {"ping", "terminate"}, receivingNext : Nat, sendingNext : Nat, option : Options]
Segments == Data \cup Ack \cup CmdOnly

KcpTypeOK ==
    /\ state \in [Ends -> States]
    /\ sendNext \in [Ends -> Nat]
    /\ sendWindow \in [Ends -> SUBSET Nat]
    /\ firstUnacked \in [Ends -> Nat]
    /\ recvNext \in [Ends -> Nat]
    /\ recvCache \in [Ends -> SUBSET Nat]
    /\ ackList \in [Ends -> SUBSET Nat]
    /\ read \in [Ends -> Nat]
    /\ eof \subseteq Ends /\ gaveUp \subseteq Ends /\ left \subseteq Ends
    /\ \A e \in Ends : net[e] \subseteq Segments

KcpInit ==
    /\ state = [e \in Ends |-> "Active"]
    /\ sendNext = [e \in Ends |-> 0]
    /\ sendWindow = [e \in Ends |-> {}]
    /\ firstUnacked = [e \in Ends |-> 0]
    /\ recvNext = [e \in Ends |-> 0]
    /\ recvCache = [e \in Ends |-> {}]
    /\ ackList = [e \in Ends |-> {}]
    /\ read = [e \in Ends |-> 0]
    /\ eof = {} /\ gaveUp = {} /\ left = {}
    /\ net = [e \in Ends |-> {}]

\* setStateLocked: every state but ReadyToClose empties the send window.
WindowIn(s, w) == IF s \in {"Active", "ReadyToClose"} THEN w ELSE {}

Only(cond, e) == IF cond THEN {e} ELSE {}

\* setStateLocked(s) at end e; forced: the peer or a timer wants it.
Becomes(e, s, forced) ==
    /\ state' = [state EXCEPT ![e] = s]
    /\ sendWindow' = [sendWindow EXCEPT ![e] = WindowIn(s, @)]
    /\ gaveUp' = gaveUp \cup Only(forced, e)

-----------------------------------------------------------------------------
(* The users of the connection                                             *)

\* Mutant: the number is taken after the increment.
MutantWrite(e) ==
    /\ sendNext[e] < Writes(e)
    /\ state[e] = "Active"
    /\ Cardinality(sendWindow[e]) <= SendBuffer
    /\ sendWindow' = [sendWindow EXCEPT ![e] = @ \cup {sendNext[e] + 1}]
    /\ sendNext' = [sendNext EXCEPT ![e] = @ + 1]
    /\ UNCHANGED <<state, firstUnacked, recvNext, recvCache, ackList, read, eof, gaveUp, left, net>>

\* Write queues one segment while the connection is active.
Write(e) ==
    /\ sendNext[e] < Writes(e)
    /\ state[e] = "Active"
    /\ Cardinality(sendWindow[e]) <= SendBuffer
    /\ sendWindow' = [sendWindow EXCEPT ![e] = @ \cup {sendNext[e]}]
    /\ sendNext' = [sendNext EXCEPT ![e] = @ + 1]
    /\ UNCHANGED <<state, firstUnacked, recvNext, recvCache, ackList, read, eof, gaveUp, left, net>>

\* Mutant: the end of the stream is reported while readBuf still holds data.
MutantRead(e) ==
    /\ e \notin eof
    /\ \/ /\ read[e] < recvNext[e]
          /\ read' = [read EXCEPT ![e] = recvNext[e]]
          /\ UNCHANGED eof
       \/ /\ state[e] \in {"ReadyToClose", "Terminating", "Terminated"}
          /\ eof' = eof \cup {e}
          /\ UNCHANGED read
    /\ UNCHANGED <<state, sendNext, sendWindow, firstUnacked, recvNext, recvCache, ackList, gaveUp, left, net>>

\* Read takes what readBuf holds, in one call or several; io.EOF comes after it.
Read(e) ==
    /\ e \notin eof
    /\ \/ /\ read[e] < recvNext[e]
          /\ read' = [read EXCEPT ![e] = recvNext[e]]
          /\ UNCHANGED eof
       \/ /\ read[e] = recvNext[e]
          /\ state[e] \in {"ReadyToClose", "Terminating", "Terminated"}
          /\ eof' = eof \cup {e}
          /\ UNCHANGED read
    /\ UNCHANGED <<state, sendNext, sendWindow, firstUnacked, recvNext, recvCache, ackList, gaveUp, left, net>>

Close(e) ==
    /\ state[e] \in {"Active", "PeerClosed", "PeerTerminating"}
    /\ Becomes(e, CASE state[e] = "Active"     -> "ReadyToClose"
                    [] state[e] = "PeerClosed" -> "Terminating"
                    [] OTHER                   -> "Terminated", FALSE)
    /\ left' = left \cup {e}
    /\ UNCHANGED <<sendNext, firstUnacked, recvNext, recvCache, ackList, read, eof, net>>

-----------------------------------------------------------------------------
(* Input: one segment arrives                                              *)

\* handleOptionLocked.
AfterOption(s, option) ==
    CASE option = "close" /\ s = "ReadyToClose" -> "Terminating"
      [] option = "close" /\ s = "Active"       -> "PeerClosed"
      [] OTHER                                  -> s

\* The terminate command, after the option.
AfterTerminate(s) ==
    CASE s \in {"Active", "PeerClosed"} -> "PeerTerminating"
      [] s = "ReadyToClose"             -> "Terminating"
      [] s = "Terminating"              -> "Terminated"
      [] OTHER                          -> s

\* processSendingNextLocked: the peer knows of everything below next.
StillToAck(e, next) == {n \in ackList[e] : n >= next}

\* findFirstUnackedLocked.
FirstOf(e, w) == IF w = {} THEN sendNext[e] ELSE CHOOSE n \in w : \A k \in w : n <= k

\* deliverLocked: m is the first number missing from cache c, from r on.
FirstMissing(r, c, m) == m \notin c /\ r..(m - 1) \subseteq c

\* A datagram may arrive again, or not.
Taken(e, p) == \/ net' = [net EXCEPT ![e] = @ \ {p}]
               \/ UNCHANGED net

\* A data segment: kept and acknowledged when it fits the receive window.
InputData(e, p) ==
    LET fits == p.number >= recvNext[e] /\ p.number < recvNext[e] + ReceiveWindow
        new == IF fits THEN {p.number} ELSE {}
        c == recvCache[e] \cup new
    IN /\ Becomes(e, AfterOption(state[e], p.option), p.option = "close")
       /\ ackList' = [ackList EXCEPT ![e] = StillToAck(e, p.sendingNext) \cup new]
       /\ \E next \in recvNext[e]..(recvNext[e] + ReceiveWindow) :
            /\ FirstMissing(recvNext[e], c, next)
            /\ recvNext' = [recvNext EXCEPT ![e] = next]
            /\ recvCache' = [recvCache EXCEPT ![e] = {n \in c : n >= next}]
       /\ UNCHANGED <<sendNext, firstUnacked, read, eof, left>>

\* An acknowledgement: what it names leaves the send window.
InputAck(e, p) ==
    LET s == AfterOption(state[e], p.option)
        w == {n \in WindowIn(s, sendWindow[e]) : n >= p.receivingNext /\ n \notin p.numbers}
    IN /\ state' = [state EXCEPT ![e] = s]
       /\ sendWindow' = [sendWindow EXCEPT ![e] = w]
       /\ gaveUp' = gaveUp \cup Only(p.option = "close", e)
       /\ firstUnacked' = [firstUnacked EXCEPT ![e] = FirstOf(e, w)]
       /\ UNCHANGED <<sendNext, recvNext, recvCache, ackList, read, eof, left>>

\* A ping or a terminate.
InputCmd(e, p) ==
    LET o == AfterOption(state[e], p.option)
        s == IF p.type = "terminate" THEN AfterTerminate(o) ELSE o
        w == {n \in WindowIn(s, sendWindow[e]) : n >= p.receivingNext}
    IN /\ state' = [state EXCEPT ![e] = s]
       /\ sendWindow' = [sendWindow EXCEPT ![e] = w]
       /\ gaveUp' = gaveUp \cup Only(p.option = "close" \/ p.type = "terminate", e)
       /\ firstUnacked' = [firstUnacked EXCEPT ![e] = FirstOf(e, w)]
       /\ ackList' = [ackList EXCEPT ![e] = StillToAck(e, p.sendingNext)]
       /\ UNCHANGED <<sendNext, recvNext, recvCache, read, eof, left>>

\* A segment that reaches a terminated connection is ignored.
Input(e, p) ==
    /\ p \in net[e]
    /\ state[e] # "Terminated"
    /\ Taken(e, p)
    /\ \/ p.type = "data" /\ InputData(e, p)
       \/ p.type = "ack" /\ InputAck(e, p)
       \/ p.type \in {"ping", "terminate"} /\ InputCmd(e, p)

-----------------------------------------------------------------------------
(* flush                                                                   *)

Option(s) == IF s = "ReadyToClose" THEN "close" ELSE "none"

CmdSegment(e, cmd, s) ==
    [type |-> cmd, receivingNext |-> recvNext[e], sendingNext |-> firstUnacked[e], option |-> Option(s)]

\* Mutant: the receiver announces what it keeps out of order as if it were in order.
MutantAckSegment(e, s) ==
    [type |-> "ack", receivingNext |-> recvNext[e] + Cardinality(recvCache[e]),
     numbers |-> ackList[e], option |-> Option(s)]

AckSegment(e, s) ==
    [type |-> "ack", receivingNext |-> recvNext[e], numbers |-> ackList[e], option |-> Option(s)]

DataSegment(e, n, s) ==
    [type |-> "data", number |-> n, sendingNext |-> firstUnacked[e], option |-> Option(s)]

\* What is left of the datagrams under way to end o and of those flushed to it:
\* the timers that have not run out and the network hold back the others.
Sent(o, new) ==
    \E kept \in SUBSET (net[o] \cup new) :
        /\ Cardinality(kept) <= Capacity
        /\ net' = [net EXCEPT ![o] = kept]

\* Mutant: a close does not wait for the send window.
MutantBeforeFlush(e, quiet) ==
    LET s == IF state[e] = "Active" /\ quiet THEN "ReadyToClose" ELSE state[e]
    IN IF s = "ReadyToClose" THEN "Terminating" ELSE s

\* The first two state changes of flush: silence, and a drained close.
BeforeFlush(e, quiet) ==
    LET s == IF state[e] = "Active" /\ quiet THEN "ReadyToClose" ELSE state[e]
    IN IF s = "ReadyToClose" /\ sendWindow[e] = {} THEN "Terminating" ELSE s

\* A terminating connection repeats its command until 8 s have passed.
FlushTerminating(e, s, late) ==
    /\ s = "Terminating"
    /\ Becomes(e, IF late THEN "Terminated" ELSE s, FALSE)
    /\ Sent(Peer(e), {CmdSegment(e, "terminate", s)})

\* Otherwise the two remaining timers, then acknowledgements, segments, a ping.
FlushOpen(e, s, late) ==
    LET t == IF late /\ s \in {"PeerTerminating", "ReadyToClose"} THEN "Terminating" ELSE s
    IN /\ s # "Terminating"
       /\ Becomes(e, t, t # s)
       /\ Sent(Peer(e), (IF ackList[e] = {} THEN {} ELSE {AckSegment(e, t)})
                        \cup {DataSegment(e, n, t) : n \in WindowIn(t, sendWindow[e])}
                        \cup {CmdSegment(e, "ping", t)})

\* quiet: 30 s without a datagram. expired: the timer of the state has run out;
\* it starts again when the state changes.
Flush(e, quiet, expired) ==
    LET s == BeforeFlush(e, quiet)
        late == expired /\ s = state[e]
    IN /\ state[e] # "Terminated"
       /\ FlushTerminating(e, s, late) \/ FlushOpen(e, s, late)
       /\ left' = left \cup Only(state[e] = "Active" /\ quiet, e)
       /\ UNCHANGED <<sendNext, firstUnacked, recvNext, recvCache, ackList, read, eof>>

\* flushLoop runs every tti, and the timer of a closing state runs out in the end.
Expires(e) == state[e] \in {"ReadyToClose", "Terminating", "PeerTerminating"} /\ Flush(e, FALSE, TRUE)

FallsSilent(e) == state[e] = "Active" /\ Flush(e, TRUE, FALSE)

KcpNext ==
    \E e \in Ends :
        \/ Write(e)
        \/ Read(e)
        \/ Close(e)
        \/ \E p \in net[e] : Input(e, p)
        \/ Flush(e, FALSE, FALSE) \/ Expires(e) \/ FallsSilent(e)

\* A segment that is sent again and again gets through.
GetsThrough(e) ==
    /\ recvNext[Peer(e)] \in sendWindow[e]
    /\ Flush(e, FALSE, FALSE)
    /\ \E p \in net'[Peer(e)] : p.type = "data" /\ p.number = recvNext[Peer(e)]

Arrives(e) == \E p \in net[e] : p.type = "data" /\ p.number = recvNext[e] /\ Input(e, p)

KcpFairness ==
    \A e \in Ends :
        /\ WF_kcpVars(Expires(e))
        /\ WF_kcpVars(GetsThrough(e))
        /\ SF_kcpVars(Arrives(e))

KcpSpec == KcpInit /\ [][KcpNext]_kcpVars /\ KcpFairness

-----------------------------------------------------------------------------
(* Properties                                                              *)

\* What end e holds, in order or not.
Received(e) == 0..(recvNext[e] - 1) \cup recvCache[e]

\* No segment is lost on the way: one that was written is still in the send
\* window, or has reached the other end, whatever datagrams were lost, repeated
\* or overtaken, and whenever this end closes; unless the close of the peer or a
\* timer has ended the sending. And nothing is made up: what an end holds was
\* written by the other.
NoSegmentLost ==
    \A e \in Ends :
        /\ e \in gaveUp \/ 0..(sendNext[e] - 1) \subseteq sendWindow[e] \cup Received(Peer(e))
        /\ Received(Peer(e)) \subseteq 0..(sendNext[e] - 1)

\* An end that did not close by itself reads the end of the stream only after
\* everything the other wrote, unless the sending was cut short.
EofMeansAll ==
    \A e \in Ends :
        (e \in eof \ left /\ Peer(e) \notin gaveUp) => read[e] = sendNext[Peer(e)]
=============================================================================
