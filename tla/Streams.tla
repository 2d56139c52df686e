------------------------------ MODULE Streams ------------------------------
(***************************************************************************)
(* The transports that carry a stream of bytes themselves: mKCP, which     *)
(* makes one out of unreliable datagrams, and the multiplexer of Sudoku,   *)
(* which makes many out of one connection.  A behaviour follows one of     *)
(* them, and the other keeps its initial values.                           *)
(***************************************************************************)
EXTENDS Mkcp, Sequences

CONSTANTS
  ClientData, ServerData, MaxQueued   \* of SudokuMux

VARIABLES
  transport,                                          \* the one followed
  opener, accepted, sess, listed, flags, queue, sent, got, sawEof, toSend, wire   \* of SudokuMux

Mux == INSTANCE SudokuMux

muxVars == <<opener, accepted, sess, listed, flags, queue, sent, got, sawEof, toSend, wire>>

streamVars == <<transport, kcpVars, muxVars>>

StreamsInit == transport \in {"mkcp", "sudoku"} /\ KcpInit /\ Mux!MuxInit

KcpOnly(A) == transport = "mkcp" /\ A /\ UNCHANGED <<transport, muxVars>>
MuxOnly(A) == transport = "sudoku" /\ A /\ UNCHANGED <<transport, kcpVars>>

StreamsNext == KcpOnly(KcpNext) \/ MuxOnly(Mux!MuxNext)

\* The fairness of whichever transport is followed. One end that gets datagrams
\* through is enough for mKCP when only one end writes.
StreamsFairness ==
  /\ \A e \in Ends : WF_streamVars(KcpOnly(Expires(e)) \/ MuxOnly(Mux!Works(e)))
  /\ WF_streamVars(KcpOnly(\E e \in Ends : GetsThrough(e)))
  /\ SF_streamVars(KcpOnly(\E e \in Ends : Arrives(e)))
  /\ WF_streamVars(MuxOnly(Mux!Open))

StreamsSpec == StreamsInit /\ [][StreamsNext]_streamVars /\ StreamsFairness

-----------------------------------------------------------------------------
(***************************************************************************)
(* io.EOF comes after everything the other end wrote: over mKCP unless     *)
(* this end closed or the sending was cut short, over Sudoku also after a  *)
(* half-close.  And it comes: the end of a session leaves no reader of its *)
(* streams asleep.  (And the state is of its type: a stream queues no more *)
(* than its limit and reads no more than was written.)                     *)
(***************************************************************************)
EofComesLast ==
  /\ transport = "mkcp" => KcpTypeOK /\ EofMeansAll
  /\ transport = "sudoku" => Mux!MuxTypeOK /\ Mux!EofAfterData /\ Mux!NoReaderLeft

(***************************************************************************)
(* Nothing is under way for ever.  Over mKCP what was written arrives      *)
(* while neither end closes, and an end that has begun to close terminates *)
(* by its own timers.  A Sudoku stream that both ends have finished        *)
(* writing leaves both maps while the sessions are up.                     *)
(***************************************************************************)
UnderWay ==
  \/ (\A e \in Ends : state[e] = "Active") /\ \E e \in Ends : recvNext[Peer(e)] < sendNext[e]
  \/ \E e \in Ends : state[e] \in {"ReadyToClose", "Terminating", "PeerTerminating"}
  \/ Mux!BothOpen /\ (\A e \in Ends : Mux!Finished(e)) /\ \E e \in Ends : listed[e]

NothingHangs == []<>~UnderWay
=============================================================================
