------------------------------ MODULE SudokuMux ------------------------------
(***************************************************************************)
(* transport/sudoku/multiplex: logical streams over one ordered connection,*)
(* with half-close and a bound on what a slow reader may leave unread.     *)
(*                                                                         *)
(* Streams share nothing but the connection, so one stream is followed at  *)
(* both ends, from OpenStream at the client. Payloads are counted; the     *)
(* byte limit of the receive queue is a number of frames.                  *)
(***************************************************************************)
EXTENDS Naturals, Sequences

CONSTANTS
    ClientData, \* bound: data frames the client writes
    ServerData, \* bound: data frames the server writes
    MaxQueued   \* maxQueuedBytesPerStream, in frames

VARIABLES
    opener,     \* place of OpenStream at the client
    accepted,   \* AcceptStream has handed the stream out at the server
    sess,       \* per end: "open" | "swapped" (s.streams emptied) | "closed"
    listed,     \* per end: the stream is in s.streams
    flags,      \* per end: the four close flags of the stream
    queue,      \* per end: payloads in readBuf and queue
    sent,       \* per end: data frames written
    got,        \* per end: data frames read
    sawEof,     \* per end: Read has returned io.EOF
    toSend,     \* per end: what Close or CloseWrite, or the reset goroutine, still has to do
    wire        \* per end: frames on their way to it

muxVars == <<opener, accepted, sess, listed, flags, queue, sent, got, sawEof, toSend, wire>>

Sides == {"client", "server"}
Other(e) == IF e = "client" THEN "server" ELSE "client"
MaxData(e) == IF e = "client" THEN ClientData ELSE ServerData

Fresh == [closed |-> FALSE, localRead |-> FALSE, localWrite |-> FALSE, remoteWrite |-> FALSE]

\* close: the frame is still to be sent; remove: the stream is still to be
\* removed; reset: the goroutine of readLoop has not sent its two frames.
Nothing == [close |-> FALSE, remove |-> FALSE, reset |-> FALSE]

MuxTypeOK ==
    /\ opener \in {"check", "register", "send", "returned", "failed"}
    /\ accepted \in BOOLEAN
    /\ sess \in [Sides -> {"open", "swapped", "closed"}]
    /\ listed \in [Sides -> BOOLEAN]
    /\ flags \in [Sides -> [closed : BOOLEAN, localRead : BOOLEAN, localWrite : BOOLEAN, remoteWrite : BOOLEAN]]
    /\ \A e \in Sides : queue[e] \in 0..MaxQueued
    /\ \A e \in Sides : sent[e] \in 0..MaxData(e) /\ got[e] \in 0..sent[Other(e)]
    /\ sawEof \in [Sides -> BOOLEAN]
    /\ toSend \in [Sides -> [close : BOOLEAN, remove : BOOLEAN, reset : BOOLEAN]]
    /\ \A e \in Sides : wire[e] \in Seq({"open", "data", "close", "reset"})

MuxInit ==
    /\ opener = "check"
    /\ accepted = FALSE
    /\ sess = [e \in Sides |-> "open"]
    /\ listed = [e \in Sides |-> FALSE]
    /\ flags = [e \in Sides |-> Fresh]
    /\ queue = [e \in Sides |-> 0]
    /\ sent = [e \in Sides |-> 0]
    /\ got = [e \in Sides |-> 0]
    /\ sawEof = [e \in Sides |-> FALSE]
    /\ toSend = [e \in Sides |-> Nothing]
    /\ wire = [e \in Sides |-> <<>>]

\* The stream is in the hands of the user of end e.
InUse(e) == IF e = "client" THEN opener = "returned" ELSE accepted

\* sendFrame: nothing goes out once the session is closed.
Sends(e, frames) ==
    wire' = IF sess[e] = "closed" THEN wire ELSE [wire EXCEPT ![Other(e)] = @ \o frames]

Listed(e, b) == listed' = [listed EXCEPT ![e] = b]

\* closeNoSend.
CloseNoSend(e) == flags' = [flags EXCEPT ![e].closed = TRUE]

-----------------------------------------------------------------------------
(* Opening and accepting                                                   *)

\* OpenStream: the check, the registration, the frame.
OpenCheck ==
    /\ opener = "check"
    /\ opener' = IF sess["client"] = "closed" THEN "failed" ELSE "register"
    /\ UNCHANGED <<accepted, sess, listed, flags, queue, sent, got, sawEof, toSend, wire>>

OpenRegister ==
    /\ opener = "register"
    /\ opener' = "send"
    /\ Listed("client", TRUE)
    /\ UNCHANGED <<accepted, sess, flags, queue, sent, got, sawEof, toSend, wire>>

OpenSend ==
    /\ opener = "send"
    /\ IF sess["client"] = "closed"
       THEN opener' = "failed" /\ CloseNoSend("client") /\ Listed("client", FALSE)
       ELSE opener' = "returned" /\ UNCHANGED <<flags, listed>>
    /\ Sends("client", <<"open">>)
    /\ UNCHANGED <<accepted, sess, queue, sent, got, sawEof, toSend>>

\* The goroutine that offers the stream to AcceptStream, or gives it up.
Accept ==
    /\ listed["server"] \/ flags["server"].closed
    /\ ~accepted
    /\ \/ /\ accepted' = TRUE
          /\ UNCHANGED <<flags, listed>>
       \/ /\ sess["server"] = "closed"
          /\ ~flags["server"].closed
          /\ CloseNoSend("server")
          /\ Listed("server", FALSE)
          /\ UNCHANGED accepted
    /\ UNCHANGED <<opener, sess, queue, sent, got, sawEof, toSend, wire>>

-----------------------------------------------------------------------------
(* The users of the stream                                                 *)

\* stream.writeMu: Write, Close and CloseWrite of one stream do not overlap.
WriteLocked(e) == toSend[e].close \/ toSend[e].remove

\* Mutant: write goes on after CloseWrite.
MutantWrite(e) ==
    /\ InUse(e)
    /\ sent[e] < MaxData(e)
    /\ sess[e] # "closed"
    /\ ~flags[e].closed
    /\ sent' = [sent EXCEPT ![e] = @ + 1]
    /\ Sends(e, <<"data">>)
    /\ UNCHANGED <<opener, accepted, sess, listed, flags, queue, got, sawEof, toSend>>

Write(e) ==
    /\ InUse(e)
    /\ ~WriteLocked(e)
    /\ sent[e] < MaxData(e)
    /\ sess[e] # "closed"
    /\ ~flags[e].closed
    /\ ~flags[e].localWrite
    /\ sent' = [sent EXCEPT ![e] = @ + 1]
    /\ Sends(e, <<"data">>)
    /\ UNCHANGED <<opener, accepted, sess, listed, flags, queue, got, sawEof, toSend>>

\* Read returns the next payload, or why there is none.
Read(e) ==
    /\ InUse(e)
    /\ \/ /\ queue[e] > 0
          /\ queue' = [queue EXCEPT ![e] = @ - 1]
          /\ got' = [got EXCEPT ![e] = @ + 1]
          /\ UNCHANGED sawEof
       \/ /\ queue[e] = 0
          /\ ~flags[e].closed
          /\ ~flags[e].localRead
          /\ flags[e].remoteWrite
          /\ sawEof' = [sawEof EXCEPT ![e] = TRUE]
          /\ UNCHANGED <<queue, got>>
    /\ UNCHANGED <<opener, accepted, sess, listed, flags, sent, toSend, wire>>

\* Close and CloseWrite, up to the end of the section under stream.mu.
Close(e) ==
    /\ InUse(e)
    /\ ~WriteLocked(e)
    /\ ~flags[e].closed
    /\ toSend' = [toSend EXCEPT ![e].close = ~flags[e].localWrite, ![e].remove = TRUE]
    /\ flags' = [flags EXCEPT ![e].closed = TRUE, ![e].localRead = TRUE, ![e].localWrite = TRUE]
    /\ queue' = [queue EXCEPT ![e] = 0]
    /\ UNCHANGED <<opener, accepted, sess, listed, sent, got, sawEof, wire>>

\* Mutant: the remote side's close is not looked at.
MutantCloseWrite(e) ==
    /\ InUse(e)
    /\ ~WriteLocked(e)
    /\ ~flags[e].closed
    /\ ~flags[e].localWrite
    /\ toSend' = [toSend EXCEPT ![e].close = TRUE, ![e].remove = flags[e].localRead]
    /\ flags' = [flags EXCEPT ![e].localWrite = TRUE]
    /\ UNCHANGED <<opener, accepted, sess, listed, queue, sent, got, sawEof, wire>>

CloseWrite(e) ==
    /\ InUse(e)
    /\ ~WriteLocked(e)
    /\ ~flags[e].closed
    /\ ~flags[e].localWrite
    /\ toSend' = [toSend EXCEPT ![e].close = TRUE,
                                ![e].remove = flags[e].remoteWrite \/ flags[e].localRead]
    /\ flags' = [flags EXCEPT ![e].localWrite = TRUE]
    /\ UNCHANGED <<opener, accepted, sess, listed, queue, sent, got, sawEof, wire>>

\* ... and after it: the frame, then the removal.
FinishClose(e) ==
    /\ WriteLocked(e)
    /\ Sends(e, IF toSend[e].close THEN <<"close">> ELSE <<>>)
    /\ Listed(e, listed[e] /\ ~toSend[e].remove)
    /\ toSend' = [toSend EXCEPT ![e].close = FALSE, ![e].remove = FALSE]
    /\ UNCHANGED <<opener, accepted, sess, flags, queue, sent, got, sawEof>>

CloseRead(e) ==
    /\ InUse(e)
    /\ ~flags[e].closed
    /\ ~flags[e].localRead
    /\ flags' = [flags EXCEPT ![e].localRead = TRUE]
    /\ queue' = [queue EXCEPT ![e] = 0]
    /\ Listed(e, listed[e] /\ ~flags[e].localWrite)
    /\ UNCHANGED <<opener, accepted, sess, sent, got, sawEof, toSend, wire>>

-----------------------------------------------------------------------------
(* readLoop                                                                *)

\* A new stream at the server.
ReadOpen(e) ==
    /\ Listed(e, TRUE)
    /\ UNCHANGED <<flags, queue, toSend>>

\* enqueue: a stream that does not want data swallows it; a full one is reset.
ReadData(e) ==
    IF ~listed[e] \/ flags[e].closed \/ flags[e].localRead \/ flags[e].remoteWrite
    THEN UNCHANGED <<flags, listed, queue, toSend>>
    ELSE IF queue[e] = MaxQueued
    THEN /\ CloseNoSend(e)
         /\ Listed(e, FALSE)
         /\ toSend' = [toSend EXCEPT ![e].reset = TRUE]
         /\ UNCHANGED queue
    ELSE /\ queue' = [queue EXCEPT ![e] = @ + 1]
         /\ UNCHANGED <<flags, listed, toSend>>

\* closeRemoteWrite.
ReadClose(e) ==
    IF ~listed[e] \/ flags[e].closed
    THEN UNCHANGED <<flags, listed, queue, toSend>>
    ELSE /\ flags' = [flags EXCEPT ![e].remoteWrite = TRUE]
         /\ Listed(e, ~flags[e].localWrite)
         /\ UNCHANGED <<queue, toSend>>

ReadReset(e) ==
    IF ~listed[e]
    THEN UNCHANGED <<flags, listed, queue, toSend>>
    ELSE CloseNoSend(e) /\ Listed(e, FALSE) /\ UNCHANGED <<queue, toSend>>

Receive(e) ==
    /\ sess[e] # "closed"
    /\ wire[e] # <<>>
    /\ wire' = [wire EXCEPT ![e] = Tail(@)]
    /\ CASE Head(wire[e]) = "open"  -> ReadOpen(e)
         [] Head(wire[e]) = "data"  -> ReadData(e)
         [] Head(wire[e]) = "close" -> ReadClose(e)
         [] Head(wire[e]) = "reset" -> ReadReset(e)
    /\ UNCHANGED <<opener, accepted, sess, sent, got, sawEof>>

\* The goroutine of sendReset.
SendReset(e) ==
    /\ toSend[e].reset
    /\ Sends(e, <<"reset", "close">>)
    /\ toSend' = [toSend EXCEPT ![e].reset = FALSE]
    /\ UNCHANGED <<opener, accepted, sess, listed, flags, queue, sent, got, sawEof>>

-----------------------------------------------------------------------------
(* The session                                                             *)

\* Mutant: the streams are forgotten and not closed.
MutantCloseSession(e) ==
    /\ sess[e] = "open"
    /\ sess' = [sess EXCEPT ![e] = "swapped"]
    /\ Listed(e, FALSE)
    /\ UNCHANGED <<opener, accepted, flags, queue, sent, got, sawEof, toSend, wire>>

\* closeWithError: s.streams is emptied and its streams closed, then the
\* session is marked closed and the connection goes.
CloseSession(e) ==
    /\ sess[e] = "open"
    /\ sess' = [sess EXCEPT ![e] = "swapped"]
    /\ flags' = [flags EXCEPT ![e].closed = @ \/ listed[e]]
    /\ Listed(e, FALSE)
    /\ UNCHANGED <<opener, accepted, queue, sent, got, sawEof, toSend, wire>>

MarkClosed(e) ==
    /\ sess[e] = "swapped"
    /\ sess' = [sess EXCEPT ![e] = "closed"]
    /\ UNCHANGED <<opener, accepted, listed, flags, queue, sent, got, sawEof, toSend, wire>>

Open == OpenCheck \/ OpenRegister \/ OpenSend \/ Accept

Works(e) == FinishClose(e) \/ Receive(e) \/ SendReset(e) \/ MarkClosed(e)

MuxNext ==
    \/ Open
    \/ \E e \in Sides :
        Write(e) \/ Read(e) \/ Close(e) \/ CloseWrite(e) \/ CloseRead(e) \/ Works(e) \/ CloseSession(e)

-----------------------------------------------------------------------------
(* Properties                                                              *)

\* Half-close keeps the data: a reader sees io.EOF only after every frame the
\* other end wrote.
EofAfterData == \A e \in Sides : sawEof[e] => got[e] = sent[Other(e)]

\* The sessions are up and stay up.
BothOpen == sess["client"] = "open" /\ sess["server"] = "open"

\* Both ends have finished writing: the stream leaves both maps.
Finished(e) == flags[e].closed \/ flags[e].localWrite

\* When its session is closed, a stream that was handed out is closed, so that no
\* Read waits for ever. The exception is a stream that OpenStream registered
\* after the session had emptied its map.
NoReaderLeft ==
    \A e \in Sides :
        (sess[e] = "closed" /\ InUse(e)) =>
            flags[e].closed \/ flags[e].localRead \/ flags[e].remoteWrite \/ listed[e]

=============================================================================
