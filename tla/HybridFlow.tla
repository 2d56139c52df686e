----------------------------- MODULE HybridFlow -----------------------------
(***************************************************************************)
(* One client flow of component/hybrid: packets travel on a reliable       *)
(* stream, or as raw UDP while a lease, granted and renewed over the       *)
(* stream, is in force.  write, watch and acceptLease run under writeMu;   *)
(* readRaw takes no lock and works on the atomic fields alone, so its      *)
(* check and its effect are two actions, and so are the two places where   *)
(* write looks at active.  The terminal is external: it is modelled from   *)
(* what the client expects of it.  A frame of data on the stream changes   *)
(* no state but the time of the last activity.                             *)
(***************************************************************************)
EXTENDS Naturals, Sequences

CONSTANTS
  Lease,         \* leaseDuration
  RenewEvery,    \* ten seconds
  ProbeTimeout, RawSilence, RetryBase, RetryMax, RetryLimit,
  MaxTime, MaxSeq, MaxQueue   \* bounds: clock, lease requests, records in transit each way

VARIABLES
  now,
  c,         \* the fields of clientFlow; time 0 stands for the zero time
  writer,    \* write between its two looks at active, holding writeMu
  reader,    \* readRaw: waiting for a packet, holding one it has checked, or returned
  up, down,  \* the stream's records in each direction
  net,       \* seq of the newest probe in the network: may be lost, delayed or repeated
  terminal,  \* the lease the terminal holds
  strayRaw   \* history: a packet that is no probe was sent raw without a lease in force

vars == <<now, c, writer, reader, up, down, net, terminal, strayRaw>>

Msg(kind, seq) == [kind |-> kind, seq |-> seq]

Zero == Msg("zero", 0)

NoLease == [seq |-> 0, bound |-> FALSE, confirmed |-> FALSE, until |-> 0, dead |-> FALSE]

Init ==
  /\ now = 1
  /\ c = [disabled |-> FALSE, active |-> FALSE, until |-> 0, seq |-> 0, sent |-> 0, next |-> 0, probe |-> FALSE,
          lastRaw |-> 0, probeEnd |-> 0, retryAt |-> 0, retries |-> 0, activity |-> 0]
  /\ writer = FALSE /\ reader = "reading" /\ up = <<>> /\ down = <<>> /\ net = 0
  /\ terminal = NoLease /\ strayRaw = FALSE

\* disableLocked
Disable(f) == [f EXCEPT !.disabled = TRUE, !.active = FALSE, !.until = 0, !.probe = FALSE]

Smaller(m, n) == IF m < n THEN m ELSE n

\* fallbackLocked, which for a lease flow always writes a zero frame
Fallback(f, reason) ==
  LET g == [f EXCEPT !.active = FALSE, !.until = 0, !.probe = FALSE, !.seq = @ + 1, !.lastRaw = 0, !.probeEnd = 0]
  IN IF reason = "raw_silence" /\ f.activity # 0 /\ now - f.activity >= RawSilence THEN [g EXCEPT !.retryAt = 0]
     ELSE IF f.retries >= RetryLimit THEN [Disable(g) EXCEPT !.retries = @ + 1]
     ELSE [g EXCEPT !.retries = @ + 1, !.retryAt = now + Smaller(RetryBase * 2^f.retries, RetryMax)]

Room == c.seq < MaxSeq /\ Len(up) + 2 <= MaxQueue

Silent(f) == f.active /\ f.lastRaw # 0 /\ now - f.lastRaw >= RawSilence

\* write up to its first look at active: an expired lease ends raw
WriteBegins ==
  /\ ~writer /\ writer' = TRUE /\ Room
  /\ IF c.active /\ now >= c.until
     THEN c' = Fallback(c, "lease_expired") /\ up' = Append(up, Zero)
     ELSE UNCHANGED <<c, up>>
  /\ UNCHANGED <<now, reader, down, net, terminal, strayRaw>>

Touch(f) == [f EXCEPT !.activity = now]

\* A packet for the stream: a long header, raw disabled, backing off, or the next probe not due
WriteStream == c' = Touch(c) /\ UNCHANGED <<up, net, strayRaw>>

WriteFallsBack(reason) ==
  /\ c' = Touch(Fallback(c, reason)) /\ up' = Append(up, Zero)
  /\ UNCHANGED <<net, strayRaw>>

\* The raw socket takes the packet, or fails and is given up
WriteRaw ==
  \/ c' = Touch(c) /\ strayRaw' = (strayRaw \/ now >= c.until) /\ UNCHANGED <<up, net>>
  \/ c' = Touch(Disable(c)) /\ up' = Append(up, Zero) /\ UNCHANGED <<net, strayRaw>>

\* requestLeaseLocked, unless a request is outstanding, and then its packet
WriteProbe(f) ==
  LET g   == IF f.probe THEN f ELSE [f EXCEPT !.seq = @ + 1, !.sent = now, !.probe = TRUE]
      req == IF f.probe THEN up ELSE Append(up, Msg("bind", g.seq))
  IN /\ \/ c' = Touch(g) /\ up' = req /\ net' = g.seq
        \/ c' = Touch(Disable(g)) /\ up' = Append(req, Zero) /\ UNCHANGED net
     /\ UNCHANGED strayRaw

MayProbe == ~c.active /\ ~c.disabled /\ now >= c.retryAt /\ c.until = 0

\* The rest of write, for a packet that is short or not when the next probe is due or not
WriteEnds ==
  /\ writer /\ writer' = FALSE /\ Room
  /\ \E short, due \in BOOLEAN :
       LET f == [c EXCEPT !.probeEnd = IF @ = 0 THEN now + ProbeTimeout ELSE @]
           toRaw == short /\ ~c.disabled /\ c.active
           toProbe == short /\ MayProbe
       IN \/ ~toRaw /\ ~toProbe /\ WriteStream
          \/ toRaw /\ Silent(c) /\ WriteFallsBack("raw_silence")
          \/ toRaw /\ ~Silent(c) /\ WriteRaw
          \/ toProbe /\ now >= f.probeEnd /\ WriteFallsBack("probe_timeout")
          \/ toProbe /\ now < f.probeEnd /\ (due \/ c.probeEnd = 0) /\ WriteProbe(f)
          \/ toProbe /\ now < f.probeEnd /\ ~due /\ c.probeEnd # 0 /\ WriteStream
  /\ UNCHANGED <<now, reader, down, terminal>>

Took(q) == q' = Tail(q)

\* Mutant: the lease runs from the arrival of its acknowledgement
MutantAcceptLease(m) ==
  IF c.disabled \/ m.seq # c.seq THEN UNCHANGED c
  ELSE c' = [c EXCEPT !.until = now + Lease, !.next = c.sent + RenewEvery,
                      !.probeEnd = IF m.kind = "confirmed" THEN 0 ELSE @,
                      !.lastRaw = IF m.kind = "confirmed" THEN now ELSE @,
                      !.active = @ \/ m.kind = "confirmed"]

\* acceptLease
AcceptLease(m) ==
  IF c.disabled \/ m.seq # c.seq \/ now >= c.sent + Lease THEN UNCHANGED c
  ELSE c' = [c EXCEPT !.until = c.sent + Lease, !.next = c.sent + RenewEvery,
                      !.probeEnd = IF m.kind = "confirmed" THEN 0 ELSE @,
                      !.lastRaw = IF m.kind = "confirmed" THEN now ELSE @,
                      !.active = @ \/ m.kind = "confirmed"]

\* readStream: a lease record, or the terminal's zero frame
ReadStream ==
  /\ ~writer /\ down # <<>> /\ Took(down)
  /\ IF Head(down).kind = "zero" THEN c' = Disable(c) ELSE AcceptLease(Head(down))
  /\ UNCHANGED <<now, writer, reader, up, net, terminal, strayRaw>>

\* Data on the stream
ReadFrame == c' = Touch(c) /\ UNCHANGED <<now, writer, reader, up, down, net, terminal, strayRaw>>

\* Mutant: the client lets its lease end without a word
MutantRenewal(f, q) == IF f.until # 0 /\ now >= f.until THEN <<Fallback(f, "lease_expired"), q>> ELSE <<f, q>>

\* watch, first part: an expired lease ends raw, an active one is renewed in time
Renewal(f, q) ==
  IF f.until # 0 /\ now >= f.until THEN <<Fallback(f, "lease_expired"), Append(q, Zero)>>
  ELSE IF f.until # 0 /\ f.active /\ now >= f.next
       THEN <<[f EXCEPT !.seq = @ + 1, !.sent = now, !.next = now + RenewEvery], Append(q, Msg("renew", f.seq + 1))>>
  ELSE <<f, q>>

\* watch, second part: a silent raw path and an unanswered probe end raw
Supervision(f, q) ==
  IF ~f.disabled /\ Silent(f) THEN <<Fallback(f, "raw_silence"), Append(q, Zero)>>
  ELSE IF ~f.disabled /\ ~f.active /\ f.probeEnd # 0 /\ now >= f.probeEnd
       THEN <<Fallback(f, "probe_timeout"), Append(q, Zero)>>
  ELSE <<f, q>>

\* One tick of watch
Watch ==
  /\ ~writer /\ Room /\ ~c.disabled
  /\ LET r == Renewal(c, up)
         w == Supervision(r[1], r[2])
     IN c' = w[1] /\ up' = w[2]
  /\ UNCHANGED <<now, writer, reader, down, net, terminal, strayRaw>>

\* readRaw receives a short packet from the relay: it confirms the path, or goes on to record it
ReadRaw ==
  /\ reader = "reading" /\ ~c.disabled /\ now < c.until
  /\ \/ c.active /\ reader' = "checked" /\ UNCHANGED up
     \/ /\ ~c.active /\ ~writer /\ Len(up) < MaxQueue                      \* confirmLeasePacket
        /\ up' = Append(up, Msg("activate", c.seq)) /\ UNCHANGED reader
  /\ UNCHANGED <<now, c, writer, down, net, terminal, strayRaw>>

\* readRaw records the packet and activates raw, without writeMu
RecordRaw ==
  /\ reader = "checked" /\ reader' = "reading"
  /\ c' = Touch([c EXCEPT !.active = TRUE, !.lastRaw = now])
  /\ UNCHANGED <<now, writer, up, down, net, terminal, strayRaw>>

\* The raw socket's reader fails for good and returns
ReadRawFails ==
  /\ reader = "reading" /\ reader' = "gone" /\ ~writer /\ Len(up) < MaxQueue
  /\ c' = Disable(c) /\ up' = Append(up, Zero)
  /\ UNCHANGED <<now, writer, down, net, terminal, strayRaw>>

Answers(kind, seq) == down' = Append(down, Msg(kind, seq))

Granted == terminal.bound /\ now < terminal.until /\ ~terminal.dead

\* The terminal reads a record
TerminalReads ==
  /\ up # <<>> /\ Took(up) /\ Len(down) < MaxQueue
  /\ LET m == Head(up) IN
     \/ m.kind = "bind" /\ UNCHANGED down
          /\ terminal' = [terminal EXCEPT !.seq = m.seq, !.bound = FALSE, !.confirmed = FALSE, !.until = now + Lease]
     \/ m.kind = "activate" /\ (IF Granted /\ terminal.seq = m.seq
          THEN Answers("confirmed", m.seq) /\ terminal' = [terminal EXCEPT !.confirmed = TRUE]
          ELSE UNCHANGED <<down, terminal>>)
     \/ m.kind = "renew" /\ (IF Granted /\ terminal.confirmed
          THEN Answers("renewed", m.seq) /\ terminal' = [terminal EXCEPT !.seq = m.seq, !.until = now + Lease]
          ELSE UNCHANGED <<down, terminal>>)
     \/ m.kind = "zero" /\ UNCHANGED down /\ terminal' = [NoLease EXCEPT !.dead = terminal.dead]
  /\ UNCHANGED <<now, c, writer, reader, net, strayRaw>>

\* The probe whose digest was announced arrives
TerminalBinds ==
  /\ net # 0 /\ terminal.seq = net /\ ~terminal.bound /\ now < terminal.until /\ ~terminal.dead /\ Len(down) < MaxQueue
  /\ terminal' = [terminal EXCEPT !.bound = TRUE] /\ Answers("bound", net)
  /\ UNCHANGED <<now, c, writer, reader, up, net, strayRaw>>

TerminalFails ==
  /\ ~terminal.dead /\ Len(down) < MaxQueue
  /\ terminal' = [terminal EXCEPT !.dead = TRUE] /\ down' = Append(down, Zero)
  /\ UNCHANGED <<now, c, writer, reader, up, net, strayRaw>>

Tick ==
  /\ now < MaxTime /\ ~writer /\ now' = now + 1
  /\ UNCHANGED <<c, writer, reader, up, down, net, terminal, strayRaw>>

Next ==
  \/ WriteBegins \/ WriteEnds \/ ReadStream \/ ReadFrame \/ Watch
  \/ ReadRaw \/ RecordRaw \/ ReadRawFails
  \/ TerminalReads \/ TerminalBinds \/ TerminalFails \/ Tick

Spec == Init /\ [][Next]_vars

(***************************************************************************)
(* The client's permission to use raw never outlasts the lease of a        *)
(* terminal that still works, whatever the delays on the stream: late,     *)
(* stale and repeated acknowledgements included.                           *)
(***************************************************************************)
PermissionWithinLease == now < c.until /\ ~terminal.dead => c.until <= terminal.until

(***************************************************************************)
(* A client that has given its lease up, for now or for good, never leaves *)
(* the terminal believing in it: the zero frame is on its way.             *)
(***************************************************************************)
PauseOnItsWay ==
  ~c.probe /\ c.until = 0 =>
    terminal.seq = 0 \/ terminal.dead \/ \E i \in DOMAIN up : up[i] = Zero

(***************************************************************************)
(* "Every reader tests disabled first, which is what keeps an activation   *)
(* racing a fallback from reviving raw" (component/hybrid/client.go:68):   *)
(* without a lease in force, no packet but a probe is sent raw.            *)
(***************************************************************************)
RawOnlyWithLease == ~strayRaw
=============================================================================
