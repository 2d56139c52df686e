---------------------------- MODULE DialAttempts ----------------------------
(***************************************************************************)
(* The connection attempts of one dial (component/dialer): a goroutine per *)
(* address that dials and then offers its result on an unbuffered channel, *)
(* or gives up, closing what it has, once the race's context is done.      *)
(***************************************************************************)
EXTENDS FiniteSets, Naturals

CONSTANTS
  Addrs,  \* candidate addresses, unmapped
  V6      \* those that are IPv6

VARIABLE conn  \* the attempt for each address
(* "idle"    not dialled                 "held"    connected, kept as fallback *)
(* "dialing" inside dialContext          "sending" on its way to the caller    *)
(* "ready"   connected, offering         "given"   owned by the caller         *)
(* "refused" failed, offering            "closed"  connected, closed           *)
(* "aborted" ended by the context,       "failed"  its failure is known        *)
(*           offering                    "dropped" its abortion is known       *)
(* "shut", "quit"  the attempt gave up unheard, after closing its connection   *)
(*           or without one                                                    *)

ASSUME AddrsAssumption == V6 \subseteq Addrs

States ==
  {"idle", "dialing", "ready", "refused", "aborted", "held", "sending", "given", "closed", "failed", "dropped", "shut", "quit"}

Offers == {"ready", "refused", "aborted"}

Family(a) == IF a \in V6 THEN 6 ELSE 4

In(states) == {a \in Addrs : conn[a] \in states}

\* Attempts the loop has started and not heard of
Unheard == Offers \cup {"dialing", "shut", "quit"}

InFlight == In(Unheard)

\* start: every address is dialled at most once
Started(S) == [a \in Addrs |-> IF a \in S /\ conn[a] = "idle" THEN "dialing" ELSE conn[a]]

\* What becomes of an offer that is not kept
Spent(state) == CASE state = "ready" -> "closed" [] state = "refused" -> "failed" [] state = "aborted" -> "dropped"

\* The same attempts with the held connection closed
Unheld(c) == [a \in Addrs |-> IF c[a] = "held" THEN "closed" ELSE c[a]]

\* dialContext returns; a context that is done may cut it short, or come too late
Dial(a, done) ==
  /\ conn[a] = "dialing"
  /\ \E outcome \in Offers : (outcome = "aborted" => done) /\ conn' = [conn EXCEPT ![a] = outcome]

\* case <-ctx.Done() of the attempt's select
Discard(a, done) ==
  /\ conn[a] \in Offers /\ done
  /\ conn' = [conn EXCEPT ![a] = IF @ = "ready" THEN "shut" ELSE "quit"]

\* The socket of an attempt as its owner would count it
Socket(state) ==
  CASE state \in {"ready", "held", "sending"} -> "open"
    [] state \in {"closed", "shut"} -> "closed"
    [] state = "given" -> "given"
    [] OTHER -> "none"
-----------------------------------------------------------------------------
\* An attempt's socket stays what it is, or is closed
Closes(before, after) ==
  Socket(after) = Socket(before) \/ (Socket(before) = "open" /\ Socket(after) = "closed")

\* What a race tells its caller, in the words of DialOutcome
Answer(told) == IF told \in {"none", "conn"} THEN told ELSE "error"

\* A step from the attempts c to d while the caller's answer goes from p to q: a dial opens
\* its socket, some are closed, or the caller is answered, with an error or with one of them
KeepsPromise(c, d, p, q) ==
  \/ /\ p = q
     /\ \E a \in Addrs : /\ Socket(c[a]) = "none" /\ Socket(d[a]) = "open"
                       /\ \A b \in Addrs : b # a => Socket(d[b]) = Socket(c[b])
  \/ (p = q \/ (p = "none" /\ q = "error")) /\ \A a \in Addrs : Closes(c[a], d[a])
  \/ /\ p = "none" /\ q = "conn"
     /\ \E a \in Addrs : /\ Socket(c[a]) = "open" /\ Socket(d[a]) = "given"
                       /\ \A b \in Addrs : b # a => Closes(c[b], d[b])
=============================================================================
