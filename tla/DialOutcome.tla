---------------------------- MODULE DialOutcome ----------------------------
(***************************************************************************)
(* What a dial over several addresses promises about sockets: the caller   *)
(* is answered once, with at most one connection, and every other          *)
(* connection that was opened on its behalf is closed, never the one the   *)
(* caller owns.                                                            *)
(***************************************************************************)
CONSTANT Addrs

VARIABLES
  socket,   \* per address: "none", "open", "given" to the caller, "closed"
  outcome   \* the caller's answer: "none" yet, "conn" or "error"

outcomeVars == <<socket, outcome>>

OutcomeInit == socket = [a \in Addrs |-> "none"] /\ outcome = "none"

OpenSockets == {a \in Addrs : socket[a] = "open"}

Opened(a) ==
  /\ socket[a] = "none"
  /\ socket' = [socket EXCEPT ![a] = "open"]
  /\ UNCHANGED outcome

\* Close some sockets, give one away or none
Settled(C, G) ==
  /\ C \cap G = {}
  /\ socket' = [a \in Addrs |-> IF a \in C THEN "closed" ELSE IF a \in G THEN "given" ELSE socket[a]]

Settle ==
  \E C \in SUBSET OpenSockets :
    \/ Settled(C, {}) /\ UNCHANGED outcome
    \/ outcome = "none" /\ Settled(C, {}) /\ outcome' = "error"
    \/ \E a \in OpenSockets : outcome = "none" /\ Settled(C, {a}) /\ outcome' = "conn"

OutcomeNext == Settle \/ \E a \in Addrs : Opened(a)

OutcomeSpec == OutcomeInit /\ [][OutcomeNext]_outcomeVars
=============================================================================
