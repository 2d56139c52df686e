----------------------------- MODULE FamilyRace -----------------------------
(***************************************************************************)
(* dualStackDialContext over parallelDialContext or serialDialContext      *)
(* (component/dialer/dialer.go), and either of these called directly: the  *)
(* addresses form one group, or one per family, and a racer dials each     *)
(* group.  None of the loops looks at the caller's context; they rely on   *)
(* the dials to end with it.                                               *)
(***************************************************************************)
EXTENDS DialAttempts

VARIABLES
  prefer,     \* opt.prefer: 0, 4 or 6
  mode,       \* dialFn: "serial" or "parallel"
  groups,     \* the address lists that are dialled side by side
  racer,      \* per group: its dialFn is "running", its result on "offer" or "done"
  cancelled,  \* the caller's context is done
  ticked,     \* history: fallbackTicker has fired
  result      \* "none", "conn" or "error"

race == <<prefer, mode, groups>>
vars == <<conn, race, racer, cancelled, ticked, result>>

Held == In({"held"})

Of(f) == {a \in Addrs : Family(a) = f}

Direct == \E g \in groups : groups = {g}

GroupOf(a) == CHOOSE g \in groups : a \in g

\* racer(ipv4s, prefer != 6) and racer(ipv6s, prefer != 4)
Primary(g) == prefer = 0 \/ \A a \in g : Family(a) = prefer

\* A single address is dialled without a race
Parallel(g) == mode = "parallel" /\ Cardinality(g) > 1

Init ==
  /\ prefer \in {0, 4, 6} /\ mode \in {"serial", "parallel"}
  /\ groups \in {{Addrs}, {Of(4), Of(6)} \ {{}}}
  /\ conn \in {c \in [Addrs -> {"idle", "dialing"}] :
                 \A g \in groups : LET begun == {a \in g : c[a] = "dialing"} IN
                   IF Parallel(g) THEN begun = g ELSE Cardinality(begun) = 1}
  /\ racer = [g \in groups |-> "running"]
  /\ cancelled = FALSE /\ ticked = FALSE /\ result = "none"

\* dialFn returns, with the attempts c: to DialContext, or to the racer
DialFnReturns(g, c) ==
  IF Direct
  THEN /\ conn' = [a \in Addrs |-> IF c[a] = "sending" THEN "given" ELSE c[a]]
       /\ racer' = [racer EXCEPT ![g] = "done"]
       /\ result' = IF \E a \in g : c[a] = "sending" THEN "conn" ELSE "error"
  ELSE conn' = c /\ racer' = [racer EXCEPT ![g] = "offer"] /\ UNCHANGED result

\* res := <-results of parallelDialContext, or the next round of serialDialContext
Receive(a) ==
  LET g == GroupOf(a)
      c == [conn EXCEPT ![a] = IF @ = "ready" THEN "sending" ELSE Spent(@)]
      rest == {b \in g : c[b] = "idle"}
  IN
  /\ racer[g] = "running" /\ conn[a] \in Offers
  /\ IF conn[a] = "ready" \/ \A b \in g : c[b] \notin Unheard \cup {"idle"} THEN DialFnReturns(g, c)
     ELSE /\ IF rest = {} THEN conn' = c ELSE \E b \in rest : conn' = [c EXCEPT ![b] = "dialing"]
          /\ UNCHANGED <<racer, result>>
  /\ UNCHANGED <<race, cancelled, ticked>>

Give(c, a) == conn' = Unheld([c EXCEPT ![a] = "given"]) /\ result' = "conn"

Sent(g) == {a \in g : conn[a] = "sending"}

\* Mutant: a connection of the other family is kept back and nobody remembers it
MutantReceiveResult(g) ==
  /\ racer[g] = "offer" /\ result = "none"
  /\ racer' = [racer EXCEPT ![g] = "done"]
  /\ IF Sent(g) # {} /\ Primary(g) THEN \E a \in Sent(g) : conn' = [conn EXCEPT ![a] = "given"] /\ result' = "conn"
     ELSE conn' = [a \in Addrs |-> IF a \in Sent(g) THEN "held" ELSE conn[a]] /\ UNCHANGED result
  /\ UNCHANGED <<race, cancelled, ticked>>

\* case res, ok := <-results
ReceiveResult(g) ==
  /\ racer[g] = "offer" /\ result = "none"
  /\ racer' = [racer EXCEPT ![g] = "done"]
  /\ IF Sent(g) # {} /\ Primary(g) THEN \E a \in Sent(g) : Give(conn, a)
     ELSE conn' = [a \in Addrs |-> IF a \in Sent(g) THEN "held" ELSE conn[a]] /\ UNCHANGED result
  /\ UNCHANGED <<race, cancelled, ticked>>

\* case <-returned of a racer whose dialFn was late
RacerLate(g) ==
  /\ racer[g] = "offer" /\ result # "none"
  /\ racer' = [racer EXCEPT ![g] = "done"]
  /\ conn' = [a \in Addrs |-> IF a \in Sent(g) THEN "closed" ELSE conn[a]]
  /\ UNCHANGED <<race, cancelled, ticked, result>>

\* case <-fallbackTicker.C
Ticks ==
  /\ ~Direct /\ result = "none" /\ ticked' = TRUE
  /\ IF Held = {} THEN UNCHANGED <<conn, result>> ELSE \E a \in Held : Give(conn, a)
  /\ UNCHANGED <<race, racer, cancelled>>

\* results is closed
ResultsClosed ==
  /\ ~Direct /\ result = "none" /\ \A g \in groups : racer[g] = "done"
  /\ IF Held = {} THEN result' = "error" /\ UNCHANGED conn ELSE \E a \in Held : Give(conn, a)
  /\ UNCHANGED <<race, racer, cancelled, ticked>>

Cancel ==
  /\ ~cancelled /\ result = "none" /\ cancelled' = TRUE
  /\ UNCHANGED <<conn, race, racer, ticked, result>>

\* opt.concurrentTCP cancels the losers of a direct parallel race
Attempt(a) ==
  /\ \/ Dial(a, cancelled \/ (Direct /\ mode = "parallel" /\ result # "none"))
     \/ Discard(a, Parallel(GroupOf(a)) /\ racer[GroupOf(a)] # "running")
  /\ UNCHANGED <<race, racer, cancelled, ticked, result>>

Loop ==
  \/ ResultsClosed
  \/ \E a \in Addrs : Receive(a)
  \/ \E g \in groups : ReceiveResult(g) \/ RacerLate(g)

Next ==
  \/ Loop \/ Ticks \/ Cancel
  \/ \E a \in Addrs : Attempt(a)
  \/ result # "none" /\ UNCHANGED vars

(***************************************************************************)
(* Without a cancellation, failure means that every address was dialled    *)
(* and refused.                                                            *)
(***************************************************************************)
FailureMeansAllTried == result = "error" /\ ~cancelled => \A a \in Addrs : conn[a] = "failed"

(***************************************************************************)
(* Before the first tick the other family is returned only when all of the *)
(* preferred family failed.                                                *)
(***************************************************************************)
PreferenceHonoured ==
  prefer # 0 /\ ~Direct /\ ~ticked /\ ~cancelled =>
    \A a \in In({"given"}) : Family(a) = prefer \/ \A b \in Of(prefer) : conn[b] = "failed"
=============================================================================
