---------------------------- MODULE RetainedRace ----------------------------
(***************************************************************************)
(* tcpRetainedDialContext (component/dialer/tcp_retained_race.go): the     *)
(* cached winners that DNS still names get a head start of one budget,     *)
(* then every candidate joins, with a window for the preferred family.     *)
(* The loop's goroutine runs from one select to the next in one action;    *)
(* the top of the loop is an action of its own, so that the caller may     *)
(* cancel between the two.                                                 *)
(***************************************************************************)
EXTENDS DialAttempts

VARIABLES
  winners,    \* the retained winners passed in
  prefer,     \* opt.prefer: 0, 4 or 6
  cancelled,  \* the caller cancelled its context
  loop,       \* "top" or "select"
  fullRace,
  window,     \* the preference timer: "off", "running" or "over"
  result,     \* "none", "conn", "error" or "cancelled"
  blamed      \* addresses backed off in the winner cache by this race

race == <<winners, prefer>>
vars == <<conn, winners, prefer, cancelled, loop, fullRace, window, result, blamed>>

Done == cancelled \/ result # "none"

Preferred == {a \in Addrs : Family(a) = IF prefer = 6 THEN 6 ELSE 4}

Held == In({"held"})

Init ==
  /\ winners \in {W \in SUBSET Addrs : Cardinality(W) \in 1..2}
  /\ prefer \in {0, 4, 6}
  /\ conn = [a \in Addrs |-> IF a \in winners THEN "dialing" ELSE "idle"]
  /\ cancelled = FALSE /\ loop = "top" /\ fullRace = FALSE
  /\ window = "off" /\ result = "none" /\ blamed = {}

\* The deferred close of held, and the deferred cancel
Return(c, r) ==
  /\ conn' = Unheld(c)
  /\ result' = r
  /\ UNCHANGED <<race, cancelled, loop, fullRace, window, blamed>>

\* finish: the winner is recorded afresh, without a backoff
Finish(a) ==
  /\ conn' = Unheld([conn EXCEPT ![a] = "given"])
  /\ result' = "conn"
  /\ blamed' = blamed \ {a}
  /\ UNCHANGED <<race, cancelled, loop, fullRace, window>>

\* startRemaining
StartRemaining(blame) ==
  /\ fullRace' = TRUE
  /\ window' = IF prefer = 0 THEN "off" ELSE "running"
  /\ conn' = Started(Addrs)
  /\ blamed' = blamed \cup blame
  /\ loop' = "top"
  /\ UNCHANGED <<race, cancelled, result>>

\* The checks before the select
Top ==
  /\ loop = "top" /\ result = "none"
  /\ IF cancelled THEN Return(conn, "cancelled")
     ELSE \/ fullRace /\ InFlight \cap Preferred = {} /\ \E a \in Held : Finish(a)
          \/ InFlight = {} /\ ~fullRace /\ StartRemaining({})
          \/ InFlight = {} /\ fullRace /\ Held = {} /\ Return(conn, "error")
          \/ /\ InFlight # {} /\ ~(fullRace /\ Held # {} /\ InFlight \cap Preferred = {})
             /\ loop' = "select"
             /\ UNCHANGED <<conn, race, cancelled, fullRace, window, result, blamed>>

Selecting == loop = "select" /\ result = "none"

\* case <-ctx.Done()
CtxDone == Selecting /\ cancelled /\ Return(conn, "cancelled")

\* case <-budgetC: armed until the full race
BudgetExpires ==
  /\ Selecting /\ ~fullRace
  /\ IF cancelled THEN Return(conn, "cancelled") ELSE StartRemaining(winners \cap InFlight)

\* case <-preferenceC
PreferenceExpires ==
  /\ Selecting /\ window = "running"
  /\ IF cancelled THEN Return(conn, "cancelled")
     ELSE /\ window' = "over"
          /\ IF Held = {} THEN loop' = "top" /\ UNCHANGED <<conn, result, blamed>>
             ELSE \E a \in Held :
               /\ conn' = [conn EXCEPT ![a] = "given"] /\ result' = "conn"
               /\ blamed' = blamed \ {a} /\ UNCHANGED loop
          /\ UNCHANGED <<race, cancelled, fullRace>>

Keep(a, state) ==
  /\ conn' = [conn EXCEPT ![a] = state]
  /\ loop' = "top"
  /\ UNCHANGED <<race, cancelled, fullRace, window, result>>

\* The preference leaves no reason to wait for another address
Wanted(a) ==
  ~fullRace \/ prefer = 0 \/ window = "over" \/ a \in Preferred \/ (InFlight \ {a}) \cap Preferred = {}

\* Mutant: a failure is recorded before the context is looked at
MutantReceive(a) ==
  /\ Selecting /\ conn[a] \in Offers
  /\ IF conn[a] # "ready" THEN Keep(a, Spent(conn[a])) /\ blamed' = blamed \cup {a}
     ELSE IF cancelled THEN Return([conn EXCEPT ![a] = Spent(@)], "cancelled")
     ELSE IF Wanted(a) THEN Finish(a)
     ELSE Keep(a, IF Held = {} THEN "held" ELSE "closed") /\ UNCHANGED blamed

\* case result := <-results
Receive(a) ==
  /\ Selecting /\ conn[a] \in Offers
  /\ IF cancelled THEN Return([conn EXCEPT ![a] = Spent(@)], "cancelled")
     ELSE IF conn[a] # "ready" THEN Keep(a, Spent(conn[a])) /\ blamed' = blamed \cup {a}
     ELSE IF Wanted(a) THEN Finish(a)
     ELSE Keep(a, IF Held = {} THEN "held" ELSE "closed") /\ UNCHANGED blamed

\* The caller gives up
Cancel ==
  /\ ~cancelled /\ result = "none" /\ cancelled' = TRUE
  /\ UNCHANGED <<conn, race, loop, fullRace, window, result, blamed>>

Attempt(a) ==
  /\ Dial(a, Done) \/ Discard(a, Done)
  /\ UNCHANGED <<race, cancelled, loop, fullRace, window, result, blamed>>

Loop == Top \/ CtxDone \/ BudgetExpires \/ PreferenceExpires \/ \E a \in Addrs : Receive(a)

Terminated == result # "none" /\ UNCHANGED vars

Next == Loop \/ Cancel \/ Terminated \/ \E a \in Addrs : Attempt(a)

(***************************************************************************)
(* The race only reports failure when every current candidate was dialled  *)
(* and refused: neither the cached winners' failures nor their budget ever *)
(* leave an address untried.                                               *)
(***************************************************************************)
FailureMeansAllTried == result = "error" => \A a \in Addrs : conn[a] = "failed"

(***************************************************************************)
(* In the full race a connection of the other family is only returned      *)
(* after the preference window, or when every preferred candidate failed.  *)
(***************************************************************************)
PreferenceHonoured ==
  result = "conn" /\ prefer # 0 /\ fullRace /\ window = "running" =>
    \A a \in Addrs \ Preferred : conn[a] = "given" => \A b \in Preferred : conn[b] = "failed"
=============================================================================
