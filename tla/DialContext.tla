---------------------------- MODULE DialContext ----------------------------
(***************************************************************************)
(* DialContext (component/dialer/dialer.go) and the races it chooses from. *)
(* The options, the network and the retained winners decide which race     *)
(* dials the addresses; the races share the attempts and what they promise *)
(* to the caller.  The variables of the races that were not chosen keep    *)
(* their initial values.  What the composition needs to know of            *)
(* RetainedRace and FamilyRace is proved first, as the other two races     *)
(* prove theirs themselves.                                                *)
(***************************************************************************)
EXTENDS DialAttempts, TLAPS

VARIABLES
  prefer, cancelled, window, result, blamed,  \* of several races
  winners, loop, fullRace,                    \* RetainedRace
  mode, groups, racer, ticked                 \* FamilyRace

Retained == INSTANCE RetainedRace
ByFamily == INSTANCE FamilyRace

-----------------------------------------------------------------------------
(* RetainedRace                                                            *)

\* The states of attempts nobody has cancelled
Live == {"idle", "dialing", "ready", "refused", "held", "closed", "failed"}

Racing == result = "none" /\ ~cancelled

Results == {"none", "conn", "error", "cancelled"}

\* dialContext returned, or the attempt gave up: the states a dial may go through
LEMMA AttemptMoves ==
  ASSUME NEW S, conn \in [S -> States], NEW a \in S, NEW done,
         \/ /\ conn[a] = "dialing"
            /\ \E outcome \in Offers : (outcome = "aborted" => done) /\ conn' = [conn EXCEPT ![a] = outcome]
         \/ /\ conn[a] \in Offers /\ done
            /\ conn' = [conn EXCEPT ![a] = IF conn[a] = "ready" THEN "shut" ELSE "quit"]
  PROVE  /\ conn' \in [S -> States]
         /\ \A b \in S : b # a => conn'[b] = conn[b]
         /\ conn[a] \in {"dialing", "ready", "refused", "aborted"}
         /\ conn'[a] \in {"ready", "refused"} \/ (done /\ conn'[a] \in {"aborted", "shut", "quit"})
         /\ conn'[a] = "ready" => conn[a] = "dialing"
         /\ conn'[a] = "shut" => conn[a] = "ready"
         /\ conn'[a] \in {"refused", "aborted", "quit"} => conn[a] # "ready"
BY DEF States, Live, Offers

\* While the race goes on: P is the preferred family
RetainedLive(c, full, P) ==
  /\ \A a \in Addrs : c[a] \in Live
  /\ \A a \in Addrs : c[a] = "closed" => \E b \in Addrs : c[b] = "held"
  /\ \A a \in P : c[a] \notin {"held", "closed"}
  /\ full => \A a \in Addrs : c[a] # "idle"

RetainedGood == Retained!FailureMeansAllTried /\ Retained!PreferenceHonoured

RetainedInv ==
  /\ conn \in [Addrs -> States] /\ result \in Results
  /\ Racing => RetainedLive(conn, fullRace, Retained!Preferred)
  /\ RetainedGood

\* Who was blamed for a cancelled attempt had been before
NoNewBlame == \A a \in DOMAIN conn : conn[a] = "aborted" => (a \in blamed' => a \in blamed)

\* The initial states.
LEMMA RetainedInit == Retained!Init => RetainedInv
<1>. SUFFICES ASSUME Retained!Init PROVE RetainedInv
  OBVIOUS
<1>1. /\ conn = [a \in Addrs |-> IF a \in winners THEN "dialing" ELSE "idle"]
      /\ result = "none" /\ fullRace = FALSE
  BY DEF Retained!Init
<1>2. conn \in [Addrs -> States] /\ result \in Results
  BY <1>1 DEF States, Live, Results
<1>3. RetainedLive(conn, fullRace, Retained!Preferred)
  BY <1>1 DEF RetainedLive, Live, Retained!Preferred
<1>4. RetainedGood
  BY <1>1 DEF RetainedGood, Retained!FailureMeansAllTried, Retained!PreferenceHonoured
<1>. QED BY <1>2, <1>3, <1>4 DEF RetainedInv

\* An attempt moves on its own.
LEMMA RetainedAttempt ==
  ASSUME RetainedInv, NEW a \in Addrs, Retained!Attempt(a)
  PROVE  RetainedInv' /\ NoNewBlame
<1>1. UNCHANGED <<winners, prefer, cancelled, loop, fullRace, window, result, blamed>>
  BY DEF Retained!Attempt, Retained!race
<1>2. conn \in [Addrs -> States]
  BY DEF RetainedInv
<1>3. /\ conn' \in [Addrs -> States]
      /\ \A b \in Addrs : b # a => conn'[b] = conn[b]
      /\ conn[a] \in {"dialing", "ready", "refused", "aborted"}
      /\ conn'[a] \in {"ready", "refused"} \/ (Retained!Done /\ conn'[a] \in {"aborted", "shut", "quit"})
  BY <1>2, AttemptMoves DEF Retained!Attempt, Retained!Dial, Retained!Discard, Retained!Offers, Offers
<1>4. Racing' => RetainedLive(conn, fullRace, Retained!Preferred)'
  BY <1>1, <1>3 DEF RetainedInv, RetainedLive, Racing, Retained!Done, Retained!Preferred, Retained!Family, Live
<1>5. RetainedGood'
  BY <1>1, <1>3 DEF RetainedInv, RetainedGood, Retained!FailureMeansAllTried, Retained!PreferenceHonoured, Retained!Preferred, Retained!Family
<1>. QED BY <1>1, <1>3, <1>4, <1>5 DEF RetainedInv, NoNewBlame, Results

\* The race returns without a connection: the caller has cancelled.
LEMMA RetainedReturns ==
  ASSUME RetainedInv, NEW c \in [Addrs -> States], Retained!Return(c, "cancelled")
  PROVE  RetainedInv' /\ NoNewBlame
<1>1. /\ conn' = [a \in Addrs |-> IF c[a] = "held" THEN "closed" ELSE c[a]]
      /\ result' = "cancelled" /\ blamed' = blamed
  BY DEF Retained!Return, Retained!Unheld
<1>2. conn' \in [Addrs -> States]
  BY <1>1 DEF States, Live
<1>. QED BY <1>1, <1>2 DEF RetainedInv, NoNewBlame, Racing, Results, RetainedGood,
           Retained!FailureMeansAllTried, Retained!PreferenceHonoured

\* The connection given away is of the preferred family, or that family failed,
\* or the window does not count.
LEMMA RetainedGives ==
  ASSUME RetainedInv, Racing, NEW a \in Addrs,
         conn' \in [Addrs -> States], result' = "conn", blamed' = blamed \ {a},
         UNCHANGED <<prefer, fullRace>>,
         \A b \in Addrs : b # a => conn'[b] \in {conn[b], "closed"} /\ (conn[b] = "failed" => conn'[b] = "failed"),
         \/ a \in Retained!Preferred
         \/ ~fullRace \/ prefer = 0 \/ window' = "over"
         \/ \A b \in Retained!Preferred : b # a /\ conn[b] = "failed"
  PROVE  RetainedInv' /\ NoNewBlame
<1>1. \A b \in Addrs : conn[b] \in Live
  BY DEF RetainedInv, RetainedLive
<1>2. Retained!Preferred' = Retained!Preferred /\ Retained!Preferred \subseteq Addrs
  BY DEF Retained!Preferred, Retained!Family
<1>3. \A b \in Addrs : conn'[b] = "given" => b = a
  BY <1>1 DEF Live
<1>4. Retained!PreferenceHonoured'
  BY <1>2, <1>3 DEF Retained!PreferenceHonoured
<1>5. Retained!FailureMeansAllTried'
  BY DEF Retained!FailureMeansAllTried
<1>6. NoNewBlame
  BY DEF NoNewBlame
<1>. QED BY <1>4, <1>5, <1>6 DEF RetainedInv, Racing, Results, RetainedGood

\* finish: a connection is returned.
LEMMA RetainedFinish ==
  ASSUME RetainedInv, Racing, NEW a \in Addrs, Retained!Finish(a),
         \/ a \in Retained!Preferred
         \/ ~fullRace \/ prefer = 0 \/ window = "over"
         \/ \A b \in Retained!Preferred : b # a /\ conn[b] = "failed"
  PROVE  RetainedInv' /\ NoNewBlame
<1>. DEFINE c == [conn EXCEPT ![a] = "given"]
<1>1. /\ conn' = [b \in Addrs |-> IF c[b] = "held" THEN "closed" ELSE c[b]]
      /\ result' = "conn" /\ blamed' = blamed \ {a} /\ UNCHANGED <<prefer, fullRace, window>>
  BY DEF Retained!Finish, Retained!Unheld, Retained!race
<1>2. conn \in [Addrs -> States]
  BY DEF RetainedInv
<1>3. /\ conn' \in [Addrs -> States]
      /\ \A b \in Addrs : b # a => conn'[b] \in {conn[b], "closed"} /\ (conn[b] = "failed" => conn'[b] = "failed")
  BY <1>1, <1>2 DEF States, Live
<1>. QED BY <1>1, <1>3, RetainedGives

\* When no preferred attempt but a is in flight, the others have failed.
LEMMA PreferredFailed ==
  ASSUME RetainedInv, Racing, fullRace, NEW a, (Retained!InFlight \ {a}) \cap Retained!Preferred = {},
         NEW b \in Retained!Preferred, b # a
  PROVE  conn[b] = "failed"
<1>1. b \in Addrs /\ conn[b] \in Live /\ conn[b] \notin {"held", "closed", "idle"}
  BY DEF RetainedInv, RetainedLive, Retained!Preferred
<1>2. conn[b] \notin {"ready", "refused", "dialing"}
  BY <1>1 DEF Retained!InFlight, Retained!In, Retained!Unheard, Retained!Offers
<1>. QED BY <1>1, <1>2 DEF Live

\* The winners failed or ran out of their budget: every address is dialled.
LEMMA RetainedStartRemaining ==
  ASSUME RetainedInv, Racing, NEW B, Retained!StartRemaining(B)
  PROVE  RetainedInv' /\ NoNewBlame
<1>1. /\ conn' = [a \in Addrs |-> IF a \in Addrs /\ conn[a] = "idle" THEN "dialing" ELSE conn[a]]
      /\ fullRace' = TRUE /\ UNCHANGED <<prefer, cancelled, result>>
  BY DEF Retained!StartRemaining, Retained!Started, Retained!race
<1>2. /\ \A a \in Addrs : conn[a] \in Live
      /\ \A a \in Addrs : conn[a] = "closed" => \E b \in Addrs : conn[b] = "held"
      /\ \A a \in Retained!Preferred : conn[a] \notin {"held", "closed"}
      /\ conn \in [Addrs -> States]
  BY DEF RetainedInv, RetainedLive
<1>3. conn' \in [Addrs -> States]
  BY <1>1, <1>2 DEF States, Live
<1>4. /\ \A a \in Addrs : conn'[a] = IF conn[a] = "idle" THEN "dialing" ELSE conn[a]
      /\ Retained!Preferred' = Retained!Preferred /\ Retained!Preferred \subseteq Addrs
  BY <1>1 DEF Retained!Preferred, Retained!Family
<1>5. RetainedLive(conn', TRUE, Retained!Preferred)
  BY <1>2, <1>4 DEF RetainedLive, Live
<1>6. RetainedGood'
  BY <1>1 DEF Racing, RetainedGood, Retained!FailureMeansAllTried, Retained!PreferenceHonoured
<1>7. NoNewBlame
  BY <1>2 DEF NoNewBlame, Live
<1>. QED BY <1>1, <1>3, <1>4, <1>5, <1>6, <1>7 DEF RetainedInv, Racing, Results, RetainedLive

\* The checks at the top of the loop.
LEMMA RetainedTop ==
  ASSUME RetainedInv, Retained!Top
  PROVE  RetainedInv' /\ NoNewBlame
<1>1. conn \in [Addrs -> States] /\ result = "none"
  BY DEF RetainedInv, Retained!Top
<1>2. CASE cancelled
  BY <1>1, <1>2, RetainedReturns DEF Retained!Top
<1>3. CASE ~cancelled
  <2>1. Racing /\ RetainedLive(conn, fullRace, Retained!Preferred)
    BY <1>1, <1>3 DEF Racing, RetainedInv
  <2>2. ASSUME fullRace, Retained!InFlight \cap Retained!Preferred = {}, NEW a \in Retained!Held, Retained!Finish(a)
        PROVE  RetainedInv' /\ NoNewBlame
    <3>1. a \in Addrs /\ a \notin Retained!Preferred
      BY <2>1, <2>2 DEF Retained!Held, Retained!In, RetainedLive
    <3>2. \A b \in Retained!Preferred : b # a /\ conn[b] = "failed"
      BY <2>1, <2>2, <3>1, PreferredFailed
    <3>. QED BY <2>1, <2>2, <3>1, <3>2, RetainedFinish
  <2>3. CASE Retained!StartRemaining({})
    BY <2>1, <2>3, RetainedStartRemaining
  <2>4. CASE Retained!InFlight = {} /\ fullRace /\ Retained!Held = {} /\ Retained!Return(conn, "error")
    <3>1. \A a \in Addrs : conn[a] \notin {"ready", "refused", "dialing", "held"}
      BY <2>4 DEF Retained!InFlight, Retained!Held, Retained!In, Retained!Unheard, Retained!Offers
    <3>2. \A a \in Addrs : conn[a] = "failed"
      BY <2>1, <2>4, <3>1 DEF RetainedLive, Live
    <3>3. /\ conn' = [a \in Addrs |-> IF conn[a] = "held" THEN "closed" ELSE conn[a]]
          /\ result' = "error" /\ blamed' = blamed
      BY <2>4 DEF Retained!Return, Retained!Unheld
    <3>4. conn' \in [Addrs -> States] /\ \A a \in Addrs : conn'[a] = "failed"
      BY <3>2, <3>3 DEF States, Live
    <3>. QED BY <3>3, <3>4 DEF RetainedInv, Racing, Results, NoNewBlame, RetainedGood,
               Retained!FailureMeansAllTried, Retained!PreferenceHonoured
  <2>5. CASE UNCHANGED <<conn, winners, prefer, cancelled, fullRace, window, result, blamed>>
    BY <2>5 DEF RetainedInv, Racing, Results, NoNewBlame, RetainedGood, RetainedLive,
        Retained!FailureMeansAllTried, Retained!PreferenceHonoured, Retained!Preferred, Retained!Family
  <2>. QED BY <1>3, <2>2, <2>3, <2>4, <2>5 DEF Retained!Top, Retained!race
<1>. QED BY <1>2, <1>3

\* case <-winnerTimer.C
LEMMA RetainedBudget ==
  ASSUME RetainedInv, Retained!BudgetExpires
  PROVE  RetainedInv' /\ NoNewBlame
<1>1. conn \in [Addrs -> States] /\ result = "none"
  BY DEF RetainedInv, Retained!BudgetExpires, Retained!Selecting
<1>2. CASE cancelled
  BY <1>1, <1>2, RetainedReturns DEF Retained!BudgetExpires
<1>3. CASE ~cancelled
  BY <1>1, <1>3, RetainedStartRemaining DEF Retained!BudgetExpires, Racing
<1>. QED BY <1>2, <1>3

\* case <-preferenceTimeout
LEMMA RetainedPreference ==
  ASSUME RetainedInv, Retained!PreferenceExpires
  PROVE  RetainedInv' /\ NoNewBlame
<1>1. conn \in [Addrs -> States] /\ result = "none"
  BY DEF RetainedInv, Retained!PreferenceExpires, Retained!Selecting
<1>2. CASE cancelled
  BY <1>1, <1>2, RetainedReturns DEF Retained!PreferenceExpires
<1>3. CASE ~cancelled /\ Retained!Held = {}
  <2>1. UNCHANGED <<conn, prefer, cancelled, fullRace, result, blamed>>
    BY <1>3 DEF Retained!PreferenceExpires, Retained!race
  <2>. QED BY <1>1, <1>3, <2>1 DEF RetainedInv, Racing, Results, NoNewBlame, RetainedGood, RetainedLive,
        Retained!FailureMeansAllTried, Retained!PreferenceHonoured, Retained!Preferred, Retained!Family
<1>4. CASE ~cancelled /\ Retained!Held # {}
  <2>1. PICK a \in Retained!Held : conn' = [conn EXCEPT ![a] = "given"] /\ blamed' = blamed \ {a}
    BY <1>4 DEF Retained!PreferenceExpires
  <2>2. /\ window' = "over" /\ result' = "conn" /\ UNCHANGED <<prefer, fullRace>>
    BY <1>4 DEF Retained!PreferenceExpires, Retained!race
  <2>3. a \in Addrs
    BY DEF Retained!Held, Retained!In
  <2>4. conn' \in [Addrs -> States] /\ \A b \in Addrs : b # a => conn'[b] = conn[b]
    BY <1>1, <2>1, <2>3 DEF States
  <2>. QED BY <1>1, <1>4, <2>1, <2>2, <2>3, <2>4, RetainedGives DEF Racing
<1>. QED BY <1>2, <1>3, <1>4

\* Keeping a result: failed, or held back because a preferred one may come
LEMMA RetainedKeep ==
  ASSUME RetainedInv, Racing, NEW a \in Addrs, NEW x \in {"failed", "held", "closed"}, Retained!Keep(a, x),
         conn[a] \in {"ready", "refused"},
         x # "failed" => a \notin Retained!Preferred,
         x = "closed" => Retained!Held # {},
         NoNewBlame
  PROVE  RetainedInv'
<1>1. conn' = [conn EXCEPT ![a] = x] /\ UNCHANGED <<prefer, cancelled, fullRace, window, result>>
  BY DEF Retained!Keep, Retained!race
<1>2. conn \in [Addrs -> States] /\ RetainedLive(conn, fullRace, Retained!Preferred)
  BY DEF RetainedInv
<1>3. /\ conn' \in [Addrs -> States] /\ conn'[a] = x
      /\ \A b \in Addrs : b # a => conn'[b] = conn[b]
  BY <1>1, <1>2 DEF States, Live
<1>4. x = "closed" => \E b \in Addrs : b # a /\ conn[b] = "held"
  BY DEF Retained!Held, Retained!In
<1>5. Retained!Preferred' = Retained!Preferred /\ Retained!Preferred \subseteq Addrs
  BY <1>1 DEF Retained!Preferred, Retained!Family
<1>6. RetainedLive(conn', fullRace, Retained!Preferred)
  <2>1. \A b \in Addrs : conn'[b] \in Live
    BY <1>2, <1>3 DEF RetainedLive, Live
  <2>2. ASSUME NEW b \in Addrs, conn'[b] = "closed" PROVE \E d \in Addrs : conn'[d] = "held"
    <3>1. \E d \in Addrs : d # a /\ conn[d] = "held"
      BY <1>2, <1>3, <1>4, <2>2 DEF RetainedLive
    <3>. QED BY <1>3, <3>1
  <2>3. \A b \in Retained!Preferred : conn'[b] \notin {"held", "closed"}
    BY <1>2, <1>3, <1>5 DEF RetainedLive
  <2>4. fullRace => \A b \in Addrs : conn'[b] # "idle"
    BY <1>2, <1>3 DEF RetainedLive
  <2>. QED BY <2>1, <2>2, <2>3, <2>4 DEF RetainedLive
<1>7. RetainedGood'
  BY <1>1 DEF Racing, RetainedGood, Retained!FailureMeansAllTried, Retained!PreferenceHonoured
<1>. QED BY <1>1, <1>3, <1>5, <1>6, <1>7 DEF RetainedInv, Racing, Results, RetainedLive

\* case result := <-results
LEMMA RetainedReceive ==
  ASSUME RetainedInv, NEW a \in Addrs, Retained!Receive(a)
  PROVE  RetainedInv' /\ NoNewBlame
<1>1. conn \in [Addrs -> States] /\ result = "none" /\ conn[a] \in {"ready", "refused", "aborted"}
  BY DEF RetainedInv, Retained!Receive, Retained!Selecting, Retained!Offers
<1>2. CASE cancelled
  <2>1. [conn EXCEPT ![a] = Retained!Spent(conn[a])] \in [Addrs -> States]
    BY <1>1 DEF Retained!Spent, States, Live
  <2>. QED BY <1>2, <2>1, RetainedReturns DEF Retained!Receive
<1>3. CASE ~cancelled
  <2>1. Racing /\ RetainedLive(conn, fullRace, Retained!Preferred)
    BY <1>1, <1>3 DEF Racing, RetainedInv
  <2>2. conn[a] \in {"ready", "refused"} /\ \A b \in Addrs : conn[b] # "aborted"
    BY <1>1, <2>1 DEF RetainedLive, Live
  <2>3. NoNewBlame
    BY <1>1, <2>2 DEF NoNewBlame
  <2>4. CASE conn[a] = "refused"
    <3>1. Retained!Keep(a, "failed")
      BY <1>3, <2>4 DEF Retained!Receive, Retained!Spent
    <3>. QED BY <2>1, <2>2, <2>3, <3>1, RetainedKeep
  <2>5. CASE conn[a] = "ready" /\ Retained!Wanted(a)
    <3>1. Retained!Finish(a)
      BY <1>3, <2>5 DEF Retained!Receive
    <3>2. \/ a \in Retained!Preferred
          \/ ~fullRace \/ prefer = 0 \/ window = "over"
          \/ fullRace /\ a \notin Retained!Preferred /\ (Retained!InFlight \ {a}) \cap Retained!Preferred = {}
      BY <2>5 DEF Retained!Wanted
    <3>3. CASE fullRace /\ a \notin Retained!Preferred /\ (Retained!InFlight \ {a}) \cap Retained!Preferred = {}
      <4>1. \A b \in Retained!Preferred : b # a /\ conn[b] = "failed"
        BY <2>1, <3>3, PreferredFailed
      <4>. QED BY <2>1, <3>1, <4>1, RetainedFinish
    <3>. QED BY <2>1, <3>1, <3>2, <3>3, RetainedFinish
  <2>6. CASE conn[a] = "ready" /\ ~Retained!Wanted(a)
    <3>1. Retained!Keep(a, IF Retained!Held = {} THEN "held" ELSE "closed")
      BY <1>3, <2>6 DEF Retained!Receive
    <3>2. a \notin Retained!Preferred
      BY <2>6 DEF Retained!Wanted
    <3>. QED BY <2>1, <2>2, <2>3, <3>1, <3>2, RetainedKeep
  <2>. QED BY <2>2, <2>4, <2>5, <2>6
<1>. QED BY <1>2, <1>3

\* Every step of a race for retained winners keeps its invariant, and blames nobody for a cancel.
LEMMA RetainedStep ==
  ASSUME RetainedInv, Retained!Next \/ UNCHANGED Retained!vars
  PROVE  RetainedInv' /\ NoNewBlame
<1>1. CASE Retained!CtxDone
  BY <1>1, RetainedReturns DEF Retained!CtxDone, RetainedInv
<1>2. CASE Retained!Cancel \/ Retained!Terminated \/ UNCHANGED Retained!vars
  <2>1. /\ UNCHANGED <<conn, prefer, fullRace, window, result, blamed>>
        /\ cancelled' = cancelled \/ cancelled' = TRUE
    BY <1>2 DEF Retained!Cancel, Retained!Terminated, Retained!vars, Retained!race
  <2>. QED BY <2>1 DEF RetainedInv, Racing, Results, NoNewBlame, RetainedGood, RetainedLive,
        Retained!FailureMeansAllTried, Retained!PreferenceHonoured, Retained!Preferred, Retained!Family
<1>. QED BY <1>1, <1>2, RetainedTop, RetainedBudget, RetainedPreference, RetainedReceive, RetainedAttempt
         DEF Retained!Next, Retained!Loop

\* What a step of RetainedRace or FamilyRace does to the sockets
RacePromise == KeepsPromise(conn, conn', Answer(result), Answer(result'))

\* The socket that goes with each state of an attempt.
LEMMA SocketStates ==
  /\ \A state \in {"ready", "held", "sending"} : Socket(state) = "open"
  /\ \A state \in {"closed", "shut"} : Socket(state) = "closed"
  /\ Socket("given") = "given"
  /\ \A state \in {"idle", "dialing", "refused", "aborted", "failed", "dropped", "quit"} : Socket(state) = "none"
BY DEF Socket

\* A step that answers nobody closes sockets at most.
LEMMA StaysPromised ==
  ASSUME result' = result, \A b \in Addrs : Closes(conn[b], conn'[b])
  PROVE  RacePromise
BY DEF RacePromise, KeepsPromise

\* So does one that answers with an error.
LEMMA ErrorPromised ==
  ASSUME result = "none", result' \in {"error", "cancelled"}, \A b \in Addrs : Closes(conn[b], conn'[b])
  PROVE  RacePromise
<1>1. Answer(result) = "none" /\ Answer(result') = "error"
  BY DEF Answer
<1>. QED BY <1>1 DEF RacePromise, KeepsPromise

\* One that answers with a connection gives an open one away.
LEMMA ConnPromised ==
  ASSUME result = "none", result' = "conn", NEW a \in Addrs, Socket(conn[a]) = "open", conn'[a] = "given",
         \A b \in Addrs : b # a => Closes(conn[b], conn'[b])
  PROVE  RacePromise
<1>1. Answer(result) = "none" /\ Answer(result') = "conn"
  BY DEF Answer
<1>2. Socket(conn'[a]) = "given"
  BY SocketStates
<1>. QED BY <1>1, <1>2 DEF RacePromise, KeepsPromise

\* An attempt opens its socket, closes it, or has none.
LEMMA AttemptPromised ==
  ASSUME conn \in [Addrs -> States], NEW a \in Addrs, NEW done, NEW gone, result' = result,
         \/ /\ conn[a] = "dialing"
            /\ \E outcome \in Offers : (outcome = "aborted" => done) /\ conn' = [conn EXCEPT ![a] = outcome]
         \/ /\ conn[a] \in Offers /\ gone
            /\ conn' = [conn EXCEPT ![a] = IF conn[a] = "ready" THEN "shut" ELSE "quit"]
  PROVE  RacePromise /\ \A b \in Addrs : conn'[b] = "sending" => conn[b] = "sending"
<1>1. /\ \A b \in Addrs : b # a => conn'[b] = conn[b]
      /\ \/ conn[a] = "dialing" /\ conn'[a] \in {"ready", "refused", "aborted"}
         \/ conn[a] = "ready" /\ conn'[a] = "shut"
         \/ conn[a] \in {"refused", "aborted"} /\ conn'[a] = "quit"
  BY DEF Offers
<1>2. \A b \in Addrs : conn'[b] = "sending" => conn[b] = "sending"
  BY <1>1
<1>3. CASE conn'[a] = "ready"
  <2>1. Socket(conn[a]) = "none" /\ Socket(conn'[a]) = "open"
    BY <1>1, <1>3, SocketStates
  <2>. QED BY <1>1, <1>2, <2>1 DEF RacePromise, KeepsPromise
<1>4. CASE conn'[a] # "ready"
  <2>1. Closes(conn[a], conn'[a])
    BY <1>1, <1>4, SocketStates DEF Closes
  <2>2. \A b \in Addrs : Closes(conn[b], conn'[b])
    BY <1>1, <2>1 DEF Closes
  <2>. QED BY <1>2, <2>2, StaysPromised
<1>. QED BY <1>3, <1>4

\* Every step of the race keeps the promise about sockets.
LEMMA RetainedKeeps ==
  ASSUME RetainedInv, Retained!Next \/ UNCHANGED Retained!vars
  PROVE  RacePromise
<1>0. conn \in [Addrs -> States] /\ \A b \in Addrs : Closes(conn[b], conn[b])
  BY DEF RetainedInv, Closes
<1>1. ASSUME NEW c, NEW r \in {"error", "cancelled"}, result = "none", Retained!Return(c, r),
             \A b \in Addrs : Closes(conn[b], c[b])
      PROVE  RacePromise
  <2>1. result' = r /\ \A b \in Addrs : conn'[b] = IF c[b] = "held" THEN "closed" ELSE c[b]
    BY <1>1 DEF Retained!Return, Retained!Unheld
  <2>2. \A b \in Addrs : Closes(c[b], conn'[b])
    BY <2>1, SocketStates DEF Closes
  <2>3. \A b \in Addrs : Closes(conn[b], conn'[b])
    BY <1>1, <2>2 DEF Closes
  <2>. QED BY <1>1, <2>1, <2>3, ErrorPromised
<1>2. ASSUME NEW a \in Addrs, result = "none", Retained!Finish(a), conn[a] \in {"ready", "held"} PROVE RacePromise
  <2>1. /\ result' = "conn" /\ conn'[a] = "given"
        /\ \A b \in Addrs : b # a => conn'[b] = IF conn[b] = "held" THEN "closed" ELSE conn[b]
    BY <1>0, <1>2 DEF Retained!Finish, Retained!Unheld
  <2>2. Socket(conn[a]) = "open" /\ \A b \in Addrs : b # a => Closes(conn[b], conn'[b])
    BY <1>2, <2>1, SocketStates DEF Closes
  <2>. QED BY <1>2, <2>1, <2>2, ConnPromised
<1>3. ASSUME result' = result, \E S : conn' = Retained!Started(S) PROVE RacePromise
  <2>1. \A b \in Addrs : conn'[b] = conn[b] \/ (conn[b] = "idle" /\ conn'[b] = "dialing")
    BY <1>3 DEF Retained!Started
  <2>2. \A b \in Addrs : Closes(conn[b], conn'[b])
    BY <2>1, SocketStates DEF Closes
  <2>. QED BY <1>3, <2>2, StaysPromised
<1>4. ASSUME UNCHANGED <<conn, result>> PROVE RacePromise
  BY <1>0, <1>4, StaysPromised
<1>5. \A a \in Retained!Held : a \in Addrs /\ conn[a] = "held"
  BY DEF Retained!Held, Retained!In
<1>6. CASE Retained!Top
  <2>1. result = "none"
    BY <1>6 DEF Retained!Top
  <2>2. \/ Retained!Return(conn, "cancelled") \/ Retained!Return(conn, "error")
        \/ (\E a \in Retained!Held : Retained!Finish(a))
        \/ Retained!StartRemaining({}) \/ UNCHANGED <<conn, result>>
    BY <1>6 DEF Retained!Top
  <2>3. CASE Retained!StartRemaining({})
    BY <1>3, <2>3 DEF Retained!StartRemaining
  <2>. QED BY <1>0, <1>1, <1>2, <1>4, <1>5, <2>1, <2>2, <2>3
<1>7. CASE Retained!CtxDone
  BY <1>0, <1>1, <1>7 DEF Retained!CtxDone, Retained!Selecting
<1>8. CASE Retained!BudgetExpires
  <2>1. result = "none" /\ (Retained!Return(conn, "cancelled") \/ Retained!StartRemaining(winners \cap Retained!InFlight))
    BY <1>8 DEF Retained!BudgetExpires, Retained!Selecting
  <2>2. CASE Retained!StartRemaining(winners \cap Retained!InFlight)
    BY <1>3, <2>2 DEF Retained!StartRemaining
  <2>. QED BY <1>0, <1>1, <2>1, <2>2
<1>9. CASE Retained!PreferenceExpires
  <2>1. /\ result = "none"
        /\ \/ Retained!Return(conn, "cancelled") \/ UNCHANGED <<conn, result>>
           \/ result' = "conn" /\ \E a \in Retained!Held : conn' = [conn EXCEPT ![a] = "given"]
    BY <1>9 DEF Retained!PreferenceExpires, Retained!Selecting
  <2>2. ASSUME NEW a \in Retained!Held, result' = "conn", conn' = [conn EXCEPT ![a] = "given"] PROVE RacePromise
    <3>1. a \in Addrs /\ Socket(conn[a]) = "open"
      BY <1>5, SocketStates
    <3>2. conn'[a] = "given" /\ \A b \in Addrs : b # a => Closes(conn[b], conn'[b])
      BY <1>0, <2>2, <3>1 DEF Closes
    <3>. QED BY <2>1, <2>2, <3>1, <3>2, ConnPromised
  <2>. QED BY <1>0, <1>1, <1>4, <2>1, <2>2
<1>10. ASSUME NEW a \in Addrs, Retained!Receive(a) PROVE RacePromise
  <2>1. result = "none" /\ conn[a] \in {"ready", "refused", "aborted"}
    BY <1>10 DEF Retained!Receive, Retained!Selecting, Retained!Offers
  <2>2. /\ Retained!Spent(conn[a]) \in {"closed", "failed", "dropped"}
        /\ Retained!Spent(conn[a]) = "closed" <=> conn[a] = "ready"
    BY <2>1 DEF Retained!Spent
  <2>3. Closes(conn[a], Retained!Spent(conn[a])) /\ (conn[a] = "ready" => Closes(conn[a], "held") /\ Closes(conn[a], "closed"))
    BY <2>1, <2>2, SocketStates DEF Closes
  <2>4. ASSUME NEW state, conn' = [conn EXCEPT ![a] = state], Closes(conn[a], state), result' = result PROVE RacePromise
    <3>1. \A b \in Addrs : Closes(conn[b], conn'[b])
      BY <1>0, <2>4
    <3>. QED BY <2>4, <3>1, StaysPromised
  <2> DEFINE c == [conn EXCEPT ![a] = Retained!Spent(conn[a])]
  <2>5. \A b \in Addrs : Closes(conn[b], c[b])
    BY <1>0, <2>3
  <2>6. \/ Retained!Return(c, "cancelled")
        \/ conn[a] # "ready" /\ Retained!Keep(a, Retained!Spent(conn[a]))
        \/ conn[a] = "ready" /\ Retained!Finish(a)
        \/ conn[a] = "ready" /\ (Retained!Keep(a, "held") \/ Retained!Keep(a, "closed"))
    BY <1>10 DEF Retained!Receive
  <2> HIDE DEF c
  <2>7. CASE Retained!Return(c, "cancelled")
    BY <1>1, <2>1, <2>5, <2>7
  <2>8. CASE conn[a] # "ready" /\ Retained!Keep(a, Retained!Spent(conn[a]))
    BY <2>3, <2>4, <2>8 DEF Retained!Keep
  <2>9. CASE conn[a] = "ready" /\ (Retained!Keep(a, "held") \/ Retained!Keep(a, "closed"))
    BY <2>3, <2>4, <2>9 DEF Retained!Keep
  <2>. QED BY <1>2, <2>1, <2>6, <2>7, <2>8, <2>9
<1>11. CASE Retained!Cancel \/ Retained!Terminated \/ UNCHANGED Retained!vars
  BY <1>4, <1>11 DEF Retained!Cancel, Retained!Terminated, Retained!vars
<1>12. ASSUME NEW a \in Addrs, Retained!Attempt(a) PROVE RacePromise
  <2>1. result' = result /\ (Retained!Dial(a, Retained!Done) \/ Retained!Discard(a, Retained!Done))
    BY <1>12 DEF Retained!Attempt
  <2>2. \/ /\ conn[a] = "dialing"
           /\ \E outcome \in Offers : (outcome = "aborted" => Retained!Done) /\ conn' = [conn EXCEPT ![a] = outcome]
        \/ /\ conn[a] \in Offers /\ Retained!Done
           /\ conn' = [conn EXCEPT ![a] = IF conn[a] = "ready" THEN "shut" ELSE "quit"]
    BY <2>1 DEF Retained!Dial, Retained!Discard, Offers, Retained!Offers
  <2>. QED BY <1>0, <2>1, <2>2, AttemptPromised
<1>. QED BY <1>6, <1>7, <1>8, <1>9, <1>10, <1>11, <1>12 DEF Retained!Next, Retained!Loop

-----------------------------------------------------------------------------
(* FamilyRace                                                              *)

\* What is known of a group g whose dialFn is in the given state, while the race goes on
GroupLive(c, state, g) ==
  /\ state = "running" => \A a \in g : c[a] \in {"idle", "dialing", "ready", "refused", "failed"}
  /\ state = "offer" => (\E a \in g : c[a] = "sending") \/ (\A a \in g : c[a] = "failed")
  /\ state = "done" => (\E a \in g : c[a] = "held") \/ (\A a \in g : c[a] = "failed")
  /\ \A a \in g : c[a] # "given" /\ (c[a] = "held" => ~ByFamily!Primary(g))

FamilyGood == ByFamily!FailureMeansAllTried /\ ByFamily!PreferenceHonoured

FamilyShape == groups \in {{Addrs}, {ByFamily!Of(4), ByFamily!Of(6)} \ {{}}} /\ prefer \in {0, 4, 6}

FamilyInv ==
  /\ FamilyShape
  /\ conn \in [Addrs -> States] /\ result \in {"none", "conn", "error"}
  /\ racer \in [groups -> {"running", "offer", "done"}]
  /\ ByFamily!Direct /\ result # "none" => \A g \in groups : racer[g] # "running"
  /\ Racing => \A g \in groups : GroupLive(conn, racer[g], g)
  /\ FamilyGood

\* The two ways to group the addresses.
LEMMA FamilyGroups ==
  ASSUME FamilyShape
  PROVE  /\ \A g \in groups : g \subseteq Addrs
         /\ \A g, h \in groups : g \cap h # {} => g = h
         /\ ByFamily!Direct => groups = {Addrs}
         /\ ~ByFamily!Direct /\ prefer # 0 => ByFamily!Of(prefer) = {} \/ ByFamily!Of(prefer) \in groups
         /\ \A a \in Addrs : \E g \in groups : a \in g
<1>0. /\ ByFamily!Of(4) = {a \in Addrs : a \notin V6} /\ ByFamily!Of(6) = {a \in Addrs : a \in V6}
  BY DEF ByFamily!Of, ByFamily!Family
<1>1. CASE groups = {Addrs}
  <2>1. ByFamily!Direct
    BY <1>1 DEF ByFamily!Direct
  <2>. QED BY <1>1, <2>1
<1>2. CASE groups = {ByFamily!Of(4), ByFamily!Of(6)} \ {{}}
  <2>2. ByFamily!Direct => groups = {Addrs}
    <3>. SUFFICES ASSUME ByFamily!Direct PROVE groups = {Addrs}
      OBVIOUS
    <3>1. PICK x : groups = {x}
      BY DEF ByFamily!Direct
    <3>2. x = ByFamily!Of(4) \/ x = ByFamily!Of(6)
      BY <1>2, <3>1
    <3>3. ByFamily!Of(4) \in {x, {}} /\ ByFamily!Of(6) \in {x, {}}
      BY <1>2, <3>1
    <3>4. x = Addrs
      BY <1>0, <3>2, <3>3
    <3>. QED BY <3>1, <3>4
  <2>3. prefer # 0 => ByFamily!Of(prefer) = {} \/ ByFamily!Of(prefer) \in groups
    BY <1>2 DEF FamilyShape
  <2>4. \A a \in Addrs : \E g \in groups : a \in g
    <3>. TAKE a \in Addrs
    <3>1. CASE a \in V6
      BY <1>0, <1>2, <3>1
    <3>2. CASE a \notin V6
      BY <1>0, <1>2, <3>2
    <3>. QED BY <3>1, <3>2
  <2>5. \A g, h \in groups : g \cap h # {} => g = h
    BY <1>0, <1>2
  <2>6. \A g \in groups : g \subseteq Addrs
    BY <1>0, <1>2
  <2>. QED BY <2>2, <2>3, <2>4, <2>5, <2>6
<1>. QED BY <1>1, <1>2 DEF FamilyShape

\* The group of an address.
LEMMA FamilyGroupOf ==
  ASSUME FamilyShape, NEW a \in Addrs
  PROVE  /\ ByFamily!GroupOf(a) \in groups /\ a \in ByFamily!GroupOf(a)
         /\ \A g \in groups : a \in g => g = ByFamily!GroupOf(a)
<1>1. \E g \in groups : a \in g
  BY FamilyGroups
<1>2. ByFamily!GroupOf(a) \in groups /\ a \in ByFamily!GroupOf(a)
  BY <1>1 DEF ByFamily!GroupOf
<1>3. \A g, h \in groups : g \cap h # {} => g = h
  BY FamilyGroups
<1>. QED BY <1>2, <1>3

\* The initial states.
LEMMA FamilyInit == ByFamily!Init => FamilyInv
<1>. SUFFICES ASSUME ByFamily!Init PROVE FamilyInv
  OBVIOUS
<1>1. /\ FamilyShape /\ conn \in [Addrs -> {"idle", "dialing"}] /\ racer = [g \in groups |-> "running"]
      /\ cancelled = FALSE /\ result = "none"
  BY DEF ByFamily!Init, FamilyShape
<1>2. conn \in [Addrs -> States] /\ result \in {"none", "conn", "error"} /\ racer \in [groups -> {"running", "offer", "done"}]
  BY <1>1 DEF States, Live
<1>3. ASSUME NEW g \in groups PROVE GroupLive(conn, racer[g], g)
  <2>1. g \subseteq Addrs /\ racer[g] = "running"
    BY <1>1, FamilyGroups
  <2>. QED BY <1>1, <2>1 DEF GroupLive
<1>4. FamilyGood
  BY <1>1 DEF FamilyGood, ByFamily!FailureMeansAllTried, ByFamily!PreferenceHonoured, ByFamily!In
<1>. QED BY <1>1, <1>2, <1>3, <1>4 DEF FamilyInv

\* A step after which nothing more is promised, or of which nothing is: the caller has
\* cancelled.
LEMMA FamilyTyped ==
  ASSUME FamilyInv, UNCHANGED <<prefer, groups>>, cancelled', conn' \in [Addrs -> States],
         result' \in {"none", "conn", "error"}, racer' \in [groups -> {"running", "offer", "done"}],
         ByFamily!Direct /\ result' # "none" => \A g \in groups : racer'[g] # "running"
  PROVE  FamilyInv'
<1>1. FamilyShape'
  BY DEF FamilyInv, FamilyShape, ByFamily!Of, ByFamily!Family
<1>. QED BY <1>1 DEF FamilyInv, FamilyGood, Racing, ByFamily!FailureMeansAllTried, ByFamily!PreferenceHonoured, ByFamily!Direct

\* A step after which the race goes on.
LEMMA FamilyGoesOn ==
  ASSUME FamilyInv, UNCHANGED <<prefer, groups>>, conn' \in [Addrs -> States],
         result' = "none", racer' \in [groups -> {"running", "offer", "done"}],
         \A g \in groups : GroupLive(conn', racer'[g], g)
  PROVE  FamilyInv'
<1>1. FamilyShape'
  BY DEF FamilyInv, FamilyShape, ByFamily!Of, ByFamily!Family
<1>2. \A a \in Addrs : conn'[a] # "given"
  <2>. TAKE a \in Addrs
  <2>1. PICK g \in groups : a \in g
    BY FamilyGroups DEF FamilyInv
  <2>. QED BY <2>1 DEF GroupLive
<1>3. \A g \in groups' : GroupLive(conn, racer[g], g)'
  BY DEF GroupLive, ByFamily!Primary, ByFamily!Family
<1>. QED BY <1>1, <1>2, <1>3 DEF FamilyInv, FamilyGood, Racing, ByFamily!FailureMeansAllTried, ByFamily!PreferenceHonoured,
         ByFamily!In

\* A step that ends the race, or comes after its end.
LEMMA FamilyEnds ==
  ASSUME FamilyInv, UNCHANGED <<prefer, groups>>, conn' \in [Addrs -> States],
         result' \in {"conn", "error"}, racer' \in [groups -> {"running", "offer", "done"}],
         ByFamily!Direct => \A g \in groups : racer'[g] # "running",
         FamilyGood'
  PROVE  FamilyInv'
<1>1. FamilyShape'
  BY DEF FamilyInv, FamilyShape, ByFamily!Of, ByFamily!Family
<1>. QED BY <1>1 DEF FamilyInv, Racing, ByFamily!Direct

\* dialContext returned or the attempt gave up.
LEMMA FamilyAttempt == ASSUME FamilyInv, NEW a \in Addrs, ByFamily!Attempt(a) PROVE FamilyInv'
<1> DEFINE g0 == ByFamily!GroupOf(a)
           done == cancelled \/ (ByFamily!Direct /\ mode = "parallel" /\ result # "none")
           gone == ByFamily!Parallel(g0) /\ racer[g0] # "running"
<1>1. UNCHANGED <<prefer, mode, groups, racer, cancelled, ticked, result>>
  BY DEF ByFamily!Attempt, ByFamily!race
<1>2. conn \in [Addrs -> States] /\ racer \in [groups -> {"running", "offer", "done"}] /\ FamilyShape
      /\ result \in {"none", "conn", "error"}
  BY DEF FamilyInv
<1>a. g0 \in groups /\ a \in g0 /\ (\A g \in groups : a \in g => g = g0) /\ \A g \in groups : g \subseteq Addrs
  BY <1>2, FamilyGroupOf, FamilyGroups
<1>b. ByFamily!Dial(a, done) \/ ByFamily!Discard(a, gone)
  BY DEF ByFamily!Attempt
<1> HIDE DEF g0, done, gone
<1>3. /\ conn' \in [Addrs -> States] /\ \A b \in Addrs : b # a => conn'[b] = conn[b]
      /\ conn[a] \in {"dialing", "ready", "refused", "aborted"}
      /\ conn'[a] \in {"ready", "refused", "aborted", "shut", "quit"}
      /\ conn'[a] \in {"shut", "quit"} => gone
      /\ conn'[a] = "aborted" => done
  <2>1. CASE ByFamily!Dial(a, done)
    BY <1>2, <2>1 DEF ByFamily!Dial, ByFamily!Offers, States, Live
  <2>2. CASE ByFamily!Discard(a, gone)
    BY <1>2, <2>2 DEF ByFamily!Discard, ByFamily!Offers, States, Live
  <2>. QED BY <1>b, <2>1, <2>2
<1>4. CASE cancelled
  BY <1>1, <1>2, <1>3, <1>4, FamilyTyped DEF FamilyInv
<1>5. CASE ~cancelled /\ result = "none"
  <2>1. ASSUME NEW g \in groups PROVE GroupLive(conn', racer'[g], g)
    <3>1. GroupLive(conn, racer[g], g)
      BY <1>5 DEF FamilyInv, Racing
    <3>2. CASE a \notin g
      <4>1. \A b \in g : conn'[b] = conn[b]
        BY <1>3, <1>a, <3>2
      <4>. QED BY <1>1, <3>1, <4>1 DEF GroupLive
    <3>3. CASE a \in g
      <4>1. g = g0
        BY <1>a, <3>3
      <4>2. ~done /\ (gone => racer[g] # "running")
        BY <1>5, <4>1 DEF done, gone
      <4>3. /\ conn'[a] \in {"ready", "refused", "shut", "quit"} /\ (racer[g] = "running" => conn'[a] \in {"ready", "refused"})
            /\ \A b \in g : b # a => conn'[b] = conn[b]
        BY <1>3, <1>a, <4>2
      <4>. QED BY <1>1, <1>3, <3>1, <3>3, <4>3 DEF GroupLive
    <3>. QED BY <3>2, <3>3
  <2>. QED BY <1>1, <1>2, <1>3, <1>5, <2>1, FamilyGoesOn
<1>6. CASE ~cancelled /\ result # "none"
  <2>1. \A b \in Addrs : /\ conn[b] = "failed" => conn'[b] = "failed"
                         /\ conn'[b] = "given" => conn[b] = "given"
    BY <1>3
  <2>2. ByFamily!FailureMeansAllTried /\ ByFamily!PreferenceHonoured
    BY DEF FamilyInv, FamilyGood
  <2>3. ByFamily!FailureMeansAllTried'
    BY <1>1, <2>1, <2>2 DEF ByFamily!FailureMeansAllTried
  <2>4. ByFamily!PreferenceHonoured'
    BY <1>1, <2>1, <2>2 DEF ByFamily!PreferenceHonoured, ByFamily!In, ByFamily!Of, ByFamily!Family, ByFamily!Direct
  <2>5. ByFamily!Direct => \A g \in groups : racer'[g] # "running"
    BY <1>1, <1>6 DEF FamilyInv
  <2>6. result' \in {"conn", "error"}
    BY <1>1, <1>2, <1>6
  <2>. QED BY <1>1, <1>2, <1>3, <2>3, <2>4, <2>5, <2>6, FamilyEnds DEF FamilyGood
<1>. QED BY <1>4, <1>5, <1>6

\* The caller cancels.
LEMMA FamilyCancel == ASSUME FamilyInv, ByFamily!Cancel PROVE FamilyInv'
<1>1. cancelled' = TRUE /\ UNCHANGED <<conn, prefer, groups, racer, result>>
  BY DEF ByFamily!Cancel, ByFamily!race
<1>. QED BY <1>1, FamilyTyped DEF FamilyInv

\* The connection given away is the only one, and no failure is undone.
LEMMA FamilyGive ==
  ASSUME conn \in [Addrs -> States], NEW a \in Addrs, ByFamily!Give(conn, a)
  PROVE  /\ conn' \in [Addrs -> States] /\ result' = "conn"
         /\ \A b \in Addrs : /\ conn'[b] = "given" => b = a \/ conn[b] = "given"
                             /\ b # a /\ conn[b] = "failed" => conn'[b] = "failed"
BY DEF ByFamily!Give, ByFamily!Unheld, States, Live

\* A result of dialFn is received.
LEMMA FamilyReceiveResult ==
  ASSUME FamilyInv, NEW g \in groups, ByFamily!ReceiveResult(g)
  PROVE  FamilyInv'
<1>1. /\ racer[g] = "offer" /\ result = "none" /\ racer' = [racer EXCEPT ![g] = "done"]
      /\ UNCHANGED <<prefer, mode, groups, cancelled, ticked>>
  BY DEF ByFamily!ReceiveResult, ByFamily!race
<1>2. conn \in [Addrs -> States] /\ racer \in [groups -> {"running", "offer", "done"}] /\ FamilyShape
  BY DEF FamilyInv
<1>3. /\ racer' \in [groups -> {"running", "offer", "done"}] /\ racer'[g] = "done"
      /\ \A h \in groups : h # g => racer'[h] = racer[h]
  BY <1>1, <1>2
<1>4. g \subseteq Addrs /\ (\A h \in groups : h # g => h \cap g = {}) /\ \A h \in groups : h \subseteq Addrs
  BY <1>2, FamilyGroups
<1>5. ByFamily!Direct => \A h \in groups : racer'[h] # "running"
  <2>1. ByFamily!Direct => groups = {Addrs}
    BY <1>2, FamilyGroups
  <2>. QED BY <1>3, <2>1
<1>6. CASE ByFamily!Sent(g) # {} /\ ByFamily!Primary(g)
  <2>1. PICK a \in ByFamily!Sent(g) : ByFamily!Give(conn, a)
    BY <1>6 DEF ByFamily!ReceiveResult
  <2>2. a \in g /\ a \in Addrs /\ conn[a] = "sending"
    BY <1>4 DEF ByFamily!Sent
  <2>3. /\ conn' \in [Addrs -> States] /\ result' = "conn"
        /\ \A b \in Addrs : conn'[b] = "given" => b = a \/ conn[b] = "given"
    BY <1>2, <2>1, <2>2, FamilyGive
  <2>4. CASE cancelled
    BY <1>1, <1>2, <1>3, <1>5, <2>3, <2>4, FamilyTyped
  <2>5. CASE ~cancelled
    <3>1. ASSUME NEW b \in Addrs PROVE conn[b] # "given"
      <4>1. PICK h \in groups : b \in h
        BY <1>2, FamilyGroups
      <4>2. GroupLive(conn, racer[h], h)
        BY <1>1, <2>5 DEF FamilyInv, Racing
      <4>. QED BY <4>1, <4>2 DEF GroupLive
    <3>2. prefer # 0 => ByFamily!Family(a) = prefer
      BY <1>6, <2>2 DEF ByFamily!Primary
    <3>3. ByFamily!PreferenceHonoured'
      BY <1>1, <2>3, <3>1, <3>2 DEF ByFamily!PreferenceHonoured, ByFamily!In, ByFamily!Family
    <3>4. ByFamily!FailureMeansAllTried'
      BY <2>3 DEF ByFamily!FailureMeansAllTried
    <3>. QED BY <1>1, <1>3, <1>5, <2>3, <3>3, <3>4, FamilyEnds DEF FamilyGood
  <2>. QED BY <2>4, <2>5
<1>7. CASE ~(ByFamily!Sent(g) # {} /\ ByFamily!Primary(g))
  <2>1. conn' = [a \in Addrs |-> IF a \in ByFamily!Sent(g) THEN "held" ELSE conn[a]] /\ result' = "none"
    BY <1>1, <1>7 DEF ByFamily!ReceiveResult
  <2>2. /\ conn' \in [Addrs -> States]
        /\ \A a \in Addrs : conn'[a] = IF a \in g /\ conn[a] = "sending" THEN "held" ELSE conn[a]
    BY <1>2, <2>1 DEF States, Live, ByFamily!Sent
  <2>3. CASE cancelled
    BY <1>1, <1>2, <1>3, <2>1, <2>2, <2>3, FamilyTyped
  <2>4. CASE ~cancelled
    <3>1. ASSUME NEW h \in groups PROVE GroupLive(conn', racer'[h], h)
      <4>1. GroupLive(conn, racer[h], h)
        BY <1>1, <2>4 DEF FamilyInv, Racing
      <4>2. CASE h # g
        <5>1. \A b \in h : conn'[b] = conn[b]
          BY <1>4, <2>2, <4>2
        <5>. QED BY <1>3, <4>1, <4>2, <5>1 DEF GroupLive
      <4>3. CASE h = g
        <5>1. (\E a \in g : conn'[a] = "held") \/ (\A a \in g : conn'[a] = "failed")
          BY <1>1, <1>4, <2>2, <4>1, <4>3 DEF GroupLive
        <5>2. \A a \in g : conn'[a] # "given" /\ (conn'[a] = "held" => ~ByFamily!Primary(g))
          BY <1>4, <1>7, <2>2, <4>1, <4>3 DEF GroupLive, ByFamily!Sent
        <5>. QED BY <1>3, <4>3, <5>1, <5>2 DEF GroupLive
      <4>. QED BY <4>2, <4>3
    <3>. QED BY <1>1, <1>3, <2>1, <2>2, <3>1, FamilyGoesOn
  <2>. QED BY <2>3, <2>4
<1>. QED BY <1>6, <1>7

\* A racer whose dialFn was late closes what it got.
LEMMA FamilyRacerLate ==
  ASSUME FamilyInv, NEW g \in groups, ByFamily!RacerLate(g)
  PROVE  FamilyInv'
<1>1. /\ result # "none" /\ racer' = [racer EXCEPT ![g] = "done"]
      /\ UNCHANGED <<prefer, mode, groups, cancelled, ticked, result>>
      /\ conn' = [a \in Addrs |-> IF a \in ByFamily!Sent(g) THEN "closed" ELSE conn[a]]
  BY DEF ByFamily!RacerLate, ByFamily!race
<1>2. conn \in [Addrs -> States] /\ racer \in [groups -> {"running", "offer", "done"}] /\ result \in {"none", "conn", "error"}
  BY DEF FamilyInv
<1>3. /\ racer' \in [groups -> {"running", "offer", "done"}]
      /\ \A h \in groups : racer'[h] = "running" => racer[h] = "running"
  BY <1>1, <1>2
<1>4. /\ conn' \in [Addrs -> States]
      /\ \A a \in Addrs : /\ conn[a] = "failed" => conn'[a] = "failed"
                          /\ conn'[a] = "given" => conn[a] = "given"
  BY <1>1, <1>2 DEF States, Live, ByFamily!Sent
<1>5. ByFamily!Direct => \A h \in groups : racer'[h] # "running"
  BY <1>1, <1>3 DEF FamilyInv
<1>6. FamilyGood'
  <2>1. ByFamily!FailureMeansAllTried /\ ByFamily!PreferenceHonoured
    BY DEF FamilyInv, FamilyGood
  <2>2. ByFamily!FailureMeansAllTried'
    BY <1>1, <1>4, <2>1 DEF ByFamily!FailureMeansAllTried
  <2>3. ByFamily!PreferenceHonoured'
    BY <1>1, <1>4, <2>1 DEF ByFamily!PreferenceHonoured, ByFamily!In, ByFamily!Of, ByFamily!Family, ByFamily!Direct
  <2>. QED BY <2>2, <2>3 DEF FamilyGood
<1>. QED BY <1>1, <1>2, <1>3, <1>4, <1>5, <1>6, FamilyEnds

\* The fallback ticker.
LEMMA FamilyTicks == ASSUME FamilyInv, ByFamily!Ticks PROVE FamilyInv'
<1>1. /\ ~ByFamily!Direct /\ result = "none" /\ ticked' = TRUE /\ UNCHANGED <<prefer, mode, groups, racer, cancelled>>
  BY DEF ByFamily!Ticks, ByFamily!race
<1>2. conn \in [Addrs -> States] /\ racer \in [groups -> {"running", "offer", "done"}]
  BY DEF FamilyInv
<1>3. CASE ByFamily!Held = {}
  <2>1. UNCHANGED <<conn, result>>
    BY <1>3 DEF ByFamily!Ticks
  <2>2. CASE cancelled
    BY <1>1, <1>2, <2>1, <2>2, FamilyTyped
  <2>3. CASE ~cancelled
    <3>1. \A g \in groups : GroupLive(conn', racer'[g], g)
      BY <1>1, <2>1, <2>3 DEF FamilyInv, Racing
    <3>. QED BY <1>1, <1>2, <2>1, <3>1, FamilyGoesOn
  <2>. QED BY <2>2, <2>3
<1>4. CASE ByFamily!Held # {}
  <2>1. PICK a \in ByFamily!Held : ByFamily!Give(conn, a)
    BY <1>4 DEF ByFamily!Ticks
  <2>2. conn' \in [Addrs -> States] /\ result' = "conn"
    BY <1>2, <2>1, FamilyGive DEF ByFamily!Held, ByFamily!In
  <2>3. FamilyGood'
    BY <1>1, <2>2 DEF FamilyGood, ByFamily!FailureMeansAllTried, ByFamily!PreferenceHonoured
  <2>. QED BY <1>1, <1>2, <2>2, <2>3, FamilyEnds
<1>. QED BY <1>3, <1>4

\* The results are closed: what was held is given, and without it all failed.
LEMMA FamilyResultsClosed == ASSUME FamilyInv, ByFamily!ResultsClosed PROVE FamilyInv'
<1>1. /\ ~ByFamily!Direct /\ result = "none" /\ UNCHANGED <<prefer, mode, groups, racer, cancelled, ticked>>
      /\ \A g \in groups : racer[g] = "done"
  BY DEF ByFamily!ResultsClosed, ByFamily!race
<1>2. conn \in [Addrs -> States] /\ racer \in [groups -> {"running", "offer", "done"}] /\ FamilyShape
  BY DEF FamilyInv
<1>3. ASSUME ~cancelled, NEW g \in groups PROVE GroupLive(conn, "done", g)
  BY <1>1, <1>3 DEF FamilyInv, Racing
<1>4. CASE ByFamily!Held = {}
  <2>1. conn' = conn /\ result' = "error"
    BY <1>4 DEF ByFamily!ResultsClosed
  <2>2. CASE cancelled
    BY <1>1, <1>2, <2>1, <2>2, FamilyTyped
  <2>3. CASE ~cancelled
    <3>1. ASSUME NEW a \in Addrs PROVE conn[a] = "failed"
      <4>1. PICK g \in groups : a \in g
        BY <1>2, FamilyGroups
      <4>2. g \subseteq Addrs
        BY <1>2, FamilyGroups
      <4>3. \A b \in g : conn[b] # "held"
        BY <1>4, <4>2 DEF ByFamily!Held, ByFamily!In
      <4>. QED BY <1>3, <2>3, <4>1, <4>3 DEF GroupLive
    <3>2. FamilyGood'
      BY <1>1, <2>1, <3>1 DEF FamilyGood, ByFamily!FailureMeansAllTried, ByFamily!PreferenceHonoured, ByFamily!In
    <3>. QED BY <1>1, <1>2, <2>1, <3>2, FamilyEnds
  <2>. QED BY <2>2, <2>3
<1>5. CASE ByFamily!Held # {}
  <2>1. PICK a \in ByFamily!Held : ByFamily!Give(conn, a)
    BY <1>5 DEF ByFamily!ResultsClosed
  <2>2. a \in Addrs /\ conn[a] = "held"
    BY DEF ByFamily!Held, ByFamily!In
  <2>3. /\ conn' \in [Addrs -> States] /\ result' = "conn"
        /\ \A b \in Addrs : b # a /\ conn[b] = "failed" => conn'[b] = "failed"
    BY <1>2, <2>1, <2>2, FamilyGive
  <2>4. CASE cancelled
    BY <1>1, <1>2, <2>3, <2>4, FamilyTyped
  <2>5. CASE ~cancelled
    <3>1. ASSUME prefer # 0, NEW b \in ByFamily!Of(prefer) PROVE conn[b] = "failed"
      <4>1. ByFamily!Of(prefer) \in groups
        BY <1>1, <1>2, <3>1, FamilyGroups
      <4>2. GroupLive(conn, "done", ByFamily!Of(prefer))
        BY <1>3, <2>5, <4>1
      <4>3. ByFamily!Primary(ByFamily!Of(prefer))
        BY DEF ByFamily!Primary, ByFamily!Of
      <4>. QED BY <3>1, <4>2, <4>3 DEF GroupLive
    <3>2. prefer # 0 => \A b \in ByFamily!Of(prefer) : conn'[b] = "failed"
      <4>. SUFFICES ASSUME prefer # 0, NEW b \in ByFamily!Of(prefer) PROVE conn'[b] = "failed"
        OBVIOUS
      <4>1. conn[b] = "failed" /\ b \in Addrs /\ b # a
        BY <2>2, <3>1 DEF ByFamily!Of
      <4>. QED BY <2>3, <4>1
    <3>3. ByFamily!PreferenceHonoured'
      BY <1>1, <3>2 DEF ByFamily!PreferenceHonoured, ByFamily!Of, ByFamily!Family
    <3>4. ByFamily!FailureMeansAllTried'
      BY <2>3 DEF ByFamily!FailureMeansAllTried
    <3>. QED BY <1>1, <1>2, <2>3, <3>3, <3>4, FamilyEnds DEF FamilyGood
  <2>. QED BY <2>4, <2>5
<1>. QED BY <1>4, <1>5

\* An attempt's result reaches its dialFn.
LEMMA FamilyReceive == ASSUME FamilyInv, NEW a \in Addrs, ByFamily!Receive(a) PROVE FamilyInv'
<1> DEFINE g == ByFamily!GroupOf(a)
           c == [conn EXCEPT ![a] = IF conn[a] = "ready" THEN "sending" ELSE ByFamily!Spent(conn[a])]
           rest == {b \in g : c[b] = "idle"}
           ends == conn[a] = "ready" \/ \A b \in g : c[b] \notin ByFamily!Unheard \cup {"idle"}
<1>1. /\ racer[g] = "running" /\ conn[a] \in ByFamily!Offers /\ UNCHANGED <<prefer, mode, groups, cancelled, ticked>>
      /\ ends => ByFamily!DialFnReturns(g, c)
      /\ ~ends => UNCHANGED <<racer, result>> /\ (conn' = c \/ \E b \in rest : conn' = [c EXCEPT ![b] = "dialing"])
  BY DEF ByFamily!Receive, ByFamily!race
<1>2. conn \in [Addrs -> States] /\ racer \in [groups -> {"running", "offer", "done"}] /\ FamilyShape
      /\ result \in {"none", "conn", "error"}
  BY DEF FamilyInv
<1>3. /\ g \in groups /\ a \in g /\ (\A h \in groups : a \in h => h = g) /\ g \subseteq Addrs
      /\ (\A h \in groups : h # g => h \cap g = {}) /\ \A h \in groups : h \subseteq Addrs
  BY <1>2, FamilyGroupOf, FamilyGroups
<1> HIDE DEF g
<1>4. conn[a] \in {"ready", "refused", "aborted"}
  BY <1>1 DEF ByFamily!Offers
<1>5. /\ c \in [Addrs -> States] /\ \A b \in Addrs : b # a => c[b] = conn[b]
      /\ c[a] = IF conn[a] = "ready" THEN "sending" ELSE IF conn[a] = "refused" THEN "failed" ELSE "dropped"
  BY <1>2, <1>4 DEF ByFamily!Spent, States, Live
<1> HIDE DEF c
<1>6. ByFamily!Direct /\ result # "none" => FALSE
  BY <1>1, <1>3 DEF FamilyInv
<1>7. ASSUME ~cancelled, result = "none" PROVE \A b \in g : conn[b] \in {"idle", "dialing", "ready", "refused", "failed"}
  BY <1>1, <1>3, <1>7 DEF FamilyInv, Racing, GroupLive
<1>8. CASE ends /\ ByFamily!Direct
  <2>1. /\ conn' = [b \in Addrs |-> IF c[b] = "sending" THEN "given" ELSE c[b]]
        /\ racer' = [racer EXCEPT ![g] = "done"]
        /\ result' = IF \E b \in g : c[b] = "sending" THEN "conn" ELSE "error"
    BY <1>1, <1>8 DEF ByFamily!DialFnReturns
  <2>2. conn' \in [Addrs -> States] /\ result' \in {"conn", "error"}
    BY <1>5, <2>1 DEF States
  <2>3. groups = {Addrs} /\ g = Addrs
    BY <1>2, <1>3, <1>8, FamilyGroups
  <2>4. racer' \in [groups -> {"running", "offer", "done"}] /\ \A h \in groups : racer'[h] # "running"
    BY <1>2, <2>1, <2>3
  <2>5. CASE cancelled
    BY <1>1, <1>2, <2>2, <2>4, <2>5, FamilyTyped
  <2>6. CASE ~cancelled
    <3>1. ByFamily!FailureMeansAllTried'
      <4>. SUFFICES ASSUME result' = "error", NEW b \in Addrs PROVE conn'[b] = "failed"
        BY DEF ByFamily!FailureMeansAllTried
      <4>1. \A d \in Addrs : c[d] # "sending"
        BY <2>1, <2>3
      <4>2. c[b] \notin ByFamily!Unheard \cup {"idle"}
        BY <1>5, <1>8, <2>3, <4>1 DEF ends
      <4>3. conn[b] \in {"idle", "dialing", "ready", "refused", "failed"}
        BY <1>6, <1>7, <1>8, <2>3, <2>6
      <4>4. c[b] = "failed"
        <5>1. c[b] \notin {"idle", "dialing", "ready", "refused", "aborted", "sending"}
          BY <4>1, <4>2 DEF ByFamily!Unheard, ByFamily!Offers
        <5>2. CASE b = a
          BY <1>4, <1>5, <4>3, <5>1, <5>2
        <5>3. CASE b # a
          BY <1>5, <4>3, <5>1, <5>3
        <5>. QED BY <5>2, <5>3
      <4>. QED BY <2>1, <4>4
    <3>2. ByFamily!PreferenceHonoured'
      BY <1>1, <1>8 DEF ByFamily!PreferenceHonoured, ByFamily!Direct
    <3>. QED BY <1>1, <2>2, <2>4, <3>1, <3>2, FamilyEnds DEF FamilyGood
  <2>. QED BY <2>5, <2>6
<1>9. CASE ~(ends /\ ByFamily!Direct)
  <2>1. /\ UNCHANGED result
        /\ \/ ends /\ conn' = c /\ racer' = [racer EXCEPT ![g] = "offer"]
           \/ ~ends /\ racer' = racer /\ (conn' = c \/ \E b \in rest : conn' = [c EXCEPT ![b] = "dialing"])
    BY <1>1, <1>9 DEF ByFamily!DialFnReturns
  <2>2. /\ conn' \in [Addrs -> States] /\ \A b \in Addrs : conn'[b] = c[b] \/ (c[b] = "idle" /\ conn'[b] = "dialing" /\ b \in g /\ ~ends)
    <3>1. CASE conn' = c
      BY <1>5, <3>1
    <3>2. ASSUME ~ends, NEW d \in rest, conn' = [c EXCEPT ![d] = "dialing"]
          PROVE  conn' \in [Addrs -> States] /\ \A b \in Addrs : conn'[b] = c[b] \/ (c[b] = "idle" /\ conn'[b] = "dialing" /\ b \in g)
      <4>1. d \in g /\ d \in Addrs /\ c[d] = "idle"
        BY <1>3
      <4>. QED BY <1>5, <3>2, <4>1 DEF States, Live
    <3>. QED BY <2>1, <3>1, <3>2
  <2>3. /\ racer' \in [groups -> {"running", "offer", "done"}]
        /\ \A h \in groups : h # g => racer'[h] = racer[h]
        /\ racer'[g] = IF ends THEN "offer" ELSE "running"
        /\ racer'[g] # "done"
    BY <1>1, <1>2, <1>3, <2>1
  <2>4. ByFamily!Direct => result = "none"
    BY <1>6
  <2> HIDE DEF rest
  <2>5. CASE cancelled
    BY <1>1, <1>2, <2>1, <2>2, <2>3, <2>4, <2>5, FamilyTyped
  <2>6. CASE ~cancelled /\ result = "none"
    <3>1. ASSUME NEW h \in groups PROVE GroupLive(conn', racer'[h], h)
      <4>1. GroupLive(conn, racer[h], h)
        BY <2>6 DEF FamilyInv, Racing
      <4>2. CASE h # g
        <5>1. \A b \in h : conn'[b] = conn[b]
          BY <1>3, <1>5, <2>2, <4>2
        <5>. QED BY <2>3, <4>1, <4>2, <5>1 DEF GroupLive
      <4>3. CASE h = g
        <5>1. \A b \in g : conn[b] \in {"idle", "dialing", "ready", "refused", "failed"}
          BY <1>7, <2>6
        <5>2. /\ \A b \in g : b # a => c[b] = conn[b]
              /\ c[a] = IF conn[a] = "ready" THEN "sending" ELSE "failed"
          BY <1>3, <1>4, <1>5, <5>1
        <5>3. CASE ends
          <6>1. \A b \in g : conn'[b] = c[b]
            BY <1>3, <2>2, <5>3
          <6>2. CASE conn[a] = "ready"
            <7>1. conn'[a] = "sending"
              BY <1>3, <5>2, <6>1, <6>2
            <7>2. \A b \in g : conn'[b] \notin {"given", "held"}
              BY <5>1, <5>2, <6>1
            <7>. QED BY <1>3, <2>3, <4>3, <5>3, <7>1, <7>2 DEF GroupLive
          <6>3. CASE conn[a] # "ready"
            <7>1. \A b \in g : c[b] \notin ByFamily!Unheard \cup {"idle"}
              BY <5>3, <6>3 DEF ends
            <7>2. \A b \in g : conn'[b] = "failed"
              BY <5>1, <5>2, <6>1, <6>3, <7>1 DEF ByFamily!Unheard, ByFamily!Offers
            <7>. QED BY <2>3, <4>3, <5>3, <7>2 DEF GroupLive
          <6>. QED BY <6>2, <6>3
        <5>4. CASE ~ends
          <6>1. conn[a] # "ready"
            BY <5>4 DEF ends
          <6>2. \A b \in g : conn'[b] = c[b] \/ conn'[b] = "dialing"
            BY <1>3, <2>2
          <6>3. \A b \in g : conn'[b] \in {"idle", "dialing", "ready", "refused", "failed"}
            BY <5>1, <5>2, <6>1, <6>2
          <6>. QED BY <2>3, <4>3, <5>4, <6>3 DEF GroupLive
        <5>. QED BY <5>3, <5>4
      <4>. QED BY <4>2, <4>3
    <3>. QED BY <1>1, <2>1, <2>2, <2>3, <2>6, <3>1, FamilyGoesOn
  <2>7. CASE ~cancelled /\ result # "none"
    <3>1. \A b \in Addrs : /\ conn[b] = "failed" => conn'[b] = "failed"
                           /\ conn'[b] = "given" => conn[b] = "given"
      BY <1>4, <1>5, <2>2
    <3>2. ByFamily!FailureMeansAllTried /\ ByFamily!PreferenceHonoured
      BY DEF FamilyInv, FamilyGood
    <3>3. ByFamily!FailureMeansAllTried'
      BY <1>1, <2>1, <3>1, <3>2 DEF ByFamily!FailureMeansAllTried
    <3>4. ByFamily!PreferenceHonoured'
      BY <1>1, <3>1, <3>2 DEF ByFamily!PreferenceHonoured, ByFamily!In, ByFamily!Of, ByFamily!Family, ByFamily!Direct
    <3>5. result' \in {"conn", "error"}
      BY <1>2, <2>1, <2>7
    <3>. QED BY <1>1, <2>2, <2>3, <2>4, <2>7, <3>3, <3>4, <3>5, FamilyEnds DEF FamilyGood
  <2>. QED BY <2>5, <2>6, <2>7
<1>. QED BY <1>8, <1>9

\* Every step of a race by family keeps its invariant.
LEMMA FamilyStep == ASSUME FamilyInv, ByFamily!Next \/ UNCHANGED ByFamily!vars PROVE FamilyInv'
<1>1. ASSUME UNCHANGED <<conn, prefer, mode, groups, racer, cancelled, ticked, result>>
      PROVE  FamilyInv'
  <2>1. FamilyShape'
    BY <1>1 DEF FamilyInv, FamilyShape, ByFamily!Of, ByFamily!Family
  <2>2. FamilyGood'
    BY <1>1 DEF FamilyInv, FamilyGood, ByFamily!FailureMeansAllTried, ByFamily!PreferenceHonoured, ByFamily!In, ByFamily!Of,
       ByFamily!Family, ByFamily!Direct
  <2>3. Racing' => \A g \in groups' : GroupLive(conn, racer[g], g)'
    BY <1>1 DEF FamilyInv, Racing, GroupLive, ByFamily!Primary, ByFamily!Family
  <2>. QED BY <1>1, <2>1, <2>2, <2>3 DEF FamilyInv, ByFamily!Direct
<1>3. CASE UNCHANGED ByFamily!vars
  BY <1>1, <1>3 DEF ByFamily!vars, ByFamily!race
<1>4. CASE ByFamily!Loop
  BY <1>4, FamilyResultsClosed, FamilyReceive, FamilyReceiveResult, FamilyRacerLate DEF ByFamily!Loop
<1>5. CASE ByFamily!Ticks \/ ByFamily!Cancel
  BY <1>5, FamilyTicks, FamilyCancel
<1>6. ASSUME NEW a \in Addrs, ByFamily!Attempt(a) PROVE FamilyInv'
  BY <1>6, FamilyAttempt
<1>. QED BY <1>3, <1>4, <1>5, <1>6 DEF ByFamily!Next

\* A race of one group sends nothing: dialFn returns to DialContext
FamilySends == ByFamily!Direct => \A a \in Addrs : conn[a] # "sending"

\* One open connection goes to the caller, and the one held is closed.
LEMMA FamilyGivePromised ==
  ASSUME conn \in [Addrs -> States], result = "none", NEW a \in Addrs, conn[a] \in {"held", "sending"}, ByFamily!Give(conn, a)
  PROVE  RacePromise /\ \A b \in Addrs : conn'[b] = "sending" => conn[b] = "sending"
<1>1. /\ result' = "conn" /\ conn'[a] = "given"
      /\ \A b \in Addrs : b # a => conn'[b] = IF conn[b] = "held" THEN "closed" ELSE conn[b]
  BY DEF ByFamily!Give, ByFamily!Unheld
<1>2. Socket(conn[a]) = "open" /\ \A b \in Addrs : b # a => Closes(conn[b], conn'[b])
  BY <1>1, SocketStates DEF Closes
<1>3. RacePromise
  BY <1>1, <1>2, ConnPromised
<1>. QED BY <1>1, <1>3

\* A result of an attempt.
LEMMA FamilyReceivePromised ==
  ASSUME FamilyInv, FamilySends, NEW a \in Addrs, ByFamily!Receive(a)
  PROVE  RacePromise /\ (ByFamily!Direct => \A b \in Addrs : conn'[b] # "sending")
<1> DEFINE g == ByFamily!GroupOf(a)
           c == [conn EXCEPT ![a] = IF conn[a] = "ready" THEN "sending" ELSE ByFamily!Spent(conn[a])]
           rest == {b \in g : c[b] = "idle"}
           ends == conn[a] = "ready" \/ \A b \in g : c[b] \notin ByFamily!Unheard \cup {"idle"}
<1>1. /\ racer[g] = "running" /\ conn[a] \in {"ready", "refused", "aborted"}
      /\ ends => ByFamily!DialFnReturns(g, c)
      /\ ~ends => conn[a] # "ready" /\ result' = result /\ (conn' = c \/ \E b \in rest : conn' = [c EXCEPT ![b] = "dialing"])
  BY DEF ByFamily!Receive, ByFamily!Offers
<1>2. conn \in [Addrs -> States] /\ FamilyShape
  BY DEF FamilyInv
<1>3. g \in groups /\ a \in g /\ g \subseteq Addrs
  BY <1>2, FamilyGroupOf, FamilyGroups
<1> HIDE DEF g
<1>4. ByFamily!Direct => result = "none" /\ \A b \in Addrs : conn[b] # "sending"
  BY <1>1, <1>3 DEF FamilyInv, FamilySends
<1>5. /\ c \in [Addrs -> States] /\ \A b \in Addrs : b # a => c[b] = conn[b]
      /\ c[a] = IF conn[a] = "ready" THEN "sending" ELSE IF conn[a] = "refused" THEN "failed" ELSE "dropped"
  BY <1>1, <1>2 DEF ByFamily!Spent, States
<1> HIDE DEF c
<1>6. Closes(conn[a], c[a])
  BY <1>1, <1>5, SocketStates DEF Closes
<1>7. \A b \in Addrs : Closes(conn[b], c[b])
  BY <1>5, <1>6 DEF Closes
<1>8. CASE ends /\ ByFamily!Direct
  <2>1. /\ \A b \in Addrs : conn'[b] = IF c[b] = "sending" THEN "given" ELSE c[b]
        /\ result' = IF \E b \in g : c[b] = "sending" THEN "conn" ELSE "error"
    BY <1>1, <1>8 DEF ByFamily!DialFnReturns
  <2>2. \A b \in Addrs : c[b] = "sending" <=> b = a /\ conn[a] = "ready"
    BY <1>1, <1>4, <1>5, <1>8
  <2>3. \A b \in Addrs : conn'[b] # "sending"
    BY <2>1
  <2>4. CASE conn[a] = "ready"
    <3>1. result' = "conn" /\ conn'[a] = "given" /\ Socket(conn[a]) = "open"
      BY <1>3, <2>1, <2>2, <2>4, SocketStates
    <3>2. \A b \in Addrs : b # a => Closes(conn[b], conn'[b])
      BY <1>7, <2>1, <2>2
    <3>. QED BY <1>4, <1>8, <2>3, <3>1, <3>2, ConnPromised
  <2>5. CASE conn[a] # "ready"
    <3>1. result' = "error" /\ \A b \in Addrs : Closes(conn[b], conn'[b])
      BY <1>3, <1>7, <2>1, <2>2, <2>5
    <3>. QED BY <1>4, <1>8, <2>3, <3>1, ErrorPromised
  <2>. QED BY <2>4, <2>5
<1>9. CASE ends /\ ~ByFamily!Direct
  <2>1. conn' = c /\ result' = result
    BY <1>1, <1>9 DEF ByFamily!DialFnReturns
  <2>. QED BY <1>7, <1>9, <2>1, StaysPromised
<1>10. CASE ~ends
  <2>1. result' = result /\ \A b \in Addrs : conn'[b] = c[b] \/ (c[b] = "idle" /\ conn'[b] = "dialing")
    BY <1>1, <1>5, <1>10
  <2>2. \A b \in Addrs : Closes(c[b], conn'[b])
    BY <2>1, SocketStates DEF Closes
  <2>3. \A b \in Addrs : Closes(conn[b], conn'[b])
    BY <1>7, <2>2 DEF Closes
  <2>4. ByFamily!Direct => \A b \in Addrs : conn'[b] # "sending"
    BY <1>1, <1>4, <1>5, <1>10, <2>1
  <2>. QED BY <2>1, <2>3, <2>4, StaysPromised
<1>. QED BY <1>8, <1>9, <1>10

\* Every step of the race keeps the promise about sockets.
LEMMA FamilyKeeps ==
  ASSUME FamilyInv, FamilySends, ByFamily!Next \/ UNCHANGED ByFamily!vars
  PROVE  FamilySends' /\ RacePromise
<1>0. conn \in [Addrs -> States] /\ FamilyShape /\ \A b \in Addrs : Closes(conn[b], conn[b])
  BY DEF FamilyInv, Closes
<1>1. UNCHANGED groups
  BY DEF ByFamily!Next, ByFamily!Loop, ByFamily!ResultsClosed, ByFamily!Receive, ByFamily!ReceiveResult, ByFamily!RacerLate,
     ByFamily!Ticks, ByFamily!Cancel, ByFamily!Attempt, ByFamily!vars, ByFamily!race
<1>2. ASSUME \A b \in Addrs : ByFamily!Direct => (conn'[b] = "sending" => conn[b] = "sending") PROVE FamilySends'
  BY <1>1, <1>2 DEF FamilySends, ByFamily!Direct
<1>3. \A a \in ByFamily!Held : a \in Addrs /\ conn[a] = "held"
  BY DEF ByFamily!Held, ByFamily!In
<1>4. ASSUME UNCHANGED <<conn, result>> PROVE FamilySends' /\ RacePromise
  BY <1>0, <1>2, <1>4, StaysPromised
<1>5. CASE ByFamily!Ticks
  <2>1. result = "none" /\ (UNCHANGED <<conn, result>> \/ \E a \in ByFamily!Held : ByFamily!Give(conn, a))
    BY <1>5 DEF ByFamily!Ticks
  <2>. QED BY <1>0, <1>2, <1>3, <1>4, <2>1, FamilyGivePromised
<1>6. CASE ByFamily!ResultsClosed
  <2>1. result = "none" /\ ((result' = "error" /\ conn' = conn) \/ \E a \in ByFamily!Held : ByFamily!Give(conn, a))
    BY <1>6 DEF ByFamily!ResultsClosed
  <2>2. CASE result' = "error" /\ conn' = conn
    BY <1>0, <1>2, <2>1, <2>2, ErrorPromised
  <2>. QED BY <1>0, <1>2, <1>3, <2>1, <2>2, FamilyGivePromised
<1>7. ASSUME NEW a \in Addrs, ByFamily!Receive(a) PROVE FamilySends' /\ RacePromise
  BY <1>2, <1>7, FamilyReceivePromised
<1>8. ASSUME NEW g \in groups, ByFamily!ReceiveResult(g) PROVE FamilySends' /\ RacePromise
  <2>1. g \subseteq Addrs /\ \A a \in ByFamily!Sent(g) : a \in Addrs /\ conn[a] = "sending"
    BY <1>0, FamilyGroups DEF ByFamily!Sent
  <2>2. /\ result = "none"
        /\ \/ \E a \in ByFamily!Sent(g) : ByFamily!Give(conn, a)
           \/ conn' = [a \in Addrs |-> IF a \in ByFamily!Sent(g) THEN "held" ELSE conn[a]] /\ result' = result
    BY <1>8 DEF ByFamily!ReceiveResult
  <2>3. CASE conn' = [a \in Addrs |-> IF a \in ByFamily!Sent(g) THEN "held" ELSE conn[a]] /\ result' = result
    <3>1. \A b \in Addrs : conn'[b] = conn[b] \/ (conn[b] = "sending" /\ conn'[b] = "held")
      BY <2>1, <2>3
    <3>2. \A b \in Addrs : Closes(conn[b], conn'[b])
      BY <3>1, SocketStates DEF Closes
    <3>. QED BY <1>2, <2>3, <3>1, <3>2, StaysPromised
  <2>. QED BY <1>0, <1>2, <2>1, <2>2, <2>3, FamilyGivePromised
<1>9. ASSUME NEW g \in groups, ByFamily!RacerLate(g) PROVE FamilySends' /\ RacePromise
  <2>1. \A b \in Addrs : conn'[b] = conn[b] \/ (conn[b] = "sending" /\ conn'[b] = "closed")
    BY <1>9 DEF ByFamily!RacerLate, ByFamily!Sent
  <2>2. \A b \in Addrs : Closes(conn[b], conn'[b])
    BY <2>1, SocketStates DEF Closes
  <2>. QED BY <1>2, <1>9, <2>1, <2>2, StaysPromised DEF ByFamily!RacerLate
<1>10. CASE ByFamily!Cancel \/ UNCHANGED ByFamily!vars
  BY <1>4, <1>10 DEF ByFamily!Cancel, ByFamily!vars
<1>11. ASSUME NEW a \in Addrs, ByFamily!Attempt(a) PROVE FamilySends' /\ RacePromise
  <2> DEFINE done == cancelled \/ (ByFamily!Direct /\ mode = "parallel" /\ result # "none")
             gone == ByFamily!Parallel(ByFamily!GroupOf(a)) /\ racer[ByFamily!GroupOf(a)] # "running"
  <2>1. result' = result /\ (ByFamily!Dial(a, done) \/ ByFamily!Discard(a, gone))
    BY <1>11 DEF ByFamily!Attempt
  <2> HIDE DEF done, gone
  <2>2. \/ /\ conn[a] = "dialing"
           /\ \E outcome \in Offers : (outcome = "aborted" => done) /\ conn' = [conn EXCEPT ![a] = outcome]
        \/ /\ conn[a] \in Offers /\ gone
           /\ conn' = [conn EXCEPT ![a] = IF conn[a] = "ready" THEN "shut" ELSE "quit"]
    BY <2>1 DEF ByFamily!Dial, ByFamily!Discard, Offers, ByFamily!Offers
  <2>. QED BY <1>0, <1>2, <2>1, <2>2, AttemptPromised
<1>. QED BY <1>5, <1>6, <1>7, <1>8, <1>9, <1>10, <1>11 DEF ByFamily!Next, ByFamily!Loop

-----------------------------------------------------------------------------
(* The choice of a race                                                    *)

CONSTANTS
  ProgressiveAddrs,     \* bound: the addresses of a progressive race
  V4Batches, V6Batches  \* bounds on the DNS batches of each family

ASSUME ProgressiveAssumption ==
  ProgressiveAddrs \subseteq Addrs /\ {V4Batches, V6Batches} \subseteq Nat

VARIABLES
  path,                                                             \* the race
  place, heard, answer, kept, timer, abandoned,                     \* DualStackRace
  families, cached, caller, ended, phase, batches, doneFamily, offered, cachePending, queued,
  fast, fastInFlight, fastPriority, fastSucceeded, fastTimer, delivered      \* ProgressiveRace

DualStack == INSTANCE DualStackRace
Progressive == INSTANCE ProgressiveRace WITH
  Addrs <- ProgressiveAddrs, V6 <- V6 \cap ProgressiveAddrs,
  MaxBatches <- [f \in {4, 6} |-> IF f = 4 THEN V4Batches ELSE V6Batches]

retainedVars == <<winners, loop, fullRace>>
dualStackVars == <<place, heard, answer, kept, timer, abandoned>>
familyVars == <<mode, groups, racer, ticked>>
progressiveVars ==
  <<families, cached, caller, ended, phase, batches, doneFamily, offered, cachePending, queued,
    fast, fastInFlight, fastPriority, fastSucceeded, fastTimer, delivered>>
vars == <<conn, path, prefer, cancelled, window, result, blamed, retainedVars, dualStackVars, familyVars, progressiveVars>>

-----------------------------------------------------------------------------
RetainedOff == winners = {} /\ loop = "top" /\ fullRace = FALSE

DualStackOff == place = "lookups" /\ heard = {} /\ answer = {} /\ kept = FALSE /\ timer = "off" /\ abandoned = FALSE

FamilyOff == mode = "serial" /\ groups = {} /\ racer = <<>> /\ ticked = FALSE

ProgressiveOff ==
  /\ families = {} /\ cached = {} /\ caller = "waiting" /\ ended = FALSE /\ phase = "loop"
  /\ batches = <<>> /\ doneFamily = {} /\ offered = {} /\ cachePending = FALSE /\ queued = {}
  /\ fast = {} /\ fastInFlight = {} /\ fastPriority = FALSE /\ fastSucceeded = FALSE /\ fastTimer = FALSE
  /\ delivered = FALSE

\* Which race dials: for a network of both families (dual), with tcp-concurrent,
\* for an outbound that races DIRECT, with a resolver that answers in batches,
\* with retained winners among the addresses, with opt.concurrentTCP
Path(dual, concurrent, directRace, batched, retained, forced) ==
  IF directRace /\ batched THEN "progressive"
  ELSE IF directRace /\ dual /\ ~concurrent THEN "dual stack"
  ELSE IF ~forced /\ concurrent /\ retained THEN "retained"
  ELSE "by family"

\* dialFn and the lists it is called with
Grouping(dual, concurrent, forced) ==
  /\ mode = IF concurrent \/ forced THEN "parallel" ELSE "serial"
  /\ IF dual /\ ~forced /\ (~concurrent \/ prefer # 0) THEN groups # {Addrs} ELSE groups = {Addrs}

Init ==
  \E dual, concurrent, directRace, batched, retained, forced \in BOOLEAN :
    /\ path = Path(dual, concurrent, directRace, batched, retained, forced)
    /\ \/ path = "retained" /\ Retained!Init /\ DualStackOff /\ FamilyOff /\ ProgressiveOff
       \/ path = "dual stack" /\ DualStack!Init /\ RetainedOff /\ FamilyOff /\ ProgressiveOff /\ blamed = {}
       \/ /\ path = "by family" /\ ByFamily!Init /\ RetainedOff /\ DualStackOff /\ ProgressiveOff
          /\ blamed = {} /\ window = "off" /\ Grouping(dual, concurrent, forced)
       \/ /\ path = "progressive" /\ Progressive!Init /\ RetainedOff /\ DualStackOff /\ FamilyOff
          /\ cancelled = FALSE /\ result = "none"

\* An action of one race
RetainedOnly(A) == path = "retained" /\ A /\ UNCHANGED <<path, dualStackVars, familyVars, progressiveVars>>
DualStackOnly(A) == path = "dual stack" /\ A /\ UNCHANGED <<path, blamed, retainedVars, familyVars, progressiveVars>>
FamilyOnly(A) == path = "by family" /\ A /\ UNCHANGED <<path, blamed, window, retainedVars, dualStackVars, progressiveVars>>
ProgressiveOnly(A) == path = "progressive" /\ A /\ UNCHANGED <<path, cancelled, result, retainedVars, dualStackVars, familyVars>>

Next ==
  \/ RetainedOnly(Retained!Next)
  \/ DualStackOnly(DualStack!Next)
  \/ FamilyOnly(ByFamily!Next)
  \/ ProgressiveOnly(Progressive!Next)

\* The goroutine that waits for results
Loop ==
  \/ RetainedOnly(Retained!Loop)
  \/ DualStackOnly(DualStack!CtxDone \/ DualStack!Results)
  \/ FamilyOnly(ByFamily!Loop)
  \/ ProgressiveOnly(Progressive!RaceOver \/ Progressive!CtxDone \/ Progressive!Results)

Attempt(a) ==
  \/ RetainedOnly(Retained!Attempt(a))
  \/ DualStackOnly(DualStack!Attempt(a))
  \/ FamilyOnly(ByFamily!Attempt(a))
  \/ ProgressiveOnly(a \in ProgressiveAddrs /\ Progressive!Attempt(a))

Lookup(f) ==
  \/ DualStackOnly(DualStack!Lookup(f))
  \/ ProgressiveOnly(f \in families /\ Progressive!Dns(f))

(***************************************************************************)
(* Goroutines are scheduled, dials and lookups end.  The timers of the     *)
(* progressive race fire; no other timer is needed, and neither is the     *)
(* caller's patience nor the timeout of the whole work.                    *)
(***************************************************************************)
Fairness ==
  /\ WF_vars(Loop)
  /\ \A a \in Addrs : WF_vars(Attempt(a))
  /\ \A f \in {4, 6} : WF_vars(Lookup(f))
  /\ WF_vars(ProgressiveOnly(Progressive!SendTo)) /\ WF_vars(ProgressiveOnly(Progressive!SendFails))
  /\ WF_vars(ProgressiveOnly(Progressive!CallerSeesEnd))
  /\ WF_vars(ProgressiveOnly(Progressive!PreferenceExpires)) /\ WF_vars(ProgressiveOnly(Progressive!FastExpires))

Spec == Init /\ [][Next]_vars /\ Fairness

-----------------------------------------------------------------------------
(***************************************************************************)
(* An error that is not a cancellation's means that every address the race *)
(* was given was dialled and refused: neither failed winners, nor their    *)
(* budget, nor the order of the lookups leave an address untried.          *)
(***************************************************************************)
FailureMeansAllTried ==
  /\ path = "retained" => Retained!FailureMeansAllTried
  /\ path = "dual stack" => DualStack!FailureMeansAllTried
  /\ path = "by family" => ByFamily!FailureMeansAllTried
  /\ path = "progressive" => Progressive!FailureMeansAllTried

(***************************************************************************)
(* With ip-version set to prefer a family, a connection of the other is    *)
(* returned only after the preference window, or when the preferred family *)
(* has failed.                                                             *)
(***************************************************************************)
PreferenceHonoured ==
  /\ path = "retained" => Retained!PreferenceHonoured
  /\ path = "dual stack" => DualStack!PreferenceHonoured
  /\ path = "by family" => ByFamily!PreferenceHonoured
  /\ path = "progressive" => Progressive!PreferenceHonoured

(***************************************************************************)
(* "调用者取消不会被记成连接失败" (docs/features/                           *)
(* tcp-concurrent-winner-cache.md): an attempt that the caller's cancel    *)
(* ended is never backed off in the winner cache, except when the budget   *)
(* had condemned it before.                                                *)
(***************************************************************************)
CancelIsNoFailure == [][\A a \in DOMAIN conn : conn[a] = "aborted" => (a \in blamed' => a \in blamed)]_vars

Answered == IF path = "progressive" THEN caller # "waiting" ELSE result # "none"

(***************************************************************************)
(* The caller is answered, whatever the addresses do and without its help, *)
(* as long as every dial and every lookup ends; and no connection leaks:   *)
(* every one that was established and not handed over is closed in the     *)
(* end, however late its dial returns.                                     *)
(***************************************************************************)
RaceSettles ==
  <>[](Answered /\ \A a \in DOMAIN conn : conn[a] \notin {"dialing", "ready", "held", "sending"})

\* The sockets and the answer, as the caller sees them
Owned == [a \in Addrs |-> IF a \in DOMAIN conn THEN Socket(conn[a]) ELSE "none"]
Reply == IF ~Answered THEN "none" ELSE IF "conn" \in {caller, result} THEN "conn" ELSE "error"

Promise == INSTANCE DialOutcome WITH socket <- Owned, outcome <- Reply

(***************************************************************************)
(* Every race keeps the promise about sockets: one answer, at most one     *)
(* connection handed over, and that one never closed.                      *)
(***************************************************************************)
ImplementsOutcome == Promise!OutcomeSpec

-----------------------------------------------------------------------------
(***************************************************************************)
(* Proofs, for every set of addresses and any bounds: the invariant of the *)
(* race that was chosen.                                                   *)
(***************************************************************************)
PathInv ==
  /\ path = "retained" => RetainedInv
  /\ path = "dual stack" => DualStack!DualInv
  /\ path = "by family" => FamilyInv
  /\ path = "progressive" => Progressive!ProgressiveInv

\* The addresses of a progressive race are among the others.
LEMMA SomeAddrs == V6 \cap ProgressiveAddrs \subseteq ProgressiveAddrs
OBVIOUS

\* Whichever race is chosen, it starts in its invariant.
LEMMA PathInit == Init => PathInv
<1>1. DualStack!Init => DualStack!DualInv
  BY AddrsAssumption, DualStack!DualInit DEF DualStack!DualInit
<1>2. Progressive!Init => Progressive!ProgressiveInv
  BY SomeAddrs, Progressive!ProgressiveInit DEF Progressive!ProgressiveInit
<1>. QED BY <1>1, <1>2, RetainedInit, FamilyInit DEF Init, PathInv

\* Its steps keep the invariant, and blame nobody for a cancel.
LEMMA PathStep == ASSUME PathInv, [Next]_vars PROVE PathInv' /\ NoNewBlame
<1>1. ASSUME DualStack!DualInv, DualStack!Next \/ UNCHANGED DualStack!vars PROVE DualStack!DualInv'
  BY <1>1, AddrsAssumption, DualStack!DualStep DEF DualStack!DualStep
<1>2. ASSUME Progressive!ProgressiveInv, Progressive!Next \/ UNCHANGED Progressive!vars
      PROVE  Progressive!ProgressiveInv' /\ Progressive!NoNewBlame
  BY <1>2, SomeAddrs, Progressive!ProgressiveStep DEF Progressive!ProgressiveStep
<1>3. Progressive!NoNewBlame => NoNewBlame
  BY DEF Progressive!NoNewBlame, NoNewBlame
<1>4. CASE RetainedOnly(Retained!Next)
  BY <1>4, RetainedStep DEF RetainedOnly, PathInv
<1>5. CASE DualStackOnly(DualStack!Next)
  <2>1. path = "dual stack" /\ DualStack!Next /\ path' = path /\ blamed' = blamed
    BY <1>5 DEF DualStackOnly
  <2>. QED BY <1>1, <2>1 DEF PathInv, NoNewBlame
<1>6. CASE FamilyOnly(ByFamily!Next)
  <2>1. path = "by family" /\ ByFamily!Next /\ path' = path /\ blamed' = blamed
    BY <1>6 DEF FamilyOnly
  <2>. QED BY <2>1, FamilyStep DEF PathInv, NoNewBlame
<1>7. CASE ProgressiveOnly(Progressive!Next)
  <2>1. path = "progressive" /\ Progressive!Next /\ path' = path
    BY <1>7 DEF ProgressiveOnly
  <2>. QED BY <1>2, <1>3, <2>1 DEF PathInv
<1>8. CASE UNCHANGED vars
  <2>1. /\ path' = path /\ blamed' = blamed
        /\ UNCHANGED Retained!vars /\ UNCHANGED DualStack!vars /\ UNCHANGED ByFamily!vars
    BY <1>8 DEF vars, retainedVars, dualStackVars, familyVars, Retained!vars, DualStack!vars, ByFamily!vars, ByFamily!race
  <2>2. UNCHANGED Progressive!vars
    BY <1>8 DEF vars, progressiveVars, Progressive!vars, Progressive!race, Progressive!dns, Progressive!fastPath
  <2>. QED BY <1>1, <1>2, <2>1, <2>2, RetainedStep, FamilyStep DEF PathInv, NoNewBlame
<1>. QED BY <1>4, <1>5, <1>6, <1>7, <1>8 DEF Next

\* The invariant holds throughout.
LEMMA PathInvariant == Spec => []PathInv
<1>1. PathInv /\ [Next]_vars => PathInv'
  BY PathStep
<1>. QED BY <1>1, PathInit, PTL DEF Spec

(***************************************************************************)
(* For any addresses, retained winners, groups and DNS batches, a failure  *)
(* that no cancel caused leaves no address of the race untried.            *)
(***************************************************************************)
THEOREM DialTriesAll == Spec => []FailureMeansAllTried
<1>1. PathInv => FailureMeansAllTried
  BY DEF PathInv, FailureMeansAllTried, RetainedInv, RetainedGood, FamilyInv, FamilyGood,
     DualStack!DualInv, DualStack!DualGood, Progressive!ProgressiveInv, Progressive!ProgressiveGood
<1>. QED BY <1>1, PathInvariant, PTL

(***************************************************************************)
(* For the same values, every race honours the preference for a family.    *)
(***************************************************************************)
THEOREM DialPrefers == Spec => []PreferenceHonoured
<1>1. PathInv => PreferenceHonoured
  BY DEF PathInv, PreferenceHonoured, RetainedInv, RetainedGood, FamilyInv, FamilyGood,
     DualStack!DualInv, DualStack!DualGood, Progressive!ProgressiveInv, Progressive!ProgressiveGood
<1>. QED BY <1>1, PathInvariant, PTL

(***************************************************************************)
(* For the same values, no race backs off an address because the caller    *)
(* cancelled its attempt.                                                  *)
(***************************************************************************)
THEOREM DialBlames == Spec => CancelIsNoFailure
<1>1. PathInv /\ [Next]_vars => [NoNewBlame]_vars
  BY PathStep
<1>. QED BY <1>1, PathInvariant, PTL DEF Spec, CancelIsNoFailure, NoNewBlame

-----------------------------------------------------------------------------
(***************************************************************************)
(* The refinement: what the socket lemmas of each race need besides its    *)
(* invariant, and the variables that only one of the races uses.           *)
(***************************************************************************)
PathSockets ==
  /\ path = "dual stack" => DualStack!DualIdle
  /\ path = "by family" => FamilySends
  /\ path = "progressive" => Progressive!OneSent /\ result = "none"
  /\ path # "progressive" => caller = "waiting"

\* What a step does to the sockets and to the answer that the caller sees.
OwnedMoves ==
  LET Stays(a) == Owned'[a] = Owned[a]
      Shuts(a) == Stays(a) \/ (Owned[a] = "open" /\ Owned'[a] = "closed")
  IN  \/ /\ Reply' = Reply
         /\ \E a \in Addrs : Owned[a] = "none" /\ Owned'[a] = "open" /\ \A b \in Addrs : b # a => Stays(b)
      \/ (Reply' = Reply \/ (Reply = "none" /\ Reply' = "error")) /\ \A a \in Addrs : Shuts(a)
      \/ /\ Reply = "none" /\ Reply' = "conn"
         /\ \E a \in Addrs : Owned[a] = "open" /\ Owned'[a] = "given" /\ \A b \in Addrs : b # a => Shuts(b)

\* Such a step is one of DialOutcome's.
LEMMA OwnedMovesAllowed == OwnedMoves => [Promise!OutcomeNext]_(Promise!outcomeVars)
<1>1. SUFFICES ASSUME OwnedMoves PROVE Promise!OutcomeNext
  OBVIOUS
<1>2. Owned' = [a \in Addrs |-> Owned'[a]] /\ DOMAIN Owned = Addrs
  BY DEF Owned
<1> DEFINE C == {a \in Addrs : Owned[a] = "open" /\ Owned'[a] = "closed"}
<1>3. C \in SUBSET Promise!OpenSockets
  BY DEF Promise!OpenSockets
<1>4. ASSUME NEW a \in Addrs, Reply' = Reply, Owned[a] = "none", Owned'[a] = "open", \A b \in Addrs : b # a => Owned'[b] = Owned[b]
      PROVE  Promise!OutcomeNext
  <2>1. Owned' = [Owned EXCEPT ![a] = "open"]
    BY <1>2, <1>4
  <2>. QED BY <1>4, <2>1 DEF Promise!OutcomeNext, Promise!Opened
<1>5. ASSUME Reply' = Reply \/ (Reply = "none" /\ Reply' = "error"),
             \A a \in Addrs : Owned'[a] = Owned[a] \/ (Owned[a] = "open" /\ Owned'[a] = "closed")
      PROVE  Promise!OutcomeNext
  <2>1. Owned' = [a \in Addrs |-> IF a \in C THEN "closed" ELSE IF a \in {} THEN "given" ELSE Owned[a]]
    BY <1>2, <1>5
  <2>2. Promise!Settled(C, {})
    BY <2>1 DEF Promise!Settled
  <2>. QED BY <1>3, <1>5, <2>2 DEF Promise!OutcomeNext, Promise!Settle
<1>6. ASSUME NEW a \in Addrs, Reply = "none", Reply' = "conn", Owned[a] = "open", Owned'[a] = "given",
             \A b \in Addrs : b # a => Owned'[b] = Owned[b] \/ (Owned[b] = "open" /\ Owned'[b] = "closed")
      PROVE  Promise!OutcomeNext
  <2>1. a \in Promise!OpenSockets /\ C \cap {a} = {}
    BY <1>6 DEF Promise!OpenSockets
  <2>2. Owned' = [b \in Addrs |-> IF b \in C THEN "closed" ELSE IF b \in {a} THEN "given" ELSE Owned[b]]
    BY <1>2, <1>6
  <2>3. Promise!Settled(C, {a})
    BY <2>1, <2>2 DEF Promise!Settled
  <2>. QED BY <1>3, <1>6, <2>1, <2>3 DEF Promise!OutcomeNext, Promise!Settle
<1>. QED BY <1>1, <1>4, <1>5, <1>6 DEF OwnedMoves

\* The promise of a race over all the addresses.
LEMMA RaceMoves ==
  ASSUME DOMAIN conn = Addrs, DOMAIN conn' = Addrs, RacePromise, path # "progressive", UNCHANGED <<path, caller>>,
         caller = "waiting"
  PROVE  OwnedMoves
<1>1. \A a \in Addrs : Owned[a] = Socket(conn[a]) /\ Owned'[a] = Socket(conn'[a])
  BY DEF Owned
<1>2. Reply = Answer(result) /\ Reply' = Answer(result')
  BY DEF Reply, Answered, Answer
<1>3. KeepsPromise(conn, conn', Reply, Reply')
  BY <1>2 DEF RacePromise
<1>4. \A a \in Addrs : Closes(conn[a], conn'[a]) => Owned'[a] = Owned[a] \/ (Owned[a] = "open" /\ Owned'[a] = "closed")
  BY <1>1 DEF Closes
<1>5. \/ /\ Reply' = Reply
         /\ \E a \in Addrs : Owned[a] = "none" /\ Owned'[a] = "open" /\ \A b \in Addrs : b # a => Owned'[b] = Owned[b]
      \/ (Reply' = Reply \/ (Reply = "none" /\ Reply' = "error")) /\ \A a \in Addrs : Closes(conn[a], conn'[a])
      \/ /\ Reply = "none" /\ Reply' = "conn"
         /\ \E a \in Addrs : /\ Owned[a] = "open" /\ Owned'[a] = "given"
                           /\ \A b \in Addrs : b # a => Closes(conn[b], conn'[b])
  BY <1>1, <1>3 DEF KeepsPromise
<1>. QED BY <1>4, <1>5 DEF OwnedMoves

\* The promise of the progressive race, over its own addresses.
LEMMA ProgressiveMoves ==
  ASSUME DOMAIN conn = ProgressiveAddrs, DOMAIN conn' = ProgressiveAddrs, Progressive!ProgressivePromise,
         path = "progressive", UNCHANGED <<path, result>>, result = "none"
  PROVE  OwnedMoves
<1>1. \A a : Progressive!Socket(a) = Socket(a)
  BY DEF Progressive!Socket, Socket
<1>2. /\ ProgressiveAddrs \subseteq Addrs
      /\ \A a \in ProgressiveAddrs : Owned[a] = Socket(conn[a]) /\ Owned'[a] = Socket(conn'[a])
      /\ \A a \in Addrs \ ProgressiveAddrs : Owned[a] = "none" /\ Owned'[a] = "none"
  BY ProgressiveAssumption DEF Owned
<1>3. Reply = Progressive!Answer(Progressive!Told) /\ Reply' = Progressive!Answer(Progressive!Told')
  BY DEF Reply, Answered, Progressive!Answer, Progressive!Told
<1>4. Progressive!KeepsPromise(conn, conn', Reply, Reply')
  BY <1>3 DEF Progressive!ProgressivePromise
<1>. QED BY <1>1, <1>2, <1>4 DEF Progressive!KeepsPromise, Progressive!Closes, OwnedMoves

\* Nothing is open and nobody answered at the start.
LEMMA OutcomeStart == Init => PathSockets /\ Promise!OutcomeInit
<1>1. DualStack!Init => DualStack!DualIdle
  BY AddrsAssumption, DualStack!DualIdleInit DEF DualStack!DualIdleInit
<1>2. Progressive!Init => Progressive!OneSent
  BY SomeAddrs, Progressive!OneSentInit DEF Progressive!OneSentInit
<1>3. ASSUME Init PROVE \A a \in DOMAIN conn : conn[a] \in {"idle", "dialing"}
  BY <1>3 DEF Init, Retained!Init, DualStack!Init, ByFamily!Init, Progressive!Init, RetainedOff, DualStackOff, FamilyOff, ProgressiveOff
<1>4. ASSUME Init PROVE caller = "waiting" /\ result = "none"
  BY <1>4 DEF Init, Retained!Init, DualStack!Init, ByFamily!Init, Progressive!Init, ProgressiveOff
<1>5. ASSUME Init PROVE PathSockets
  <2>1. path = "by family" => FamilySends
    BY <1>3, <1>5 DEF Init, ByFamily!Init, FamilySends
  <2>. QED BY <1>1, <1>2, <1>4, <1>5, <2>1 DEF Init, PathSockets
<1>6. ASSUME Init PROVE Promise!OutcomeInit
  <2>1. Owned = [a \in Addrs |-> "none"]
    BY <1>3, <1>6, SocketStates DEF Owned
  <2>2. Reply = "none"
    BY <1>4, <1>6 DEF Reply, Answered
  <2>. QED BY <2>1, <2>2 DEF Promise!OutcomeInit
<1>. QED BY <1>5, <1>6

\* Every step of every race is a step of DialOutcome, or changes nothing the caller owns.
LEMMA OutcomeSteps ==
  ASSUME PathInv, PathInv', PathSockets, [Next]_vars
  PROVE  PathSockets' /\ [Promise!OutcomeNext]_(Promise!outcomeVars)
<1>1. ASSUME DualStack!DualInv, DualStack!DualIdle, DualStack!Next PROVE DualStack!DualIdle' /\ DualStack!DualPromise
  BY <1>1, AddrsAssumption, DualStack!DualKeeps DEF DualStack!DualKeeps
<1>2. ASSUME Progressive!ProgressiveInv, Progressive!OneSent, Progressive!Next
      PROVE  Progressive!OneSent' /\ Progressive!ProgressivePromise
  BY <1>2, SomeAddrs, Progressive!ProgressiveKeeps DEF Progressive!ProgressiveKeeps
<1>3. DualStack!DualPromise => RacePromise
  BY DEF DualStack!DualPromise, DualStack!KeepsPromise, DualStack!Closes, DualStack!Socket, DualStack!Answer,
     RacePromise, KeepsPromise, Closes, Socket, Answer
<1>4. CASE RetainedOnly(Retained!Next)
  <2>1. path = "retained" /\ Retained!Next /\ path' = path /\ caller' = caller
    BY <1>4 DEF RetainedOnly, progressiveVars
  <2>2. RacePromise /\ DOMAIN conn = Addrs /\ DOMAIN conn' = Addrs
    BY <2>1, RetainedKeeps DEF PathInv, RetainedInv
  <2>. QED BY <2>1, <2>2, RaceMoves, OwnedMovesAllowed DEF PathSockets
<1>5. CASE DualStackOnly(DualStack!Next)
  <2>1. path = "dual stack" /\ DualStack!Next /\ path' = path /\ caller' = caller
    BY <1>5 DEF DualStackOnly, progressiveVars
  <2>2. DualStack!DualIdle' /\ RacePromise
    BY <1>1, <1>3, <2>1 DEF PathInv, PathSockets
  <2>3. DOMAIN conn = Addrs /\ DOMAIN conn' = Addrs
    BY <2>1 DEF PathInv, DualStack!DualInv
  <2>. QED BY <2>1, <2>2, <2>3, RaceMoves, OwnedMovesAllowed DEF PathSockets
<1>6. CASE FamilyOnly(ByFamily!Next)
  <2>1. path = "by family" /\ ByFamily!Next /\ path' = path /\ caller' = caller
    BY <1>6 DEF FamilyOnly, progressiveVars
  <2>2. FamilySends' /\ RacePromise
    BY <2>1, FamilyKeeps DEF PathInv, PathSockets
  <2>3. DOMAIN conn = Addrs /\ DOMAIN conn' = Addrs
    BY <2>1 DEF PathInv, FamilyInv
  <2>. QED BY <2>1, <2>2, <2>3, RaceMoves, OwnedMovesAllowed DEF PathSockets
<1>7. CASE ProgressiveOnly(Progressive!Next)
  <2>1. path = "progressive" /\ Progressive!Next /\ path' = path /\ result' = result
    BY <1>7 DEF ProgressiveOnly
  <2>2. Progressive!OneSent' /\ Progressive!ProgressivePromise
    BY <1>2, <2>1 DEF PathInv, PathSockets
  <2>3. DOMAIN conn = ProgressiveAddrs /\ DOMAIN conn' = ProgressiveAddrs
    BY <2>1 DEF PathInv, Progressive!ProgressiveInv, Progressive!ProgressiveTypes
  <2>. QED BY <2>1, <2>2, <2>3, ProgressiveMoves, OwnedMovesAllowed DEF PathSockets
<1>8. CASE UNCHANGED vars
  <2>1. UNCHANGED <<conn, path, result, caller>>
    BY <1>8 DEF vars, progressiveVars
  <2>2. UNCHANGED <<Owned, Reply>>
    BY <2>1 DEF Owned, Reply, Answered
  <2>3. DualStack!DualIdle => DualStack!DualIdle'
    BY <1>8 DEF vars, dualStackVars, DualStack!DualIdle, DualStack!Of, DualStack!Family
  <2>4. FamilySends => FamilySends'
    BY <1>8 DEF vars, familyVars, FamilySends, ByFamily!Direct
  <2>5. Progressive!OneSent => Progressive!OneSent'
    BY <2>1 DEF Progressive!OneSent
  <2>. QED BY <2>1, <2>2, <2>3, <2>4, <2>5 DEF PathSockets, Promise!outcomeVars
<1>. QED BY <1>4, <1>5, <1>6, <1>7, <1>8 DEF Next

(***************************************************************************)
(* Whichever race DialContext chooses, over any addresses, it keeps the    *)
(* promise about sockets: the caller is answered once, a connection it was *)
(* given is never closed by the race, and no other is ever given.          *)
(***************************************************************************)
THEOREM DialKeepsPromise == Spec => ImplementsOutcome
<1>1. PathInv /\ PathInv' /\ PathSockets /\ [Next]_vars => PathSockets' /\ [Promise!OutcomeNext]_(Promise!outcomeVars)
  BY OutcomeSteps
<1>. QED BY <1>1, OutcomeStart, PathInvariant, PTL DEF Spec, ImplementsOutcome, Promise!OutcomeSpec
=============================================================================
