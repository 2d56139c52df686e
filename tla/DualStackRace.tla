--------------------------- MODULE DualStackRace ---------------------------
(***************************************************************************)
(* directDualStackDialContext (component/dialer/dialer.go): the A and AAAA *)
(* lookups overlap with the connects they lead to.  Without a preference   *)
(* the family that answers first starts and the other joins under the      *)
(* ipv6-timeout budget; with one, both start at once and a connection of   *)
(* the other family is held.                                               *)
(***************************************************************************)
EXTENDS DialAttempts, TLAPS

Families == {4, 6}

VARIABLES
  prefer,     \* opt.prefer: 0, 4 or 6
  cancelled,  \* the caller's context is done
  place,      \* the function that waits: see Places
  heard,      \* families whose lookup the loop has received
  answer,     \* addresses the lookups gave
  kept,       \* directIPv6First has received the A answer and not used it
  timer,      \* the ipv6-timeout, or lookupTimer: "off", "running" or "over"
  window,     \* the preference timer
  abandoned,  \* preferredAbandoned
  result      \* "none", "conn", "error" or "cancelled"

vars == <<conn, prefer, cancelled, place, heard, answer, kept, timer, window, abandoned, result>>

Done == cancelled \/ result # "none"

Held == In({"held"})

Of(f) == {a \in Addrs : Family(a) = f}

Pending(f) == InFlight \cap Of(f)

Init ==
  /\ prefer \in {0} \cup Families
  /\ conn = [a \in Addrs |-> "idle"] /\ cancelled = FALSE
  /\ place = IF prefer = 0 THEN "lookups" ELSE "preferred"
  /\ heard = {} /\ answer = {} /\ kept = FALSE
  /\ timer = "off" /\ window = "off" /\ abandoned = FALSE /\ result = "none"

Goto(p) == place' = p /\ UNCHANGED <<result, abandoned, window>>

\* Return an error, closing what is held
Return(c, r) ==
  /\ conn' = Unheld(c) /\ result' = r
  /\ UNCHANGED <<place, abandoned, window>>

Give(c, a) ==
  /\ conn' = Unheld([c EXCEPT ![a] = "given"]) /\ result' = "conn"
  /\ UNCHANGED <<place, abandoned, window>>

\* waitDirectConnects, entered with the attempts c
Wait(c) ==
  IF \A a \in Addrs : c[a] \notin Unheard THEN Return(c, "error")
  ELSE conn' = c /\ Goto("wait")

Waiting == result = "none" /\ UNCHANGED <<prefer, cancelled>>

\* case <-ctx.Done() of every loop
CtxDone ==
  /\ Waiting /\ cancelled /\ Return(conn, "cancelled")
  /\ UNCHANGED <<heard, answer, kept, timer>>

Hear(f, ips) ==
  /\ f \notin heard /\ heard' = heard \cup {f} /\ answer' = answer \cup ips

\* directDualStackDialContext: the first usable answer decides who starts
FirstLookup(f, ips) ==
  /\ Waiting /\ place = "lookups" /\ Hear(f, ips)
  /\ CASE ips = {} /\ heard = {} -> conn' = conn /\ Goto("lookups") /\ UNCHANGED timer
       [] ips = {} /\ heard # {} -> Return(conn, "error") /\ UNCHANGED timer
       [] ips # {} /\ heard # {} -> Wait(Started(ips)) /\ UNCHANGED timer
       [] OTHER -> /\ conn' = Started(ips)
                   /\ Goto(IF f = 4 THEN "IPv4First" ELSE "IPv6First")
                   /\ timer' = "running"
  /\ UNCHANGED kept

\* Mutant: an empty AAAA answer leaves directIPv4First where it is
MutantJoinV6(ips) ==
  /\ Waiting /\ place = "IPv4First" /\ Hear(6, ips)
  /\ IF ips = {} THEN conn' = conn /\ Goto(place) ELSE Wait(Started(ips))
  /\ UNCHANGED <<kept, timer>>

\* directIPv4First receives the AAAA answer
JoinV6(ips) ==
  /\ Waiting /\ place = "IPv4First" /\ Hear(6, ips)
  /\ Wait(Started(ips)) /\ UNCHANGED <<kept, timer>>

\* directIPv4First: AAAA's budget is over; with no IPv4 attempt left, keep waiting for it
V4Timeout ==
  /\ Waiting /\ place = "IPv4First" /\ timer = "running" /\ timer' = "over"
  /\ IF InFlight # {} THEN Wait(conn) ELSE conn' = conn /\ Goto("IPv4First")
  /\ UNCHANGED <<heard, answer, kept>>

\* directIPv4Fallback, entered with the attempts c and the A answer ips
Fallback(c, ips) == Wait([a \in Addrs |-> IF a \in ips THEN "dialing" ELSE c[a]])

\* directIPv6First: every IPv6 attempt failed, or the budget is over
EnterFallback(c) == IF kept THEN Fallback(c, answer \cap Of(4)) ELSE conn' = c /\ Goto("IPv4Fallback")

\* directIPv6First keeps the A answer back; directIPv4Fallback uses it
HearV4(ips) ==
  /\ Waiting /\ place \in {"IPv6First", "IPv4Fallback"} /\ Hear(4, ips)
  /\ IF place = "IPv6First" THEN conn' = conn /\ kept' = TRUE /\ Goto(place)
     ELSE Fallback(conn, ips) /\ UNCHANGED kept
  /\ UNCHANGED timer

V6Timeout ==
  /\ Waiting /\ place = "IPv6First" /\ timer = "running" /\ timer' = "over"
  /\ EnterFallback(conn)
  /\ UNCHANGED <<heard, answer, kept>>

\* case result := <-connects, without a preference
Receive(a) ==
  /\ Waiting /\ place \in {"IPv4First", "IPv6First", "IPv4Fallback", "wait"} /\ conn[a] \in Offers
  /\ IF conn[a] = "ready" THEN Give(conn, a)
     ELSE LET c == [conn EXCEPT ![a] = Spent(@)] IN
          CASE place = "wait" -> Wait(c)
            [] place = "IPv6First" /\ InFlight = {a} -> EnterFallback(c)
            [] OTHER -> conn' = c /\ Goto(place)
  /\ UNCHANGED <<heard, answer, kept, timer>>

(***************************************************************************)
(* directPreferredDialContext.  preferredFailed and fallbackFailed follow  *)
(* from the lookups heard and the attempts left.                           *)
(***************************************************************************)
Other == 10 - prefer

PreferredFailed(c, h) == prefer \in h /\ ~abandoned /\ \A a \in Of(prefer) : c[a] \notin Unheard

FallbackFailed(c, h) == Other \in h /\ \A a \in Of(Other) : c[a] \notin Unheard \cup {"held"}

\* The checks at the top of the loop, with the attempts c and the lookups h
PreferredTop(c, h, gone) ==
  /\ abandoned' = gone /\ UNCHANGED place
  /\ LET over == gone \/ PreferredFailed(c, h)
         held == {a \in Addrs : c[a] = "held"}
     IN CASE over /\ held # {} -> result' = "conn" /\ \E a \in held : conn' = [c EXCEPT ![a] = "given"]
          [] over /\ held = {} /\ FallbackFailed(c, h) -> result' = "error" /\ conn' = c
          [] OTHER -> result' = "none" /\ conn' = c

\* case result := <-lookups
PreferredLookup(f, ips) ==
  /\ Waiting /\ place = "preferred" /\ Hear(f, ips)
  /\ window' = IF f = prefer /\ ips # {} /\ ~abandoned THEN "running" ELSE window
  /\ timer' = IF f = prefer THEN (IF timer = "running" THEN "off" ELSE timer)
              ELSE IF ips # {} /\ prefer \notin heard THEN "running" ELSE timer
  /\ PreferredTop(IF f = prefer /\ abandoned THEN conn ELSE Started(ips), heard', abandoned)
  /\ UNCHANGED kept

\* Mutant: the first connection wins, whatever its family
MutantPreferredReceive(a) ==
  /\ Waiting /\ place = "preferred" /\ conn[a] \in Offers
  /\ IF conn[a] = "ready" THEN Give(conn, a)
     ELSE PreferredTop([conn EXCEPT ![a] = Spent(@)], heard, abandoned) /\ UNCHANGED window
  /\ UNCHANGED <<heard, answer, kept, timer>>

\* case result := <-connects
PreferredReceive(a) ==
  /\ Waiting /\ place = "preferred" /\ conn[a] \in Offers
  /\ CASE conn[a] = "ready" /\ Family(a) = prefer -> Give(conn, a)
       [] conn[a] = "ready" /\ Family(a) # prefer ->
            LET c == [conn EXCEPT ![a] = IF Held = {} THEN "held" ELSE "closed"] IN
            IF window = "over" THEN Give(c, a)
            ELSE PreferredTop(c, heard, abandoned) /\ UNCHANGED window
       [] OTHER -> PreferredTop([conn EXCEPT ![a] = Spent(@)], heard, abandoned) /\ UNCHANGED window
  /\ UNCHANGED <<heard, answer, kept, timer>>

\* case <-lookupTimeout
PreferredAbandoned ==
  /\ Waiting /\ place = "preferred" /\ timer = "running" /\ timer' = "over"
  /\ PreferredTop(conn, heard, TRUE)
  /\ UNCHANGED <<heard, answer, kept, window>>

\* case <-preferenceTimeout
PreferenceExpires ==
  /\ Waiting /\ place = "preferred" /\ window = "running" /\ window' = "over"
  /\ IF Held = {} THEN UNCHANGED <<conn, result>>
     ELSE result' = "conn" /\ \E a \in Held : conn' = [conn EXCEPT ![a] = "given"]
  /\ UNCHANGED <<heard, answer, kept, timer, place, abandoned>>

Cancel ==
  /\ ~cancelled /\ result = "none" /\ cancelled' = TRUE
  /\ UNCHANGED <<conn, prefer, place, heard, answer, kept, timer, window, abandoned, result>>

Attempt(a) ==
  /\ Dial(a, Done) \/ Discard(a, Done)
  /\ UNCHANGED <<prefer, cancelled, place, heard, answer, kept, timer, window, abandoned, result>>

Lookup(f) ==
  \E ips \in SUBSET Of(f) :
    FirstLookup(f, ips) \/ PreferredLookup(f, ips) \/ (f = 6 /\ JoinV6(ips)) \/ (f = 4 /\ HearV4(ips))

Timers == V4Timeout \/ V6Timeout \/ PreferredAbandoned \/ PreferenceExpires

Results == \E a \in Addrs : Receive(a) \/ PreferredReceive(a)

Next ==
  \/ CtxDone \/ Timers \/ Results \/ Cancel
  \/ \E f \in Families : Lookup(f)
  \/ \E a \in Addrs : Attempt(a)
  \/ result # "none" /\ UNCHANGED vars

(***************************************************************************)
(* A failure that is not a cancellation means that both families' answers  *)
(* were awaited, and every address dialled and refused.  Two answers are   *)
(* not awaited: the preferred family's when its lookup overran its budget, *)
(* and AAAA when the budget ended while an IPv4 attempt was running; once  *)
(* every IPv4 attempt has failed, the budget ends nothing.                 *)
(***************************************************************************)
FailureMeansAllTried ==
  result = "error" /\ ~cancelled =>
    /\ \A a \in answer : conn[a] = "failed" \/ (abandoned /\ Family(a) = prefer)
    /\ \/ heard = Families \/ abandoned
       \/ heard = {4} /\ timer = "over" /\ place = "wait"

(***************************************************************************)
(* With a preference the other family's connection is returned only after  *)
(* the preference window, after the preferred lookup overran its budget,   *)
(* or when every preferred address failed.                                 *)
(***************************************************************************)
PreferenceHonoured ==
  prefer # 0 /\ window # "over" /\ ~abandoned /\ ~cancelled =>
    \A a \in In({"given"}) :
      \/ Family(a) = prefer
      \/ prefer \in heard /\ \A b \in Of(prefer) \cap answer : conn[b] = "failed"
-----------------------------------------------------------------------------
(***************************************************************************)
(* Proofs, for every set of addresses.                                     *)
(***************************************************************************)

\* The states of attempts nobody has cancelled
Live == {"idle", "dialing", "ready", "refused", "held", "closed", "failed"}

Racing == result = "none" /\ ~cancelled

Outcomes == {"none", "conn", "error", "cancelled"}

\* dialContext returned, or the attempt gave up.
LEMMA AttemptMoves ==
  ASSUME conn \in [Addrs -> States], NEW a \in Addrs, Dial(a, Done) \/ Discard(a, Done)
  PROVE  /\ conn' \in [Addrs -> States]
         /\ \A b \in Addrs : b # a => conn'[b] = conn[b]
         /\ conn[a] \in {"dialing", "ready", "refused", "aborted"}
         /\ conn'[a] \in {"ready", "refused"} \/ (Done /\ conn'[a] \in {"aborted", "shut", "quit"})
BY DEF States, Dial, Discard, Offers

\* While the race goes on: what each function that waits knows
DualLive ==
  /\ \A a \in Addrs : conn[a] \in Live
  /\ \A a \in Addrs : a \notin answer => conn[a] = "idle"
  /\ place = "lookups" => answer = {} /\ kept = FALSE /\ heard \in {{}, {4}, {6}}
  /\ place = "IPv4First" => heard = {4} /\ \A a \in answer : conn[a] # "idle"
  /\ place = "IPv6First" =>
       /\ heard = IF kept THEN Families ELSE {6}
       /\ \A a \in answer : (~kept \/ Family(a) = 6) => Family(a) = 6 /\ conn[a] # "idle"
  /\ place = "IPv4Fallback" => heard = {6} /\ \A a \in answer : conn[a] # "idle"
  /\ place = "wait" => (heard = Families \/ (heard = {4} /\ timer = "over")) /\ \A a \in answer : conn[a] # "idle"
  /\ place # "preferred" => \A a \in Addrs : conn[a] \notin {"held", "closed"}
  /\ place = "preferred" =>
       /\ \A a \in answer : conn[a] = "idle" => abandoned /\ Family(a) = prefer
       /\ \A a \in Addrs : conn[a] = "closed" => \E b \in Addrs : conn[b] = "held"
       /\ \A a \in Addrs : conn[a] \in {"held", "closed"} => Family(a) # prefer

DualGood == FailureMeansAllTried /\ PreferenceHonoured

Places == {"lookups", "IPv4First", "IPv6First", "IPv4Fallback", "wait", "preferred"}

DualInv ==
  /\ conn \in [Addrs -> States] /\ result \in Outcomes
  /\ answer \subseteq Addrs /\ heard \subseteq Families
  /\ place \in Places /\ prefer \in {0, 4, 6} /\ (place = "preferred" <=> prefer # 0)
  /\ Racing => DualLive
  /\ DualGood

\* The initial states.
LEMMA DualInit == Init => DualInv
<1>. SUFFICES ASSUME Init PROVE DualInv
  OBVIOUS
<1>1. /\ conn = [a \in Addrs |-> "idle"] /\ result = "none" /\ answer = {} /\ heard = {} /\ kept = FALSE
      /\ prefer \in {0, 4, 6} /\ place = IF prefer = 0 THEN "lookups" ELSE "preferred"
  BY DEF Init, Families
<1>2. conn \in [Addrs -> States] /\ result \in Outcomes /\ answer \subseteq Addrs /\ heard \subseteq Families
  BY <1>1 DEF States, Live, Outcomes
<1>3. place \in Places /\ (place = "preferred" <=> prefer # 0)
  BY <1>1 DEF Places
<1>4. DualLive
  BY <1>1 DEF DualLive, Live
<1>5. DualGood
  BY <1>1 DEF DualGood, FailureMeansAllTried, PreferenceHonoured, In
<1>. QED BY <1>1, <1>2, <1>3, <1>4, <1>5 DEF DualInv

\* An attempt moves on its own.
LEMMA DualAttempt ==
  ASSUME DualInv, NEW a \in Addrs, Attempt(a)
  PROVE  DualInv'
<1>1. UNCHANGED <<prefer, cancelled, place, heard, answer, kept, timer, window, abandoned, result>>
  BY DEF Attempt
<1>2. conn \in [Addrs -> States]
  BY DEF DualInv
<1>3. /\ conn' \in [Addrs -> States]
      /\ \A b \in Addrs : b # a => conn'[b] = conn[b]
      /\ conn[a] \in {"dialing", "ready", "refused", "aborted"}
      /\ conn'[a] \in {"ready", "refused"} \/ (Done /\ conn'[a] \in {"aborted", "shut", "quit"})
  BY <1>2, AttemptMoves DEF Attempt
<1>4. ASSUME Racing PROVE DualLive'
  <2>1. DualLive /\ conn'[a] \in {"ready", "refused"}
    BY <1>3, <1>4 DEF DualInv, Racing, Done
  <2>2. \A b \in Addrs : /\ conn'[b] \in Live
                         /\ conn'[b] = "idle" <=> conn[b] = "idle"
                         /\ conn'[b] = "held" <=> conn[b] = "held"
                         /\ conn'[b] = "closed" <=> conn[b] = "closed"
    BY <1>3, <2>1 DEF DualLive, Live
  <2>3. answer \subseteq Addrs
    BY DEF DualInv
  <2>. QED BY <1>1, <2>1, <2>2, <2>3 DEF DualLive, Family
<1>5. DualGood'
  <2>1. \A b \in Addrs : /\ conn[b] = "failed" => conn'[b] = "failed"
                         /\ conn'[b] = "given" => conn[b] = "given"
    BY <1>3
  <2>2. answer \subseteq Addrs /\ FailureMeansAllTried /\ PreferenceHonoured
    BY DEF DualInv, DualGood
  <2>3. FailureMeansAllTried'
    BY <1>1, <2>1, <2>2 DEF FailureMeansAllTried, Family, Families
  <2>4. PreferenceHonoured'
    BY <1>1, <2>1, <2>2 DEF PreferenceHonoured, Family, In, Of
  <2>. QED BY <2>3, <2>4 DEF DualGood
<1>. QED BY <1>1, <1>3, <1>4, <1>5 DEF DualInv, Racing

-----------------------------------------------------------------------------
\* Once the race is cancelled nothing is promised: the step only has to be typed.
LEMMA DualTyped ==
  ASSUME DualInv, cancelled', conn' \in [Addrs -> States], result' \in Outcomes,
         answer' \subseteq Addrs, heard' \subseteq Families, place' \in Places,
         prefer' = prefer, place' = "preferred" <=> prefer # 0
  PROVE  DualInv'
BY DEF DualInv, DualGood, Racing, FailureMeansAllTried, PreferenceHonoured

\* Nor is anything promised of a connection without a preference.
LEMMA DualGives ==
  ASSUME DualInv, conn' \in [Addrs -> States], result' = "conn",
         answer' \subseteq Addrs, heard' \subseteq Families, place' \in Places,
         UNCHANGED <<prefer, cancelled>>, place' = "preferred" <=> prefer # 0, PreferenceHonoured'
  PROVE  DualInv'
BY DEF DualInv, DualGood, Racing, FailureMeansAllTried, Outcomes

\* A step after which the race goes on
LEMMA DualGoesOn ==
  ASSUME DualInv, conn' \in [Addrs -> States], result' = "none",
         answer' \subseteq Addrs, heard' \subseteq Families, place' \in Places,
         UNCHANGED <<prefer, cancelled>>, place' = "preferred" <=> prefer # 0, ~cancelled, DualLive'
  PROVE  DualInv'
<1>1. \A a \in Addrs : conn'[a] # "given"
  BY DEF DualLive, Live
<1>. QED BY <1>1 DEF DualInv, DualGood, Racing, FailureMeansAllTried, PreferenceHonoured, In, Outcomes

\* waitDirectConnects, entered when every address of both answers was dialled
LEMMA DualWait ==
  ASSUME DualInv, NEW c \in [Addrs -> States], Wait(c),
         result = "none", prefer = 0, UNCHANGED <<prefer, cancelled>>,
         answer' \subseteq Addrs, heard' \subseteq Families,
         ~cancelled =>
           /\ \A a \in Addrs : c[a] \in Live \ {"held", "closed"}
           /\ \A a \in Addrs : a \in answer' <=> c[a] # "idle"
           /\ heard' = Families \/ (heard' = {4} /\ timer' = "over" /\ (place = "wait" \/ \E a \in Addrs : c[a] \in Unheard))
  PROVE  DualInv'
<1>0. place # "preferred" /\ place \in Places
  BY DEF DualInv
<1>1. CASE \A a \in Addrs : c[a] \notin Unheard
  <2>1. /\ conn' = [a \in Addrs |-> IF c[a] = "held" THEN "closed" ELSE c[a]]
        /\ result' = "error" /\ place' = place
    BY <1>1 DEF Wait, Return, Unheld
  <2>2. conn' \in [Addrs -> States]
    BY <2>1 DEF States, Live
  <2>3. CASE cancelled
    BY <1>0, <2>1, <2>2, <2>3, DualTyped DEF Outcomes
  <2>4. CASE ~cancelled
    <3>1. \A a \in Addrs : a \in answer' => conn'[a] = "failed"
      BY <1>1, <2>1, <2>4 DEF Live, Unheard, Offers
    <3>2. FailureMeansAllTried'
      BY <1>1, <2>1, <2>4, <3>1 DEF FailureMeansAllTried, Families
    <3>3. PreferenceHonoured'
      BY DEF PreferenceHonoured
    <3>. QED BY <1>0, <2>1, <2>2, <3>2, <3>3 DEF DualInv, DualGood, Racing, Outcomes
  <2>. QED BY <2>3, <2>4
<1>2. CASE ~(\A a \in Addrs : c[a] \notin Unheard)
  <2>1. conn' = c /\ place' = "wait" /\ result' = "none" /\ abandoned' = abandoned
    BY <1>2 DEF Wait, Goto
  <2>2. CASE cancelled
    BY <2>1, <2>2, DualTyped DEF Outcomes, Places
  <2>3. CASE ~cancelled
    <3>1. DualLive'
      BY <2>1, <2>3 DEF DualLive
    <3>. QED BY <2>1, <2>3, <3>1, DualGoesOn DEF Places
  <2>. QED BY <2>2, <2>3
<1>. QED BY <1>1, <1>2

\* There are two families.
LEMMA DualFamilies == \A a : Family(a) \in Families
BY DEF Family, Families

\* What start makes of the attempts.
LEMMA DualStarted ==
  ASSUME conn \in [Addrs -> States], NEW S
  PROVE  /\ Started(S) \in [Addrs -> States]
         /\ \A a \in Addrs : Started(S)[a] = IF a \in S /\ conn[a] = "idle" THEN "dialing" ELSE conn[a]
BY DEF Started, States, Live

\* The context of the caller ends a loop.
LEMMA DualCtxDone == ASSUME DualInv, CtxDone PROVE DualInv'
<1>1. /\ cancelled' /\ result' = "cancelled" /\ UNCHANGED <<prefer, place, heard, answer>>
      /\ conn' = [a \in Addrs |-> IF conn[a] = "held" THEN "closed" ELSE conn[a]]
  BY DEF CtxDone, Waiting, Return, Unheld
<1>2. conn' \in [Addrs -> States]
  BY <1>1 DEF DualInv, States, Live
<1>. QED BY <1>1, <1>2, DualTyped DEF DualInv, Outcomes

\* The first usable answer starts its family.
LEMMA DualFirstLookup ==
  ASSUME DualInv, NEW f \in Families, NEW ips \in SUBSET Of(f), FirstLookup(f, ips)
  PROVE  DualInv'
<1> DEFINE c == Started(ips)
<1>1. /\ result = "none" /\ UNCHANGED <<prefer, cancelled, kept>> /\ place = "lookups" /\ prefer = 0
      /\ f \notin heard /\ heard' = heard \cup {f} /\ answer' = answer \cup ips
  BY DEF FirstLookup, Waiting, Hear, DualInv
<1>2. /\ ips \subseteq Addrs /\ answer' \subseteq Addrs /\ heard' \subseteq Families
      /\ conn \in [Addrs -> States]
  BY <1>1 DEF DualInv, Of
<1>3. /\ c \in [Addrs -> States]
      /\ \A a \in Addrs : c[a] = IF a \in ips /\ conn[a] = "idle" THEN "dialing" ELSE conn[a]
  BY <1>2, DualStarted
<1>4. ~cancelled => /\ answer = {} /\ heard \in {{}, {4}, {6}} /\ kept = FALSE
                    /\ \A a \in Addrs : conn[a] = "idle"
  BY <1>1 DEF DualInv, Racing, DualLive
<1>5. ~cancelled => \A a \in Addrs : c[a] = IF a \in ips THEN "dialing" ELSE "idle"
  BY <1>3, <1>4
<1>a. /\ ips = {} /\ heard = {} => conn' = conn /\ Goto("lookups")
      /\ ips = {} /\ heard # {} => Return(conn, "error")
      /\ ips # {} /\ heard # {} => Wait(c)
      /\ ips # {} /\ heard = {} => conn' = c /\ Goto(IF f = 4 THEN "IPv4First" ELSE "IPv6First")
  BY DEF FirstLookup
<1> HIDE DEF c
<1>6. CASE ips = {} /\ heard = {}
  <2>1. conn' = conn /\ place' = "lookups" /\ result' = "none" /\ UNCHANGED abandoned
    BY <1>1, <1>6, <1>a DEF Goto
  <2>2. ASSUME ~cancelled PROVE DualLive'
    <3>1. heard' \in {{}, {4}, {6}} /\ answer' = {} /\ kept' = FALSE /\ \A a \in Addrs : conn'[a] = "idle"
      BY <1>1, <1>4, <1>6, <2>1, <2>2 DEF Families
    <3>. QED BY <2>1, <3>1 DEF DualLive, Live
  <2>3. place' \in Places /\ (place' = "preferred" <=> prefer # 0) /\ result' \in Outcomes
    BY <1>1, <2>1 DEF Places, Outcomes
  <2>. QED BY <1>1, <1>2, <2>1, <2>2, <2>3, DualTyped, DualGoesOn
<1>7. CASE ips = {} /\ heard # {}
  <2>1. /\ conn' = [a \in Addrs |-> IF conn[a] = "held" THEN "closed" ELSE conn[a]]
        /\ result' = "error" /\ place' = "lookups"
    BY <1>1, <1>7, <1>a DEF Return, Unheld
  <2>2. conn' \in [Addrs -> States]
    BY <1>2, <2>1 DEF States, Live
  <2>3. place' \in Places /\ (place' = "preferred" <=> prefer # 0) /\ result' \in Outcomes
    BY <1>1, <2>1 DEF Places, Outcomes
  <2>4. CASE cancelled
    BY <1>1, <1>2, <2>2, <2>3, <2>4, DualTyped
  <2>5. CASE ~cancelled
    <3>1. heard' = Families /\ answer' = {}
      BY <1>1, <1>4, <1>7, <2>5 DEF Families
    <3>2. DualGood'
      BY <1>1, <2>1, <3>1 DEF DualGood, FailureMeansAllTried, PreferenceHonoured, Families
    <3>. QED BY <1>1, <1>2, <2>1, <2>2, <2>3, <3>2 DEF DualInv, Racing
  <2>. QED BY <2>4, <2>5
<1>8. CASE ips # {} /\ heard # {}
  <2>1. ~cancelled => heard' = Families
    BY <1>1, <1>4, <1>8 DEF Families
  <2>2. ~cancelled => /\ \A a \in Addrs : c[a] \in Live \ {"held", "closed"}
                      /\ \A a \in Addrs : a \in answer' <=> c[a] # "idle"
    BY <1>1, <1>4, <1>5 DEF Live
  <2>. QED BY <1>1, <1>2, <1>3, <1>8, <1>a, <2>1, <2>2, DualWait
<1>9. CASE ips # {} /\ heard = {}
  <2>1. conn' = c /\ place' = (IF f = 4 THEN "IPv4First" ELSE "IPv6First") /\ result' = "none" /\ UNCHANGED abandoned
    BY <1>1, <1>9, <1>a DEF Goto
  <2>2. ASSUME ~cancelled PROVE DualLive'
    <3>1. heard' = {f} /\ answer' = ips /\ kept' = FALSE /\ \A a \in Addrs : conn'[a] = IF a \in ips THEN "dialing" ELSE "idle"
      BY <1>1, <1>4, <1>5, <1>9, <2>1, <2>2
    <3>2. \A a \in ips : a \in Addrs /\ Family(a) = f
      BY DEF Of
    <3>3. f = 4 \/ f = 6
      BY DEF Families
    <3>. QED BY <2>1, <3>1, <3>2, <3>3 DEF DualLive, Live, Family
  <2>3. place' \in Places /\ (place' = "preferred" <=> prefer # 0) /\ result' \in Outcomes
    BY <1>1, <2>1 DEF Places, Outcomes
  <2>. QED BY <1>1, <1>2, <1>3, <2>1, <2>2, <2>3, DualTyped, DualGoesOn
<1>. QED BY <1>6, <1>7, <1>8, <1>9

\* directIPv4First receives the AAAA answer.
LEMMA DualJoinV6 ==
  ASSUME DualInv, NEW ips \in SUBSET Of(6), JoinV6(ips)
  PROVE  DualInv'
<1> DEFINE c == Started(ips)
<1>1. /\ result = "none" /\ UNCHANGED <<prefer, cancelled>> /\ place = "IPv4First" /\ prefer = 0
      /\ heard' = heard \cup {6} /\ answer' = answer \cup ips /\ Wait(c)
  BY DEF JoinV6, Waiting, Hear, DualInv
<1>2. /\ ips \subseteq Addrs /\ answer' \subseteq Addrs /\ heard' \subseteq Families
      /\ conn \in [Addrs -> States]
  BY <1>1 DEF DualInv, Of, Families
<1>3. /\ c \in [Addrs -> States]
      /\ \A a \in Addrs : c[a] = IF a \in ips /\ conn[a] = "idle" THEN "dialing" ELSE conn[a]
  BY <1>2, DualStarted
<1> HIDE DEF c
<1>4. ~cancelled => /\ heard = {4} /\ \A a \in Addrs : a \in answer <=> conn[a] # "idle"
                    /\ \A a \in Addrs : conn[a] \in Live \ {"held", "closed"}
  BY <1>1 DEF DualInv, Racing, DualLive
<1>5. ~cancelled => /\ heard' = Families
                    /\ \A a \in Addrs : c[a] \in Live \ {"held", "closed"}
                    /\ \A a \in Addrs : a \in answer' <=> c[a] # "idle"
  BY <1>1, <1>3, <1>4 DEF Live, Families
<1>. QED BY <1>1, <1>2, <1>3, <1>5, DualWait

\* The budget of AAAA ends.
LEMMA DualV4Timeout == ASSUME DualInv, V4Timeout PROVE DualInv'
<1>1. /\ result = "none" /\ UNCHANGED <<prefer, cancelled, heard, answer, kept>> /\ place = "IPv4First" /\ prefer = 0
      /\ timer' = "over" /\ conn \in [Addrs -> States] /\ answer \subseteq Addrs /\ heard \subseteq Families
  BY DEF V4Timeout, Waiting, DualInv
<1>2. ~cancelled => DualLive
  BY <1>1 DEF DualInv, Racing
<1>3. CASE InFlight # {}
  <2>1. Wait(conn) /\ \E a \in Addrs : conn[a] \in Unheard
    BY <1>3 DEF V4Timeout, InFlight, In
  <2>2. ~cancelled => /\ heard' = {4}
                      /\ \A a \in Addrs : conn[a] \in Live \ {"held", "closed"}
                      /\ \A a \in Addrs : a \in answer' <=> conn[a] # "idle"
    BY <1>1, <1>2 DEF DualLive
  <2>. QED BY <1>1, <2>1, <2>2, DualWait
<1>4. CASE InFlight = {}
  <2>1. conn' = conn /\ place' = "IPv4First" /\ result' = "none" /\ UNCHANGED abandoned
    BY <1>1, <1>4 DEF V4Timeout, Goto
  <2>2. place' \in Places /\ (place' = "preferred" <=> prefer # 0) /\ result' \in Outcomes
    BY <1>1, <2>1 DEF Places, Outcomes
  <2>3. ~cancelled => DualLive'
    BY <1>1, <1>2, <2>1 DEF DualLive
  <2>. QED BY <1>1, <2>1, <2>2, <2>3, DualTyped, DualGoesOn
<1>. QED BY <1>3, <1>4

\* directIPv6First gives way to directIPv4Fallback.
LEMMA DualEnterFallback ==
  ASSUME DualInv, NEW c \in [Addrs -> States], EnterFallback(c),
         result = "none", place = "IPv6First", UNCHANGED <<prefer, cancelled, heard, answer, kept>>,
         ~cancelled => \A a \in Addrs : c[a] \in Live \ {"held", "closed"} /\ (c[a] = "idle" <=> conn[a] = "idle")
  PROVE  DualInv'
<1>1. prefer = 0 /\ answer \subseteq Addrs /\ heard \subseteq Families
  BY DEF DualInv
<1>2. ~cancelled => DualLive
  BY DEF DualInv, Racing
<1>3. CASE kept
  <2> DEFINE e == [a \in Addrs |-> IF a \in answer \cap Of(4) THEN "dialing" ELSE c[a]]
  <2>1. Wait(e)
    BY <1>3 DEF EnterFallback, Fallback
  <2>2. /\ e \in [Addrs -> States]
        /\ \A a \in Addrs : e[a] = IF a \in answer \cap Of(4) THEN "dialing" ELSE c[a]
    BY DEF States, Live
  <2> HIDE DEF e
  <2>3. ASSUME ~cancelled, NEW a \in Addrs
        PROVE  e[a] \in Live \ {"held", "closed"} /\ (a \in answer <=> e[a] # "idle")
    <3>1. a \in answer => Family(a) = 4 \/ c[a] # "idle"
      BY <1>2, <2>3, DualFamilies DEF DualLive, Families
    <3>2. a \notin answer => c[a] = "idle"
      BY <1>2, <2>3 DEF DualLive
    <3>3. a \in Of(4) <=> Family(a) = 4
      BY DEF Of
    <3>. QED BY <2>2, <2>3, <3>1, <3>2, <3>3 DEF Live
  <2>4. ~cancelled => heard' = Families
    BY <1>2, <1>3 DEF DualLive
  <2>. QED BY <1>1, <2>1, <2>2, <2>3, <2>4, DualWait
<1>4. CASE ~kept
  <2>1. conn' = c /\ place' = "IPv4Fallback" /\ result' = "none" /\ UNCHANGED abandoned
    BY <1>4 DEF EnterFallback, Goto
  <2>2. place' \in Places /\ (place' = "preferred" <=> prefer # 0) /\ result' \in Outcomes
    BY <1>1, <2>1 DEF Places, Outcomes
  <2>3. ASSUME ~cancelled PROVE DualLive'
    <3>1. heard = {6} /\ \A a \in answer : conn[a] # "idle"
      BY <1>2, <1>4, <2>3 DEF DualLive
    <3>2. \A a \in Addrs : a \notin answer => conn[a] = "idle"
      BY <1>2, <2>3 DEF DualLive
    <3>. QED BY <1>1, <2>1, <2>3, <3>1, <3>2 DEF DualLive
  <2>. QED BY <1>1, <2>1, <2>2, <2>3, DualTyped, DualGoesOn
<1>. QED BY <1>3, <1>4

\* The A answer of an IPv6-first dial.
LEMMA DualHearV4 ==
  ASSUME DualInv, NEW ips \in SUBSET Of(4), HearV4(ips)
  PROVE  DualInv'
<1>1. /\ result = "none" /\ UNCHANGED <<prefer, cancelled>> /\ place \in {"IPv6First", "IPv4Fallback"} /\ prefer = 0
      /\ 4 \notin heard /\ heard' = heard \cup {4} /\ answer' = answer \cup ips
  BY DEF HearV4, Waiting, Hear, DualInv
<1>2. /\ ips \subseteq Addrs /\ answer \subseteq Addrs /\ answer' \subseteq Addrs /\ heard' \subseteq Families
      /\ conn \in [Addrs -> States] /\ \A a \in ips : Family(a) = 4
  BY <1>1 DEF DualInv, Of, Families
<1>3. ~cancelled => DualLive
  BY <1>1 DEF DualInv, Racing
<1>4. CASE place = "IPv6First"
  <2>1. conn' = conn /\ kept' = TRUE /\ place' = "IPv6First" /\ result' = "none" /\ UNCHANGED abandoned
    BY <1>1, <1>4 DEF HearV4, Goto
  <2>2. place' \in Places /\ (place' = "preferred" <=> prefer # 0) /\ result' \in Outcomes
    BY <1>1, <2>1 DEF Places, Outcomes
  <2>3. ASSUME ~cancelled PROVE DualLive'
    <3>1. heard = {6} /\ ~kept
      BY <1>1, <1>3, <1>4, <2>3 DEF DualLive, Families
    <3>2. \A a \in answer : Family(a) = 6 /\ conn[a] # "idle"
      BY <1>3, <1>4, <2>3, <3>1 DEF DualLive
    <3>3. heard' = Families
      BY <1>1, <3>1 DEF Families
    <3>4. \A a \in Addrs : conn[a] \in Live \ {"held", "closed"} /\ (a \notin answer => conn[a] = "idle")
      BY <1>3, <1>4, <2>3 DEF DualLive
    <3>. QED BY <1>1, <1>2, <2>1, <3>2, <3>3, <3>4 DEF DualLive, Family
  <2>. QED BY <1>1, <1>2, <2>1, <2>2, <2>3, DualTyped, DualGoesOn
<1>5. CASE place = "IPv4Fallback"
  <2> DEFINE e == [a \in Addrs |-> IF a \in ips THEN "dialing" ELSE conn[a]]
  <2>1. Wait(e)
    BY <1>5 DEF HearV4, Fallback
  <2>2. /\ e \in [Addrs -> States]
        /\ \A a \in Addrs : e[a] = IF a \in ips THEN "dialing" ELSE conn[a]
    BY <1>2 DEF States, Live
  <2> HIDE DEF e
  <2>3. ASSUME ~cancelled, NEW a \in Addrs
        PROVE  e[a] \in Live \ {"held", "closed"} /\ (a \in answer' <=> e[a] # "idle")
    <3>1. /\ conn[a] \in Live \ {"held", "closed"} /\ (a \in answer <=> conn[a] # "idle")
      BY <1>3, <1>5, <2>3 DEF DualLive
    <3>. QED BY <1>1, <2>2, <3>1 DEF Live
  <2>4. ~cancelled => heard' = Families
    BY <1>1, <1>3, <1>5 DEF DualLive, Families
  <2>. QED BY <1>1, <1>2, <2>1, <2>2, <2>3, <2>4, DualWait
<1>. QED BY <1>1, <1>4, <1>5

\* The budget of the IPv6 attempts ends.
LEMMA DualV6Timeout == ASSUME DualInv, V6Timeout PROVE DualInv'
<1>1. /\ result = "none" /\ UNCHANGED <<prefer, cancelled, heard, answer, kept>> /\ place = "IPv6First"
      /\ conn \in [Addrs -> States] /\ EnterFallback(conn)
  BY DEF V6Timeout, Waiting, DualInv
<1>2. ~cancelled => \A a \in Addrs : conn[a] \in Live \ {"held", "closed"}
  BY <1>1 DEF DualInv, Racing, DualLive
<1>. QED BY <1>1, <1>2, DualEnterFallback

\* What becomes of an attempt that did not connect.
LEMMA DualSpent ==
  ASSUME conn \in [Addrs -> States], NEW a \in Addrs, conn[a] \in Offers, conn[a] # "ready",
         NEW c, c = [conn EXCEPT ![a] = Spent(conn[a])]
  PROVE  /\ c \in [Addrs -> States]
         /\ \A b \in Addrs : b # a => c[b] = conn[b]
         /\ conn[a] \in Live => c[a] = "failed"
<1>1. Spent(conn[a]) = IF conn[a] = "refused" THEN "failed" ELSE "dropped"
  BY DEF Spent, Offers
<1>2. conn[a] \in {"refused", "aborted"}
  BY DEF Offers
<1>. QED BY <1>1, <1>2 DEF States, Live

\* The connection given away is the only one.
LEMMA DualGive ==
  ASSUME NEW c \in [Addrs -> States], NEW a \in Addrs, Give(c, a)
  PROVE  /\ conn' \in [Addrs -> States] /\ result' = "conn" /\ UNCHANGED <<place, abandoned, window>>
         /\ \A b \in Addrs : conn'[b] = "given" => b = a \/ c[b] = "given"
BY DEF Give, Unheld, States, Live

\* A result, without a preference.
LEMMA DualReceive == ASSUME DualInv, NEW a \in Addrs, Receive(a) PROVE DualInv'
<1>1. /\ result = "none" /\ UNCHANGED <<prefer, cancelled, heard, answer, kept, timer>> /\ conn[a] \in Offers
      /\ place \in {"IPv4First", "IPv6First", "IPv4Fallback", "wait"} /\ prefer = 0
      /\ conn \in [Addrs -> States] /\ answer \subseteq Addrs /\ heard \subseteq Families
  BY DEF Receive, Waiting, DualInv
<1>2. ~cancelled => DualLive
  BY <1>1 DEF DualInv, Racing
<1>3. CASE conn[a] = "ready"
  <2>1. Give(conn, a)
    BY <1>3 DEF Receive
  <2>2. conn' \in [Addrs -> States] /\ result' = "conn" /\ UNCHANGED place
    BY <1>1, <2>1, DualGive
  <2>3. PreferenceHonoured'
    BY <1>1 DEF PreferenceHonoured
  <2>. QED BY <1>1, <2>2, <2>3, DualGives DEF DualInv
<1>4. CASE conn[a] # "ready"
  <2> DEFINE c == [conn EXCEPT ![a] = Spent(conn[a])]
  <2>1. c \in [Addrs -> States] /\ (\A b \in Addrs : b # a => c[b] = conn[b]) /\ (conn[a] \in Live => c[a] = "failed")
    BY <1>1, <1>4, DualSpent
  <2>2. /\ place = "wait" => Wait(c)
        /\ place = "IPv6First" /\ InFlight = {a} => EnterFallback(c)
        /\ place # "wait" /\ ~(place = "IPv6First" /\ InFlight = {a}) => conn' = c /\ Goto(place)
    BY <1>4 DEF Receive
  <2> HIDE DEF c
  <2>3. ASSUME ~cancelled, NEW b \in Addrs
        PROVE  c[b] \in Live \ {"held", "closed"} /\ (c[b] = "idle" <=> conn[b] = "idle")
    BY <1>1, <1>2, <2>1, <2>3 DEF DualLive, Live, Offers
  <2>4. CASE place = "wait"
    <3>1. ~cancelled => /\ \A b \in Addrs : b \in answer' <=> c[b] # "idle"
                        /\ heard' = Families \/ (heard' = {4} /\ timer' = "over")
      BY <1>1, <1>2, <2>3, <2>4 DEF DualLive
    <3>. QED BY <1>1, <2>1, <2>2, <2>3, <2>4, <3>1, DualWait
  <2>5. CASE place = "IPv6First" /\ InFlight = {a}
    BY <1>1, <2>1, <2>2, <2>3, <2>5, DualEnterFallback
  <2>6. CASE place # "wait" /\ ~(place = "IPv6First" /\ InFlight = {a})
    <3>1. conn' = c /\ place' = place /\ result' = "none" /\ UNCHANGED abandoned
      BY <1>1, <2>2, <2>6 DEF Goto
    <3>2. place' \in Places /\ (place' = "preferred" <=> prefer # 0) /\ result' \in Outcomes
      BY <1>1, <3>1 DEF Places, Outcomes
    <3>3. ASSUME ~cancelled PROVE DualLive'
      BY <1>1, <1>2, <2>3, <3>1, <3>3 DEF DualLive, Family
    <3>. QED BY <1>1, <2>1, <3>1, <3>2, <3>3, DualTyped, DualGoesOn
  <2>. QED BY <2>4, <2>5, <2>6
<1>. QED BY <1>3, <1>4

-----------------------------------------------------------------------------
\* With a preference: what the loop knows of the attempts c and the answers
PreferLive(c, ans, gone) ==
  /\ \A a \in Addrs : c[a] \in Live /\ (a \notin ans => c[a] = "idle")
  /\ \A a \in ans : c[a] = "idle" => gone /\ Family(a) = prefer
  /\ \A a \in Addrs : c[a] = "closed" => \E b \in Addrs : c[b] = "held"
  /\ \A a \in Addrs : c[a] \in {"held", "closed"} => Family(a) # prefer

\* What the invariant says of it.
LEMMA DualPreferLive ==
  ASSUME DualInv, place = "preferred", result = "none", ~cancelled
  PROVE  PreferLive(conn, answer, abandoned)
BY DEF DualInv, Racing, DualLive, PreferLive

\* The same after a step.
LEMMA DualPreferLiveNext ==
  ASSUME place' = "preferred", UNCHANGED prefer, PreferLive(conn', answer', abandoned')
  PROVE  DualLive'
BY DEF DualLive, PreferLive, Family

\* The checks at the top of directPreferredDialContext's loop.
LEMMA DualPreferredTop ==
  ASSUME DualInv, place = "preferred", result = "none", UNCHANGED <<prefer, cancelled>>,
         NEW c \in [Addrs -> States], NEW gone, PreferredTop(c, heard', gone),
         answer' \subseteq Addrs, heard' \subseteq Families,
         ~cancelled => PreferLive(c, answer', gone)
  PROVE  DualInv'
<1>1. /\ abandoned' = gone /\ place' = "preferred" /\ prefer \in {4, 6} /\ place' \in Places
  BY DEF PreferredTop, DualInv, Places
<1> DEFINE over == gone \/ PreferredFailed(c, heard')
           held == {a \in Addrs : c[a] = "held"}
<1>2. /\ over /\ held # {} => result' = "conn" /\ \E a \in held : conn' = [c EXCEPT ![a] = "given"]
      /\ over /\ held = {} /\ FallbackFailed(c, heard') => result' = "error" /\ conn' = c
      /\ ~(over /\ (held # {} \/ FallbackFailed(c, heard'))) => result' = "none" /\ conn' = c
  BY DEF PreferredTop
<1>3. ASSUME over, ~gone, ~cancelled
      PROVE  prefer \in heard' /\ \A b \in Of(prefer) \cap answer' : c[b] = "failed"
  <2>1. prefer \in heard' /\ \A b \in Of(prefer) : c[b] \notin Unheard
    BY <1>3 DEF PreferredFailed
  <2>2. ASSUME NEW b \in Of(prefer) \cap answer' PROVE c[b] = "failed"
    <3>1. b \in Addrs /\ Family(b) = prefer
      BY DEF Of
    <3>2. c[b] \in Live /\ c[b] # "idle" /\ c[b] \notin {"held", "closed"}
      BY <1>3, <2>2, <3>1 DEF PreferLive
    <3>. QED BY <2>1, <3>2 DEF Live, Unheard, Offers
  <2>. QED BY <2>1, <2>2
<1> HIDE DEF over
<1>4. CASE over /\ held # {}
  <2>1. PICK a \in held : conn' = [c EXCEPT ![a] = "given"]
    BY <1>2, <1>4
  <2>2. a \in Addrs /\ c[a] = "held" /\ result' = "conn"
    BY <1>2, <1>4
  <2>3. conn' \in [Addrs -> States]
    BY <2>1 DEF States
  <2>4. ASSUME ~cancelled, ~gone PROVE PreferenceHonoured'
    <3>1. \A b \in Of(prefer) \cap answer' : conn'[b] = "failed"
      <4>. TAKE b \in Of(prefer) \cap answer'
      <4>1. c[b] = "failed" /\ b \in Addrs
        BY <1>3, <1>4, <2>4 DEF Of
      <4>. QED BY <2>1, <2>2, <4>1
    <3>2. prefer \in heard'
      BY <1>3, <1>4, <2>4
    <3>. QED BY <3>1, <3>2 DEF PreferenceHonoured, Of, Family
  <2>5. ~cancelled => PreferenceHonoured'
    BY <1>1, <2>4 DEF PreferenceHonoured
  <2>. QED BY <1>1, <2>2, <2>3, <2>5, DualTyped, DualGives DEF Outcomes
<1>5. CASE over /\ held = {} /\ FallbackFailed(c, heard')
  <2>1. result' = "error" /\ conn' = c
    BY <1>2, <1>5
  <2>2. CASE cancelled
    BY <1>1, <2>1, <2>2, DualTyped DEF Outcomes
  <2>3. CASE ~cancelled
    <3>1. PreferLive(c, answer', gone)
      BY <2>3
    <3>2. Other \in heard' /\ \A a \in Of(Other) : c[a] \notin Unheard
      BY <1>5 DEF FallbackFailed
    <3>3. Other = IF prefer = 4 THEN 6 ELSE 4
      BY <1>1 DEF Other
    <3>4. ASSUME NEW a \in answer' PROVE c[a] = "failed" \/ (gone /\ Family(a) = prefer)
      <4>0. a \in Addrs /\ c[a] \in Live /\ c[a] \notin {"held", "closed"}
        BY <1>5, <3>1 DEF PreferLive
      <4>1. CASE Family(a) = prefer
        <5>1. ~gone => c[a] = "failed"
          BY <1>3, <1>5, <2>3, <4>0, <4>1 DEF Of
        <5>. QED BY <4>1, <5>1
      <4>2. CASE Family(a) # prefer
        <5>1. Family(a) = Other
          BY <1>1, <3>3, <4>2, DualFamilies DEF Families
        <5>2. c[a] \notin Unheard
          BY <3>2, <4>0, <5>1 DEF Of
        <5>3. c[a] # "idle"
          BY <3>1, <4>2 DEF PreferLive
        <5>. QED BY <4>0, <5>2, <5>3 DEF Live, Unheard, Offers
      <4>. QED BY <4>1, <4>2
    <3>5. heard' = Families \/ gone
      <4>1. ~gone => prefer \in heard'
        BY <1>3, <1>5, <2>3
      <4>. QED BY <1>1, <3>2, <3>3, <4>1 DEF Families
    <3>6. FailureMeansAllTried'
      BY <1>1, <2>1, <3>4, <3>5 DEF FailureMeansAllTried, Families, Family
    <3>7. PreferenceHonoured'
      BY <2>1, <3>1 DEF PreferenceHonoured, In, PreferLive, Live
    <3>. QED BY <1>1, <2>1, <3>6, <3>7 DEF DualInv, DualGood, Racing, Outcomes
  <2>. QED BY <2>2, <2>3
<1>6. CASE ~(over /\ (held # {} \/ FallbackFailed(c, heard')))
  <2>1. result' = "none" /\ conn' = c
    BY <1>2, <1>6
  <2>2. ~cancelled => DualLive'
    BY <1>1, <2>1, DualPreferLiveNext
  <2>. QED BY <1>1, <2>1, <2>2, DualTyped, DualGoesOn DEF Outcomes
<1>. QED BY <1>4, <1>5, <1>6

\* A lookup's answer, with a preference.
LEMMA DualPreferredLookup ==
  ASSUME DualInv, NEW f \in Families, NEW ips \in SUBSET Of(f), PreferredLookup(f, ips)
  PROVE  DualInv'
<1> DEFINE c == IF f = prefer /\ abandoned THEN conn ELSE Started(ips)
<1>1. /\ result = "none" /\ UNCHANGED <<prefer, cancelled>> /\ place = "preferred"
      /\ heard' = heard \cup {f} /\ answer' = answer \cup ips
      /\ PreferredTop(c, heard', abandoned)
  BY DEF PreferredLookup, Waiting, Hear
<1>2. /\ ips \subseteq Addrs /\ answer \subseteq Addrs /\ answer' \subseteq Addrs /\ heard' \subseteq Families
      /\ conn \in [Addrs -> States] /\ \A a \in ips : Family(a) = f
  BY <1>1 DEF DualInv, Of, Families
<1>3. /\ c \in [Addrs -> States]
      /\ \A a \in Addrs : c[a] = IF ~(f = prefer /\ abandoned) /\ a \in ips /\ conn[a] = "idle" THEN "dialing" ELSE conn[a]
  BY <1>2, DualStarted
<1> HIDE DEF c
<1>4. ASSUME ~cancelled PROVE PreferLive(c, answer', abandoned)
  <2>1. PreferLive(conn, answer, abandoned)
    BY <1>1, <1>4, DualPreferLive
  <2>2. \A a \in Addrs : /\ c[a] \in Live /\ (a \notin answer' => c[a] = "idle")
                         /\ c[a] = "closed" => conn[a] = "closed"
                         /\ c[a] = "held" <=> conn[a] = "held"
    BY <1>1, <1>3, <2>1 DEF PreferLive, Live
  <2>3. \A a \in answer' : c[a] = "idle" => abandoned /\ Family(a) = prefer
    BY <1>1, <1>2, <1>3, <2>1 DEF PreferLive
  <2>. QED BY <2>1, <2>2, <2>3 DEF PreferLive
<1>. QED BY <1>1, <1>2, <1>3, <1>4, DualPreferredTop

\* A result, with a preference.
LEMMA DualPreferredReceive == ASSUME DualInv, NEW a \in Addrs, PreferredReceive(a) PROVE DualInv'
<1>1. /\ result = "none" /\ UNCHANGED <<prefer, cancelled, heard, answer>> /\ conn[a] \in Offers
      /\ place = "preferred" /\ conn \in [Addrs -> States] /\ answer \subseteq Addrs /\ heard \subseteq Families
  BY DEF PreferredReceive, Waiting, DualInv
<1>2. ~cancelled => PreferLive(conn, answer, abandoned)
  BY <1>1, DualPreferLive
<1>3. ~cancelled => \A b \in Addrs : conn[b] # "given"
  BY <1>2 DEF PreferLive, Live
<1>4. CASE conn[a] = "ready" /\ Family(a) = prefer
  <2>1. Give(conn, a)
    BY <1>4 DEF PreferredReceive
  <2>2. /\ conn' \in [Addrs -> States] /\ result' = "conn" /\ UNCHANGED place
        /\ \A b \in Addrs : conn'[b] = "given" => b = a \/ conn[b] = "given"
    BY <1>1, <2>1, DualGive
  <2>3. ~cancelled => PreferenceHonoured'
    BY <1>1, <1>3, <1>4, <2>2 DEF PreferenceHonoured, In, Family
  <2>. QED BY <1>1, <2>2, <2>3, DualTyped, DualGives DEF DualInv, Outcomes
<1>5. CASE conn[a] = "ready" /\ Family(a) # prefer
  <2> DEFINE c == [conn EXCEPT ![a] = IF Held = {} THEN "held" ELSE "closed"]
  <2>1. IF window = "over" THEN Give(c, a) ELSE PreferredTop(c, heard, abandoned) /\ UNCHANGED window
    BY <1>5 DEF PreferredReceive
  <2>2. /\ c \in [Addrs -> States] /\ \A b \in Addrs : b # a => c[b] = conn[b]
        /\ c[a] = IF Held = {} THEN "held" ELSE "closed"
    BY <1>1 DEF States, Live
  <2> HIDE DEF c
  <2>3. CASE window = "over"
    <3>1. conn' \in [Addrs -> States] /\ result' = "conn" /\ UNCHANGED <<place, window>>
      BY <2>1, <2>2, <2>3, DualGive
    <3>2. PreferenceHonoured'
      BY <2>3, <3>1 DEF PreferenceHonoured
    <3>. QED BY <1>1, <3>1, <3>2, DualGives DEF DualInv
  <2>4. CASE window # "over"
    <3>1. ASSUME ~cancelled PROVE PreferLive(c, answer', abandoned)
      <4>1. PreferLive(conn, answer, abandoned)
        BY <1>2, <3>1
      <4>2. /\ \A b \in Addrs : c[b] \in Live /\ (b \notin answer' => c[b] = "idle")
            /\ \A b \in answer' : c[b] = "idle" => conn[b] = "idle"
            /\ \A b \in Addrs : c[b] \in {"held", "closed"} => Family(b) # prefer
        BY <1>1, <1>5, <2>2, <4>1 DEF PreferLive, Live
      <4>3. \E b \in Addrs : c[b] = "held" \/ \A d \in Addrs : c[d] # "closed"
        <5>1. CASE Held = {}
          BY <2>2, <5>1
        <5>2. CASE Held # {}
          <6>1. PICK b \in Addrs : conn[b] = "held"
            BY <5>2 DEF Held, In
          <6>. QED BY <1>5, <2>2, <6>1
        <5>. QED BY <5>1, <5>2
      <4>. QED BY <1>1, <4>1, <4>2, <4>3 DEF PreferLive
    <3>. QED BY <1>1, <2>1, <2>2, <2>4, <3>1, DualPreferredTop
  <2>. QED BY <2>3, <2>4
<1>6. CASE conn[a] # "ready"
  <2> DEFINE c == [conn EXCEPT ![a] = Spent(conn[a])]
  <2>1. PreferredTop(c, heard, abandoned)
    BY <1>6 DEF PreferredReceive
  <2>2. c \in [Addrs -> States] /\ (\A b \in Addrs : b # a => c[b] = conn[b]) /\ (conn[a] \in Live => c[a] = "failed")
    BY <1>1, <1>6, DualSpent
  <2> HIDE DEF c
  <2>3. ASSUME ~cancelled PROVE PreferLive(c, answer', abandoned)
    <3>1. PreferLive(conn, answer, abandoned)
      BY <1>2, <2>3
    <3>2. /\ conn[a] \notin {"idle", "held", "closed"} /\ c[a] = "failed" /\ a \in answer
      BY <1>1, <2>2, <3>1 DEF PreferLive, Offers
    <3>3. \A b \in Addrs : /\ c[b] \in Live
                           /\ c[b] = "idle" <=> conn[b] = "idle"
                           /\ c[b] = "held" <=> conn[b] = "held"
                           /\ c[b] = "closed" <=> conn[b] = "closed"
      BY <2>2, <3>1, <3>2 DEF PreferLive, Live
    <3>. QED BY <1>1, <3>1, <3>3 DEF PreferLive
  <2>. QED BY <1>1, <2>1, <2>2, <2>3, DualPreferredTop
<1>. QED BY <1>4, <1>5, <1>6

\* The preferred lookup overruns its budget.
LEMMA DualPreferredAbandoned == ASSUME DualInv, PreferredAbandoned PROVE DualInv'
<1>1. /\ result = "none" /\ UNCHANGED <<prefer, cancelled, heard, answer>>
      /\ place = "preferred" /\ conn \in [Addrs -> States] /\ answer \subseteq Addrs /\ heard \subseteq Families
      /\ PreferredTop(conn, heard, TRUE)
  BY DEF PreferredAbandoned, Waiting, DualInv
<1>2. ~cancelled => PreferLive(conn, answer', TRUE)
  BY <1>1, DualPreferLive DEF PreferLive
<1>. QED BY <1>1, <1>2, DualPreferredTop

\* The preference window ends.
LEMMA DualPreferenceExpires == ASSUME DualInv, PreferenceExpires PROVE DualInv'
<1>1. /\ result = "none" /\ UNCHANGED <<prefer, cancelled, heard, answer, kept, timer, place, abandoned>> /\ window' = "over"
      /\ place = "preferred" /\ conn \in [Addrs -> States] /\ answer \subseteq Addrs /\ heard \subseteq Families
      /\ place \in Places /\ prefer # 0
  BY DEF PreferenceExpires, Waiting, DualInv
<1>2. CASE Held = {}
  <2>1. UNCHANGED <<conn, result>>
    BY <1>2 DEF PreferenceExpires
  <2>2. ~cancelled => DualLive'
    BY <1>1, <2>1, DualPreferLive, DualPreferLiveNext
  <2>. QED BY <1>1, <2>1, <2>2, DualTyped, DualGoesOn DEF Outcomes
<1>3. CASE Held # {}
  <2>1. result' = "conn" /\ \E a \in Held : conn' = [conn EXCEPT ![a] = "given"]
    BY <1>3 DEF PreferenceExpires
  <2>2. conn' \in [Addrs -> States]
    BY <1>1, <2>1 DEF States
  <2>3. PreferenceHonoured'
    BY <1>1 DEF PreferenceHonoured
  <2>. QED BY <1>1, <2>1, <2>2, <2>3, DualGives
<1>. QED BY <1>2, <1>3

\* The caller cancels.
LEMMA DualCancel == ASSUME DualInv, Cancel PROVE DualInv'
<1>1. cancelled' = TRUE /\ UNCHANGED <<conn, prefer, place, heard, answer, result>>
  BY DEF Cancel
<1>. QED BY <1>1, DualTyped DEF DualInv

\* Every step of the dual stack race keeps its invariant.
LEMMA DualStep == ASSUME DualInv, Next \/ UNCHANGED vars PROVE DualInv'
<1>1. ASSUME UNCHANGED <<conn, prefer, cancelled, place, heard, answer, kept, timer, window, abandoned, result>>
      PROVE  DualInv'
  <2>1. DualLive <=> DualLive'
    BY <1>1 DEF DualLive, Family
  <2>2. DualGood <=> DualGood'
    BY <1>1 DEF DualGood, FailureMeansAllTried, PreferenceHonoured, In, Of, Family
  <2>. QED BY <1>1, <2>1, <2>2 DEF DualInv, Racing
<1>3. CASE UNCHANGED vars
  BY <1>1, <1>3 DEF vars
<1>4. CASE CtxDone \/ Cancel
  BY <1>4, DualCtxDone, DualCancel
<1>5. CASE Timers
  BY <1>5, DualV4Timeout, DualV6Timeout, DualPreferredAbandoned, DualPreferenceExpires DEF Timers
<1>6. CASE Results
  BY <1>6, DualReceive, DualPreferredReceive DEF Results
<1>7. ASSUME NEW f \in Families, Lookup(f) PROVE DualInv'
  <2>1. PICK ips \in SUBSET Of(f) :
          \/ FirstLookup(f, ips) \/ PreferredLookup(f, ips)
          \/ (f = 6 /\ JoinV6(ips)) \/ (f = 4 /\ HearV4(ips))
    BY <1>7 DEF Lookup
  <2>2. CASE FirstLookup(f, ips)
    BY <2>2, DualFirstLookup
  <2>3. CASE PreferredLookup(f, ips)
    BY <2>3, DualPreferredLookup
  <2>4. CASE f = 6 /\ JoinV6(ips)
    BY <2>4, DualJoinV6
  <2>5. CASE f = 4 /\ HearV4(ips)
    BY <2>5, DualHearV4
  <2>. QED BY <2>1, <2>2, <2>3, <2>4, <2>5
<1>8. ASSUME NEW a \in Addrs, Attempt(a) PROVE DualInv'
  BY <1>8, DualAttempt
<1>. QED BY <1>3, <1>4, <1>5, <1>6, <1>7, <1>8 DEF Next
-----------------------------------------------------------------------------
(***************************************************************************)
(* What the steps do to the sockets.                                       *)
(***************************************************************************)

\* Until directIPv4Fallback uses the A answer, no IPv4 address was dialled
DualIdle ==
  result = "none" =>
    /\ place = "lookups" => \A a \in Addrs : conn[a] = "idle"
    /\ place \in {"IPv6First", "IPv4Fallback"} => \A a \in Of(4) : conn[a] = "idle"

DualPromise == KeepsPromise(conn, conn', Answer(result), Answer(result'))

\* The socket that goes with each state of an attempt.
LEMMA DualSockets ==
  /\ \A state \in {"ready", "held", "sending"} : Socket(state) = "open"
  /\ \A state \in {"closed", "shut"} : Socket(state) = "closed"
  /\ Socket("given") = "given"
  /\ \A state \in {"idle", "dialing", "refused", "aborted", "failed", "dropped", "quit"} : Socket(state) = "none"
BY DEF Socket

\* An attempt that moves opens its socket, closes it, or has none.
LEMMA DualAttemptKeeps ==
  ASSUME conn \in [Addrs -> States], NEW a \in Addrs, Dial(a, Done) \/ Discard(a, Done), UNCHANGED <<place, result>>, DualIdle
  PROVE  DualPromise /\ DualIdle'
<1>1. /\ \A b \in Addrs : b # a => conn'[b] = conn[b]
      /\ \/ conn[a] = "dialing" /\ conn'[a] \in {"ready", "refused", "aborted"}
         \/ conn[a] = "ready" /\ conn'[a] = "shut"
         \/ conn[a] \in {"refused", "aborted"} /\ conn'[a] = "quit"
  BY DEF Dial, Discard, Offers
<1>2. \A b \in Addrs : conn[b] = "idle" => conn'[b] = "idle"
  BY <1>1
<1>3. DualIdle'
  BY <1>2 DEF DualIdle, Of, Family
<1>4. CASE conn'[a] = "ready"
  <2>1. Socket(conn[a]) = "none" /\ Socket(conn'[a]) = "open"
    BY <1>1, <1>4, DualSockets
  <2>. QED BY <1>1, <1>3, <2>1 DEF DualPromise, KeepsPromise
<1>5. CASE conn'[a] # "ready"
  <2>1. Closes(conn[a], conn'[a])
    BY <1>1, <1>5, DualSockets DEF Closes
  <2>2. \A b \in Addrs : Closes(conn[b], conn'[b])
    BY <1>1, <2>1 DEF Closes
  <2>. QED BY <1>3, <2>2 DEF DualPromise, KeepsPromise
<1>. QED BY <1>4, <1>5

\* A return closes what is held.
LEMMA DualReturnKeeps ==
  ASSUME NEW c, NEW r \in {"error", "cancelled"}, result = "none", Return(c, r),
         \A b \in Addrs : Closes(conn[b], c[b])
  PROVE  DualPromise
<1>1. \A b \in Addrs : conn'[b] = IF c[b] = "held" THEN "closed" ELSE c[b]
  BY DEF Return, Unheld
<1>2. \A b \in Addrs : Closes(c[b], conn'[b])
  BY <1>1, DualSockets DEF Closes
<1>3. \A b \in Addrs : Closes(conn[b], conn'[b])
  BY <1>2 DEF Closes
<1>4. Answer(result) = "none" /\ Answer(result') = "error"
  BY DEF Return, Answer
<1>. QED BY <1>3, <1>4 DEF DualPromise, KeepsPromise

\* A step after which nobody was answered closes sockets at most.
LEMMA DualStays ==
  ASSUME result' = result, \A b \in Addrs : Closes(conn[b], conn'[b])
  PROVE  DualPromise
BY DEF DualPromise, KeepsPromise

\* waitDirectConnects
LEMMA DualWaitKeeps ==
  ASSUME NEW c, result = "none", Wait(c), \A b \in Addrs : Closes(conn[b], c[b])
  PROVE  DualPromise /\ DualIdle'
<1>1. CASE \A a \in Addrs : c[a] \notin Unheard
  <2>1. Return(c, "error")
    BY <1>1 DEF Wait
  <2>2. DualPromise
    BY <2>1, DualReturnKeeps
  <2>. QED BY <2>1, <2>2 DEF Return, DualIdle
<1>2. CASE ~(\A a \in Addrs : c[a] \notin Unheard)
  <2>1. conn' = c /\ place' = "wait" /\ result' = result
    BY <1>2 DEF Wait, Goto
  <2>2. DualPromise
    BY <2>1, DualStays
  <2>. QED BY <2>1, <2>2 DEF DualIdle
<1>. QED BY <1>1, <1>2

\* One open connection goes to the caller.
LEMMA DualGiveKeeps ==
  ASSUME NEW c, NEW a \in Addrs, NEW d \in [Addrs -> States], result = "none", result' = "conn",
         c = [d EXCEPT ![a] = "given"], conn' = c \/ conn' = Unheld(c),
         Socket(conn[a]) = "open", \A b \in Addrs : b # a => Closes(conn[b], d[b])
  PROVE  DualPromise /\ DualIdle'
<1>1. c[a] = "given" /\ \A b \in Addrs : b # a => c[b] = d[b]
  OBVIOUS
<1>2. \A b \in Addrs : conn'[b] = c[b] \/ (c[b] = "held" /\ conn'[b] = "closed")
  BY DEF Unheld
<1>3. \A b \in Addrs : Closes(c[b], conn'[b])
  BY <1>2, DualSockets DEF Closes
<1>4. \A b \in Addrs : b # a => Closes(conn[b], conn'[b])
  BY <1>1, <1>3 DEF Closes
<1>5. Socket(conn'[a]) = "given"
  BY <1>1, <1>2, DualSockets
<1>6. Answer(result) = "none" /\ Answer(result') = "conn"
  BY DEF Answer
<1>7. DualPromise
  BY <1>4, <1>5, <1>6 DEF DualPromise, KeepsPromise
<1>. QED BY <1>7 DEF DualIdle

\* start opens and closes nothing.
LEMMA DualStartedCloses == ASSUME NEW S, NEW b \in Addrs PROVE Closes(conn[b], Started(S)[b])
<1>1. Started(S)[b] = conn[b] \/ (conn[b] = "idle" /\ Started(S)[b] = "dialing")
  BY DEF Started
<1>. QED BY <1>1, DualSockets DEF Closes

\* What was offered and is not kept is closed.
LEMMA DualSpentCloses ==
  ASSUME conn \in [Addrs -> States], NEW a \in Addrs, conn[a] \in Offers, NEW c, c = [conn EXCEPT ![a] = Spent(conn[a])]
  PROVE  /\ c \in [Addrs -> States] /\ \A b \in Addrs : Closes(conn[b], c[b])
         /\ \A b \in Addrs : conn[b] = "idle" => c[b] = "idle"
<1>1. Spent(conn[a]) \in {"closed", "failed", "dropped"} /\ (Spent(conn[a]) = "closed" <=> conn[a] = "ready")
  BY DEF Spent, Offers
<1>2. Closes(conn[a], Spent(conn[a]))
  BY <1>1, DualSockets DEF Offers, Closes
<1>3. \A b \in Addrs : b # a => Closes(conn[b], c[b])
  BY DEF Closes
<1>4. c \in [Addrs -> States]
  BY <1>1 DEF States
<1>. QED BY <1>2, <1>3, <1>4 DEF Offers

\* The top of directPreferredDialContext's loop.
LEMMA DualTopKeeps ==
  ASSUME NEW c \in [Addrs -> States], NEW h, NEW gone, result = "none", place = "preferred", PreferredTop(c, h, gone),
         \A b \in Addrs : Closes(conn[b], c[b])
  PROVE  DualPromise /\ DualIdle'
<1>1. place' = place
  BY DEF PreferredTop
<1>2. DualIdle'
  BY <1>1 DEF DualIdle
<1>3. \/ result' = "conn" /\ \E a \in {b \in Addrs : c[b] = "held"} : conn' = [c EXCEPT ![a] = "given"]
      \/ result' \in {"error", "none"} /\ conn' = c
  BY DEF PreferredTop
<1>4. ASSUME result' = "conn", NEW a \in Addrs, c[a] = "held", conn' = [c EXCEPT ![a] = "given"] PROVE DualPromise
  <2>1. Socket(conn[a]) = "open"
    BY <1>4, DualSockets DEF Closes
  <2>. QED BY <1>4, <2>1, DualGiveKeeps
<1>5. CASE result' \in {"error", "none"} /\ conn' = c
  <2>1. \A b \in Addrs : Closes(conn[b], conn'[b])
    BY <1>5
  <2>2. CASE result' = result
    BY <1>2, <2>1, <2>2, DualStays
  <2>3. CASE result' = "error"
    <3>1. Answer(result) = "none" /\ Answer(result') = "error"
      BY <2>3 DEF Answer
    <3>. QED BY <1>2, <2>1, <3>1 DEF DualPromise, KeepsPromise
  <2>. QED BY <1>5, <2>2, <2>3
<1>. QED BY <1>2, <1>3, <1>4, <1>5

\* directIPv4Fallback
LEMMA DualFallbackKeeps ==
  ASSUME NEW c, NEW ips \in SUBSET Of(4), result = "none", Fallback(c, ips),
         \A b \in Addrs : Closes(conn[b], c[b]), \A b \in Of(4) : conn[b] = "idle"
  PROVE  DualPromise /\ DualIdle'
<1> DEFINE d == [a \in Addrs |-> IF a \in ips THEN "dialing" ELSE c[a]]
<1>1. Wait(d)
  BY DEF Fallback
<1>2. \A b \in ips : conn[b] = "idle"
  OBVIOUS
<1>3. \A b \in ips : Closes(conn[b], "dialing")
  BY <1>2, DualSockets DEF Closes
<1>4. \A b \in Addrs : Closes(conn[b], d[b])
  BY <1>3
<1> HIDE DEF d
<1>. QED BY <1>1, <1>4, DualWaitKeeps

\* directIPv6First gives way to directIPv4Fallback.
LEMMA DualEnterKeeps ==
  ASSUME NEW c \in [Addrs -> States], result = "none", EnterFallback(c),
         \A b \in Addrs : Closes(conn[b], c[b]), \A b \in Of(4) : conn[b] = "idle" /\ c[b] = "idle"
  PROVE  DualPromise /\ DualIdle'
<1>1. CASE kept
  <2>1. Fallback(c, answer \cap Of(4)) /\ answer \cap Of(4) \in SUBSET Of(4)
    BY <1>1 DEF EnterFallback
  <2>. QED BY <2>1, DualFallbackKeeps
<1>2. CASE ~kept
  <2>1. conn' = c /\ place' = "IPv4Fallback" /\ result' = result
    BY <1>2 DEF EnterFallback, Goto
  <2>2. DualPromise
    BY <2>1, DualStays
  <2>. QED BY <2>1, <2>2 DEF DualIdle, Of, Family
<1>. QED BY <1>1, <1>2

\* The lookups.
LEMMA DualLookupKeeps ==
  ASSUME DualInv, DualIdle, NEW f \in Families, Lookup(f)
  PROVE  DualPromise /\ DualIdle'
<1>1. PICK ips \in SUBSET Of(f) :
        \/ FirstLookup(f, ips) \/ PreferredLookup(f, ips)
        \/ (f = 6 /\ JoinV6(ips)) \/ (f = 4 /\ HearV4(ips))
  BY DEF Lookup
<1>2. conn \in [Addrs -> States] /\ \A S : Started(S) \in [Addrs -> States]
  BY DualStarted DEF DualInv
<1>3. \A b \in Addrs : Closes(conn[b], conn[b])
  BY DEF Closes
<1>4. CASE FirstLookup(f, ips)
  <2>1. result = "none" /\ place = "lookups" /\ \A a \in Addrs : conn[a] = "idle"
    BY <1>4 DEF FirstLookup, Waiting, DualIdle
  <2>2. CASE ips = {} /\ heard = {}
    <3>1. conn' = conn /\ place' = "lookups" /\ result' = result
      BY <1>4, <2>2 DEF FirstLookup, Goto
    <3>2. DualPromise
      BY <1>3, <3>1, DualStays
    <3>. QED BY <2>1, <3>1, <3>2 DEF DualIdle
  <2>3. CASE ips = {} /\ heard # {}
    <3>1. Return(conn, "error")
      BY <1>4, <2>3 DEF FirstLookup
    <3>2. DualPromise
      BY <1>3, <2>1, <3>1, DualReturnKeeps
    <3>. QED BY <3>1, <3>2 DEF DualIdle, Return
  <2>4. CASE ips # {} /\ heard # {}
    <3>1. Wait(Started(ips))
      BY <1>4, <2>4 DEF FirstLookup
    <3>. QED BY <2>1, <3>1, DualStartedCloses, DualWaitKeeps
  <2>5. CASE ips # {} /\ heard = {}
    <3>1. conn' = Started(ips) /\ place' = (IF f = 4 THEN "IPv4First" ELSE "IPv6First") /\ result' = result
      BY <1>4, <2>5 DEF FirstLookup, Goto
    <3>2. DualPromise
      BY <3>1, DualStartedCloses, DualStays
    <3>3. \A a \in Of(4) : f # 4 => Started(ips)[a] = "idle"
      BY <2>1 DEF Started, Of
    <3>4. DualIdle'
      BY <3>1, <3>3 DEF DualIdle, Of, Family
    <3>. QED BY <3>2, <3>4
  <2>. QED BY <2>2, <2>3, <2>4, <2>5
<1>5. CASE PreferredLookup(f, ips)
  <2>1. /\ result = "none" /\ place = "preferred"
        /\ PreferredTop(IF f = prefer /\ abandoned THEN conn ELSE Started(ips), heard', abandoned)
    BY <1>5 DEF PreferredLookup, Waiting
  <2>2. CASE f = prefer /\ abandoned
    BY <1>2, <1>3, <2>1, <2>2, DualTopKeeps
  <2>3. CASE ~(f = prefer /\ abandoned)
    BY <1>2, <2>1, <2>3, DualStartedCloses, DualTopKeeps
  <2>. QED BY <2>2, <2>3
<1>6. CASE f = 6 /\ JoinV6(ips)
  <2>1. result = "none" /\ Wait(Started(ips))
    BY <1>6 DEF JoinV6, Waiting
  <2>. QED BY <2>1, DualStartedCloses, DualWaitKeeps
<1>7. CASE f = 4 /\ HearV4(ips)
  <2>1. result = "none" /\ place \in {"IPv6First", "IPv4Fallback"} /\ \A a \in Of(4) : conn[a] = "idle"
    BY <1>7 DEF HearV4, Waiting, DualIdle
  <2>2. CASE place = "IPv6First"
    <3>1. conn' = conn /\ place' = place /\ result' = result
      BY <1>7, <2>2 DEF HearV4, Goto
    <3>2. DualPromise
      BY <1>3, <3>1, DualStays
    <3>. QED BY <3>1, <3>2 DEF DualIdle, Of, Family
  <2>3. CASE place # "IPv6First"
    <3>1. Fallback(conn, ips)
      BY <1>7, <2>3 DEF HearV4
    <3>. QED BY <1>3, <1>7, <2>1, <3>1, DualFallbackKeeps
  <2>. QED BY <2>2, <2>3
<1>. QED BY <1>1, <1>4, <1>5, <1>6, <1>7

\* The results, without a preference.
LEMMA DualReceiveKeeps ==
  ASSUME DualInv, DualIdle, NEW a \in Addrs, Receive(a)
  PROVE  DualPromise /\ DualIdle'
<1>1. result = "none" /\ conn[a] \in Offers /\ conn \in [Addrs -> States]
  BY DEF Receive, Waiting, DualInv
<1>2. CASE conn[a] = "ready"
  <2>1. conn' = Unheld([conn EXCEPT ![a] = "given"]) /\ result' = "conn"
    BY <1>2 DEF Receive, Give
  <2>2. Socket(conn[a]) = "open" /\ \A b \in Addrs : b # a => Closes(conn[b], conn[b])
    BY <1>2, DualSockets DEF Closes
  <2>. QED BY <1>1, <2>1, <2>2, DualGiveKeeps
<1>3. CASE conn[a] # "ready"
  <2> DEFINE c == [conn EXCEPT ![a] = Spent(conn[a])]
  <2>1. CASE place = "wait" /\ Wait(c)
    <3>1. \A b \in Addrs : Closes(conn[b], c[b])
      BY <1>1, DualSpentCloses
    <3> HIDE DEF c
    <3>. QED BY <1>1, <2>1, <3>1, DualWaitKeeps
  <2>2. CASE place = "IPv6First" /\ EnterFallback(c)
    <3>1. c \in [Addrs -> States] /\ (\A b \in Addrs : Closes(conn[b], c[b])) /\ \A b \in Addrs : conn[b] = "idle" => c[b] = "idle"
      BY <1>1, DualSpentCloses
    <3>2. \A b \in Of(4) : conn[b] = "idle" /\ b \in Addrs
      BY <1>1, <2>2 DEF DualIdle, Of
    <3> HIDE DEF c
    <3>. QED BY <1>1, <2>2, <3>1, <3>2, DualEnterKeeps
  <2>3. CASE conn' = c /\ Goto(place)
    <3>1. c \in [Addrs -> States] /\ (\A b \in Addrs : Closes(conn[b], c[b])) /\ \A b \in Addrs : conn[b] = "idle" => c[b] = "idle"
      BY <1>1, DualSpentCloses
    <3> HIDE DEF c
    <3>2. place' = place /\ result' = result
      BY <2>3 DEF Goto
    <3>3. DualPromise
      BY <2>3, <3>1, <3>2, DualStays
    <3>4. DualIdle'
      BY <2>3, <3>1, <3>2 DEF DualIdle, Of, Family
    <3>. QED BY <3>3, <3>4
  <2>. QED BY <1>3, <2>1, <2>2, <2>3 DEF Receive
<1>. QED BY <1>2, <1>3

\* The results, with one.
LEMMA DualPreferredReceiveKeeps ==
  ASSUME DualInv, DualIdle, NEW a \in Addrs, PreferredReceive(a)
  PROVE  DualPromise /\ DualIdle'
<1>1. result = "none" /\ place = "preferred" /\ conn[a] \in Offers /\ conn \in [Addrs -> States]
  BY DEF PreferredReceive, Waiting, DualInv
<1>2. CASE conn[a] = "ready"
  <2> DEFINE c == [conn EXCEPT ![a] = IF Held = {} THEN "held" ELSE "closed"]
  <2>1. Socket(conn[a]) = "open" /\ \A b \in Addrs : b # a => Closes(conn[b], conn[b]) /\ Closes(conn[b], c[b])
    BY <1>2, DualSockets DEF Closes
  <2>2. c \in [Addrs -> States]
    BY <1>1 DEF States
  <2>3. Closes(conn[a], c[a])
    BY <1>1, <1>2, DualSockets DEF Closes
  <2>4. \/ Give(conn, a) \/ Give(c, a) \/ PreferredTop(c, heard, abandoned)
    BY <1>2 DEF PreferredReceive
  <2> HIDE DEF c
  <2>5. CASE Give(conn, a)
    <3>1. conn' = Unheld([conn EXCEPT ![a] = "given"]) /\ result' = "conn"
      BY <2>5 DEF Give
    <3>. QED BY <1>1, <2>1, <3>1, DualGiveKeeps
  <2>6. CASE Give(c, a)
    <3>1. conn' = Unheld([c EXCEPT ![a] = "given"]) /\ result' = "conn"
      BY <2>6 DEF Give
    <3>. QED BY <1>1, <2>1, <2>2, <3>1, DualGiveKeeps
  <2>7. CASE PreferredTop(c, heard, abandoned)
    BY <1>1, <2>1, <2>2, <2>3, <2>7, DualTopKeeps
  <2>. QED BY <2>4, <2>5, <2>6, <2>7
<1>3. CASE conn[a] # "ready"
  <2> DEFINE c == [conn EXCEPT ![a] = Spent(conn[a])]
  <2>1. c \in [Addrs -> States] /\ \A b \in Addrs : Closes(conn[b], c[b])
    BY <1>1, DualSpentCloses
  <2>2. PreferredTop(c, heard, abandoned)
    BY <1>3 DEF PreferredReceive
  <2> HIDE DEF c
  <2>. QED BY <1>1, <2>1, <2>2, DualTopKeeps
<1>. QED BY <1>2, <1>3

\* The timers.
LEMMA DualTimersKeep ==
  ASSUME DualInv, DualIdle, Timers
  PROVE  DualPromise /\ DualIdle'
<1>1. conn \in [Addrs -> States] /\ \A b \in Addrs : Closes(conn[b], conn[b])
  BY DEF DualInv, Closes
<1>2. CASE V4Timeout
  <2>1. result = "none" /\ (Wait(conn) \/ (conn' = conn /\ place' = "IPv4First" /\ result' = result))
    BY <1>2 DEF V4Timeout, Waiting, Goto
  <2>2. CASE Wait(conn)
    BY <1>1, <2>1, <2>2, DualWaitKeeps
  <2>3. CASE conn' = conn /\ place' = "IPv4First" /\ result' = result
    <3>1. DualPromise
      BY <1>1, <2>3, DualStays
    <3>. QED BY <2>3, <3>1 DEF DualIdle
  <2>. QED BY <2>1, <2>2, <2>3
<1>3. CASE V6Timeout
  <2>1. result = "none" /\ EnterFallback(conn) /\ \A b \in Of(4) : conn[b] = "idle"
    BY <1>3 DEF V6Timeout, Waiting, DualIdle
  <2>. QED BY <1>1, <2>1, DualEnterKeeps
<1>4. CASE PreferredAbandoned
  <2>1. result = "none" /\ place = "preferred" /\ PreferredTop(conn, heard, TRUE)
    BY <1>4 DEF PreferredAbandoned, Waiting
  <2>. QED BY <1>1, <2>1, DualTopKeeps
<1>5. CASE PreferenceExpires
  <2>1. result = "none" /\ place' = "preferred"
    BY <1>5 DEF PreferenceExpires, Waiting
  <2>2. CASE Held = {}
    <3>1. conn' = conn /\ result' = result
      BY <1>5, <2>2 DEF PreferenceExpires
    <3>2. DualPromise
      BY <1>1, <3>1, DualStays
    <3>. QED BY <2>1, <3>2 DEF DualIdle
  <2>3. CASE Held # {}
    <3>1. PICK a \in Held : conn' = [conn EXCEPT ![a] = "given"]
      BY <1>5, <2>3 DEF PreferenceExpires
    <3>2. a \in Addrs /\ conn[a] = "held" /\ result' = "conn"
      BY <1>5, <2>3 DEF PreferenceExpires, Held, In
    <3>3. Socket(conn[a]) = "open"
      BY <3>2, DualSockets
    <3>. QED BY <1>1, <2>1, <3>1, <3>2, <3>3, DualGiveKeeps
  <2>. QED BY <2>2, <2>3
<1>. QED BY <1>2, <1>3, <1>4, <1>5 DEF Timers

\* Every step of the dual stack race keeps the promise about sockets.
LEMMA DualKeeps ==
  ASSUME DualInv, DualIdle, Next \/ UNCHANGED vars
  PROVE  DualIdle' /\ DualPromise
<1>1. conn \in [Addrs -> States] /\ \A b \in Addrs : Closes(conn[b], conn[b])
  BY DEF DualInv, Closes
<1>2. CASE CtxDone
  <2>1. result = "none" /\ Return(conn, "cancelled")
    BY <1>2 DEF CtxDone, Waiting
  <2>2. DualPromise
    BY <1>1, <2>1, DualReturnKeeps
  <2>. QED BY <2>1, <2>2 DEF Return, DualIdle
<1>3. CASE UNCHANGED <<conn, place, result>>
  <2>1. DualPromise
    BY <1>1, <1>3, DualStays
  <2>. QED BY <1>3, <2>1 DEF DualIdle, Of, Family
<1>4. CASE Timers
  BY <1>4, DualTimersKeep
<1>5. CASE Results
  BY <1>5, DualReceiveKeeps, DualPreferredReceiveKeeps DEF Results
<1>6. ASSUME NEW f \in Families, Lookup(f) PROVE DualIdle' /\ DualPromise
  BY <1>6, DualLookupKeeps
<1>7. ASSUME NEW a \in Addrs, Attempt(a) PROVE DualIdle' /\ DualPromise
  BY <1>1, <1>7, DualAttemptKeeps DEF Attempt
<1>8. CASE Cancel
  BY <1>3, <1>8 DEF Cancel
<1>9. CASE UNCHANGED vars
  BY <1>3, <1>9 DEF vars
<1>. QED BY <1>2, <1>4, <1>5, <1>6, <1>7, <1>8, <1>9 DEF Next

\* In the beginning.
LEMMA DualIdleInit == Init => DualIdle
BY DEF Init, DualIdle, Of
=============================================================================
