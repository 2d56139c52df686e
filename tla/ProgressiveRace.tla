-------------------------- MODULE ProgressiveRace --------------------------
(***************************************************************************)
(* directProgressiveDialContext and runProgressiveDirectRace               *)
(* (component/dialer/direct_progressive.go): DNS batches of two families   *)
(* and connection results feed one loop, cached winners run first under a  *)
(* shared budget, and the caller, who may leave at any time, is handed one *)
(* connection over an unbuffered channel.  The loop outlives the handover: *)
(* it goes on until every attempt has answered, to record the winners.     *)
(***************************************************************************)
EXTENDS DialAttempts, TLAPS

CONSTANT MaxBatches  \* bound on the DNS batches of each family

Families == {4, 6}

VARIABLES
  families,       \* the families the network and the IPv6 setting allow
  prefer,         \* opt.prefer: 0, 4 or 6
  cached,         \* cachedWinners: retained winners of one family
  caller,         \* "waiting", or what it returned: "conn", "error" or "left"
  ended,          \* workCtx is done: caller left, timeout, or race over
  phase,          \* "loop", "send" (blocked in sendResult), "last" (same, then return) or "over"
  batches, doneFamily, offered,                \* DNS: batches received, families finished, addresses seen
  cachePending, queued,
  fast, fastInFlight, fastPriority, fastSucceeded, fastTimer,
  window,         \* the preference timer: "off", "running" or "over"
  delivered, blamed

dns == <<batches, doneFamily, offered>>
fastPath == <<cachePending, queued, fast, fastInFlight, fastPriority, fastSucceeded, fastTimer>>
race == <<families, prefer, cached>>
vars == <<conn, race, caller, ended, phase, dns, fastPath, window, delivered, blamed>>

Held == In({"held"})

Of(f) == {a \in Addrs : Family(a) = f}

CachedFamily == CHOOSE f \in Families : cached \subseteq Of(f)

PreferredDone(c, finished) ==
  \/ prefer \notin families
  \/ prefer \in finished /\ \A a \in Of(prefer) : c[a] \notin Unheard

Init ==
  /\ families \in {{4}, {6}, Families}
  /\ prefer \in {0} \cup Families
  /\ cached \in UNION {SUBSET Of(f) : f \in families} /\ Cardinality(cached) <= 2
  /\ conn = [a \in Addrs |-> "idle"]
  /\ caller = "waiting" /\ ended = FALSE /\ phase = "loop"
  /\ batches = [f \in Families |-> 0] /\ doneFamily = {} /\ offered = {}
  /\ cachePending = (cached # {}) /\ queued = {}
  /\ fast = {} /\ fastInFlight = {} /\ fastPriority = FALSE /\ fastSucceeded = FALSE /\ fastTimer = FALSE
  /\ window = "off" /\ delivered = FALSE /\ blamed = {}

\* deliver: hand connection a over, with the attempts otherwise as in c; only the first is sent
Deliver(c, a) ==
  IF delivered THEN conn' = [c EXCEPT ![a] = "closed"] /\ UNCHANGED <<phase, delivered>>
  ELSE conn' = [c EXCEPT ![a] = "sending"] /\ phase' = "send" /\ delivered' = TRUE

Unsent(c) == conn' = c /\ UNCHANGED <<phase, delivered>>

\* Deliver what is held when nothing preferred can come any more
DeliverHeldIf(c, condition) ==
  IF Held # {} /\ condition /\ ~delivered THEN \E a \in Held : Deliver(c, a) ELSE Unsent(c)

\* Return from the race with an error for a caller that has no answer yet
GiveUp(c) ==
  /\ conn' = Unheld(c)
  /\ phase' = IF delivered THEN "over" ELSE "last"
  /\ ended' = (ended \/ delivered)
  /\ UNCHANGED <<race, caller, dns, fastPath, window, delivered, blamed>>

\* No attempt and no lookup is left
Finished == InFlight = {} /\ doneFamily = families

\* The check at the top of the loop
RaceOver ==
  /\ phase = "loop" /\ Finished
  /\ IF delivered \/ Held = {} THEN GiveUp(conn)
     ELSE /\ \E a \in Held : conn' = [conn EXCEPT ![a] = "sending"]
          /\ delivered' = TRUE /\ phase' = "last"
          /\ UNCHANGED <<race, caller, ended, dns, fastPath, window, blamed>>

Selecting == phase = "loop" /\ ~Finished

\* case <-ctx.Done()
CtxDone == Selecting /\ ended /\ GiveUp(conn)

\* abandonFastPath, without startQueued
FastPathOff ==
  /\ cachePending' = FALSE /\ queued' = {}
  /\ fastInFlight' = {} /\ fastPriority' = FALSE /\ fastTimer' = FALSE

\* Mutant: the candidates queued behind the cached winners are dropped with them
MutantReleased == conn

Released == Started(queued)

\* A family's lookup ended
LookupDone(f) ==
  /\ Selecting /\ f \notin doneFamily
  /\ doneFamily' = doneFamily \cup {f}
  /\ IF cachePending /\ f = CachedFamily
     THEN FastPathOff /\ DeliverHeldIf(Released, PreferredDone(Released, doneFamily'))
     ELSE /\ DeliverHeldIf(conn, PreferredDone(conn, doneFamily'))
          /\ UNCHANGED <<cachePending, queued, fastInFlight, fastPriority, fastTimer>>
  /\ UNCHANGED <<race, caller, ended, batches, offered, fast, fastSucceeded, window, blamed>>

\* A source failed: the batch carries only an error
LookupError(f) ==
  /\ Selecting /\ f \notin doneFamily /\ batches[f] < MaxBatches[f]
  /\ batches' = [batches EXCEPT ![f] = @ + 1]
  /\ UNCHANGED <<conn, race, caller, ended, phase, doneFamily, offered, fastPath, window, delivered, blamed>>

\* The cached winners W the answer still names are dialled at once, under one budget
StartFastGroup(W) ==
  /\ conn' = [a \in Addrs |-> IF a \in W THEN "dialing" ELSE conn[a]]
  /\ fast' = W /\ fastInFlight' = W
  /\ fastPriority' = TRUE /\ fastTimer' = TRUE

\* A batch of addresses
Batch(f, ips) ==
  /\ Selecting /\ f \notin doneFamily /\ batches[f] < MaxBatches[f]
  /\ batches' = [batches EXCEPT ![f] = @ + 1]
  /\ offered' = offered \cup ips
  /\ CASE fastSucceeded -> UNCHANGED <<conn, fastPath>>
       [] ~fastSucceeded /\ cachePending /\ f = CachedFamily /\ cached \cap ips # {} ->
            /\ StartFastGroup(cached \cap ips)
            /\ cachePending' = FALSE /\ queued' = queued \cup ips
            /\ UNCHANGED fastSucceeded
       [] ~fastSucceeded /\ cachePending /\ f = CachedFamily /\ cached \cap ips = {} ->
            /\ conn' = Started(queued \cup ips) /\ FastPathOff
            /\ UNCHANGED <<fast, fastSucceeded>>
       [] ~fastSucceeded /\ ~cachePending /\ fastPriority ->
            /\ queued' = queued \cup ips
            /\ UNCHANGED <<conn, cachePending, fast, fastInFlight, fastPriority, fastSucceeded, fastTimer>>
       [] OTHER -> conn' = Started(ips) /\ UNCHANGED fastPath
  /\ UNCHANGED <<race, caller, ended, phase, doneFamily, window, delivered, blamed>>

\* A cached winner failed; the last one to fail releases the queue
FastFails(a) ==
  LET c == [conn EXCEPT ![a] = Spent(@)] IN
  IF fastPriority /\ fastInFlight \subseteq {a}
  THEN conn' = [b \in Addrs |-> IF b \in queued /\ c[b] = "idle" THEN "dialing" ELSE c[b]] /\ FastPathOff
  ELSE conn' = c /\ fastInFlight' = fastInFlight \ {a} /\ UNCHANGED <<cachePending, queued, fastPriority, fastTimer>>

\* An ordinary candidate connected: promote, then deliver or hold
Connected(a) ==
  /\ window' = IF ~delivered /\ Held = {} /\ prefer \notin {0, Family(a)} THEN "running" ELSE window
  /\ IF delivered THEN Unsent([conn EXCEPT ![a] = "closed"])
     ELSE IF prefer \in {0, Family(a)} THEN Deliver(Unheld(conn), a)
     ELSE LET c == [conn EXCEPT ![a] = IF Held = {} THEN "held" ELSE "closed"]
              kept == IF Held = {} THEN a ELSE CHOOSE b \in Held : TRUE
          IN IF PreferredDone(c, doneFamily) THEN Deliver(c, kept) ELSE Unsent(c)

\* promote: every connection is offered to the winner cache, which clears its backoff
Promote(a) == blamed' = blamed \ {a}

\* case result := <-connects
Receive(a) ==
  /\ Selecting /\ conn[a] \in Offers
  /\ IF ended THEN GiveUp([conn EXCEPT ![a] = Spent(@)])
     ELSE /\ CASE conn[a] = "ready" /\ a \in fast ->
                    /\ fastSucceeded' = TRUE /\ queued' = {} /\ fastPriority' = FALSE
                    /\ fastInFlight' = fastInFlight \ {a}
                    /\ Deliver(Unheld(conn), a)
                    /\ Promote(a)
                    /\ UNCHANGED <<window, cachePending, fastTimer>>
               [] conn[a] = "ready" /\ a \notin fast ->
                    /\ Connected(a) /\ Promote(a)
                    /\ UNCHANGED <<cachePending, queued, fastInFlight, fastPriority, fastSucceeded, fastTimer>>
               [] conn[a] # "ready" /\ a \in fast ->
                    /\ FastFails(a) /\ blamed' = blamed \cup {a}
                    /\ UNCHANGED <<window, phase, delivered, fastSucceeded>>
               [] OTHER ->
                    LET c == [conn EXCEPT ![a] = Spent(@)] IN
                    /\ DeliverHeldIf(c, PreferredDone(c, doneFamily))
                    /\ UNCHANGED <<window, blamed, cachePending, queued, fastInFlight, fastPriority, fastSucceeded, fastTimer>>
          /\ UNCHANGED <<race, caller, ended, dns, fast>>

\* case <-preferenceTimeout
PreferenceExpires ==
  /\ Selecting /\ window = "running"
  /\ window' = "over"
  /\ DeliverHeldIf(conn, TRUE)
  /\ UNCHANGED <<race, caller, ended, dns, fastPath, blamed>>

\* case <-fastTimeout
FastExpires ==
  /\ Selecting /\ fastTimer
  /\ IF ended THEN fastTimer' = FALSE /\ UNCHANGED <<conn, blamed, cachePending, queued, fastInFlight, fastPriority>>
     ELSE /\ blamed' = blamed \cup fastInFlight
          /\ IF fastPriority THEN conn' = Released /\ FastPathOff
             ELSE fastTimer' = FALSE /\ fastInFlight' = {} /\ UNCHANGED <<conn, cachePending, queued, fastPriority>>
  /\ UNCHANGED <<race, caller, ended, phase, dns, fast, fastSucceeded, window, delivered>>

Sending == phase \in {"send", "last"}

AfterSend ==
  /\ phase' = IF phase = "last" THEN "over" ELSE "loop"
  /\ UNCHANGED <<race, dns, fastPath, window, delivered, blamed>>

\* Mutant: a buffered channel takes the connection although the caller has left
MutantSendTo ==
  /\ Sending
  /\ conn' = [a \in Addrs |-> IF conn[a] = "sending" THEN "given" ELSE conn[a]]
  /\ caller' = IF caller # "waiting" THEN caller ELSE IF In({"sending"}) = {} THEN "error" ELSE "conn"
  /\ ended' = (ended \/ phase = "last")
  /\ AfterSend

\* sendResult reaches the caller
SendTo ==
  /\ Sending /\ caller = "waiting"
  /\ conn' = [a \in Addrs |-> IF conn[a] = "sending" THEN "given" ELSE conn[a]]
  /\ caller' = IF In({"sending"}) = {} THEN "error" ELSE "conn"
  /\ ended' = (ended \/ phase = "last")
  /\ AfterSend

\* sendResult finds the context done: nobody takes the connection
SendFails ==
  /\ Sending /\ ended
  /\ conn' = [a \in Addrs |-> IF conn[a] = "sending" THEN "closed" ELSE conn[a]]
  /\ UNCHANGED <<caller, ended>>
  /\ AfterSend

\* The caller's own context ends: it cancels the work and leaves
CallerLeaves ==
  /\ caller = "waiting" /\ caller' = "left" /\ ended' = TRUE
  /\ UNCHANGED <<conn, race, phase, dns, fastPath, window, delivered, blamed>>

\* The work's context ended first
CallerSeesEnd ==
  /\ caller = "waiting" /\ ended /\ caller' = "error"
  /\ UNCHANGED <<conn, race, ended, phase, dns, fastPath, window, delivered, blamed>>

\* DefaultDNSTimeout + DefaultTCPTimeout
WorkTimeout ==
  /\ ~ended /\ ended' = TRUE
  /\ UNCHANGED <<conn, race, caller, phase, dns, fastPath, window, delivered, blamed>>

Attempt(a) ==
  /\ Dial(a, ended) \/ Discard(a, ended)
  /\ UNCHANGED <<race, caller, ended, phase, dns, fastPath, window, delivered, blamed>>

Dns(f) == LookupDone(f) \/ LookupError(f) \/ \E ips \in SUBSET Of(f) : Batch(f, ips)

Results == \E a \in Addrs : Receive(a)

Next ==
  \/ RaceOver \/ CtxDone \/ Results \/ PreferenceExpires \/ FastExpires
  \/ SendTo \/ SendFails \/ CallerLeaves \/ CallerSeesEnd \/ WorkTimeout
  \/ \E f \in families : Dns(f)
  \/ \E a \in Addrs : Attempt(a)
  \/ phase = "over" /\ UNCHANGED vars

(***************************************************************************)
(* An error that is not the context's means that every address any DNS     *)
(* batch named was dialled and refused: none is stranded in the queue      *)
(* behind cached winners, whatever the order of batches, failures and the  *)
(* budget.                                                                 *)
(***************************************************************************)
FailureMeansAllTried == phase = "last" /\ ~ended /\ ~delivered => \A a \in offered : conn[a] = "failed"

(***************************************************************************)
(* Inside the preference window the other family is delivered only when it *)
(* was a cached winner, or when the preferred family's lookup is over and  *)
(* every address it named failed.                                          *)
(***************************************************************************)
PreferenceHonoured ==
  prefer # 0 /\ window # "over" =>
    \A a \in In({"sending"}) :
      \/ a \in fast
      \/ Family(a) = prefer
      \/ {prefer} \cap families \subseteq doneFamily /\ \A b \in Of(prefer) \cap offered : conn[b] = "failed"

-----------------------------------------------------------------------------
(***************************************************************************)
(* Proofs, for every set of addresses and any number of batches.           *)
(***************************************************************************)

\* Who was blamed for a cancelled attempt had been before
NoNewBlame == \A a \in DOMAIN conn : conn[a] = "aborted" => (a \in blamed' => a \in blamed)

ProgressiveTypes ==
  /\ conn \in [Addrs -> States] /\ families \subseteq {4, 6} /\ doneFamily \subseteq families /\ prefer \in {0, 4, 6}
  /\ offered \subseteq Addrs /\ queued \subseteq offered
  /\ fastInFlight \subseteq fast /\ fast \subseteq cached /\ cached \subseteq Addrs
  /\ CachedFamily \in {4, 6} /\ \A a \in cached : Family(a) = CachedFamily

\* What was named and is not dialled waits behind cached winners that still run
ProgressiveStarts ==
  /\ \A a \in offered : conn[a] = "idle" => a \in queued \/ fastSucceeded
  /\ \A a \in Addrs : conn[a] # "idle" => a \in offered
  /\ \A a \in offered : Family(a) \in families
  /\ fastSucceeded => delivered
  /\ queued # {} => fastPriority
  /\ cachePending => ~fastPriority /\ fast = {} /\ CachedFamily \in families \ doneFamily
  /\ fastPriority \/ cachePending => \A a \in Addrs : Family(a) = CachedFamily /\ conn[a] # "idle" => a \in fast

\* While the loop selects, a cached winner that has priority is still to be heard of,
\* and no abortion was
ProgressiveFast ==
  phase \in {"loop", "send"} =>
    /\ fastPriority => fastInFlight # {} /\ \A a \in fastInFlight : conn[a] \in Unheard
    /\ \A a \in Addrs : conn[a] # "dropped"

ProgressiveAborts == \A a \in Addrs : conn[a] = "aborted" => ended

\* What is held, sent and given
ProgressiveHolds ==
  /\ \A a \in Addrs : conn[a] = "sending" => delivered /\ phase \in {"send", "last"}
  /\ phase = "send" => delivered
  /\ ~delivered => \A a \in Addrs : conn[a] # "given"
  /\ \A a \in Addrs : conn[a] = "held" => a \notin fast /\ Family(a) # prefer /\ prefer # 0
  /\ ~delivered /\ phase = "loop" =>
       \A a \in Addrs : conn[a] = "closed" => Family(a) # prefer /\ \E b \in Addrs : conn[b] = "held"

ProgressiveGood == FailureMeansAllTried /\ PreferenceHonoured

ProgressiveInv ==
  /\ ProgressiveTypes /\ ProgressiveStarts /\ ProgressiveFast /\ ProgressiveAborts /\ ProgressiveHolds
  /\ ProgressiveGood

\* What the loop does to attempts it delivers nothing of
Quiet(before, after) ==
  \/ after = before
  \/ before = "idle" /\ after = "dialing"
  \/ before = "refused" /\ after = "failed"

\* An attempt that moves is heard of later; only the context aborts one.
LEMMA AttemptMoves ==
  ASSUME conn \in [Addrs -> States], NEW a \in Addrs, Dial(a, ended) \/ Discard(a, ended)
  PROVE  /\ conn' \in [Addrs -> States]
         /\ \A b \in Addrs : b # a => conn'[b] = conn[b]
         /\ conn[a] \in {"dialing", "ready", "refused", "aborted"}
         /\ conn'[a] \in {"ready", "refused"} \/ (ended /\ conn'[a] \in {"aborted", "shut", "quit"})
BY DEF States, Dial, Discard, Offers

\* There are two families.
LEMMA FamilyOf == \A a : Family(a) \in {4, 6}
BY DEF Family

\* The family of the cached winners does not change.
LEMMA CachedStays == ASSUME cached' = cached PROVE CachedFamily' = CachedFamily
BY DEF CachedFamily, Of, Family

\* The conjuncts of the invariant after a step, in terms of what the step leaves alone.
LEMMA TypesAfter ==
  ASSUME ProgressiveInv, UNCHANGED <<families, prefer, cached>>, conn' \in [Addrs -> States],
         doneFamily' \subseteq families, offered' \subseteq Addrs, queued' \subseteq offered',
         fastInFlight' \subseteq fast', fast' \subseteq cached
  PROVE  ProgressiveTypes'
BY CachedStays DEF ProgressiveInv, ProgressiveTypes, Family

\* That nothing named is stranded.
LEMMA StartsAfter ==
  ASSUME UNCHANGED <<families, cached>>,
         \A a \in offered' : conn'[a] = "idle" => a \in queued' \/ fastSucceeded',
         \A a \in Addrs : conn'[a] # "idle" => a \in offered',
         \A a \in offered' : Family(a) \in families,
         fastSucceeded' => delivered',
         queued' # {} => fastPriority',
         cachePending' => ~fastPriority' /\ fast' = {} /\ CachedFamily \in families \ doneFamily',
         fastPriority' \/ cachePending' => \A a \in Addrs : Family(a) = CachedFamily /\ conn'[a] # "idle" => a \in fast'
  PROVE  ProgressiveStarts'
BY CachedStays DEF ProgressiveStarts, Family

\* What is held, sent and given.
LEMMA HoldsAfter ==
  ASSUME UNCHANGED prefer,
         \A a \in Addrs : conn'[a] = "sending" => delivered' /\ phase' \in {"send", "last"},
         phase' = "send" => delivered',
         ~delivered' => \A a \in Addrs : conn'[a] # "given",
         \A a \in Addrs : conn'[a] = "held" => a \notin fast' /\ Family(a) # prefer /\ prefer # 0,
         ~delivered' /\ phase' = "loop" =>
           \A a \in Addrs : conn'[a] = "closed" => Family(a) # prefer /\ \E b \in Addrs : conn'[b] = "held"
  PROVE  ProgressiveHolds'
BY DEF ProgressiveHolds, Family

\* Nothing is sent, and the race has not failed.
LEMMA NothingSent ==
  ASSUME \A a \in Addrs : conn'[a] # "sending", phase' = "last" => ended' \/ delivered'
  PROVE  ProgressiveGood'
BY DEF ProgressiveGood, FailureMeansAllTried, PreferenceHonoured, In

\* The initial states.
LEMMA ProgressiveInit == Init => ProgressiveInv
<1>. SUFFICES ASSUME Init PROVE ProgressiveInv
  OBVIOUS
<1>1. /\ families \in {{4}, {6}, {4, 6}} /\ prefer \in {0, 4, 6} /\ conn = [a \in Addrs |-> "idle"]
      /\ ended = FALSE /\ phase = "loop" /\ doneFamily = {} /\ offered = {} /\ queued = {} /\ fast = {}
      /\ fastInFlight = {} /\ fastPriority = FALSE /\ fastSucceeded = FALSE /\ delivered = FALSE
  BY DEF Init, Families
<1>2. PICK f \in families : cached \subseteq Of(f)
  BY DEF Init
<1>3. f \in {4, 6} /\ \A a \in cached : a \in Addrs /\ Family(a) = f
  BY <1>1, <1>2 DEF Of, Family
<1>4. CachedFamily \in {4, 6} /\ cached \subseteq Of(CachedFamily)
  BY <1>2, <1>3 DEF CachedFamily, Families
<1>5. \A a \in cached : Family(a) = CachedFamily
  BY <1>4 DEF Of, Family
<1>6. cachePending => CachedFamily \in families
  <2>1. cachePending => cached # {}
    BY DEF Init
  <2>. QED BY <1>3, <1>5, <2>1
<1>7. conn \in [Addrs -> States] /\ \A a \in Addrs : conn[a] = "idle"
  BY <1>1 DEF States
<1>8. ProgressiveTypes
  BY <1>1, <1>3, <1>4, <1>5, <1>7 DEF ProgressiveTypes
<1>9. ProgressiveStarts
  BY <1>1, <1>6, <1>7 DEF ProgressiveStarts
<1>10. ProgressiveFast /\ ProgressiveAborts /\ ProgressiveHolds /\ ProgressiveGood
  BY <1>1, <1>7 DEF ProgressiveFast, ProgressiveAborts, ProgressiveHolds, ProgressiveGood,
     FailureMeansAllTried, PreferenceHonoured, In
<1>. QED BY <1>8, <1>9, <1>10 DEF ProgressiveInv

\* A step that starts no attempt leaves none stranded.
LEMMA StartsNothing ==
  ASSUME ProgressiveInv, UNCHANGED <<families, cached, offered, fast, cachePending>>,
         \A a \in Addrs : conn'[a] = "idle" <=> conn[a] = "idle",
         fastSucceeded => fastSucceeded', fastSucceeded' => delivered',
         queued' = queued \/ (queued' = {} /\ fastSucceeded'),
         fastPriority' => fastPriority, queued' # {} => fastPriority',
         cachePending => CachedFamily \notin doneFamily'
  PROVE  ProgressiveStarts'
<1>1. ProgressiveStarts /\ offered \subseteq Addrs
  BY DEF ProgressiveInv, ProgressiveTypes
<1>2. \A a \in offered' : conn'[a] = "idle" => a \in queued' \/ fastSucceeded'
  BY <1>1 DEF ProgressiveStarts
<1>3. \A a \in Addrs : conn'[a] # "idle" => a \in offered'
  BY <1>1 DEF ProgressiveStarts
<1>4. cachePending' => ~fastPriority' /\ fast' = {} /\ CachedFamily \in families \ doneFamily'
  BY <1>1 DEF ProgressiveStarts
<1>5. fastPriority' \/ cachePending' => \A a \in Addrs : Family(a) = CachedFamily /\ conn'[a] # "idle" => a \in fast'
  BY <1>1 DEF ProgressiveStarts
<1>6. \A a \in offered' : Family(a) \in families
  BY <1>1 DEF ProgressiveStarts
<1>. QED BY <1>2, <1>3, <1>4, <1>5, <1>6, StartsAfter

\* A step that abandons the fast path dials what waited behind it.
LEMMA Releases ==
  ASSUME ProgressiveInv, UNCHANGED <<families, cached, offered, fast, fastSucceeded>>, delivered => delivered',
         FastPathOff,
         \A a \in Addrs : conn'[a] = "idle" <=> conn[a] = "idle" /\ a \notin queued
  PROVE  ProgressiveStarts'
<1>1. ProgressiveStarts /\ offered \subseteq Addrs /\ queued \subseteq offered
  BY DEF ProgressiveInv, ProgressiveTypes
<1>2. ~cachePending' /\ queued' = {} /\ ~fastPriority'
  BY DEF FastPathOff
<1>3. \A a \in offered' : conn'[a] = "idle" => a \in queued' \/ fastSucceeded'
  BY <1>1 DEF ProgressiveStarts
<1>4. \A a \in Addrs : conn'[a] # "idle" => a \in offered'
  BY <1>1 DEF ProgressiveStarts
<1>5. fastSucceeded' => delivered'
  BY <1>1 DEF ProgressiveStarts
<1>6. \A a \in offered' : Family(a) \in families
  BY <1>1 DEF ProgressiveStarts
<1>. QED BY <1>2, <1>3, <1>4, <1>5, <1>6, StartsAfter

\* A step of the loop that delivers nothing.
LEMMA GoesOn ==
  ASSUME ProgressiveInv, phase = "loop", \A b \in Addrs : Quiet(conn[b], conn'[b]),
         UNCHANGED <<prefer, phase, delivered>>, ended => ended',
         \A b \in fast' : b \in fast \/ conn[b] = "idle"
  PROVE  /\ ProgressiveHolds' /\ ProgressiveGood' /\ ProgressiveAborts'
         /\ \A b \in Addrs : conn'[b] # "dropped"
<1>1. ProgressiveHolds /\ ProgressiveFast /\ ProgressiveAborts
  BY DEF ProgressiveInv
<1>2. \A a \in Addrs : conn[a] # "sending"
  BY <1>1 DEF ProgressiveHolds
<1>3. \A a \in Addrs : \A state \in {"sending", "given", "held", "closed", "aborted", "dropped"} : conn'[a] = state <=> conn[a] = state
  BY DEF Quiet
<1>4. \A a \in Addrs : conn'[a] = "held" => a \notin fast' /\ Family(a) # prefer /\ prefer # 0
  BY <1>1, <1>3 DEF ProgressiveHolds
<1>5. ~delivered => \A a \in Addrs : conn'[a] = "closed" => Family(a) # prefer /\ \E b \in Addrs : conn'[b] = "held"
  BY <1>1, <1>3 DEF ProgressiveHolds
<1>6. ~delivered => \A a \in Addrs : conn'[a] # "given"
  BY <1>1, <1>3 DEF ProgressiveHolds
<1>7. ProgressiveHolds'
  BY <1>2, <1>3, <1>4, <1>5, <1>6, HoldsAfter
<1>8. ProgressiveGood'
  BY <1>2, <1>3, NothingSent
<1>9. ProgressiveAborts'
  BY <1>1, <1>3 DEF ProgressiveAborts
<1>10. \A b \in Addrs : conn'[b] # "dropped"
  BY <1>1, <1>3 DEF ProgressiveFast
<1>. QED BY <1>7, <1>8, <1>9, <1>10

\* A step of the loop that sends a connection h of the other family: after the window, or
\* when the preferred family's lookup is over and nothing of it is to be heard of or waits.
LEMMA SendsFallback ==
  ASSUME ProgressiveInv, phase = "loop", ~delivered, NEW c, NEW h \in Addrs,
         c \in [Addrs -> States], conn' = [c EXCEPT ![h] = "sending"], phase' \in {"send", "last"}, delivered' = TRUE,
         UNCHANGED <<prefer, families, offered, fast>>, ended => ended',
         Family(h) # prefer,
         \A b \in Addrs : b # h => Quiet(conn[b], c[b]) \/ (c[b] = "closed" /\ Family(b) # prefer),
         \/ window' = "over"
         \/ /\ PreferredDone(c, doneFamily')
            /\ \A b \in offered : Family(b) = prefer => c[b] # "idle"
  PROVE  /\ ProgressiveHolds' /\ ProgressiveGood' /\ ProgressiveAborts' /\ conn' \in [Addrs -> States]
         /\ \A b \in Addrs : conn'[b] # "dropped"
<1>1. ProgressiveTypes /\ ProgressiveHolds /\ ProgressiveFast /\ ProgressiveAborts /\ ProgressiveStarts
  BY DEF ProgressiveInv
<1>2. /\ conn'[h] = "sending" /\ \A b \in Addrs : b # h => conn'[b] = c[b]
      /\ conn' \in [Addrs -> States]
  BY DEF States
<1>3. \A a \in Addrs : \A state \in {"sending", "given", "held", "aborted", "dropped"} : a # h /\ conn'[a] = state => conn[a] = state
  BY <1>2 DEF Quiet
<1>4. \A a \in Addrs : conn'[a] = "held" => a \notin fast' /\ Family(a) # prefer /\ prefer # 0
  BY <1>1, <1>2, <1>3 DEF ProgressiveHolds
<1>5. ProgressiveHolds'
  BY <1>4, HoldsAfter
<1>6. ProgressiveAborts' /\ \A b \in Addrs : conn'[b] # "dropped"
  BY <1>1, <1>2, <1>3 DEF ProgressiveAborts, ProgressiveFast
<1>7. FailureMeansAllTried'
  BY DEF FailureMeansAllTried
<1>8. PreferenceHonoured'
  <2>1. CASE window' = "over"
    BY <2>1 DEF PreferenceHonoured
  <2>2. CASE /\ PreferredDone(c, doneFamily')
             /\ \A b \in offered : Family(b) = prefer => c[b] # "idle"
    <3>1. {prefer} \cap families \subseteq doneFamily'
      BY <2>2 DEF PreferredDone
    <3>2. ASSUME NEW b \in offered, Family(b) = prefer PROVE conn'[b] = "failed"
      <4>1. b \in Addrs /\ b # h /\ prefer \in families
        BY <1>1, <3>2 DEF ProgressiveTypes, ProgressiveStarts
      <4>2. c[b] \notin {"idle", "dialing", "ready", "refused", "aborted", "shut", "quit"}
        BY <2>2, <3>2, <4>1 DEF PreferredDone, Of, Family, Unheard, Offers
      <4>3. c[b] \in {conn[b], "failed"}
        BY <3>2, <4>1, <4>2 DEF Quiet
      <4>4. conn[b] \notin {"sending", "given", "held", "closed", "dropped"} /\ conn[b] \in States
        BY <1>1, <3>2, <4>1 DEF ProgressiveHolds, ProgressiveFast, ProgressiveTypes
      <4>5. c[b] = "failed"
        BY <4>2, <4>3, <4>4 DEF States
      <4>. QED BY <1>2, <4>1, <4>5
    <3>3. \A b \in Of(prefer) \cap offered : conn'[b] = "failed"
      BY <3>2 DEF Of, Family
    <3>. QED BY <3>1, <3>3 DEF PreferenceHonoured, Of, Family
  <2>. QED BY <2>1, <2>2
<1>. QED BY <1>2, <1>5, <1>6, <1>7, <1>8 DEF ProgressiveGood

\* A connection of the other family that waits for the preferred one is no cached winner's
\* rival: the cached winners are of the preferred family, so that nothing of it waits once
\* it is done.
LEMMA NothingPreferredWaits ==
  ASSUME ProgressiveInv, phase = "loop", ~delivered, NEW c, NEW D, NEW h \in Addrs,
         Family(h) # prefer, prefer # 0, h \notin fast, conn[h] # "idle",
         PreferredDone(c, D), \A x \in fastInFlight : c[x] = conn[x],
         \A b \in Addrs : c[b] = "idle" => conn[b] = "idle"
  PROVE  \A b \in offered : Family(b) = prefer => c[b] # "idle"
<1>. SUFFICES ASSUME NEW b \in offered, Family(b) = prefer, c[b] = "idle" PROVE FALSE
  OBVIOUS
<1>1. ProgressiveTypes /\ ProgressiveStarts /\ ProgressiveFast
  BY DEF ProgressiveInv
<1>2. b \in Addrs /\ b \in queued /\ fastPriority /\ prefer \in families
  BY <1>1 DEF ProgressiveTypes, ProgressiveStarts
<1>3. PICK x \in fastInFlight : conn[x] \in Unheard
  BY <1>1, <1>2 DEF ProgressiveFast
<1>4. x \in Addrs /\ Family(x) = CachedFamily
  BY <1>1 DEF ProgressiveTypes
<1>5. Family(h) # CachedFamily
  BY <1>1, <1>2 DEF ProgressiveStarts
<1>6. CachedFamily = prefer
  BY <1>1, <1>5, FamilyOf DEF ProgressiveTypes
<1>7. x \in Of(prefer)
  BY <1>4, <1>6 DEF Of, Family
<1>8. c[x] \notin Unheard
  BY <1>2, <1>7 DEF PreferredDone
<1>. QED BY <1>3, <1>8

\* Without an attempt to be heard of, nothing waits.
LEMMA NothingWaits ==
  ASSUME ProgressiveInv, phase = "loop", ~delivered, InFlight = {}
  PROVE  \A b \in offered : conn[b] # "idle"
<1>. SUFFICES ASSUME NEW b \in offered, conn[b] = "idle" PROVE FALSE
  OBVIOUS
<1>1. ProgressiveTypes /\ ProgressiveStarts /\ ProgressiveFast
  BY DEF ProgressiveInv
<1>2. fastPriority
  BY <1>1 DEF ProgressiveTypes, ProgressiveStarts
<1>3. PICK x \in fastInFlight : conn[x] \in Unheard
  BY <1>1, <1>2 DEF ProgressiveFast
<1>4. x \in Addrs
  BY <1>1 DEF ProgressiveTypes
<1>. QED BY <1>3, <1>4 DEF InFlight, In

\* A step of the loop that may deliver the connection held.
LEMMA HeldIf ==
  ASSUME ProgressiveInv, phase = "loop", NEW c, c \in [Addrs -> States], \A b \in Addrs : Quiet(conn[b], c[b]),
         UNCHANGED <<prefer, families, offered, fast>>, ended => ended',
         \/ conn' = c /\ UNCHANGED <<phase, delivered>>
         \/ /\ ~delivered
            /\ \E h \in Addrs : /\ conn[h] = "held" /\ conn' = [c EXCEPT ![h] = "sending"]
                             /\ \/ window' = "over"
                                \/ /\ PreferredDone(c, doneFamily')
                                   /\ \A b \in offered : Family(b) = prefer => c[b] # "idle"
            /\ phase' = "send" /\ delivered' = TRUE
  PROVE  /\ ProgressiveHolds' /\ ProgressiveGood' /\ ProgressiveAborts' /\ conn' \in [Addrs -> States]
         /\ \A b \in Addrs : conn'[b] # "dropped"
         /\ \A b \in Addrs : conn'[b] = c[b] \/ (conn[b] = "held" /\ conn'[b] = "sending")
         /\ delivered => delivered'
<1>1. CASE conn' = c /\ UNCHANGED <<phase, delivered>>
  BY <1>1, GoesOn
<1>2. ASSUME ~delivered, NEW h \in Addrs, conn[h] = "held", conn' = [c EXCEPT ![h] = "sending"],
             \/ window' = "over"
             \/ /\ PreferredDone(c, doneFamily')
                /\ \A b \in offered : Family(b) = prefer => c[b] # "idle",
             phase' = "send", delivered' = TRUE
      PROVE  /\ ProgressiveHolds' /\ ProgressiveGood' /\ ProgressiveAborts' /\ conn' \in [Addrs -> States]
             /\ \A b \in Addrs : conn'[b] # "dropped"
             /\ \A b \in Addrs : conn'[b] = c[b] \/ (conn[b] = "held" /\ conn'[b] = "sending")
  <2>1. Family(h) # prefer
    BY <1>2 DEF ProgressiveInv, ProgressiveHolds
  <2>2. /\ ProgressiveHolds' /\ ProgressiveGood' /\ ProgressiveAborts' /\ conn' \in [Addrs -> States]
        /\ \A b \in Addrs : conn'[b] # "dropped"
    BY <1>2, <2>1, SendsFallback
  <2>3. \A b \in Addrs : conn'[b] = c[b] \/ (conn[b] = "held" /\ conn'[b] = "sending")
    BY <1>2
  <2>. QED BY <2>2, <2>3
<1>. QED BY <1>1, <1>2

\* A step of the loop that delivers a cached winner, or a connection of the preferred family.
LEMMA Delivers ==
  ASSUME ProgressiveInv, phase = "loop", NEW a \in Addrs, conn[a] = "ready",
         Deliver(Unheld(conn), a), UNCHANGED <<prefer, fast>>, ended => ended',
         a \in fast \/ prefer \in {0, Family(a)}
  PROVE  /\ ProgressiveHolds' /\ ProgressiveGood' /\ ProgressiveAborts' /\ conn' \in [Addrs -> States]
         /\ \A b \in Addrs : conn'[b] # "dropped"
         /\ \A b \in Addrs : conn'[b] = conn[b] \/ (conn[b] = "held" /\ conn'[b] = "closed") \/ b = a
         /\ conn'[a] \in {"closed", "sending"} /\ delivered' /\ phase' \in {"loop", "send"}
<1>1. ProgressiveTypes /\ ProgressiveHolds /\ ProgressiveFast /\ ProgressiveAborts
  BY DEF ProgressiveInv
<1>2. \A b \in Addrs : conn[b] # "sending"
  BY <1>1 DEF ProgressiveHolds
<1>3. /\ conn' \in [Addrs -> States]
      /\ \A b \in Addrs : b # a => conn'[b] = IF conn[b] = "held" THEN "closed" ELSE conn[b]
      /\ conn'[a] = IF delivered THEN "closed" ELSE "sending"
      /\ phase' = IF delivered THEN "loop" ELSE "send"
      /\ delivered'
  BY <1>1 DEF ProgressiveTypes, Deliver, Unheld, States
<1>4. \A b \in Addrs : conn'[b] # "held"
  BY <1>3
<1>5. \A b \in Addrs : conn'[b] = "sending" => b = a /\ ~delivered
  BY <1>2, <1>3
<1>6. ProgressiveHolds'
  BY <1>3, <1>4, <1>5, HoldsAfter
<1>7. FailureMeansAllTried'
  BY <1>3 DEF FailureMeansAllTried
<1>8. PreferenceHonoured'
  <2>1. prefer # 0 => a \in fast \/ Family(a) = prefer
    BY DEF Family
  <2>. QED BY <1>5, <2>1 DEF PreferenceHonoured, In, Family
<1>9. ProgressiveAborts' /\ \A b \in Addrs : conn'[b] # "dropped"
  BY <1>1, <1>3 DEF ProgressiveAborts, ProgressiveFast
<1>. QED BY <1>3, <1>6, <1>7, <1>8, <1>9 DEF ProgressiveGood

\* The cached winners in flight are still to be heard of.
LEMMA FastAfter ==
  ASSUME ProgressiveInv, phase \in {"loop", "send"}, fastInFlight' = fastInFlight, fastPriority' => fastPriority,
         \A x \in fastInFlight : conn'[x] = conn[x], \A b \in Addrs : conn'[b] # "dropped"
  PROVE  ProgressiveFast'
<1>1. fastPriority => fastInFlight # {} /\ \A a \in fastInFlight : conn[a] \in Unheard
  BY DEF ProgressiveInv, ProgressiveFast
<1>. QED BY <1>1 DEF ProgressiveFast, Unheard, Offers

\* A step that changes no attempt and nothing the loop remembers of them.
LEMMA ProgressiveFrame ==
  ASSUME ProgressiveInv,
         UNCHANGED <<conn, families, prefer, cached, phase, doneFamily, offered, cachePending, queued, fast, fastInFlight,
                     fastPriority, fastSucceeded, delivered>>,
         ended => ended', window' = window
  PROVE  ProgressiveInv'
<1>1. ProgressiveTypes /\ ProgressiveStarts /\ ProgressiveFast /\ ProgressiveAborts /\ ProgressiveHolds /\ ProgressiveGood
  BY DEF ProgressiveInv
<1>2. ProgressiveTypes'
  BY <1>1, TypesAfter DEF ProgressiveTypes
<1>3. ProgressiveStarts'
  BY <1>1, StartsAfter DEF ProgressiveStarts
<1>4. ProgressiveFast' /\ ProgressiveAborts'
  BY <1>1 DEF ProgressiveFast, ProgressiveAborts, Unheard, Offers
<1>5. ProgressiveHolds'
  BY <1>1, HoldsAfter DEF ProgressiveHolds
<1>6. ProgressiveGood'
  BY <1>1 DEF ProgressiveGood, FailureMeansAllTried, PreferenceHonoured, In,
     Of, Family
<1>. QED BY <1>2, <1>3, <1>4, <1>5, <1>6 DEF ProgressiveInv

\* An attempt.
LEMMA ProgressiveAttempt ==
  ASSUME ProgressiveInv, NEW a \in Addrs, Attempt(a)
  PROVE  ProgressiveInv' /\ NoNewBlame
<1>0. UNCHANGED <<families, prefer, cached, ended, phase, doneFamily, offered, cachePending, queued, fast, fastInFlight,
                  fastPriority, fastSucceeded, delivered, window, blamed>>
  BY DEF Attempt, race, dns, fastPath
<1>1. ProgressiveTypes /\ ProgressiveStarts /\ ProgressiveFast /\ ProgressiveAborts /\ ProgressiveHolds /\ ProgressiveGood
  BY DEF ProgressiveInv
<1>2. conn \in [Addrs -> States]
  BY <1>1 DEF ProgressiveTypes
<1>3. /\ conn' \in [Addrs -> States] /\ \A b \in Addrs : b # a => conn'[b] = conn[b]
      /\ conn[a] \in {"dialing", "ready", "refused", "aborted"}
      /\ conn'[a] \in {"ready", "refused"} \/ (ended /\ conn'[a] \in {"aborted", "shut", "quit"})
  BY <1>2, AttemptMoves DEF Attempt
<1>4. \A b \in Addrs : \A state \in {"idle", "sending", "given", "held", "closed", "dropped", "failed"} : conn'[b] = state <=> conn[b] = state
  BY <1>3
<1>5. ProgressiveTypes'
  BY <1>0, <1>1, <1>3, TypesAfter DEF ProgressiveTypes
<1>6. ProgressiveStarts'
  BY <1>0, <1>1, <1>4, StartsNothing DEF ProgressiveStarts
<1>7. ProgressiveFast'
  <2>1. fastInFlight \subseteq Addrs
    BY <1>1 DEF ProgressiveTypes
  <2>2. \A b \in Addrs : conn[b] \in Unheard => conn'[b] \in Unheard
    BY <1>3 DEF Unheard, Offers
  <2>3. Unheard' = Unheard
    BY DEF Unheard, Offers
  <2>4. phase \in {"loop", "send"} => \A b \in Addrs : conn'[b] # "dropped"
    BY <1>1, <1>4 DEF ProgressiveFast
  <2>. QED BY <1>0, <1>1, <2>1, <2>2, <2>3, <2>4 DEF ProgressiveFast
<1>8. ProgressiveAborts'
  BY <1>0, <1>1, <1>3 DEF ProgressiveAborts
<1>9. ProgressiveHolds'
  BY <1>0, <1>1, <1>4, HoldsAfter DEF ProgressiveHolds
<1>10. ProgressiveGood'
  <2>1. offered \subseteq Addrs
    BY <1>1 DEF ProgressiveTypes
  <2>2. FailureMeansAllTried'
    BY <1>0, <1>1, <1>4, <2>1 DEF ProgressiveGood, FailureMeansAllTried
  <2>3. PreferenceHonoured'
    BY <1>0, <1>1, <1>4, <2>1 DEF ProgressiveGood, PreferenceHonoured, In, Of, Family
  <2>. QED BY <2>2, <2>3 DEF ProgressiveGood
<1>. QED BY <1>0, <1>5, <1>6, <1>7, <1>8, <1>9, <1>10 DEF ProgressiveInv, NoNewBlame

\* sendResult reaches the caller, or finds the context done.
LEMMA ProgressiveSends ==
  ASSUME ProgressiveInv, SendTo \/ SendFails
  PROVE  ProgressiveInv' /\ NoNewBlame
<1>1. ProgressiveTypes /\ ProgressiveStarts /\ ProgressiveFast /\ ProgressiveAborts /\ ProgressiveHolds
  BY DEF ProgressiveInv
<1>2. /\ phase \in {"send", "last"} /\ phase' = IF phase = "last" THEN "over" ELSE "loop"
      /\ UNCHANGED <<families, prefer, cached, doneFamily, offered, cachePending, queued, fast, fastInFlight,
                     fastPriority, fastSucceeded, delivered, window, blamed>>
  BY DEF SendTo, SendFails, AfterSend, Sending, race, dns,
     fastPath
<1>3. ended => ended'
  BY DEF SendTo, SendFails
<1>4. PICK end \in {"given", "closed"} : conn' = [a \in Addrs |-> IF conn[a] = "sending" THEN end ELSE conn[a]]
  BY DEF SendTo, SendFails
<1>5. /\ conn' \in [Addrs -> States] /\ \A a \in Addrs : conn'[a] = IF conn[a] = "sending" THEN end ELSE conn[a]
  BY <1>1, <1>4 DEF ProgressiveTypes, States
<1>6. ProgressiveTypes'
  BY <1>1, <1>2, <1>5, TypesAfter DEF ProgressiveTypes
<1>7. ProgressiveStarts'
  <2>1. \A a \in Addrs : conn'[a] = "idle" <=> conn[a] = "idle"
    BY <1>5
  <2>. QED BY <1>1, <1>2, <2>1, StartsNothing DEF ProgressiveStarts
<1>8. ProgressiveFast'
  <2>1. CASE phase = "last"
    BY <1>2, <2>1 DEF ProgressiveFast
  <2>2. CASE phase = "send"
    <3>1. \A b \in Addrs : conn'[b] # "dropped"
      BY <1>1, <1>5, <2>2 DEF ProgressiveFast
    <3>2. fastInFlight \subseteq Addrs
      BY <1>1 DEF ProgressiveTypes
    <3>3. \A a \in Addrs : conn[a] \in Unheard => conn'[a] \in Unheard
      BY <1>5 DEF Unheard, Offers
    <3>4. Unheard' = Unheard
      BY DEF Unheard, Offers
    <3>. QED BY <1>1, <1>2, <2>2, <3>1, <3>2, <3>3, <3>4 DEF ProgressiveFast
  <2>. QED BY <1>2, <2>1, <2>2
<1>9. ProgressiveAborts'
  BY <1>1, <1>3, <1>5 DEF ProgressiveAborts
<1>10. ProgressiveHolds'
  <2>1. \A a \in Addrs : conn'[a] # "sending"
    BY <1>5
  <2>2. ~delivered => \A a \in Addrs : conn'[a] # "given"
    BY <1>1, <1>5 DEF ProgressiveHolds
  <2>3. \A a \in Addrs : conn'[a] = "held" => a \notin fast /\ Family(a) # prefer /\ prefer # 0
    BY <1>1, <1>5 DEF ProgressiveHolds
  <2>4. phase' = "loop" => delivered
    BY <1>1, <1>2 DEF ProgressiveHolds
  <2>. QED BY <1>2, <2>1, <2>2, <2>3, <2>4, HoldsAfter
<1>11. ProgressiveGood'
  BY <1>2, <1>5, NothingSent
<1>. QED BY <1>2, <1>6, <1>7, <1>8, <1>9, <1>10, <1>11 DEF ProgressiveInv, NoNewBlame

\* The race returns; without the context's end, an error means that all failed.
LEMMA ProgressiveGiveUp ==
  ASSUME ProgressiveInv, phase = "loop", NEW c, c \in [Addrs -> States], GiveUp(c),
         \A b \in Addrs : c[b] = conn[b] \/ (conn[b] \in Offers /\ c[b] \in {"closed", "failed", "dropped"}),
         ~ended /\ ~delivered => \A b \in offered : c[b] = "failed"
  PROVE  ProgressiveInv' /\ NoNewBlame
<1>1. ProgressiveTypes /\ ProgressiveStarts /\ ProgressiveAborts /\ ProgressiveHolds
  BY DEF ProgressiveInv
<1>2. /\ UNCHANGED <<families, prefer, cached, doneFamily, offered, cachePending, queued, fast, fastInFlight,
                     fastPriority, fastSucceeded, delivered, window, blamed>>
      /\ phase' \in {"over", "last"} /\ (ended => ended')
  BY DEF GiveUp, race, dns, fastPath
<1>3. /\ conn' \in [Addrs -> States] /\ \A b \in Addrs : conn'[b] = IF c[b] = "held" THEN "closed" ELSE c[b]
  BY DEF GiveUp, Unheld, States
<1>4. ProgressiveTypes'
  BY <1>1, <1>2, <1>3, TypesAfter DEF ProgressiveTypes
<1>5. \A b \in Addrs : conn'[b] = "idle" <=> conn[b] = "idle"
  BY <1>3 DEF Offers
<1>6. ProgressiveStarts'
  BY <1>1, <1>2, <1>5, StartsNothing DEF ProgressiveStarts
<1>7. \A b \in Addrs : \A state \in {"aborted", "sending", "given"} : conn'[b] = state => conn[b] = state
  BY <1>3
<1>8. ProgressiveFast' /\ ProgressiveAborts'
  BY <1>1, <1>2, <1>7 DEF ProgressiveFast, ProgressiveAborts
<1>9. \A b \in Addrs : conn'[b] \notin {"sending", "held"}
  BY <1>1, <1>3, <1>7 DEF ProgressiveHolds
<1>10. ~delivered => \A b \in Addrs : conn'[b] # "given"
  BY <1>1, <1>7 DEF ProgressiveHolds
<1>11. ProgressiveHolds'
  BY <1>2, <1>9, <1>10, HoldsAfter
<1>12. ProgressiveGood'
  <2>1. PreferenceHonoured'
    BY <1>9 DEF PreferenceHonoured, In
  <2>2. ~ended' /\ ~delivered' => \A b \in offered : conn'[b] = "failed"
    BY <1>1, <1>2, <1>3 DEF ProgressiveTypes
  <2>3. FailureMeansAllTried'
    BY <1>2, <2>2 DEF FailureMeansAllTried
  <2>. QED BY <2>1, <2>3 DEF ProgressiveGood
<1>. QED BY <1>2, <1>4, <1>6, <1>8, <1>11, <1>12 DEF ProgressiveInv, NoNewBlame

\* The check at the top of the loop.
LEMMA ProgressiveRaceOver ==
  ASSUME ProgressiveInv, RaceOver
  PROVE  ProgressiveInv' /\ NoNewBlame
<1>1. ProgressiveTypes /\ ProgressiveStarts /\ ProgressiveFast /\ ProgressiveHolds
  BY DEF ProgressiveInv
<1>2. phase = "loop" /\ InFlight = {} /\ doneFamily = families
  BY DEF RaceOver, Finished
<1>3. conn \in [Addrs -> States] /\ \A b \in Addrs : conn[b] \notin Unheard
  BY <1>1, <1>2 DEF ProgressiveTypes, InFlight, In
<1>4. ~delivered => \A b \in offered : conn[b] # "idle"
  BY <1>2, NothingWaits
<1>5. CASE delivered \/ Held = {}
  <2>1. GiveUp(conn)
    BY <1>5 DEF RaceOver
  <2>2. ASSUME ~delivered, NEW b \in offered PROVE conn[b] = "failed"
    <3>1. b \in Addrs /\ \A d \in Addrs : conn[d] # "held"
      BY <1>1, <1>5, <2>2 DEF ProgressiveTypes, Held, In
    <3>2. conn[b] \notin {"sending", "given", "held", "closed", "dropped"}
      BY <1>1, <1>2, <2>2, <3>1 DEF ProgressiveHolds, ProgressiveFast
    <3>3. conn[b] \notin {"dialing", "ready", "refused", "aborted", "shut", "quit"}
      BY <1>3, <3>1 DEF Unheard, Offers
    <3>. QED BY <1>3, <1>4, <2>2, <3>1, <3>2, <3>3 DEF States
  <2>. QED BY <1>2, <1>3, <2>1, <2>2, ProgressiveGiveUp
<1>6. CASE ~(delivered \/ Held = {})
  <2>1. /\ UNCHANGED <<families, prefer, cached, ended, doneFamily, offered, cachePending, queued, fast, fastInFlight,
                       fastPriority, fastSucceeded, window, blamed>>
        /\ phase' = "last" /\ delivered' = TRUE
    BY <1>6 DEF RaceOver, race, dns, fastPath
  <2>2. PICK h \in Held : conn' = [conn EXCEPT ![h] = "sending"]
    BY <1>6 DEF RaceOver
  <2>3. h \in Addrs /\ conn[h] = "held"
    BY DEF Held, In
  <2>4. Family(h) # prefer
    BY <1>1, <2>3 DEF ProgressiveHolds
  <2>5. PreferredDone(conn, doneFamily')
    BY <1>2, <1>3, <2>1 DEF PreferredDone, Of
  <2>6. \A b \in Addrs : Quiet(conn[b], conn[b])
    BY DEF Quiet
  <2>7. /\ ProgressiveHolds' /\ ProgressiveGood' /\ ProgressiveAborts' /\ conn' \in [Addrs -> States]
    BY <1>2, <1>3, <1>4, <1>6, <2>1, <2>2, <2>3, <2>4, <2>5, <2>6, SendsFallback
  <2>8. ProgressiveTypes'
    BY <1>1, <2>1, <2>7, TypesAfter DEF ProgressiveTypes
  <2>9. \A b \in Addrs : conn'[b] = "idle" <=> conn[b] = "idle"
    BY <1>3, <2>2, <2>3
  <2>10. ProgressiveStarts'
    BY <1>1, <2>1, <2>9, StartsNothing DEF ProgressiveStarts
  <2>11. ProgressiveFast'
    BY <2>1 DEF ProgressiveFast
  <2>. QED BY <2>1, <2>7, <2>8, <2>10, <2>11 DEF ProgressiveInv, NoNewBlame
<1>. QED BY <1>5, <1>6

\* case <-ctx.Done().
LEMMA ProgressiveCtxDone ==
  ASSUME ProgressiveInv, CtxDone
  PROVE  ProgressiveInv' /\ NoNewBlame
<1>1. conn \in [Addrs -> States]
  BY DEF ProgressiveInv, ProgressiveTypes
<1>. QED BY <1>1, ProgressiveGiveUp DEF CtxDone, Selecting

\* The attempts with those dialled that wait behind the cached winners.
LEMMA ReleasedAre ==
  ASSUME ProgressiveInv
  PROVE  /\ Released \in [Addrs -> States]
         /\ \A b \in Addrs : /\ Released[b] = IF b \in queued /\ conn[b] = "idle" THEN "dialing" ELSE conn[b]
                          /\ Quiet(conn[b], Released[b])
BY DEF ProgressiveInv, ProgressiveTypes, Released, Started, Quiet, States

\* A family's lookup ended.
LEMMA ProgressiveLookupDone ==
  ASSUME ProgressiveInv, NEW f \in families, LookupDone(f)
  PROVE  ProgressiveInv' /\ NoNewBlame
<1>1. ProgressiveTypes /\ ProgressiveStarts /\ ProgressiveHolds
  BY DEF ProgressiveInv
<1>2. /\ phase = "loop" /\ doneFamily' = doneFamily \cup {f}
      /\ UNCHANGED <<families, prefer, cached, ended, offered, fast, fastSucceeded, window, blamed>>
  BY DEF LookupDone, Selecting, race
<1>3. conn \in [Addrs -> States] /\ doneFamily' \subseteq families
  BY <1>1, <1>2 DEF ProgressiveTypes
<1>4. CASE cachePending /\ f = CachedFamily
  <2> DEFINE c == Released
  <2>1. /\ FastPathOff /\ DeliverHeldIf(c, PreferredDone(c, doneFamily'))
    BY <1>4 DEF LookupDone
  <2>2. /\ c \in [Addrs -> States] /\ \A b \in Addrs : Quiet(conn[b], c[b])
        /\ \A b \in Addrs : c[b] = IF b \in queued /\ conn[b] = "idle" THEN "dialing" ELSE conn[b]
    BY ReleasedAre
  <2> HIDE DEF c
  <2>3. ~delivered => \A b \in offered : Family(b) = prefer => c[b] # "idle"
    BY <1>1, <2>2 DEF ProgressiveTypes, ProgressiveStarts
  <2>4. \/ conn' = c /\ UNCHANGED <<phase, delivered>>
        \/ /\ ~delivered
           /\ \E h \in Addrs : /\ conn[h] = "held" /\ conn' = [c EXCEPT ![h] = "sending"]
                            /\ \/ window' = "over"
                               \/ /\ PreferredDone(c, doneFamily')
                                  /\ \A b \in offered : Family(b) = prefer => c[b] # "idle"
           /\ phase' = "send" /\ delivered' = TRUE
    BY <2>1, <2>3 DEF DeliverHeldIf, Deliver, Unsent, Held, In
  <2>5. /\ ProgressiveHolds' /\ ProgressiveGood' /\ ProgressiveAborts' /\ conn' \in [Addrs -> States]
        /\ \A b \in Addrs : conn'[b] # "dropped"
        /\ \A b \in Addrs : conn'[b] = c[b] \/ (conn[b] = "held" /\ conn'[b] = "sending")
        /\ delivered => delivered'
    BY <1>2, <2>2, <2>4, HeldIf
  <2>6. \A b \in Addrs : conn'[b] = "idle" <=> conn[b] = "idle" /\ b \notin queued
    BY <2>2, <2>5
  <2>7. ProgressiveStarts'
    BY <1>2, <2>1, <2>5, <2>6, Releases
  <2>8. queued' = {} /\ fastInFlight' = {} /\ ~fastPriority'
    BY <2>1 DEF FastPathOff
  <2>9. ProgressiveTypes'
    BY <1>1, <1>2, <1>3, <2>5, <2>8, TypesAfter DEF ProgressiveTypes
  <2>10. ProgressiveFast'
    BY <2>5, <2>8 DEF ProgressiveFast
  <2>. QED BY <1>2, <2>5, <2>7, <2>9, <2>10 DEF ProgressiveInv, NoNewBlame
<1>5. CASE ~(cachePending /\ f = CachedFamily)
  <2>1. /\ DeliverHeldIf(conn, PreferredDone(conn, doneFamily'))
        /\ UNCHANGED <<cachePending, queued, fastInFlight, fastPriority>>
    BY <1>5 DEF LookupDone
  <2>2. \A b \in Addrs : Quiet(conn[b], conn[b])
    BY DEF Quiet
  <2>3. ASSUME ~delivered, PreferredDone(conn, doneFamily'), NEW h \in Addrs, conn[h] = "held"
        PROVE  \A b \in offered : Family(b) = prefer => conn[b] # "idle"
    <3>1. Family(h) # prefer /\ prefer # 0 /\ h \notin fast
      BY <1>1, <2>3 DEF ProgressiveHolds
    <3>. QED BY <1>2, <2>3, <3>1, NothingPreferredWaits
  <2>4. \/ UNCHANGED <<conn, phase, delivered>>
        \/ /\ ~delivered
           /\ \E h \in Addrs : /\ conn[h] = "held" /\ conn' = [conn EXCEPT ![h] = "sending"]
                            /\ PreferredDone(conn, doneFamily')
           /\ phase' = "send" /\ delivered' = TRUE
    BY <2>1 DEF DeliverHeldIf, Deliver, Unsent, Held, In
  <2>5. /\ ProgressiveHolds' /\ ProgressiveGood' /\ ProgressiveAborts' /\ conn' \in [Addrs -> States]
        /\ \A b \in Addrs : conn'[b] # "dropped"
        /\ \A b \in Addrs : conn'[b] = conn[b] \/ (conn[b] = "held" /\ conn'[b] = "sending")
        /\ delivered => delivered'
    BY <1>2, <1>3, <2>2, <2>3, <2>4, HeldIf
  <2>6. \A b \in Addrs : conn'[b] = "idle" <=> conn[b] = "idle"
    BY <2>5
  <2>7. cachePending => CachedFamily \notin doneFamily'
    BY <1>1, <1>2, <1>5 DEF ProgressiveStarts
  <2>8. ProgressiveStarts'
    BY <1>1, <1>2, <2>1, <2>5, <2>6, <2>7, StartsNothing DEF ProgressiveStarts
  <2>9. ProgressiveTypes'
    BY <1>1, <1>2, <1>3, <2>1, <2>5, TypesAfter DEF ProgressiveTypes
  <2>10. ProgressiveFast'
    <3>1. \A x \in fastInFlight : conn'[x] = conn[x]
      BY <1>1, <2>5 DEF ProgressiveTypes, ProgressiveHolds
    <3>. QED BY <1>2, <2>1, <2>5, <3>1, FastAfter
  <2>. QED BY <1>2, <2>5, <2>8, <2>9, <2>10 DEF ProgressiveInv, NoNewBlame
<1>. QED BY <1>4, <1>5

\* The preference window expires.
LEMMA ProgressivePreferenceExpires ==
  ASSUME ProgressiveInv, PreferenceExpires
  PROVE  ProgressiveInv' /\ NoNewBlame
<1>1. ProgressiveTypes /\ ProgressiveStarts /\ ProgressiveHolds
  BY DEF ProgressiveInv
<1>2. /\ phase = "loop" /\ window' = "over"
      /\ UNCHANGED <<families, prefer, cached, ended, doneFamily, offered, cachePending, queued, fast, fastInFlight,
                     fastPriority, fastSucceeded, blamed>>
      /\ DeliverHeldIf(conn, TRUE)
  BY DEF PreferenceExpires, Selecting, race, dns, fastPath
<1>3. conn \in [Addrs -> States] /\ \A b \in Addrs : Quiet(conn[b], conn[b])
  BY <1>1 DEF ProgressiveTypes, Quiet
<1>4. \/ UNCHANGED <<conn, phase, delivered>>
      \/ /\ ~delivered
         /\ \E h \in Addrs : /\ conn[h] = "held" /\ conn' = [conn EXCEPT ![h] = "sending"]
         /\ phase' = "send" /\ delivered' = TRUE
  BY <1>2 DEF DeliverHeldIf, Deliver, Unsent, Held, In
<1>5. /\ ProgressiveHolds' /\ ProgressiveGood' /\ ProgressiveAborts' /\ conn' \in [Addrs -> States]
      /\ \A b \in Addrs : conn'[b] # "dropped"
      /\ \A b \in Addrs : conn'[b] = conn[b] \/ (conn[b] = "held" /\ conn'[b] = "sending")
      /\ delivered => delivered'
  BY <1>2, <1>3, <1>4, HeldIf
<1>6. \A b \in Addrs : conn'[b] = "idle" <=> conn[b] = "idle"
  BY <1>5
<1>7. ProgressiveStarts'
  BY <1>1, <1>2, <1>5, <1>6, StartsNothing DEF ProgressiveStarts
<1>8. ProgressiveTypes'
  BY <1>1, <1>2, <1>5, TypesAfter DEF ProgressiveTypes
<1>9. ProgressiveFast'
  <2>1. \A x \in fastInFlight : conn'[x] = conn[x]
    BY <1>1, <1>5 DEF ProgressiveTypes, ProgressiveHolds
  <2>. QED BY <1>2, <1>5, <2>1, FastAfter
<1>. QED BY <1>2, <1>5, <1>7, <1>8, <1>9 DEF ProgressiveInv, NoNewBlame

\* A step of the loop that abandons the fast path and delivers nothing.
LEMMA ProgressiveReleases ==
  ASSUME ProgressiveInv, phase = "loop", conn' \in [Addrs -> States], \A b \in Addrs : Quiet(conn[b], conn'[b]),
         UNCHANGED <<families, prefer, cached, phase, doneFamily, offered, fast, fastSucceeded, delivered>>, ended => ended',
         FastPathOff, \A b \in Addrs : conn'[b] = "idle" <=> conn[b] = "idle" /\ b \notin queued
  PROVE  ProgressiveInv'
<1>1. ProgressiveTypes
  BY DEF ProgressiveInv
<1>2. queued' = {} /\ fastInFlight' = {} /\ ~fastPriority'
  BY DEF FastPathOff
<1>3. ProgressiveTypes'
  BY <1>1, <1>2, TypesAfter DEF ProgressiveTypes
<1>4. ProgressiveStarts'
  BY Releases
<1>5. /\ ProgressiveHolds' /\ ProgressiveGood' /\ ProgressiveAborts'
      /\ \A b \in Addrs : conn'[b] # "dropped"
  BY GoesOn
<1>6. ProgressiveFast'
  BY <1>2, <1>5 DEF ProgressiveFast
<1>. QED BY <1>3, <1>4, <1>5, <1>6 DEF ProgressiveInv

\* A step of the loop that leaves the queue and delivers nothing.
LEMMA ProgressiveGoesOn ==
  ASSUME ProgressiveInv, phase = "loop", conn' \in [Addrs -> States], \A b \in Addrs : Quiet(conn[b], conn'[b]),
         UNCHANGED <<families, prefer, cached, phase, doneFamily, offered, fast, fastSucceeded, delivered, cachePending, queued,
                     fastPriority>>,
         ended => ended', \A b \in Addrs : conn'[b] = "idle" <=> conn[b] = "idle",
         fastInFlight' \subseteq fastInFlight,
         fastPriority => fastInFlight' # {} /\ \A x \in fastInFlight' : conn'[x] = conn[x]
  PROVE  ProgressiveInv'
<1>1. ProgressiveTypes /\ ProgressiveStarts /\ ProgressiveFast
  BY DEF ProgressiveInv
<1>2. ProgressiveTypes'
  BY <1>1, TypesAfter DEF ProgressiveTypes
<1>3. ProgressiveStarts'
  BY <1>1, StartsNothing DEF ProgressiveStarts
<1>4. /\ ProgressiveHolds' /\ ProgressiveGood' /\ ProgressiveAborts'
      /\ \A b \in Addrs : conn'[b] # "dropped"
  BY GoesOn
<1>5. Unheard' = Unheard
  BY DEF Unheard, Offers
<1>6. ProgressiveFast'
  BY <1>1, <1>4, <1>5 DEF ProgressiveFast
<1>. QED BY <1>2, <1>3, <1>4, <1>6 DEF ProgressiveInv

\* The cached winners' budget expires.
LEMMA ProgressiveFastExpires ==
  ASSUME ProgressiveInv, FastExpires
  PROVE  ProgressiveInv' /\ NoNewBlame
<1>1. ProgressiveTypes /\ ProgressiveAborts /\ ProgressiveFast
  BY DEF ProgressiveInv
<1>2. /\ phase = "loop"
      /\ UNCHANGED <<families, prefer, cached, ended, phase, doneFamily, offered, fast, fastSucceeded, window, delivered>>
  BY DEF FastExpires, Selecting, race, dns
<1>3. CASE ended
  <2>1. UNCHANGED <<conn, blamed, cachePending, queued, fastInFlight, fastPriority>>
    BY <1>3 DEF FastExpires
  <2>. QED BY <1>2, <2>1, ProgressiveFrame DEF NoNewBlame
<1>4. CASE ~ended
  <2>1. NoNewBlame
    BY <1>1, <1>4 DEF NoNewBlame, ProgressiveAborts, ProgressiveTypes
  <2>2. CASE fastPriority
    <3>1. conn' = Released /\ FastPathOff
      BY <1>4, <2>2 DEF FastExpires
    <3>2. /\ conn' \in [Addrs -> States] /\ \A b \in Addrs : Quiet(conn[b], conn'[b])
          /\ \A b \in Addrs : conn'[b] = IF b \in queued /\ conn[b] = "idle" THEN "dialing" ELSE conn[b]
      BY <3>1, ReleasedAre
    <3>3. \A b \in Addrs : conn'[b] = "idle" <=> conn[b] = "idle" /\ b \notin queued
      BY <3>2
    <3>. QED BY <1>2, <2>1, <3>1, <3>2, <3>3, ProgressiveReleases
  <2>3. CASE ~fastPriority
    <3>1. fastInFlight' = {} /\ UNCHANGED <<conn, cachePending, queued, fastPriority>>
      BY <1>4, <2>3 DEF FastExpires
    <3>2. conn' \in [Addrs -> States] /\ \A b \in Addrs : Quiet(conn[b], conn'[b])
      BY <1>1, <3>1 DEF ProgressiveTypes, Quiet
    <3>. QED BY <1>2, <2>1, <2>3, <3>1, <3>2, ProgressiveGoesOn
  <2>. QED BY <2>2, <2>3
<1>. QED BY <1>3, <1>4

\* A batch of addresses.
LEMMA ProgressiveBatch ==
  ASSUME ProgressiveInv, NEW f \in families, NEW ips, ips \subseteq Of(f), Batch(f, ips)
  PROVE  ProgressiveInv' /\ NoNewBlame
<1>1. ProgressiveTypes /\ ProgressiveStarts /\ ProgressiveFast /\ ProgressiveHolds
  BY DEF ProgressiveInv
<1>2. /\ phase = "loop" /\ offered' = offered \cup ips
      /\ UNCHANGED <<families, prefer, cached, ended, phase, doneFamily, window, delivered, blamed>>
  BY DEF Batch, Selecting, race
<1>3. /\ conn \in [Addrs -> States] /\ ips \subseteq Addrs /\ \A a \in ips : Family(a) = f
      /\ offered \subseteq Addrs /\ queued \subseteq offered
  BY <1>1 DEF ProgressiveTypes, Of, Family
<1>4. offered' \subseteq Addrs /\ \A a \in offered' : Family(a) \in families
  BY <1>1, <1>2, <1>3 DEF ProgressiveStarts
<1>5. fastSucceeded' = fastSucceeded
  BY DEF Batch, fastPath
<1>6. NoNewBlame
  BY <1>2 DEF NoNewBlame
\* Whichever case: what remains to be shown
<1>7. ASSUME conn' \in [Addrs -> States], \A b \in Addrs : Quiet(conn[b], conn'[b]),
             queued' \subseteq offered', fastInFlight' \subseteq fast', fast' \subseteq cached,
             \A b \in fast' : b \in fast \/ conn[b] = "idle",
             \A a \in offered' : conn'[a] = "idle" => a \in queued' \/ fastSucceeded,
             \A a \in Addrs : conn'[a] # "idle" => a \in offered',
             queued' # {} => fastPriority',
             cachePending' => ~fastPriority' /\ fast' = {} /\ cachePending,
             fastPriority' \/ cachePending' => \A a \in Addrs : Family(a) = CachedFamily /\ conn'[a] # "idle" => a \in fast',
             fastPriority' => fastInFlight' # {} /\ \A x \in fastInFlight' : conn'[x] \in Unheard
      PROVE  ProgressiveInv'
  <2>1. ProgressiveTypes'
    BY <1>1, <1>2, <1>4, <1>7, TypesAfter DEF ProgressiveTypes
  <2>2. fastSucceeded' => delivered'
    BY <1>1, <1>2, <1>5 DEF ProgressiveStarts
  <2>3. cachePending' => ~fastPriority' /\ fast' = {} /\ CachedFamily \in families \ doneFamily'
    BY <1>1, <1>2, <1>7 DEF ProgressiveStarts
  <2>4. ProgressiveStarts'
    BY <1>2, <1>4, <1>5, <1>7, <2>2, <2>3, StartsAfter
  <2>5. /\ ProgressiveHolds' /\ ProgressiveGood' /\ ProgressiveAborts'
        /\ \A b \in Addrs : conn'[b] # "dropped"
    BY <1>2, <1>7, GoesOn
  <2>6. Unheard' = Unheard
    BY DEF Unheard, Offers
  <2>7. ProgressiveFast'
    BY <1>7, <2>5, <2>6 DEF ProgressiveFast
  <2>. QED BY <2>1, <2>4, <2>5, <2>7 DEF ProgressiveInv
<1>8. \A b \in Addrs : Quiet(conn[b], conn[b])
  BY DEF Quiet
<1>9. CASE fastSucceeded
  <2>1. UNCHANGED <<conn, cachePending, queued, fast, fastInFlight, fastPriority>>
    BY <1>9 DEF Batch, fastPath
  <2>2. \A a \in Addrs : conn'[a] # "idle" => a \in offered'
    BY <1>1, <1>2, <2>1 DEF ProgressiveStarts
  <2>3. queued' # {} => fastPriority'
    BY <1>1, <2>1 DEF ProgressiveStarts
  <2>4. cachePending' => ~fastPriority' /\ fast' = {} /\ cachePending
    BY <1>1, <2>1 DEF ProgressiveStarts
  <2>5. fastPriority' \/ cachePending' => \A a \in Addrs : Family(a) = CachedFamily /\ conn'[a] # "idle" => a \in fast'
    BY <1>1, <2>1 DEF ProgressiveStarts
  <2>6. fastPriority' => fastInFlight' # {} /\ \A x \in fastInFlight' : conn'[x] \in Unheard
    BY <1>1, <1>2, <2>1 DEF ProgressiveFast
  <2>7. queued' \subseteq offered' /\ fastInFlight' \subseteq fast' /\ fast' \subseteq cached
    BY <1>1, <1>2, <2>1 DEF ProgressiveTypes
  <2>. QED BY <1>3, <1>6, <1>7, <1>8, <1>9, <2>1, <2>2, <2>3, <2>4, <2>5, <2>6, <2>7
<1>10. CASE ~fastSucceeded /\ cachePending /\ f = CachedFamily /\ cached \cap ips # {}
  <2> DEFINE W == cached \cap ips
  <2>1. /\ conn' = [a \in Addrs |-> IF a \in W THEN "dialing" ELSE conn[a]]
        /\ fast' = W /\ fastInFlight' = W /\ fastPriority' = TRUE /\ cachePending' = FALSE /\ queued' = queued \cup ips
    BY <1>10 DEF Batch, StartFastGroup
  <2>2. W \subseteq cached /\ W \subseteq ips /\ W # {} /\ W \subseteq Addrs
    BY <1>3, <1>10
  <2> HIDE DEF W
  <2>3. \A a \in Addrs : Family(a) = CachedFamily => conn[a] = "idle"
    BY <1>1, <1>10 DEF ProgressiveStarts
  <2>4. \A a \in W : conn[a] = "idle"
    BY <1>3, <1>10, <2>2, <2>3
  <2>5. /\ conn' \in [Addrs -> States] /\ \A b \in Addrs : conn'[b] = IF b \in W THEN "dialing" ELSE conn[b]
    BY <1>3, <2>1 DEF States
  <2>6. \A b \in Addrs : Quiet(conn[b], conn'[b])
    BY <2>4, <2>5 DEF Quiet
  <2>7. \A a \in offered' : conn'[a] = "idle" => a \in queued'
    BY <1>1, <1>2, <1>3, <1>4, <1>10, <2>1, <2>5 DEF ProgressiveStarts
  <2>8. \A a \in Addrs : conn'[a] # "idle" => a \in offered'
    BY <1>1, <1>2, <2>2, <2>5 DEF ProgressiveStarts
  <2>9. \A a \in Addrs : Family(a) = CachedFamily /\ conn'[a] # "idle" => a \in fast'
    BY <2>1, <2>3, <2>5
  <2>10. \A x \in fastInFlight' : conn'[x] \in Unheard
    BY <2>1, <2>2, <2>5 DEF Unheard
  <2>11. queued' \subseteq offered'
    BY <1>2, <1>3, <2>1
  <2>. QED BY <1>6, <1>7, <2>1, <2>2, <2>4, <2>5, <2>6, <2>7, <2>8, <2>9, <2>10, <2>11
<1>11. CASE ~fastSucceeded /\ cachePending /\ f = CachedFamily /\ cached \cap ips = {}
  <2>1. /\ conn' = [a \in Addrs |-> IF a \in queued \cup ips /\ conn[a] = "idle" THEN "dialing" ELSE conn[a]]
        /\ fast' = fast /\ fastInFlight' = {} /\ fastPriority' = FALSE /\ cachePending' = FALSE /\ queued' = {}
    BY <1>11 DEF Batch, Started, FastPathOff
  <2>2. /\ conn' \in [Addrs -> States]
        /\ \A b \in Addrs : conn'[b] = IF b \in queued \cup ips /\ conn[b] = "idle" THEN "dialing" ELSE conn[b]
    BY <1>3, <2>1 DEF States
  <2>3. \A b \in Addrs : Quiet(conn[b], conn'[b])
    BY <2>2 DEF Quiet
  <2>4. \A a \in offered' : conn'[a] = "idle" => a \in queued' \/ fastSucceeded
    BY <1>1, <1>2, <1>3, <1>4, <2>2 DEF ProgressiveStarts
  <2>5. \A a \in Addrs : conn'[a] # "idle" => a \in offered'
    BY <1>1, <1>2, <1>3, <2>2 DEF ProgressiveStarts
  <2>6. fast \subseteq cached
    BY <1>1 DEF ProgressiveTypes
  <2>. QED BY <1>6, <1>7, <2>1, <2>2, <2>3, <2>4, <2>5, <2>6
<1>12. CASE ~fastSucceeded /\ ~cachePending /\ fastPriority
  <2>1. queued' = queued \cup ips /\ UNCHANGED <<conn, cachePending, fast, fastInFlight, fastPriority>>
    BY <1>12 DEF Batch
  <2>2. \A a \in offered' : conn'[a] = "idle" => a \in queued' \/ fastSucceeded
    BY <1>1, <1>2, <2>1 DEF ProgressiveStarts
  <2>3. \A a \in Addrs : conn'[a] # "idle" => a \in offered'
    BY <1>1, <1>2, <2>1 DEF ProgressiveStarts
  <2>4. fastPriority' \/ cachePending' => \A a \in Addrs : Family(a) = CachedFamily /\ conn'[a] # "idle" => a \in fast'
    BY <1>1, <2>1 DEF ProgressiveStarts
  <2>5. fastPriority' => fastInFlight' # {} /\ \A x \in fastInFlight' : conn'[x] \in Unheard
    BY <1>1, <1>2, <2>1 DEF ProgressiveFast
  <2>6. queued' \subseteq offered' /\ fastInFlight' \subseteq fast' /\ fast' \subseteq cached
    BY <1>1, <1>2, <1>3, <2>1 DEF ProgressiveTypes
  <2>. QED BY <1>3, <1>6, <1>7, <1>8, <1>12, <2>1, <2>2, <2>3, <2>4, <2>5, <2>6
<1>13. CASE /\ ~fastSucceeded /\ ~(cachePending /\ f = CachedFamily) /\ ~(~cachePending /\ fastPriority)
  <2>1. /\ conn' = [a \in Addrs |-> IF a \in ips /\ conn[a] = "idle" THEN "dialing" ELSE conn[a]]
        /\ UNCHANGED <<cachePending, queued, fast, fastInFlight, fastPriority>>
    BY <1>13 DEF Batch, Started, fastPath
  <2>2. /\ conn' \in [Addrs -> States]
        /\ \A b \in Addrs : conn'[b] = IF b \in ips /\ conn[b] = "idle" THEN "dialing" ELSE conn[b]
    BY <1>3, <2>1 DEF States
  <2>3. \A b \in Addrs : Quiet(conn[b], conn'[b])
    BY <2>2 DEF Quiet
  <2>4. \A a \in offered' : conn'[a] = "idle" => a \in queued' \/ fastSucceeded
    BY <1>1, <1>2, <1>3, <1>4, <2>1, <2>2 DEF ProgressiveStarts
  <2>5. \A a \in Addrs : conn'[a] # "idle" => a \in offered'
    BY <1>1, <1>2, <2>2 DEF ProgressiveStarts
  <2>6. ~fastPriority /\ (cachePending => f # CachedFamily)
    BY <1>1, <1>13 DEF ProgressiveStarts
  <2>7. cachePending => \A a \in Addrs : Family(a) = CachedFamily /\ conn'[a] # "idle" => a \in fast
    BY <1>1, <1>3, <2>2, <2>6 DEF ProgressiveStarts
  <2>8. queued # {} => fastPriority
    BY <1>1 DEF ProgressiveStarts
  <2>9. cachePending => fast = {}
    BY <1>1 DEF ProgressiveStarts
  <2>10. queued' \subseteq offered' /\ fastInFlight' \subseteq fast' /\ fast' \subseteq cached
    BY <1>1, <1>2, <1>3, <2>1 DEF ProgressiveTypes
  <2>. QED BY <1>6, <1>7, <2>1, <2>2, <2>3, <2>4, <2>5, <2>6, <2>7, <2>8, <2>9, <2>10
<1>. QED BY <1>9, <1>10, <1>11, <1>12, <1>13

\* An ordinary candidate connected.
LEMMA ProgressiveConnected ==
  ASSUME ProgressiveInv, phase = "loop", NEW a \in Addrs, conn[a] = "ready", a \notin fast, Connected(a),
         UNCHANGED <<families, prefer, cached, ended, doneFamily, offered, cachePending, queued, fast, fastInFlight,
                     fastPriority, fastSucceeded>>
  PROVE  ProgressiveInv'
<1>1. ProgressiveTypes /\ ProgressiveStarts /\ ProgressiveFast /\ ProgressiveAborts /\ ProgressiveHolds
  BY DEF ProgressiveInv
<1>2. conn \in [Addrs -> States] /\ \A b \in Addrs : conn[b] \notin {"sending", "dropped"}
  BY <1>1 DEF ProgressiveTypes, ProgressiveHolds, ProgressiveFast
\* Whichever case: what remains to be shown
<1>3. ASSUME ProgressiveHolds', ProgressiveGood', ProgressiveAborts', conn' \in [Addrs -> States],
             \A b \in Addrs : conn'[b] # "dropped", delivered => delivered', conn'[a] # "idle",
             \A b \in Addrs : b # a => conn'[b] = conn[b] \/ (conn[b] = "held" /\ conn'[b] # "idle")
      PROVE  ProgressiveInv'
  <2>1. \A b \in Addrs : conn'[b] = "idle" <=> conn[b] = "idle"
    BY <1>3
  <2>2. \A x \in fastInFlight : conn'[x] = conn[x]
    BY <1>1, <1>3 DEF ProgressiveTypes, ProgressiveHolds
  <2>3. ProgressiveTypes'
    BY <1>1, <1>3, TypesAfter DEF ProgressiveTypes
  <2>4. ProgressiveStarts'
    BY <1>1, <1>3, <2>1, StartsNothing DEF ProgressiveStarts
  <2>5. ProgressiveFast'
    BY <1>3, <2>2, FastAfter
  <2>. QED BY <1>3, <2>3, <2>4, <2>5 DEF ProgressiveInv
<1>4. CASE delivered
  <2>1. conn' = [conn EXCEPT ![a] = "closed"] /\ UNCHANGED <<phase, delivered>>
    BY <1>4 DEF Connected, Unsent
  <2>2. /\ conn' \in [Addrs -> States] /\ conn'[a] = "closed" /\ \A b \in Addrs : b # a => conn'[b] = conn[b]
    BY <1>2, <2>1 DEF States
  <2>3. \A b \in Addrs : conn'[b] = "held" => b \notin fast' /\ Family(b) # prefer /\ prefer # 0
    BY <1>1, <2>2 DEF ProgressiveHolds
  <2>4. \A b \in Addrs : conn'[b] \notin {"sending", "dropped"}
    BY <1>2, <2>2
  <2>5. ProgressiveHolds'
    BY <1>4, <2>1, <2>3, <2>4, HoldsAfter
  <2>6. ProgressiveGood'
    BY <2>1, <2>4, NothingSent
  <2>7. ProgressiveAborts'
    BY <1>1, <2>2 DEF ProgressiveAborts
  <2>. QED BY <1>3, <2>1, <2>2, <2>4, <2>5, <2>6, <2>7
<1>5. CASE ~delivered /\ prefer \in {0, Family(a)}
  <2>1. Deliver(Unheld(conn), a)
    BY <1>5 DEF Connected, Family
  <2>2. /\ ProgressiveHolds' /\ ProgressiveGood' /\ ProgressiveAborts' /\ conn' \in [Addrs -> States]
        /\ \A b \in Addrs : conn'[b] # "dropped"
        /\ \A b \in Addrs : conn'[b] = conn[b] \/ (conn[b] = "held" /\ conn'[b] = "closed") \/ b = a
        /\ conn'[a] \in {"closed", "sending"} /\ delivered'
    BY <1>5, <2>1, Delivers
  <2>. QED BY <1>3, <2>2
<1>6. CASE ~delivered /\ prefer \notin {0, Family(a)}
  <2> DEFINE none == Held = {}
             c == [conn EXCEPT ![a] = IF none THEN "held" ELSE "closed"]
             kept1 == IF none THEN a ELSE CHOOSE b \in Held : TRUE
  <2>1. IF PreferredDone(c, doneFamily) THEN Deliver(c, kept1) ELSE Unsent(c)
    BY <1>6 DEF Connected, Family
  <2>2. /\ c \in [Addrs -> States] /\ \A b \in Addrs : b # a => c[b] = conn[b]
        /\ c[a] = IF none THEN "held" ELSE "closed"
    BY <1>2 DEF States
  <2>3. none <=> \A b \in Addrs : conn[b] # "held"
    BY DEF Held, In
  <2>4. kept1 \in Addrs /\ (kept1 = a \/ conn[kept1] = "held") /\ (none => kept1 = a)
    BY DEF Held, In
  <2> HIDE DEF none, c, kept1
  <2>5. Family(kept1) # prefer /\ prefer # 0 /\ kept1 \notin fast /\ conn[kept1] # "idle"
    BY <1>1, <1>6, <2>4 DEF ProgressiveHolds
  <2>6. CASE PreferredDone(c, doneFamily)
    <3>1. conn' = [c EXCEPT ![kept1] = "sending"] /\ phase' = "send" /\ delivered' = TRUE
      BY <1>6, <2>1, <2>6 DEF Deliver
    <3>2. \A x \in fastInFlight : c[x] = conn[x]
      BY <1>1, <2>2 DEF ProgressiveTypes
    <3>3. \A b \in Addrs : c[b] = "idle" => conn[b] = "idle"
      BY <2>2
    <3>4. \A b \in offered : Family(b) = prefer => c[b] # "idle"
      BY <1>6, <2>4, <2>5, <2>6, <3>2, <3>3, NothingPreferredWaits
    <3>5. \A b \in Addrs : b # kept1 => Quiet(conn[b], c[b]) \/ (c[b] = "closed" /\ Family(b) # prefer)
      BY <1>6, <2>2, <2>4 DEF Quiet
    <3>6. PreferredDone(c, doneFamily')
      BY <2>6
    <3>7. /\ ProgressiveHolds' /\ ProgressiveGood' /\ ProgressiveAborts' /\ conn' \in [Addrs -> States]
          /\ \A b \in Addrs : conn'[b] # "dropped"
      BY <1>6, <2>2, <2>4, <2>5, <3>1, <3>4, <3>5, <3>6, SendsFallback
    <3>8. \A b \in Addrs : b # a => conn'[b] = conn[b] \/ (conn[b] = "held" /\ conn'[b] # "idle")
      BY <2>2, <2>4, <3>1
    <3>9. conn'[a] # "idle"
      BY <2>2, <2>4, <3>1
    <3>. QED BY <1>3, <1>6, <3>1, <3>7, <3>8, <3>9
  <2>7. CASE ~PreferredDone(c, doneFamily)
    <3>1. conn' = c /\ UNCHANGED <<phase, delivered>>
      BY <2>1, <2>7 DEF Unsent
    <3>2. \A b \in Addrs : conn'[b] \notin {"sending", "dropped"}
      BY <1>2, <2>2, <3>1
    <3>3. \A b \in Addrs : conn'[b] # "given"
      BY <1>1, <1>6, <2>2, <3>1 DEF ProgressiveHolds
    <3>4. \A b \in Addrs : conn'[b] = "held" => b \notin fast' /\ Family(b) # prefer /\ prefer # 0
      BY <1>1, <1>6, <2>2, <3>1 DEF ProgressiveHolds
    <3>5. \E d \in Addrs : conn'[d] = "held"
      BY <2>2, <2>3, <3>1
    <3>6. \A b \in Addrs : conn'[b] = "closed" => Family(b) # prefer
      BY <1>1, <1>6, <2>2, <3>1 DEF ProgressiveHolds
    <3>7. ProgressiveHolds'
      BY <1>6, <3>1, <3>2, <3>3, <3>4, <3>5, <3>6, HoldsAfter
    <3>8. ProgressiveGood'
      BY <3>1, <3>2, NothingSent
    <3>9. ProgressiveAborts'
      BY <1>1, <2>2, <3>1 DEF ProgressiveAborts
    <3>. QED BY <1>3, <2>2, <3>1, <3>2, <3>7, <3>8, <3>9
  <2>. QED BY <2>6, <2>7
<1>. QED BY <1>4, <1>5, <1>6

\* A connection attempt's result is received.
LEMMA ProgressiveReceive ==
  ASSUME ProgressiveInv, NEW a \in Addrs, Receive(a)
  PROVE  ProgressiveInv' /\ NoNewBlame
<1>1. ProgressiveTypes /\ ProgressiveStarts /\ ProgressiveFast /\ ProgressiveAborts /\ ProgressiveHolds
  BY DEF ProgressiveInv
<1>2. phase = "loop" /\ conn[a] \in {"ready", "refused", "aborted"} /\ conn \in [Addrs -> States]
  BY <1>1 DEF Receive, Selecting, Offers, ProgressiveTypes
<1> DEFINE c == [conn EXCEPT ![a] = Spent(conn[a])]
<1>3. /\ c \in [Addrs -> States] /\ \A b \in Addrs : b # a => c[b] = conn[b]
      /\ c[a] = IF conn[a] = "ready" THEN "closed" ELSE IF conn[a] = "refused" THEN "failed" ELSE "dropped"
  BY <1>2 DEF Spent, States
<1>4. CASE ended
  <2>1. GiveUp(c)
    BY <1>4 DEF Receive
  <2>2. \A b \in Addrs : c[b] = conn[b] \/ (conn[b] \in Offers /\ c[b] \in {"closed", "failed", "dropped"})
    BY <1>2, <1>3 DEF Offers
  <2> HIDE DEF c
  <2>. QED BY <1>2, <1>3, <1>4, <2>1, <2>2, ProgressiveGiveUp
<1>5. CASE ~ended
  <2>0. UNCHANGED <<families, prefer, cached, ended, doneFamily, offered, fast>>
    BY <1>5 DEF Receive, race, dns
  <2>1. conn[a] \in {"ready", "refused"}
    BY <1>1, <1>2, <1>5 DEF ProgressiveAborts
  <2>2. NoNewBlame
    BY <1>1, <1>5 DEF NoNewBlame, ProgressiveAborts, ProgressiveTypes
  <2>3. CASE conn[a] = "ready" /\ a \in fast
    <3>1. /\ fastSucceeded' = TRUE /\ queued' = {} /\ fastPriority' = FALSE /\ fastInFlight' = fastInFlight \ {a}
          /\ Deliver(Unheld(conn), a) /\ UNCHANGED cachePending
      BY <1>5, <2>3 DEF Receive
    <3>2. /\ ProgressiveHolds' /\ ProgressiveGood' /\ ProgressiveAborts' /\ conn' \in [Addrs -> States]
          /\ \A b \in Addrs : conn'[b] # "dropped"
          /\ \A b \in Addrs : conn'[b] = conn[b] \/ (conn[b] = "held" /\ conn'[b] = "closed") \/ b = a
          /\ conn'[a] \in {"closed", "sending"} /\ delivered'
      BY <1>2, <2>0, <2>3, <3>1, Delivers
    <3>3. \A b \in Addrs : conn'[b] = "idle" <=> conn[b] = "idle"
      BY <2>3, <3>2
    <3>4. ProgressiveTypes'
      BY <1>1, <2>0, <3>1, <3>2, TypesAfter DEF ProgressiveTypes
    <3>5. ProgressiveStarts'
      BY <1>1, <2>0, <3>1, <3>2, <3>3, StartsNothing DEF ProgressiveStarts
    <3>6. ProgressiveFast'
      BY <3>1, <3>2 DEF ProgressiveFast
    <3>. QED BY <2>2, <3>2, <3>4, <3>5, <3>6 DEF ProgressiveInv
  <2>4. CASE conn[a] = "ready" /\ a \notin fast
    <3>1. Connected(a) /\ UNCHANGED <<cachePending, queued, fastInFlight, fastPriority, fastSucceeded>>
      BY <1>5, <2>4 DEF Receive
    <3>. QED BY <1>2, <2>0, <2>2, <2>4, <3>1, ProgressiveConnected
  <2>5. CASE conn[a] = "refused" /\ a \in fast
    <3>1. FastFails(a) /\ UNCHANGED <<phase, delivered, fastSucceeded>>
      BY <1>5, <2>5 DEF Receive
    <3>2. CASE fastPriority /\ fastInFlight \subseteq {a}
      <4>1. /\ conn' = [b \in Addrs |-> IF b \in queued /\ c[b] = "idle" THEN "dialing" ELSE c[b]]
            /\ FastPathOff
        BY <3>1, <3>2 DEF FastFails
      <4> HIDE DEF c
      <4>2. conn' \in [Addrs -> States] /\ \A b \in Addrs : conn'[b] = IF b \in queued /\ c[b] = "idle" THEN "dialing" ELSE c[b]
        BY <1>3, <4>1 DEF States
      <4>3. \A b \in Addrs : Quiet(conn[b], conn'[b])
        BY <1>3, <2>5, <4>2 DEF Quiet
      <4>4. \A b \in Addrs : conn'[b] = "idle" <=> conn[b] = "idle" /\ b \notin queued
        BY <1>3, <2>5, <4>2
      <4>. QED BY <1>2, <2>0, <2>2, <3>1, <4>1, <4>2, <4>3, <4>4, ProgressiveReleases
    <3>3. CASE ~(fastPriority /\ fastInFlight \subseteq {a})
      <4>1. /\ conn' = c /\ fastInFlight' = fastInFlight \ {a} /\ UNCHANGED <<cachePending, queued, fastPriority>>
        BY <3>1, <3>3 DEF FastFails
      <4> HIDE DEF c
      <4>2. conn' \in [Addrs -> States] /\ \A b \in Addrs : Quiet(conn[b], conn'[b])
        BY <1>3, <2>5, <4>1 DEF Quiet
      <4>3. \A b \in Addrs : conn'[b] = "idle" <=> conn[b] = "idle"
        BY <1>3, <2>5, <4>1
      <4>4. fastPriority => fastInFlight' # {} /\ \A x \in fastInFlight' : conn'[x] = conn[x]
        BY <1>1, <1>3, <3>3, <4>1 DEF ProgressiveTypes
      <4>. QED BY <1>2, <2>0, <2>2, <3>1, <4>1, <4>2, <4>3, <4>4, ProgressiveGoesOn
    <3>. QED BY <3>2, <3>3
  <2>6. CASE conn[a] = "refused" /\ a \notin fast
    <3>1. /\ DeliverHeldIf(c, PreferredDone(c, doneFamily))
          /\ UNCHANGED <<window, cachePending, queued, fastInFlight, fastPriority, fastSucceeded>>
      BY <1>5, <2>6 DEF Receive
    <3> HIDE DEF c
    <3>2. \/ conn' = c /\ UNCHANGED <<phase, delivered>>
          \/ /\ ~delivered
             /\ \E h \in Addrs : /\ conn[h] = "held" /\ conn' = [c EXCEPT ![h] = "sending"]
                              /\ PreferredDone(c, doneFamily)
             /\ phase' = "send" /\ delivered' = TRUE
      BY <3>1 DEF DeliverHeldIf, Deliver, Unsent, Held, In
    <3>3. \A b \in Addrs : Quiet(conn[b], c[b])
      BY <1>3, <2>6 DEF Quiet
    <3>4. ASSUME ~delivered, PreferredDone(c, doneFamily), NEW h \in Addrs, conn[h] = "held"
          PROVE  \A b \in offered : Family(b) = prefer => c[b] # "idle"
      <4>1. Family(h) # prefer /\ prefer # 0 /\ h \notin fast
        BY <1>1, <3>4 DEF ProgressiveHolds
      <4>2. \A x \in fastInFlight : c[x] = conn[x]
        BY <1>1, <1>3, <2>6 DEF ProgressiveTypes
      <4>3. \A b \in Addrs : c[b] = "idle" => conn[b] = "idle"
        BY <1>3, <2>6
      <4>. QED BY <1>2, <3>4, <4>1, <4>2, <4>3, NothingPreferredWaits
    <3>5. \/ conn' = c /\ UNCHANGED <<phase, delivered>>
          \/ /\ ~delivered
             /\ \E h \in Addrs : /\ conn[h] = "held" /\ conn' = [c EXCEPT ![h] = "sending"]
                              /\ \/ window' = "over"
                                 \/ /\ PreferredDone(c, doneFamily')
                                    /\ \A b \in offered : Family(b) = prefer => c[b] # "idle"
             /\ phase' = "send" /\ delivered' = TRUE
      BY <2>0, <3>2, <3>4
    <3>6. /\ ProgressiveHolds' /\ ProgressiveGood' /\ ProgressiveAborts' /\ conn' \in [Addrs -> States]
          /\ \A b \in Addrs : conn'[b] # "dropped"
          /\ \A b \in Addrs : conn'[b] = c[b] \/ (conn[b] = "held" /\ conn'[b] = "sending")
          /\ delivered => delivered'
      BY <1>2, <1>3, <2>0, <3>3, <3>5, HeldIf
    <3>7. \A b \in Addrs : conn'[b] = "idle" <=> conn[b] = "idle"
      BY <1>3, <2>6, <3>6
    <3>8. ProgressiveTypes'
      BY <1>1, <2>0, <3>1, <3>6, TypesAfter DEF ProgressiveTypes
    <3>9. ProgressiveStarts'
      BY <1>1, <2>0, <3>1, <3>6, <3>7, StartsNothing DEF ProgressiveStarts
    <3>10. \A x \in fastInFlight : conn'[x] = conn[x]
      BY <1>1, <1>3, <2>6, <3>6 DEF ProgressiveTypes, ProgressiveHolds
    <3>11. ProgressiveFast'
      BY <1>2, <3>1, <3>6, <3>10, FastAfter
    <3>. QED BY <2>2, <3>6, <3>8, <3>9, <3>11 DEF ProgressiveInv
  <2>. QED BY <2>1, <2>3, <2>4, <2>5, <2>6
<1>. QED BY <1>4, <1>5

\* Every step of a progressive race keeps its invariant.
LEMMA ProgressiveStep ==
  ASSUME ProgressiveInv, Next \/ UNCHANGED vars
  PROVE  ProgressiveInv' /\ NoNewBlame
<1>1. CASE UNCHANGED vars
  BY <1>1, ProgressiveFrame DEF vars, race, dns, fastPath, NoNewBlame
<1>2. CASE UNCHANGED vars
  BY <1>2, ProgressiveFrame DEF vars, race, dns, fastPath, NoNewBlame
<1>3. CASE CallerLeaves \/ CallerSeesEnd \/ WorkTimeout
  BY <1>3, ProgressiveFrame DEF CallerLeaves, CallerSeesEnd, WorkTimeout, race,
     dns, fastPath, NoNewBlame
<1>4. CASE RaceOver \/ CtxDone \/ PreferenceExpires \/ FastExpires
           \/ SendTo \/ SendFails
  BY <1>4, ProgressiveRaceOver, ProgressiveCtxDone, ProgressivePreferenceExpires, ProgressiveFastExpires, ProgressiveSends
<1>5. ASSUME NEW a \in Addrs, Receive(a) \/ Attempt(a)
      PROVE  ProgressiveInv' /\ NoNewBlame
  BY <1>5, ProgressiveReceive, ProgressiveAttempt
<1>6. ASSUME NEW f \in families, Dns(f)
      PROVE  ProgressiveInv' /\ NoNewBlame
  <2>1. CASE LookupDone(f)
    BY <2>1, ProgressiveLookupDone
  <2>2. CASE LookupError(f)
    BY <2>2, ProgressiveFrame DEF LookupError, race, fastPath, NoNewBlame
  <2>3. ASSUME NEW ips \in SUBSET Of(f), Batch(f, ips)
        PROVE  ProgressiveInv' /\ NoNewBlame
    BY <2>3, ProgressiveBatch
  <2>. QED BY <1>6, <2>1, <2>2, <2>3 DEF Dns
<1>. QED BY <1>1, <1>2, <1>3, <1>4, <1>5, <1>6 DEF Next, Results

-----------------------------------------------------------------------------
(***************************************************************************)
(* What the steps do to the sockets.                                       *)
(***************************************************************************)
OneSent == \A a, b \in Addrs : conn[a] = "sending" /\ conn[b] = "sending" => a = b

Told == IF caller = "waiting" THEN "none" ELSE IF caller = "conn" THEN "conn" ELSE "error"

ProgressivePromise == KeepsPromise(conn, conn', Answer(Told), Answer(Told'))

\* The attempts c, when none is being sent, differ from the present ones in closed sockets at most
Calm(c) == \A b \in Addrs : Closes(conn[b], c[b]) /\ c[b] # "sending"

\* The socket that goes with each state of an attempt.
LEMMA ProgressiveSockets ==
  /\ \A state \in {"ready", "held", "sending"} : Socket(state) = "open"
  /\ \A state \in {"closed", "shut"} : Socket(state) = "closed"
  /\ Socket("given") = "given"
  /\ \A state \in {"idle", "dialing", "refused", "aborted", "failed", "dropped", "quit"} : Socket(state) = "none"
BY DEF Socket

\* A step after which the caller still waits, or has what it had.
LEMMA StaysUntold ==
  ASSUME caller' = caller, \A b \in Addrs : Closes(conn[b], conn'[b])
  PROVE  ProgressivePromise
<1>1. Answer(Told) = Answer(Told')
  BY DEF Told
<1>. QED BY <1>1 DEF ProgressivePromise, KeepsPromise

\* A step that sends nothing.
LEMMA StaysCalm ==
  ASSUME caller' = caller, NEW c, Calm(c), conn' = c
  PROVE  ProgressivePromise /\ OneSent'
<1>1. ProgressivePromise
  BY StaysUntold DEF Calm
<1>. QED BY <1>1 DEF OneSent, Calm

\* Closing what is held is calm.
LEMMA UnheldCalm == ASSUME NEW c, Calm(c) PROVE Calm(Unheld(c))
<1>1. \A b \in Addrs : Unheld(c)[b] = IF c[b] = "held" THEN "closed" ELSE c[b]
  BY DEF Unheld
<1>2. \A b \in Addrs : Closes(c[b], Unheld(c)[b]) /\ Unheld(c)[b] # "sending"
  BY <1>1, ProgressiveSockets DEF Closes, Calm
<1>. QED BY <1>2 DEF Closes, Calm

\* While the loop runs nothing is being sent, and starting attempts is calm.
LEMMA LoopCalm ==
  ASSUME ProgressiveInv, phase = "loop"
  PROVE  conn \in [Addrs -> States] /\ Calm(conn) /\ \A S : Calm(Started(S)) /\ Started(S) \in [Addrs -> States]
<1>1. conn \in [Addrs -> States] /\ \A b \in Addrs : conn[b] # "sending"
  BY DEF ProgressiveInv, ProgressiveTypes, ProgressiveHolds
<1>2. Calm(conn)
  BY <1>1 DEF Calm, Closes
<1>3. ASSUME NEW S PROVE Calm(Started(S)) /\ Started(S) \in [Addrs -> States]
  <2>1. \A b \in Addrs : Started(S)[b] = conn[b] \/ (conn[b] = "idle" /\ Started(S)[b] = "dialing")
    BY DEF Started
  <2>2. Calm(Started(S))
    BY <1>1, <2>1, ProgressiveSockets DEF Calm, Closes
  <2>. QED BY <1>1, <2>2 DEF Started, States
<1>. QED BY <1>1, <1>2, <1>3

\* What was offered and is not kept is closed.
LEMMA SpentCalm ==
  ASSUME ProgressiveInv, phase = "loop", NEW a \in Addrs, conn[a] \in Offers, NEW c, c = [conn EXCEPT ![a] = Spent(conn[a])]
  PROVE  c \in [Addrs -> States] /\ Calm(c)
<1>1. Spent(conn[a]) \in {"closed", "failed", "dropped"} /\ (Spent(conn[a]) = "closed" <=> conn[a] = "ready")
  BY DEF Spent, Offers
<1>2. Closes(conn[a], Spent(conn[a]))
  BY <1>1, ProgressiveSockets DEF Offers, Closes
<1>3. conn \in [Addrs -> States] /\ Calm(conn)
  BY LoopCalm
<1>4. c \in [Addrs -> States] /\ c[a] = Spent(conn[a]) /\ \A b \in Addrs : b # a => c[b] = conn[b]
  BY <1>1, <1>3 DEF States
<1>. QED BY <1>1, <1>2, <1>3, <1>4 DEF Calm

\* deliver: an open connection is sent, or closed.
LEMMA DeliverKeeps ==
  ASSUME NEW c \in [Addrs -> States], NEW a \in Addrs, Calm(c), Socket(conn[a]) = "open", caller' = caller,
         conn' = [c EXCEPT ![a] = "sending"] \/ conn' = [c EXCEPT ![a] = "closed"]
  PROVE  ProgressivePromise /\ OneSent'
<1>1. conn'[a] \in {"sending", "closed"} /\ \A b \in Addrs : b # a => conn'[b] = c[b]
  OBVIOUS
<1>2. Closes(conn[a], conn'[a])
  BY <1>1, ProgressiveSockets DEF Closes
<1>3. \A b \in Addrs : Closes(conn[b], conn'[b])
  BY <1>1, <1>2 DEF Calm
<1>4. \A b \in Addrs : conn'[b] = "sending" => b = a
  BY <1>1 DEF Calm
<1>5. ProgressivePromise
  BY <1>3, StaysUntold
<1>. QED BY <1>4, <1>5 DEF OneSent

\* The connection held is sent, or nothing.
LEMMA DeliverHeldKeeps ==
  ASSUME NEW c \in [Addrs -> States], NEW condition, Calm(c), caller' = caller, DeliverHeldIf(c, condition)
  PROVE  ProgressivePromise /\ OneSent'
<1>1. \/ conn' = c
      \/ \E a \in Held : conn' = [c EXCEPT ![a] = "sending"] \/ conn' = [c EXCEPT ![a] = "closed"]
  BY DEF DeliverHeldIf, Deliver, Unsent
<1>2. \A a \in Held : a \in Addrs /\ Socket(conn[a]) = "open"
  BY ProgressiveSockets DEF Held, In
<1>3. CASE conn' = c
  BY <1>3, StaysCalm
<1>4. CASE \E a \in Held : conn' = [c EXCEPT ![a] = "sending"] \/ conn' = [c EXCEPT ![a] = "closed"]
  BY <1>2, <1>4, DeliverKeeps
<1>. QED BY <1>1, <1>3, <1>4

\* The race returns.
LEMMA GiveUpKeeps ==
  ASSUME NEW c, Calm(c), GiveUp(c)
  PROVE  ProgressivePromise /\ OneSent'
<1>1. conn' = Unheld(c) /\ caller' = caller
  BY DEF GiveUp
<1>. QED BY <1>1, UnheldCalm, StaysCalm

\* The lookups.
LEMMA DnsKeeps ==
  ASSUME ProgressiveInv, NEW f \in families, Dns(f)
  PROVE  ProgressivePromise /\ OneSent'
<1>1. phase = "loop"
  BY DEF Dns, LookupDone, LookupError, Batch, Selecting
<1>2. conn \in [Addrs -> States] /\ Calm(conn) /\ \A S : Calm(Started(S)) /\ Started(S) \in [Addrs -> States]
  BY <1>1, LoopCalm
<1>3. CASE LookupDone(f)
  <2>1. caller' = caller
    BY <1>3 DEF LookupDone
  <2>2. DeliverHeldIf(Released, PreferredDone(Released, doneFamily')) \/ DeliverHeldIf(conn, PreferredDone(conn, doneFamily'))
    BY <1>3 DEF LookupDone
  <2>3. Calm(Released) /\ Released \in [Addrs -> States]
    BY <1>2 DEF Released
  <2>. QED BY <1>2, <2>1, <2>2, <2>3, DeliverHeldKeeps
<1>4. CASE LookupError(f)
  BY <1>2, <1>4, StaysCalm DEF LookupError
<1>5. ASSUME NEW ips \in SUBSET Of(f), Batch(f, ips) PROVE ProgressivePromise /\ OneSent'
  <2>1. caller' = caller
    BY <1>5 DEF Batch
  <2>2. \/ conn' = conn
        \/ cachePending /\ StartFastGroup(cached \cap ips)
        \/ \E S : conn' = Started(S)
    BY <1>5 DEF Batch
  <2>3. ASSUME cachePending, StartFastGroup(cached \cap ips) PROVE Calm(conn')
    <3>1. \A b \in cached \cap ips : b \in Addrs /\ conn[b] = "idle"
      BY <2>3 DEF ProgressiveInv, ProgressiveTypes, ProgressiveStarts
    <3>2. \A b \in Addrs : conn'[b] = IF b \in cached \cap ips THEN "dialing" ELSE conn[b]
      BY <2>3 DEF StartFastGroup
    <3>3. \A b \in Addrs : conn'[b] = conn[b] \/ (conn[b] = "idle" /\ conn'[b] = "dialing")
      BY <3>1, <3>2
    <3>. QED BY <1>2, <3>3, ProgressiveSockets DEF Calm, Closes
  <2>4. \E c : Calm(c) /\ conn' = c
    BY <1>2, <2>2, <2>3
  <2>. QED BY <2>1, <2>4, StaysCalm
<1>. QED BY <1>3, <1>4, <1>5 DEF Dns

\* The results.
LEMMA ReceiveKeeps ==
  ASSUME ProgressiveInv, NEW a \in Addrs, Receive(a)
  PROVE  ProgressivePromise /\ OneSent'
<1>1. phase = "loop" /\ conn[a] \in Offers
  BY DEF Receive, Selecting
<1>2. conn \in [Addrs -> States] /\ Calm(conn)
  BY <1>1, LoopCalm
<1> DEFINE c == [conn EXCEPT ![a] = Spent(conn[a])]
<1>3. c \in [Addrs -> States] /\ Calm(c)
  BY <1>1, SpentCalm
<1>4. CASE ended
  <2>1. GiveUp(c)
    BY <1>4 DEF Receive
  <2> HIDE DEF c
  <2>. QED BY <1>3, <2>1, GiveUpKeeps
<1>5. CASE ~ended
  <2>1. caller' = caller
    BY <1>5 DEF Receive
  <2>2. CASE conn[a] = "ready"
    <3>1. Socket(conn[a]) = "open"
      BY <2>2, ProgressiveSockets
    <3>2. Unheld(conn) \in [Addrs -> States] /\ Calm(Unheld(conn))
      BY <1>2, UnheldCalm DEF Unheld, States
    <3>3. CASE Deliver(Unheld(conn), a)
      BY <2>1, <3>1, <3>2, <3>3, DeliverKeeps DEF Deliver
    <3>4. CASE conn' = [conn EXCEPT ![a] = "closed"]
      BY <1>2, <2>1, <3>1, <3>4, DeliverKeeps
    <3> DEFINE d == [conn EXCEPT ![a] = IF Held = {} THEN "held" ELSE "closed"]
               kept1 == IF Held = {} THEN a ELSE CHOOSE b \in Held : TRUE
    <3>5. CASE Deliver(d, kept1) \/ Unsent(d)
      <4>1. d \in [Addrs -> States] /\ d[a] \in {"held", "closed"} /\ \A b \in Addrs : b # a => d[b] = conn[b]
        BY <1>2 DEF States
      <4>2. Closes(conn[a], d[a]) /\ d[a] # "sending"
        BY <3>1, <4>1, ProgressiveSockets DEF Closes
      <4>3. Calm(d)
        BY <1>2, <4>1, <4>2 DEF Calm
      <4>4. kept1 \in Addrs /\ Socket(conn[kept1]) = "open"
        BY <3>1, ProgressiveSockets DEF Held, In
      <4>5. conn' = d \/ conn' = [d EXCEPT ![kept1] = "sending"] \/ conn' = [d EXCEPT ![kept1] = "closed"]
        BY <3>5 DEF Deliver, Unsent
      <4> HIDE DEF d, kept1
      <4>. QED BY <2>1, <4>1, <4>3, <4>4, <4>5, DeliverKeeps, StaysCalm
    <3>6. Deliver(Unheld(conn), a) \/ Connected(a)
      BY <1>5, <2>2 DEF Receive
    <3>7. \/ Deliver(Unheld(conn), a) \/ conn' = [conn EXCEPT ![a] = "closed"]
          \/ Deliver(d, kept1) \/ Unsent(d)
      BY <3>6 DEF Connected, Unsent
    <3>. QED BY <3>3, <3>4, <3>5, <3>7
  <2>3. CASE conn[a] # "ready"
    <3>1. FastFails(a) \/ DeliverHeldIf(c, PreferredDone(c, doneFamily))
      BY <1>5, <2>3 DEF Receive
    <3>2. CASE FastFails(a)
      <4>1. conn' = c \/ conn' = [b \in Addrs |-> IF b \in queued /\ c[b] = "idle" THEN "dialing" ELSE c[b]]
        BY <3>2 DEF FastFails
      <4> HIDE DEF c
      <4>2. \A b \in Addrs : conn'[b] = c[b] \/ (c[b] = "idle" /\ conn'[b] = "dialing")
        BY <4>1
      <4>3. \A b \in Addrs : Closes(c[b], conn'[b]) /\ conn'[b] # "sending"
        BY <1>3, <4>2, ProgressiveSockets DEF Calm, Closes
      <4>4. Calm(conn')
        BY <1>3, <4>3 DEF Calm, Closes
      <4>5. \E d : Calm(d) /\ conn' = d
        BY <4>4
      <4>. QED BY <2>1, <4>5, StaysCalm
    <3>3. CASE DeliverHeldIf(c, PreferredDone(c, doneFamily))
      <4> HIDE DEF c
      <4>. QED BY <1>3, <2>1, <3>3, DeliverHeldKeeps
    <3>. QED BY <3>1, <3>2, <3>3
  <2>. QED BY <2>2, <2>3
<1>. QED BY <1>4, <1>5

\* sendResult.
LEMMA SendKeeps ==
  ASSUME ProgressiveInv, OneSent, SendTo \/ SendFails
  PROVE  ProgressivePromise /\ OneSent'
<1>1. conn \in [Addrs -> States]
  BY DEF ProgressiveInv, ProgressiveTypes
<1>2. CASE SendFails
  <2>1. caller' = caller /\ \A b \in Addrs : conn'[b] = IF conn[b] = "sending" THEN "closed" ELSE conn[b]
    BY <1>2 DEF SendFails
  <2>2. \A b \in Addrs : Closes(conn[b], conn'[b]) /\ conn'[b] # "sending"
    BY <2>1, ProgressiveSockets DEF Closes
  <2>3. ProgressivePromise
    BY <2>1, <2>2, StaysUntold
  <2>. QED BY <2>2, <2>3 DEF OneSent
<1>3. CASE SendTo
  <2>1. /\ caller = "waiting" /\ \A b \in Addrs : conn'[b] = IF conn[b] = "sending" THEN "given" ELSE conn[b]
        /\ caller' = IF \A b \in Addrs : conn[b] # "sending" THEN "error" ELSE "conn"
    BY <1>3 DEF SendTo, In
  <2>2. OneSent'
    BY <2>1 DEF OneSent
  <2>3. Answer(Told) = "none"
    BY <2>1 DEF Answer, Told
  <2>4. CASE \A b \in Addrs : conn[b] # "sending"
    <3>1. Answer(Told') = "error"
      BY <2>1, <2>4 DEF Answer, Told
    <3>2. \A b \in Addrs : Closes(conn[b], conn'[b])
      BY <2>1, <2>4 DEF Closes
    <3>. QED BY <2>2, <2>3, <3>1, <3>2 DEF ProgressivePromise, KeepsPromise
  <2>5. ASSUME NEW a \in Addrs, conn[a] = "sending" PROVE ProgressivePromise
    <3>1. Answer(Told') = "conn"
      BY <2>1, <2>5 DEF Answer, Told
    <3>2. Socket(conn[a]) = "open" /\ Socket(conn'[a]) = "given"
      BY <2>1, <2>5, ProgressiveSockets
    <3>3. \A b \in Addrs : b # a => Closes(conn[b], conn'[b])
      BY <2>1, <2>5 DEF OneSent, Closes
    <3>. QED BY <2>3, <3>1, <3>2, <3>3 DEF ProgressivePromise, KeepsPromise
  <2>. QED BY <2>2, <2>4, <2>5
<1>. QED BY <1>2, <1>3

\* An attempt opens its socket, closes it, or has none.
LEMMA AttemptKeeps ==
  ASSUME ProgressiveInv, OneSent, NEW a \in Addrs, Attempt(a)
  PROVE  ProgressivePromise /\ OneSent'
<1>1. conn \in [Addrs -> States] /\ caller' = caller
  BY DEF ProgressiveInv, ProgressiveTypes, Attempt
<1>2. /\ \A b \in Addrs : b # a => conn'[b] = conn[b]
      /\ \/ conn[a] = "dialing" /\ conn'[a] \in {"ready", "refused", "aborted"}
         \/ conn[a] = "ready" /\ conn'[a] = "shut"
         \/ conn[a] \in {"refused", "aborted"} /\ conn'[a] = "quit"
  BY <1>1 DEF Attempt, Dial, Discard, Offers
<1>3. OneSent'
  BY <1>2 DEF OneSent
<1>4. CASE conn'[a] = "ready"
  <2>1. Socket(conn[a]) = "none" /\ Socket(conn'[a]) = "open"
    BY <1>2, <1>4, ProgressiveSockets
  <2>2. Answer(Told) = Answer(Told')
    BY <1>1 DEF Told
  <2>. QED BY <1>2, <1>3, <2>1, <2>2 DEF ProgressivePromise, KeepsPromise
<1>5. CASE conn'[a] # "ready"
  <2>1. Closes(conn[a], conn'[a])
    BY <1>2, <1>5, ProgressiveSockets DEF Closes
  <2>2. \A b \in Addrs : Closes(conn[b], conn'[b])
    BY <1>2, <2>1 DEF Closes
  <2>. QED BY <1>1, <1>3, <2>2, StaysUntold
<1>. QED BY <1>4, <1>5

\* Every step of the progressive race keeps the promise about sockets.
LEMMA ProgressiveKeeps ==
  ASSUME ProgressiveInv, OneSent, Next \/ UNCHANGED vars
  PROVE  OneSent' /\ ProgressivePromise
<1>0. conn \in [Addrs -> States] /\ \A b \in Addrs : Closes(conn[b], conn[b])
  BY DEF ProgressiveInv, ProgressiveTypes, Closes
<1>1. CASE RaceOver
  <2>1. phase = "loop"
    BY <1>1 DEF RaceOver
  <2>2. conn \in [Addrs -> States] /\ Calm(conn)
    BY <2>1, LoopCalm
  <2>3. CASE GiveUp(conn)
    BY <2>2, <2>3, GiveUpKeeps
  <2>4. ASSUME NEW a \in Held, conn' = [conn EXCEPT ![a] = "sending"], caller' = caller PROVE OneSent' /\ ProgressivePromise
    <3>1. a \in Addrs /\ Socket(conn[a]) = "open"
      BY ProgressiveSockets DEF Held, In
    <3>. QED BY <2>2, <2>4, <3>1, DeliverKeeps
  <2>. QED BY <1>1, <2>3, <2>4 DEF RaceOver
<1>2. CASE CtxDone
  <2>1. phase = "loop" /\ GiveUp(conn)
    BY <1>2 DEF CtxDone, Selecting
  <2>. QED BY <2>1, LoopCalm, GiveUpKeeps
<1>3. CASE Results
  BY <1>3, ReceiveKeeps DEF Results
<1>4. CASE PreferenceExpires
  <2>1. phase = "loop" /\ DeliverHeldIf(conn, TRUE) /\ caller' = caller
    BY <1>4 DEF PreferenceExpires, Selecting
  <2>. QED BY <2>1, LoopCalm, DeliverHeldKeeps
<1>5. CASE FastExpires
  <2>1. phase = "loop" /\ caller' = caller /\ (conn' = conn \/ conn' = Started(queued))
    BY <1>5 DEF FastExpires, Selecting, Released
  <2>. QED BY <2>1, LoopCalm, StaysCalm
<1>6. CASE SendTo \/ SendFails
  BY <1>6, SendKeeps
<1>7. CASE CallerLeaves \/ CallerSeesEnd
  <2>1. conn' = conn /\ caller = "waiting" /\ caller' \in {"left", "error"}
    BY <1>7 DEF CallerLeaves, CallerSeesEnd
  <2>2. Answer(Told) = "none" /\ Answer(Told') = "error"
    BY <2>1 DEF Answer, Told
  <2>3. ProgressivePromise
    BY <1>0, <2>1, <2>2 DEF ProgressivePromise, KeepsPromise
  <2>. QED BY <2>1, <2>3 DEF OneSent
<1>8. ASSUME conn' = conn, caller' = caller PROVE OneSent' /\ ProgressivePromise
  BY <1>0, <1>8, StaysUntold DEF OneSent
<1>9. CASE WorkTimeout
  BY <1>8, <1>9 DEF WorkTimeout
<1>10. CASE UNCHANGED vars
  BY <1>8, <1>10 DEF vars
<1>11. ASSUME NEW f \in families, Dns(f) PROVE OneSent' /\ ProgressivePromise
  BY <1>11, DnsKeeps
<1>12. ASSUME NEW a \in Addrs, Attempt(a) PROVE OneSent' /\ ProgressivePromise
  BY <1>12, AttemptKeeps
<1>. QED BY <1>1, <1>2, <1>3, <1>4, <1>5, <1>6, <1>7, <1>9, <1>10, <1>11, <1>12 DEF Next

\* In the beginning.
LEMMA OneSentInit == Init => OneSent
BY DEF Init, OneSent
=============================================================================
