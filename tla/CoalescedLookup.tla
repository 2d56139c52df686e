--------------------------- MODULE CoalescedLookup ---------------------------
(***************************************************************************)
(* What Cache.Refresh (component/dev_cache/cache.go) promises its callers, *)
(* without clocks, values, retention or workers: a key has at most one     *)
(* open ticket, callers that ask meanwhile share it, and a ticket that is  *)
(* closed, by a finished or by an invalidated fetch, has one verdict that  *)
(* everybody who holds it is told.                                         *)
(***************************************************************************)
CONSTANTS Keys, Tickets, Callers, Null

VARIABLES
  open,     \* the ticket of each key that is being looked up
  verdict,  \* what became of each ticket
  waits,    \* the ticket each caller holds
  answer    \* what each caller was told last

lvars == <<open, verdict, waits, answer>>

Final == {"ok", "failed", "invalidated"}

LookupInit ==
  /\ open = [k \in Keys |-> Null]
  /\ verdict = [t \in Tickets |-> "unused"]
  /\ waits = [c \in Callers |-> Null]
  /\ answer = [c \in Callers |-> "pending"]

\* A caller shares the open ticket of its key, or opens one
Ask(c, k) ==
  /\ waits[c] = Null
  /\ \E t \in Tickets :
       /\ \/ open[k] = t /\ UNCHANGED <<open, verdict>>
          \/ /\ open[k] = Null
             /\ verdict[t] = "unused"
             /\ open' = [open EXCEPT ![k] = t]
             /\ verdict' = [verdict EXCEPT ![t] = "pending"]
       /\ waits' = [waits EXCEPT ![c] = t]
       /\ answer' = [answer EXCEPT ![c] = "pending"]

\* A caller is given the value kept from before
AskRetained(c) ==
  /\ waits[c] = Null
  /\ answer' = [answer EXCEPT ![c] = "retained"]
  /\ UNCHANGED <<open, verdict, waits>>

\* The open tickets of the keys in S are closed with one verdict
Settle(S, v) ==
  /\ UNCHANGED <<waits, answer>>
  /\ open' = [k \in Keys |-> IF k \in S THEN Null ELSE open[k]]
  /\ verdict' = [t \in Tickets |-> IF \E k \in S : open[k] = t THEN v ELSE verdict[t]]

Tell(c) ==
  /\ waits[c] # Null
  /\ verdict[waits[c]] \in Final
  /\ waits' = [waits EXCEPT ![c] = Null]
  /\ answer' = [answer EXCEPT ![c] = verdict[waits[c]]]
  /\ UNCHANGED <<open, verdict>>

GiveUp(c) ==
  /\ waits[c] # Null
  /\ waits' = [waits EXCEPT ![c] = Null]
  /\ answer' = [answer EXCEPT ![c] = "cancelled"]
  /\ UNCHANGED <<open, verdict>>

LookupNext ==
  \/ \E S \in SUBSET Keys, v \in Final : Settle(S, v)
  \/ \E c \in Callers : \/ \E k \in Keys : Ask(c, k)
                        \/ AskRetained(c)
                        \/ Tell(c)
                        \/ GiveUp(c)

LookupSafety == LookupInit /\ [][LookupNext]_lvars
=============================================================================
