------------------------------ MODULE SingleDo ------------------------------
(***************************************************************************)
(* common/singledo: callers of Do share one running call, and for a while  *)
(* its result; Reset forgets both while the call may still be running.     *)
(* What a call computes is abstracted to the epoch it started in: the      *)
(* number of Resets before it.                                             *)
(***************************************************************************)
EXTENDS Naturals, FiniteSets

CONSTANTS
    Users,      \* goroutines that use one Single
    MaxEpoch    \* bound: Resets explored

NoCall == "none"

ASSUME UsersAssumption == MaxEpoch \in Nat /\ NoCall \notin Users

VARIABLES
    epoch,      \* Resets so far
    call,       \* s.call: the goroutine whose call is current, or NoCall
    result,     \* s.result: the kept value, as a set
    user        \* per goroutine: its place in Do and what it holds

singleVars == <<epoch, call, result, user>>

Epochs == 0..MaxEpoch

\* pc: "idle" | "running" fn | "done" fn returned, before the second lock |
\*     "waiting" for the call of another | "returned".
\* born: the epoch at the first lock; value: what the call computed.
Idle == [pc |-> "idle", born |-> 0, value |-> 0, of |-> NoCall]

UserState == [pc : {"idle", "running", "done", "waiting", "returned"},
              born : Epochs, value : Epochs, of : Users \cup {NoCall}]

SingleTypeOK ==
    /\ epoch \in Epochs
    /\ call \in Users \cup {NoCall}
    /\ result \in SUBSET Epochs
    /\ user \in [Users -> UserState]

SingleInit ==
    /\ epoch = 0
    /\ call = NoCall
    /\ result = {}
    /\ user = [u \in Users |-> Idle]

\* The first lock, with a result that has not expired.
DoKept(u) ==
    /\ user[u].pc = "idle"
    /\ \E v \in result : user' = [user EXCEPT ![u] = [Idle EXCEPT !.pc = "returned", !.born = epoch, !.value = v]]
    /\ UNCHANGED <<epoch, call, result>>

\* The first lock, with a call under way: wait for it. A call that has already
\* computed its value answers at once.
DoJoin(u) ==
    /\ user[u].pc = "idle"
    /\ result = {}
    /\ call # NoCall
    /\ user' = [user EXCEPT ![u] =
                    IF user[call].pc = "done"
                    THEN [Idle EXCEPT !.pc = "returned", !.born = epoch, !.value = user[call].value]
                    ELSE [Idle EXCEPT !.pc = "waiting", !.born = epoch, !.of = call]]
    /\ UNCHANGED <<epoch, call, result>>

\* The first lock, with neither: start the call.
DoStart(u) ==
    /\ user[u].pc = "idle"
    /\ result = {}
    /\ call = NoCall
    /\ call' = u
    /\ user' = [user EXCEPT ![u] = [Idle EXCEPT !.pc = "running", !.born = epoch, !.value = epoch]]
    /\ UNCHANGED <<epoch, result>>

\* Mutant: waiters are not released.
MutantFnReturns(u) ==
    /\ user[u].pc = "running"
    /\ user' = [user EXCEPT ![u].pc = "done"]
    /\ UNCHANGED <<epoch, call, result>>

\* fn returns and the wait group lets every waiter of this call go.
FnReturns(u) ==
    /\ user[u].pc = "running"
    /\ user' = [w \in Users |->
                    CASE w = u -> [user[u] EXCEPT !.pc = "done"]
                      [] user[w].pc = "waiting" /\ user[w].of = u ->
                            [user[w] EXCEPT !.pc = "returned", !.value = user[u].value, !.of = NoCall]
                      [] OTHER -> user[w]]
    /\ UNCHANGED <<epoch, call, result>>

\* Mutant: the check "maybe reset when fn is running" is dropped.
MutantKeep(u) ==
    /\ user[u].pc = "done"
    /\ call' = NoCall
    /\ result' = {user[u].value}
    /\ user' = [user EXCEPT ![u].pc = "returned"]
    /\ UNCHANGED epoch

\* The second lock: the value is kept unless the call was reset meanwhile.
Keep(u) ==
    /\ user[u].pc = "done"
    /\ IF call = u
       THEN /\ call' = NoCall
            /\ result' = {user[u].value}
       ELSE UNCHANGED <<call, result>>
    /\ user' = [user EXCEPT ![u].pc = "returned"]
    /\ UNCHANGED epoch

\* The result is older than s.wait.
Expire ==
    /\ result # {}
    /\ result' = {}
    /\ UNCHANGED <<epoch, call, user>>

Reset ==
    /\ epoch < MaxEpoch
    /\ epoch' = epoch + 1
    /\ call' = NoCall
    /\ result' = {}
    /\ UNCHANGED user

\* The goroutine comes back with another request.
Again(u) ==
    /\ user[u].pc = "returned"
    /\ user' = [user EXCEPT ![u] = Idle]
    /\ UNCHANGED <<epoch, call, result>>

Do(u) == DoKept(u) \/ DoJoin(u) \/ DoStart(u) \/ FnReturns(u) \/ Keep(u)

SingleNext ==
    \/ \E u \in Users : Do(u) \/ Again(u)
    \/ Expire
    \/ Reset

SingleSpec == SingleInit /\ [][SingleNext]_singleVars

-----------------------------------------------------------------------------
(* Properties                                                              *)

\* What Do returns was computed by a call that started no earlier than the last
\* Reset before that Do: a Reset is never undone by a call it overtook. And
\* between two Resets at most one goroutine is computing.
ResetIsFinal ==
    /\ \A u \in Users : user[u].pc = "returned" => user[u].value >= user[u].born
    /\ \A u, w \in Users :
         (user[u].pc = "running" /\ user[w].pc = "running" /\ user[u].value = user[w].value) => u = w
=============================================================================
