--------------------------- MODULE ApprovalPromise ---------------------------
(***************************************************************************)
(* What the approval path promises about one remote action, without its    *)
(* threads, stores, tokens or clocks: an action reaches the host once, and *)
(* only from "authorized"; it is authorized by the policy or by the one    *)
(* operator answer that counts; an action that was refused, expired or     *)
(* lost with the process is closed for good.                               *)
(***************************************************************************)
EXTENDS Naturals

CONSTANTS Action, Answer, None

VARIABLES phase,   \* phase[a]: how far action a got
          winner,  \* winner[a]: the operator answer that counted, or None
          runs     \* runs[a]: how often a reached the host

promise == <<phase, winner, runs>>

Init == /\ phase = [a \in Action |-> "new"]
        /\ winner = [a \in Action |-> None]
        /\ runs = [a \in Action |-> 0]

Advance(a, from, to) ==
    /\ phase[a] \in from
    /\ phase' = [phase EXCEPT ![a] = to]

Submit(a) == Advance(a, {"new"}, "deciding") /\ UNCHANGED <<winner, runs>>

\* The gate asks a human.
Suspend(a) == Advance(a, {"deciding"}, "waiting") /\ UNCHANGED <<winner, runs>>

\* The first operator answer that counts decides the action, for ever.
Answered(a, x) ==
    /\ winner[a] = None
    /\ winner' = [winner EXCEPT ![a] = x]
    /\ \E verdict \in {"approved", "refused"} :
          Advance(a, {"waiting"}, verdict)
    /\ UNCHANGED runs

\* Nobody answered in time.
Expire(a) == Advance(a, {"waiting"}, "refused") /\ UNCHANGED <<winner, runs>>

\* The policy allows it, or an approval was turned into a recorded allow.
Authorize(a) ==
    /\ Advance(a, {"deciding", "approved"}, "authorized")
    /\ UNCHANGED <<winner, runs>>

Execute(a) ==
    /\ Advance(a, {"authorized"}, "executed")
    /\ runs' = [runs EXCEPT ![a] = @ + 1]
    /\ UNCHANGED winner

\* The action ends, whatever it reached.
Close(a) ==
    /\ phase[a] # "new"
    /\ phase' = [phase EXCEPT ![a] = "closed"]
    /\ UNCHANGED <<winner, runs>>

\* The process restarts: everything open is closed at once.
Restart ==
    /\ phase' = [a \in Action |-> IF phase[a] = "new" THEN "new" ELSE "closed"]
    /\ UNCHANGED <<winner, runs>>

Next ==
    \/ \E a \in Action :
         \/ Submit(a) \/ Suspend(a) \/ Expire(a) \/ Authorize(a) \/ Execute(a)
         \/ Close(a)
         \/ \E x \in Answer : Answered(a, x)
    \/ Restart

Spec == Init /\ [][Next]_promise

=============================================================================
