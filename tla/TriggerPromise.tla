--------------------------- MODULE TriggerPromise ---------------------------
(***************************************************************************)
(* What the trigger queue promises whoever enqueues a delivery, with no    *)
(* files, locks or processes: its turn is begun at most so often, an       *)
(* interrupted turn is begun again, and a delivery ends in one way only:   *)
(* concluded, dead-lettered, or forgotten with its trigger.                *)
(***************************************************************************)
EXTENDS Integers

CONSTANTS Delivery, MaxAttempts

VARIABLES
    st,     \* delivery -> "none", "queued", "running", "done", "dead", "deleted"
    runs    \* delivery -> turns begun for it

Init ==
    /\ st = [d \in Delivery |-> "none"]
    /\ runs = [d \in Delivery |-> 0]

Pending(d) == st[d] \in {"queued", "running"}

Becomes(d, s) == st' = [st EXCEPT ![d] = s]

Accept(d) == st[d] = "none" /\ Becomes(d, "queued") /\ UNCHANGED runs

Begin(d) ==
    /\ st[d] = "queued" /\ runs[d] < MaxAttempts
    /\ Becomes(d, "running")
    /\ runs' = [runs EXCEPT ![d] = @ + 1]

Finish(d) == Pending(d) /\ Becomes(d, "done") /\ UNCHANGED runs

Requeue(d) == st[d] = "running" /\ Becomes(d, "queued") /\ UNCHANGED runs

Bury(d) == Pending(d) /\ Becomes(d, "dead") /\ UNCHANGED runs

\* Triggers are deleted, and what is queued or dead-lettered for them.
Forget(S) ==
    /\ \A d \in S : st[d] \in {"queued", "dead"}
    /\ st' = [d \in Delivery |-> IF d \in S THEN "deleted" ELSE st[d]]
    /\ UNCHANGED runs

\* The gateway dies: the turn it was in is queued again or dead-lettered, and
\* what it had in hand of deleted triggers is forgotten.
Interrupt(S, B) ==
    /\ \A d \in S \cup B : Pending(d)
    /\ st' = [d \in Delivery |->
                IF d \in B THEN "dead"
                ELSE IF d \in S THEN "deleted"
                ELSE IF st[d] = "running" THEN "queued" ELSE st[d]]
    /\ UNCHANGED runs

Next ==
    \/ \E d \in Delivery :
         Accept(d) \/ Begin(d) \/ Finish(d) \/ Requeue(d) \/ Bury(d)
    \/ \E S \in SUBSET Delivery :
         Forget(S) \/ \E B \in SUBSET Delivery : Interrupt(S, B)

Spec == Init /\ [][Next]_<<st, runs>>

=============================================================================
