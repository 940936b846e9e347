------------------------- MODULE ApprovalQuestions -------------------------
(***************************************************************************)
(* The questions a deployment can put to ApprovalRules, one per state: any *)
(* configuration over a set of paths and people, any origin, any answer.   *)
(* Blank entries are part of the configurations, because an operator can   *)
(* write them and the code has a rule for each.                            *)
(***************************************************************************)
EXTENDS ApprovalRules

CONSTANTS Path, Person

ASSUME BlankIsNoName == Blank \notin Path /\ Blank \notin Person

Gates == [approvers : SUBSET {Approver(p, w) : p \in Path \cup {Blank},
                                               w \in Person \cup {Blank}},
          approvalPaths : SUBSET (Path \cup {Blank}),
          identity : BOOLEAN]

VARIABLES gates, origin, originActor, path, who

qvars == <<gates, origin, originActor, path, who>>

QuestionInit ==
    /\ gates \in Gates
    /\ origin \in Path \cup {Blank}
    /\ originActor \in Person \cup {Blank}
    /\ path \in Path \cup {Blank}
    /\ who \in Person \cup {Blank}

\* The next answer to the same request comes from somebody else.
NextAnswer ==
    /\ path' \in Path \cup {Blank}
    /\ who' \in Person \cup {Blank}
    /\ UNCHANGED <<gates, origin, originActor>>

QuestionSpec == QuestionInit /\ [][NextAnswer]_qvars

Verdict == check_approval(gates, origin, originActor, path, who)
Feasible == approval_feasible(gates, origin, originActor)

(* "The two functions never disagree" (approvals.py:205-208): an answer the *)
(* check accepts is one the feasibility test foresaw, so no answerable      *)
(* request is refused; and when the test passes, some approver's answer is  *)
(* accepted, so no suspension is a hang by construction (143-145).          *)
FeasibleHasAnAnswer ==
    Feasible = "ok" =>
        \E p \in Path, w \in Person :
            check_approval(gates, origin, originActor, p, w) = "ok"
CheckAgreesWithFeasibility ==
    (Verdict = "ok" => Feasible = "ok") /\ FeasibleHasAnAnswer

(* gates.identityIndependence "permits self-approval in no mode"            *)
(* (approvals.py:366-368): an accepted answer never joins the request's     *)
(* person and the request's path, and always names both a person and a path.*)
NoSelfApproval ==
    Verdict = "ok" => /\ path # Blank /\ who # Blank
                      /\ ~(path = origin /\ who = originActor)
                      /\ path = origin => originActor # Blank

=============================================================================
