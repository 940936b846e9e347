---------------------------- MODULE ApprovalRules ----------------------------
(***************************************************************************)
(* The pure rules of nanoinfra/gates/approvals.py: who may answer a        *)
(* request, on which path, and whether any such answer can exist.          *)
(*                                                                         *)
(* A gates configuration g is a record with at least the fields            *)
(*    approvers      a set of [channel, sender] pairs (gates.approvers)    *)
(*    approvalPaths  a set of paths                (gates.approvalPaths)   *)
(*    identity       BOOLEAN             (gates.identityIndependence)      *)
(* Every value is taken after the strip() each Python function applies, so *)
(* Blank stands for a missing or white-space-only string.                  *)
(***************************************************************************)
CONSTANT Blank

Approver(path, who) == [channel |-> path, sender |-> who]

\* Both facts must hold: the flag is on, and the request names a person.
identity_may_substitute(g, originActor) == g.identity /\ originActor # Blank

\* Condition 3: the answer is independent of the request it answers.  The
\* path decides, except on the origin path, where the two people must differ.
answer_is_independent_AnyActor(g, origin, originActor, path, who) ==
    /\ origin # Blank
    /\ path # origin \/ identity_may_substitute(g, originActor)
answer_is_independent(g, origin, originActor, path, who) ==
    /\ origin # Blank
    /\ \/ path # origin
       \/ identity_may_substitute(g, originActor) /\ who # originActor

authenticated_paths(g) == g.approvalPaths \ {Blank}

\* The origin path is itself an answering path when identity may substitute.
answering_paths(g, origin, originActor) ==
    IF identity_may_substitute(g, originActor)
    THEN authenticated_paths(g)
    ELSE authenticated_paths(g) \ {origin}

\* Exact match on both halves; a blank half names nobody.
is_approver(g, path, who) ==
    /\ path # Blank
    /\ who # Blank
    /\ Approver(path, who) \in g.approvers

\* The approvers who could still satisfy every condition.
reachable_approvers(g, origin, originActor) ==
    {ap \in g.approvers :
        /\ ap.channel \in answering_paths(g, origin, originActor)
        /\ ap.sender # Blank
        /\ answer_is_independent(g, origin, originActor, ap.channel, ap.sender)}

\* approval_feasible(): "ok", or the refusal, in the order the code tests.
approval_feasible_SkipReach(g, origin, originActor) ==
    IF origin = Blank THEN "unknown_origin_path"
    ELSE IF answering_paths(g, origin, originActor) = {} THEN "no_second_path"
    ELSE "ok"
approval_feasible(g, origin, originActor) ==
    IF origin = Blank THEN "unknown_origin_path"
    ELSE IF answering_paths(g, origin, originActor) = {} THEN "no_second_path"
    ELSE IF reachable_approvers(g, origin, originActor) = {}
         THEN "not_an_approver"
    ELSE "ok"

\* check_approval(): "ok", or the refusal, in the order the code tests.
check_approval(g, origin, originActor, path, who) ==
    IF origin = Blank THEN "unknown_origin_path"
    ELSE IF answering_paths(g, origin, originActor) = {} THEN "no_second_path"
    ELSE IF ~is_approver(g, path, who) THEN "not_an_approver"
    ELSE IF path \notin authenticated_paths(g) THEN "unauthenticated_path"
    ELSE IF answer_is_independent(g, origin, originActor, path, who) THEN "ok"
    ELSE IF originActor # Blank /\ originActor = who
            /\ identity_may_substitute(g, originActor)
         THEN "same_actor_and_path"
    ELSE "same_path"


=============================================================================
