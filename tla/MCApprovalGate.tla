---------------------------- MODULE MCApprovalGate ----------------------------
(***************************************************************************)
(* Small instances of ApprovalGate.  The requests, answers and             *)
(* configurations are chosen so that each rule of the path decides at      *)
(* least once: an action that is allowed, asks, is refused; an approver on *)
(* a second path, the requester on the origin path, an answer about other  *)
(* bytes, a denial; a configuration that is tightened while an action      *)
(* waits.                                                                  *)
(***************************************************************************)
EXTENDS ApprovalGateInductive, TLC

CONSTANTS web, chat, ana, bo, s1, d1, d2,
          a1, a2, x1, x2    \* two actions, two answers

VARIABLE focus

Ask1 == [session |-> s1, digest |-> d1, origin |-> chat, originActor |-> ana,
         interactive |-> TRUE, target |-> "hosts", renders |-> TRUE,
         secret |-> TRUE]
\* A second command of the same session, without a credential.
Ask2 == [Ask1 EXCEPT !.digest = d2, !.secret = FALSE]
Unattended == [Ask1 EXCEPT !.interactive = FALSE]
NoSession == [Ask2 EXCEPT !.session = Blank]
NoRender == [Ask2 EXCEPT !.renders = FALSE]
AllHosts == [Ask2 EXCEPT !.target = "all"]

TwoRequests == {Ask1, Ask2}
AllRequests == {Ask1, Ask2, Unattended, NoSession, NoRender, AllHosts}

Say(op, who, path, same) ==
    [op |-> op, actor |-> who, path |-> path, sameDigest |-> same]
Frames == {Say("approve", bo, web, TRUE), Say("approve", bo, web, FALSE),
           Say("approve", ana, chat, TRUE), Say("deny", bo, chat, TRUE)}
TwoFrames == {Say("approve", bo, web, TRUE), Say("deny", bo, web, TRUE)}

AskPolicy == [remote |-> "approve", credential |-> "approve",
              approvers |-> {Approver(web, bo), Approver(chat, ana),
                             Approver(chat, bo)},
              approvalPaths |-> {web, chat}, identity |-> TRUE]
\* Tightened: no credential opens, and the path rule alone decides.
Tight == [AskPolicy EXCEPT !.credential = "deny", !.identity = FALSE,
                           !.approvers = {Approver(chat, bo)}]
Open == [AskPolicy EXCEPT !.remote = "allow"]
Closed == [AskPolicy EXCEPT !.remote = "deny"]
Granted == [AskPolicy EXCEPT !.remote = "grant", !.credential = "grant"]

AllPolicies == {AskPolicy, Tight, Open, Closed, Granted}

-----------------------------------------------------------------------------
\* Answers race about one action, under every request and configuration.
Race == focus = "race" /\ pc'[a2] = "new"

\* Two actions wait beside each other, under one configuration.
Pair ==
    /\ focus = "pair"
    /\ gates' = AskPolicy
    /\ \A a \in Action : req'[a] \in TwoRequests \cup {None}
    /\ ans'[x1].frame \in TwoFrames \cup {None} /\ ans'[x2] = NewAnswer

GateInit ==
    /\ Init
    /\ focus = "race" \/ (focus = "pair" /\ gates = AskPolicy)
GateNext == Next /\ (Race \/ Pair) /\ UNCHANGED focus
GateSpec ==
    /\ GateInit /\ [][GateNext]_<<focus, vars>>
    /\ \A a \in Action : WF_vars(ExecutorStep(a))
    /\ \A x \in Answer : WF_vars(OperatorStep(x))
    /\ WF_vars(Tick)

=============================================================================
