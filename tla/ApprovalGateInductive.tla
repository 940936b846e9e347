------------------------ MODULE ApprovalGateInductive ------------------------
(***************************************************************************)
(* The inductive strengthening of the safety properties of ApprovalGate.   *)
(* Each conjunct relates two of the places one action lives in: the        *)
(* executor thread, the suspended record, the operator answers, the tokens *)
(* and the audit log.                                                      *)
(***************************************************************************)
EXTENDS ApprovalGate

Early == {"new", "gate", "suspend"}
Asked == {"created", "waiting", "answered", "approved"}
Going == {"credential", "dial", "running"}

\* What the check established about an answer that may still land.
Vetted(x) ==
    LET f == ans[x].frame
        r == req[ans[x].about]
    IN  /\ f.op = "approve" => f.sameDigest
        /\ f.actor # Blank
        /\ ~(f.path = r.origin /\ f.actor = r.originActor)

\* An answer names a submitted action; one on its way, or one that counted,
\* passed the check.
AnswersVetted ==
    \A x \in Answer :
        /\ ans[x].pc = "new" => ans[x] = NewAnswer
        /\ ans[x].pc # "new" => /\ ans[x].frame \in Frame
                                /\ ans[x].about \in Action
                                /\ pc[ans[x].about] \notin Early
        /\ ans[x].pc \in {"read", "mint", "land"} => ans[x].result = "none"
        /\ ans[x].pc \in {"mint", "land"} => Vetted(x)
        /\ ans[x].pc = "mint" => ans[x].frame.op = "approve"
        /\ ans[x].result = "ok" => ans[x].pc = "done" /\ Vetted(x)

\* The request of a submitted action is one the agent may send.
Submitted == \A a \in Action : pc[a] # "new" => req[a] \in Request

\* The suspended record and the answers agree.
RecordMatchesAnswers ==
    \A a \in Action :
        /\ pending[a].state \in {"approved", "denied"} =>
              /\ pending[a].by \in Answer
              /\ LandedAs(pending[a].by, a,
                          IF pending[a].state = "approved" THEN "approve"
                                                           ELSE "deny")
        /\ pending[a].state \in {"pending", "expired"} =>
              \A x \in Answer : ~Landed(x, a)
        /\ pending[a].listed => pending[a].state # "absent"

\* The thread and the suspended record agree.
ThreadMatchesRecord ==
    \A a \in Action :
        /\ pc[a] \in Early => /\ pending[a].state = "absent"
                              /\ \A x \in Answer : ~Landed(x, a)
        /\ pc[a] \in {"created", "waiting"} =>
              pending[a].state \in {"pending", "approved", "denied"}
        /\ pc[a] \in {"answered", "approved"} =>
              /\ authority[a] = pending[a].state
              /\ authority[a] \in {"approved", "denied", "expired"}
        /\ pc[a] = "approved" => authority[a] = "approved"
        /\ pc[a] \in Going => authority[a] \in {"allow", "grant", "approved"}
        /\ pc[a] \in Early \cup {"created", "waiting"} => authority[a] = "none"
        /\ pending[a].listed /\ pending[a].state = "pending" =>
              pc[a] \in {"created", "waiting"}

\* What authorizes an action, or ended its wait, is what the answers say.
AuthorityMatchesAnswers ==
    \A a \in Action :
        /\ authority[a] = "approved" =>
              \E x \in Answer : LandedAs(x, a, "approve")
        /\ authority[a] = "denied" => \E x \in Answer : LandedAs(x, a, "deny")
        /\ authority[a] \in {"expired", "allow", "grant"} =>
              \A x \in Answer : ~Landed(x, a)
        /\ authority[a] \in {"allow", "grant"} => pending[a].state = "absent"

\* The thread and the audit log agree.
ThreadMatchesLog ==
    \A a \in Action :
        /\ pc[a] \in Early => log[a] = {}
        /\ pc[a] \in Asked => "approve" \in log[a]
        /\ authority[a] \in {"approved", "denied", "expired"} =>
              "approve" \in log[a]
        /\ pc[a] \in Asked => log[a] \cap {"allow", "denied", "expired",
                                           "credential_denied"} = {}
        /\ pc[a] \in Going => /\ "allow" \in log[a]
                              /\ log[a] \cap {"denied", "expired",
                                              "credential_denied"} = {}
        /\ pc[a] \in {"dial", "running"} /\ req[a].secret =>
              "credential_allow" \in log[a]
        /\ "expired" \in log[a] => authority[a] = "expired"
        /\ "allow" \in log[a] => log[a] \cap {"denied", "expired"} = {}
        /\ "denied" \in log[a] => "expired" \notin log[a]

\* The host was reached only by threads that got that far.
HostMatchesThread ==
    \A a \in Action :
        /\ hostRuns[a] \in {0, 1}
        /\ pc[a] = "running" => hostRuns[a] = 1
        /\ pc[a] \in Early \cup Asked \cup {"credential", "dial"} =>
              hostRuns[a] = 0
        /\ hostRuns[a] = 1 =>
              /\ authority[a] \in {"allow", "grant", "approved"}
              /\ "allow" \in log[a]
              /\ req[a].secret => "credential_allow" \in log[a]
              /\ log[a] \cap {"denied", "expired", "credential_denied"} = {}
              /\ response[a] \notin {"withheld", "not_terminal"}
        /\ response[a] = "none" <=> pc[a] \notin {"done", "lost"}

IInv ==
    /\ TypeOK
    /\ AnswersVetted
    /\ Submitted
    /\ OneAnswerCounts
    /\ RecordMatchesAnswers
    /\ ThreadMatchesRecord
    /\ AuthorityMatchesAnswers
    /\ ThreadMatchesLog
    /\ HostMatchesThread
    /\ OnlyTheWinnersTokenIsSpent

=============================================================================
