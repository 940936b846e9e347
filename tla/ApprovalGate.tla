---------------------------- MODULE ApprovalGate ----------------------------
(***************************************************************************)
(* The approval path of the executor process (nanoinfra/gates/executor):   *)
(* one executor thread per submitted action (Executor.handle, _suspend and *)
(* _run), the store of suspended actions (gates/pending.py), the store of  *)
(* single-use tokens (gates/tokens.py), one thread per operator answer     *)
(* (ApprovalService in operator_socket.py), the append-only audit log, and *)
(* an operator who may rewrite the gates configuration at any time.        *)
(*                                                                         *)
(* Each deadline is kept as the time that is left, so that no clock has to *)
(* be bounded: now >= expires_at is left <= 0, and a record is stale when  *)
(* left < -Retention.                                                      *)
(***************************************************************************)
EXTENDS ApprovalRules, Integers, FiniteSets

CONSTANTS
    Action,        \* submitted actions, one executor thread each
    Answer,        \* operator answers, one operator-socket thread each
    Request,       \* the execute frames the agent may send
    Frame,         \* what an operator may say: op, actor, path, digest
    GatesChoice,   \* the configurations an operator may write
    Timeout,       \* gates.approvalTimeoutS
    TokenTTL,      \* the time to live of ApprovalTokenStore
    Retention,     \* how long an expired record is kept
    None

ASSUME DurationsOK ==
    /\ Timeout \in Nat \ {0}
    /\ TokenTTL \in Nat \ {0}
    /\ Retention \in Nat
ASSUME NoneOK == None \notin Action \cup Answer \cup Request \cup Frame

\* The fields of a request, a frame and a configuration the model reads.
ASSUME RequestOK ==
    \A r \in Request :
        /\ DOMAIN r = {"session", "digest", "origin", "originActor",
                       "interactive", "target", "renders", "secret"}
        /\ {r.interactive, r.renders, r.secret} \subseteq BOOLEAN
        /\ r.target \in {"hosts", "all", "unresolved"}
ASSUME FrameOK ==
    \A f \in Frame : /\ DOMAIN f = {"op", "actor", "path", "sameDigest"}
                     /\ f.op \in {"approve", "deny"}
                     /\ f.sameDigest \in BOOLEAN
ASSUME GatesOK ==
    \A g \in GatesChoice :
        /\ DOMAIN g = {"remote", "credential", "approvers", "approvalPaths",
                       "identity"}
        /\ g.remote \in {"allow", "grant", "approve", "deny"}
        /\ g.credential \in {"allow", "approve", "grant", "deny"}
        /\ \A ap \in g.approvers : ap = Approver(ap.channel, ap.sender)

VARIABLES
    gates,     \* the configuration the next gates_loader() call reads
    req,       \* req[a]: the request of action a
    pc,        \* pc[a]: where the executor thread of action a is
    authority, \* authority[a]: what authorizes a, or how its wait ended
    response,  \* response[a]: what the agent's connection was told
    hostRuns,  \* hostRuns[a]: how often backend.run() reached the host
    log,       \* log[a]: the decisions the audit log holds about a
    pending,   \* PendingApprovalStore._records
    token,     \* ApprovalTokenStore._records, by the answer that minted it
    ans        \* ans[x]: the operator-socket thread of answer x

vars == <<gates, req, pc, authority, response, hostRuns, log, pending, token,
          ans>>

-----------------------------------------------------------------------------
Absent  == [state |-> "absent", listed |-> FALSE, left |-> 0, by |-> None]
NoToken == [state |-> "absent", left |-> 0, session |-> Blank,
            digest |-> Blank]
NewAnswer == [pc |-> "new", frame |-> None, about |-> None, result |-> "none"]

Init ==
    /\ gates \in GatesChoice
    /\ req = [a \in Action |-> None]
    /\ pc = [a \in Action |-> "new"]
    /\ authority = [a \in Action |-> "none"]
    /\ response = [a \in Action |-> "none"]
    /\ hostRuns = [a \in Action |-> 0]
    /\ log = [a \in Action |-> {}]
    /\ pending = [a \in Action |-> Absent]
    /\ token = [x \in Answer |-> NoToken]
    /\ ans = [x \in Answer |-> NewAnswer]

\* "done" and "lost" are final; "new" is an action nobody submitted yet.
Busy(a) == pc[a] \notin {"new", "done", "lost"}

Goto(a, stage) == pc' = [pc EXCEPT ![a] = stage]

\* The thread answers its connection and ends.
Respond(a, answer) ==
    /\ Goto(a, "done")
    /\ response' = [response EXCEPT ![a] = answer]

\* Executor._record: the record lands, or the action is refused with an
\* error, because an action nothing records does not run.
Record(a, decision) == log' = [log EXCEPT ![a] = @ \cup {decision}]
RecordFails(a) == Respond(a, "error") /\ UNCHANGED log

\* Executor._refuse: the record first, then the withheld response.
Refuse(a, decision, answer) ==
    \/ Record(a, decision) /\ Respond(a, answer)
    \/ RecordFails(a)

\* A decision that lets the thread go on, once it is on record.
RecordThen(a, decision, stage) ==
    \/ Record(a, decision) /\ Goto(a, stage) /\ UNCHANGED response
    \/ RecordFails(a)

-----------------------------------------------------------------------------
\* The agent sends one execute frame; the executor starts a thread for it.
Submit(a, r) ==
    /\ pc[a] = "new"
    /\ req' = [req EXCEPT ![a] = r]
    /\ Goto(a, "gate")
    /\ UNCHANGED <<gates, authority, response, hostRuns, log, pending, token,
                   ans>>

\* Executor._gate: the decision for one request under one configuration.
\* g.remote is what policy.evaluate() answers for this target.
GateDecision(g, r) ==
    IF r.target # "hosts" THEN "deny"
    ELSE IF g.remote = "approve" /\ ~r.interactive THEN "deny"
    ELSE g.remote

\* Executor._decide, after the guards and the preview branch.
Gate(a) ==
    /\ pc[a] = "gate"
    /\ LET d == GateDecision(gates, req[a])
       IN  \/ /\ d = "approve"
              /\ Goto(a, "suspend")
              /\ UNCHANGED <<authority, response, log>>
           \/ /\ d \in {"allow", "grant"}
              /\ RecordThen(a, "allow", "credential")
              /\ authority' = [authority EXCEPT ![a] = d]
           \/ /\ d = "deny"
              /\ Refuse(a, "denied", "withheld")
              /\ UNCHANGED authority
    /\ UNCHANGED <<gates, req, hostRuns, pending, token, ans>>

\* PendingApprovalStore._prune: a stale record leaves the table, and a thread
\* that already waits on it keeps the object.
Pruned(keep) ==
    [b \in Action |-> IF b # keep /\ pending[b].left < -Retention
                      THEN [pending[b] EXCEPT !.listed = FALSE]
                      ELSE pending[b]]

\* PendingApprovalStore.create
CreatePending(a) ==
    pending' = [Pruned(a) EXCEPT ![a] = [state |-> "pending", listed |-> TRUE,
                                         left |-> Timeout, by |-> None]]

\* Executor._suspend up to the wait.  Every reason that no correct answer can
\* exist refuses at once; the record lands before the action is suspended.
SuspendRefusal(g, r) ==
    IF r.session = Blank THEN "withheld"
    ELSE IF approval_feasible(g, r.origin, r.originActor) # "ok"
            \/ ~r.renders
         THEN "not_terminal"
    ELSE "none"

Suspend(a) ==
    /\ pc[a] = "suspend"
    /\ LET refusal == SuspendRefusal(gates, req[a])
       IN  \/ /\ refusal # "none"
              /\ Refuse(a, "denied", refusal)
              /\ UNCHANGED pending
           \/ /\ refusal = "none"
              /\ RecordThen(a, "approve", "created")
              /\ IF pc'[a] = "created" THEN CreatePending(a)
                                       ELSE UNCHANGED pending
    /\ UNCHANGED <<gates, req, authority, hostRuns, token, ans>>

\* PendingApprovalStore.wait takes the record, or raises KeyError when it was
\* pruned first; the error becomes the response of the connection.
BeginWait(a) ==
    /\ pc[a] = "created"
    /\ \/ pending[a].listed /\ Goto(a, "waiting") /\ UNCHANGED response
       \/ ~pending[a].listed /\ Respond(a, "error")
    /\ UNCHANGED <<gates, req, authority, hostRuns, log, pending, token, ans>>

\* The rest of PendingApprovalStore.wait: an answer, or the deadline, which
\* the waiting thread itself turns into a state.
EndWait_DeadlineFirst(a) ==
    /\ pc[a] = "waiting"
    /\ \/ /\ pending[a].left > 0
          /\ pending[a].state # "pending"
          /\ authority' = [authority EXCEPT ![a] = pending[a].state]
          /\ UNCHANGED pending
       \/ /\ pending[a].left <= 0
          /\ pending' = [pending EXCEPT ![a].state = "expired"]
          /\ authority' = [authority EXCEPT ![a] = "expired"]
    /\ Goto(a, "answered")
    /\ UNCHANGED <<gates, req, response, hostRuns, log, token, ans>>
EndWait_NoDeadline(a) ==
    /\ pc[a] = "waiting"
    /\ pending[a].state # "pending"
    /\ authority' = [authority EXCEPT ![a] = pending[a].state]
    /\ Goto(a, "answered")
    /\ UNCHANGED <<gates, req, response, hostRuns, log, pending, token, ans>>
EndWait(a) ==
    /\ pc[a] = "waiting"
    /\ \/ /\ pending[a].state # "pending"
          /\ authority' = [authority EXCEPT ![a] = pending[a].state]
          /\ UNCHANGED pending
       \/ /\ pending[a].state = "pending" /\ pending[a].left <= 0
          /\ pending' = [pending EXCEPT ![a].state = "expired"]
          /\ authority' = [authority EXCEPT ![a] = "expired"]
    /\ Goto(a, "answered")
    /\ UNCHANGED <<gates, req, response, hostRuns, log, token, ans>>

\* Executor._suspend after a wait nobody approved.
Unapproved(a) ==
    /\ pc[a] = "answered"
    /\ authority[a] \in {"denied", "expired"}
    /\ Refuse(a, authority[a], "withheld")
    /\ UNCHANGED <<gates, req, authority, hostRuns, pending, token, ans>>

\* ApprovalTokenStore._evaluate, for the nonce the approval carried.
TokenVerdict(x, r) ==
    IF token[x].state = "absent" THEN "unknown_token"
    ELSE IF token[x].state = "used" THEN "already_used"
    ELSE IF token[x].left <= 0 THEN "expired"
    ELSE IF token[x].session # r.session THEN "wrong_session"
    ELSE IF token[x].digest # r.digest THEN "digest_mismatch"
    ELSE "ok"

\* ApprovalTokenStore.consume, then the refusal when it does not verify.
Consume_AnyMatching(a) ==
    /\ pc[a] = "answered"
    /\ authority[a] = "approved"
    /\ \E x \in Answer :
          /\ TokenVerdict(x, req[a]) = "ok"
          /\ token' = [token EXCEPT ![x].state = "used"]
          /\ Goto(a, "approved")
          /\ UNCHANGED <<response, log>>
    /\ UNCHANGED <<gates, req, authority, hostRuns, pending, ans>>
Consume(a) ==
    /\ pc[a] = "answered"
    /\ authority[a] = "approved"
    /\ LET x == pending[a].by
           ok == TokenVerdict(x, req[a]) = "ok"
       IN  \/ /\ ok
              /\ token' = [token EXCEPT ![x].state = "used"]
              /\ Goto(a, "approved")
              /\ UNCHANGED <<response, log>>
           \/ ~ok /\ Refuse(a, "denied", "withheld") /\ UNCHANGED token
    /\ UNCHANGED <<gates, req, authority, hostRuns, pending, ans>>

\* The allow record that names the approver lands, then _run.
RecordApproval_AfterRun(a) ==
    /\ pc[a] = "approved"
    /\ Goto(a, "credential")
    /\ UNCHANGED <<gates, req, authority, response, hostRuns, log, pending,
                   token, ans>>
RecordApproval(a) ==
    /\ pc[a] = "approved"
    /\ RecordThen(a, "allow", "credential")
    /\ UNCHANGED <<gates, req, authority, hostRuns, pending, token, ans>>

\* policy.evaluate_credential_access for an action that carries authority au.
CredentialAllowed(g, au) ==
    \/ g.credential = "allow"
    \/ g.credential \in {"approve", "grant"} /\ au \in {"grant", "allow"}
    \/ g.credential = "approve" /\ au = "approved"

\* The first half of Executor._run: the credential decision, recorded under
\* its own class, then the secret itself, which may not resolve.
OpenCredential(a) ==
    /\ pc[a] = "credential"
    /\ \/ /\ ~req[a].secret
          /\ Goto(a, "dial")
          /\ UNCHANGED <<response, log>>
       \/ /\ req[a].secret /\ CredentialAllowed(gates, authority[a])
          /\ \/ RecordThen(a, "credential_allow", "dial")
             \/ Record(a, "credential_allow") /\ Respond(a, "error")
       \/ /\ req[a].secret /\ ~CredentialAllowed(gates, authority[a])
          /\ Refuse(a, "credential_denied", "withheld")
    /\ UNCHANGED <<gates, req, authority, hostRuns, pending, token, ans>>

\* JobStore.create and mark_running (which may raise), then backend.run.
Dial_Retries(a) ==
    /\ pc[a] = "dial"
    /\ \/ /\ hostRuns' = [hostRuns EXCEPT ![a] = @ + 1]
          /\ hostRuns[a] < 2
          /\ \E stage \in {"dial", "running"} : Goto(a, stage)
          /\ UNCHANGED response
       \/ Respond(a, "error") /\ UNCHANGED hostRuns
    /\ UNCHANGED <<gates, req, authority, log, pending, token, ans>>
Dial(a) ==
    /\ pc[a] = "dial"
    /\ \/ /\ hostRuns' = [hostRuns EXCEPT ![a] = @ + 1]
          /\ Goto(a, "running")
          /\ UNCHANGED response
       \/ Respond(a, "error") /\ UNCHANGED hostRuns
    /\ UNCHANGED <<gates, req, authority, log, pending, token, ans>>

\* The transport returned, failed, timed out or raised; the completion record
\* may be lost, and that costs the record alone.
Finish(a) ==
    /\ pc[a] = "running"
    /\ Record(a, "completed") \/ UNCHANGED log
    /\ \E end \in {"ok", "failed", "error"} : Respond(a, end)
    /\ UNCHANGED <<gates, req, authority, hostRuns, pending, token, ans>>

-----------------------------------------------------------------------------
\* An operator reads list_pending and sends an answer about what it showed.
Answerable(a) == pending[a].state = "pending" /\ pending[a].left > 0

Ask(x, a, f) ==
    /\ ans[x].pc = "new"
    /\ pending[a].listed /\ Answerable(a)
    /\ ans' = [ans EXCEPT ![x] = [pc |-> "read", frame |-> f, about |-> a,
                                  result |-> "none"]]
    /\ UNCHANGED <<gates, req, pc, authority, response, hostRuns, log, pending,
                   token>>

AnswerEnds(x, result) ==
    ans' = [ans EXCEPT ![x].pc = "done", ![x].result = result]

\* ApprovalService.approve / deny up to the store: the record must exist, the
\* check of approvals.py must pass, and an approval must carry the digest.
AnswerVerdict_DigestOnly(x) ==
    LET f == ans[x].frame
    IN  IF f.op = "approve" /\ ~f.sameDigest THEN "digest_mismatch" ELSE "ok"
AnswerVerdict(x) ==
    LET f == ans[x].frame
        r == req[ans[x].about]
        check == check_approval(gates, r.origin, r.originActor, f.path, f.actor)
    IN  IF check # "ok" THEN check
        ELSE IF f.op = "approve" /\ ~f.sameDigest THEN "digest_mismatch"
        ELSE "ok"

CheckAnswer(x) ==
    /\ ans[x].pc = "read"
    /\ LET a == ans[x].about
           verdict == AnswerVerdict(x)
       IN  \/ /\ ~pending[a].listed
              /\ AnswerEnds(x, "unknown_request") /\ UNCHANGED log
           \/ /\ pending[a].listed /\ verdict # "ok"
              /\ AnswerEnds(x, verdict)
              /\ Record(a, "approval_refused") \/ UNCHANGED log
           \/ /\ pending[a].listed /\ verdict = "ok"
              /\ ans' = [ans EXCEPT ![x].pc =
                           IF ans[x].frame.op = "approve" THEN "mint"
                                                          ELSE "land"]
              /\ UNCHANGED log
    /\ UNCHANGED <<gates, req, pc, authority, response, hostRuns, pending,
                   token>>

\* ApprovalTokenStore.issue, which also prunes the stale tokens.
Mint(x) ==
    /\ ans[x].pc = "mint"
    /\ LET r == req[ans[x].about]
           stale == {y \in Answer \ {x} : token[y].left < -Retention}
       IN  token' = [y \in Answer |->
                       IF y = x THEN [state |-> "live", left |-> TokenTTL,
                                      session |-> r.session,
                                      digest |-> r.digest]
                       ELSE IF y \in stale THEN NoToken ELSE token[y]]
    /\ ans' = [ans EXCEPT ![x].pc = "land"]
    /\ UNCHANGED <<gates, req, pc, authority, response, hostRuns, log, pending>>

\* PendingApprovalStore.approve / deny: one answer means one answer.
LandRefusal_IgnoreState(a) ==
    IF ~pending[a].listed THEN "unknown_request"
    ELSE IF pending[a].left <= 0 THEN "expired"
    ELSE "none"
LandRefusal(a) ==
    IF ~pending[a].listed THEN "unknown_request"
    ELSE IF pending[a].state = "expired" THEN "expired"
    ELSE IF pending[a].state # "pending" THEN "already_answered"
    ELSE IF pending[a].left <= 0 THEN "expired"
    ELSE "none"

Land(x) ==
    /\ ans[x].pc = "land"
    /\ LET a == ans[x].about
           refusal == LandRefusal(a)
           state == IF ans[x].frame.op = "approve" THEN "approved" ELSE "denied"
       IN  \/ /\ refusal # "none"
              /\ AnswerEnds(x, refusal) /\ UNCHANGED pending
           \/ /\ refusal = "none"
              /\ pending' = [pending EXCEPT ![a].state = state, ![a].by = x]
              /\ AnswerEnds(x, "ok")
    /\ UNCHANGED <<gates, req, pc, authority, response, hostRuns, log, token>>

-----------------------------------------------------------------------------
\* The operator rewrites the configuration; every later load reads it.
SetGates(g) ==
    /\ gates' = g
    /\ UNCHANGED <<req, pc, authority, response, hostRuns, log, pending, token,
                   ans>>

\* Time passes for every deadline at once, down to "stale".
Aged(left) == IF left < -Retention THEN left ELSE left - 1
Tick ==
    /\ \/ \E a \in Action : pending[a].state # "absent" /\ pending[a].left >= -Retention
       \/ \E x \in Answer : token[x].state # "absent" /\ token[x].left >= -Retention
    /\ pending' = [a \in Action |->
                     IF pending[a].state = "absent" THEN pending[a]
                     ELSE [pending[a] EXCEPT !.left = Aged(@)]]
    /\ token' = [x \in Answer |->
                   IF token[x].state = "absent" THEN token[x]
                   ELSE [token[x] EXCEPT !.left = Aged(@)]]
    /\ UNCHANGED <<gates, req, pc, authority, response, hostRuns, log, ans>>

\* The executor dies and its supervisor restarts it.  Both stores live in
\* memory, so every suspended action and every token is gone; the audit log
\* and what already reached a host stay.
Crash ==
    /\ \E a \in Action : Busy(a)
    /\ pc' = [a \in Action |-> IF Busy(a) THEN "lost" ELSE pc[a]]
    /\ response' = [a \in Action |-> IF Busy(a) THEN "unavailable"
                                                ELSE response[a]]
    /\ pending' = [a \in Action |-> Absent]
    /\ token' = [x \in Answer |-> NoToken]
    /\ ans' = [x \in Answer |->
                 IF ans[x].pc \in {"new", "done"} THEN ans[x]
                 ELSE [ans[x] EXCEPT !.pc = "done", !.result = "unavailable"]]
    /\ UNCHANGED <<gates, req, authority, hostRuns, log>>

ExecutorStep(a) ==
    \/ Gate(a) \/ Suspend(a) \/ BeginWait(a) \/ EndWait(a) \/ Unapproved(a)
    \/ Consume(a) \/ RecordApproval(a) \/ OpenCredential(a) \/ Dial(a)
    \/ Finish(a)

OperatorStep(x) == CheckAnswer(x) \/ Mint(x) \/ Land(x)

Next ==
    \/ \E a \in Action : ExecutorStep(a) \/ \E r \in Request : Submit(a, r)
    \/ \E x \in Answer : \/ OperatorStep(x)
                         \/ \E a \in Action, f \in Frame : Ask(x, a, f)
    \/ \E g \in GatesChoice : SetGates(g)
    \/ Tick
    \/ Crash

Spec == Init /\ [][Next]_vars

\* Threads are scheduled and time passes; nobody has to submit or to answer.
FairSpec == /\ Spec
            /\ \A a \in Action : WF_vars(ExecutorStep(a))
            /\ \A x \in Answer : WF_vars(OperatorStep(x))
            /\ WF_vars(Tick)

-----------------------------------------------------------------------------
\* Properties.

Stage == {"new", "gate", "suspend", "created", "waiting", "answered",
          "approved", "credential", "dial", "running", "done", "lost"}
Decision == {"approve", "allow", "denied", "expired", "approval_refused",
             "credential_allow", "credential_denied", "completed"}

Result == {"none", "ok", "unavailable", "unknown_request", "expired",
           "already_answered", "digest_mismatch", "unknown_origin_path",
           "no_second_path", "not_an_approver", "unauthenticated_path",
           "same_actor_and_path", "same_path"}

PendingRecord ==
    [state : {"absent", "pending", "approved", "denied", "expired"},
     listed : BOOLEAN, left : Int, by : Answer \cup {None}]
TokenRecord ==
    [state : {"absent", "live", "used"}, left : Int,
     session : {r.session : r \in Request} \cup {Blank},
     digest : {r.digest : r \in Request} \cup {Blank}]
AnswerThread ==
    [pc : {"new", "read", "mint", "land", "done"},
     frame : Frame \cup {None}, about : Action \cup {None}, result : Result]

TypeOK ==
    /\ gates \in GatesChoice
    /\ req \in [Action -> Request \cup {None}]
    /\ pc \in [Action -> Stage]
    /\ authority \in [Action -> {"none", "allow", "grant", "approved",
                                 "denied", "expired"}]
    /\ response \in [Action -> {"none", "ok", "failed", "error", "withheld",
                                "not_terminal", "unavailable"}]
    /\ hostRuns \in [Action -> Nat]
    /\ log \in [Action -> SUBSET Decision]
    /\ pending \in [Action -> PendingRecord]
    /\ token \in [Answer -> TokenRecord]
    /\ ans \in [Answer -> AnswerThread]

\* The answer that landed in the store for action a: its operator was told ok.
Landed(x, a) == ans[x].result = "ok" /\ ans[x].about = a
LandedAs(x, a, op) == Landed(x, a) /\ ans[x].frame.op = op

(* Two operators may answer the same request at the same moment, each on    *)
(* the other's back; at most one of them is told that it counted            *)
(* (pending.py:150-154 "one answer means one answer").                      *)
OneAnswerCounts ==
    \A a \in Action, x, y \in Answer : Landed(x, a) /\ Landed(y, a) => x = y

(* An action the policy did not allow by itself reaches a host only through *)
(* an approval that landed, given on the bytes the executor rendered, by a  *)
(* named person who is not the requester on the requester's own path -      *)
(* whatever the configuration became in between (server.py:374-553).        *)
RunNeedsIndependentApproval ==
    \A a \in Action :
        hostRuns[a] > 0 /\ authority[a] \notin {"allow", "grant"} =>
            \E x \in Answer :
                LET f == ans[x].frame
                IN  /\ LandedAs(x, a, "approve")
                    /\ f.sameDigest
                    /\ f.actor # Blank
                    /\ ~(f.path = req[a].origin /\ f.actor = req[a].originActor)

(* An action that reached a host did so once, and its whole authorization   *)
(* was on record first: the allow, the suspension it came from, and the     *)
(* credential decision (server.py:607 "an action that nothing recorded does *)
(* not run").                                                               *)
RunOnceAndOnRecord ==
    \A a \in Action :
        /\ hostRuns[a] <= 1
        /\ hostRuns[a] > 0 =>
              /\ "allow" \in log[a]
              /\ authority[a] = "approved" => "approve" \in log[a]
              /\ req[a].secret => "credential_allow" \in log[a]

(* Whoever is told that an action was withheld, denied or expired can rely  *)
(* on it: the agent's refusal, the operator's landed denial and the expired *)
(* record each exclude that the command ran.                                *)
RefusedNeverRuns ==
    \A a \in Action :
        \/ response[a] \in {"withheld", "not_terminal"}
        \/ \E x \in Answer : LandedAs(x, a, "deny")
        \/ log[a] \cap {"denied", "expired", "credential_denied"} # {}
        => hostRuns[a] = 0

(* The answer and the deadline race, and the audit log, the operator and    *)
(* the store agree on who won: an expired action has no answer that counted *)
(* (pending.py:350-353).                                                    *)
ExpiryExcludesAnswers ==
    \A a \in Action :
        "expired" \in log[a] \/ pending[a].state = "expired" =>
            \A x \in Answer : ~Landed(x, a)

(* The log holds one verdict on an action's class: never two of allowed,    *)
(* denied and expired, which a reviewer could not reconcile.                *)
OneVerdictOnRecord ==
    \A a \in Action :
        Cardinality(log[a] \cap {"allow", "denied", "expired"}) <= 1

(* The token of an answer that lost the race stays unspent                  *)
(* (operator_socket.py:293-294): a spent token is the one whose approval    *)
(* landed, so one approval authorizes one execution.                        *)
OnlyTheWinnersTokenIsSpent ==
    \A x \in Answer :
        token[x].state = "used" => LandedAs(x, ans[x].about, "approve")

(* Nothing is suspended that nobody may answer: under the configuration the *)
(* suspension reads - which may no longer be the one that asked for an      *)
(* approval - some listed approver's answer would count (server.py:379-381).*)
NoHopelessSuspension ==
    [][\A a \in Action :
          pc[a] = "suspend" /\ pc'[a] = "created" =>
              \E ap \in gates.approvers :
                  check_approval(gates, req[a].origin, req[a].originActor,
                                 ap.channel, ap.sender) = "ok"]_vars

(* A request that waits has an end: an answered, expired, lost or refused   *)
(* action; in particular nobody's silence can hold a connection for ever.   *)
EveryActionEnds == \A a \in Action : Busy(a) ~> ~Busy(a)

(* The first answer or the deadline settles a suspended action for good;    *)
(* only a restart forgets it, and then its thread is gone as well.          *)
VerdictIsFinal ==
    [][\A a \in Action :
          pending[a].state \in {"approved", "denied", "expired"} =>
              \/ pending'[a].state = pending[a].state
              \/ pending'[a] = Absent /\ ~Busy(a)']_vars

-----------------------------------------------------------------------------
\* Refinement: how far an action got, seen from ApprovalPromise.
Phase(a) ==
    CASE pc[a] = "new" -> "new"
      [] pc[a] \in {"gate", "suspend"} -> "deciding"
      [] pc[a] \in {"created", "waiting"} /\ pending[a].state = "pending"
           -> "waiting"
      [] pc[a] \in {"created", "waiting"} /\ pending[a].state = "approved"
           -> "approved"
      [] pc[a] \in {"created", "waiting"} /\ pending[a].state = "denied"
           -> "refused"
      [] pc[a] = "answered" /\ authority[a] = "approved" -> "approved"
      [] pc[a] = "answered" /\ authority[a] # "approved" -> "refused"
      [] pc[a] = "approved" -> "approved"
      [] pc[a] \in {"credential", "dial"} -> "authorized"
      [] pc[a] = "running" -> "executed"
      [] OTHER -> "closed"

Winner(a) == IF \E x \in Answer : Landed(x, a)
             THEN CHOOSE x \in Answer : Landed(x, a)
             ELSE None

Promise == INSTANCE ApprovalPromise WITH
              phase <- [a \in Action |-> Phase(a)],
              winner <- [a \in Action |-> Winner(a)],
              runs <- hostRuns

(* The whole of the threads, stores, tokens and records implements the      *)
(* promise about each action.                                               *)
ImplementsPromise == Promise!Spec

=============================================================================
