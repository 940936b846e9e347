-------------------------- MODULE ApprovalGateProofs --------------------------
(***************************************************************************)
(* The safety of the approval path, for any number of actions, answers,    *)
(* requests and configurations and for any deadlines.                      *)
(*                                                                         *)
(* One lemma per action shows that the inductive invariant IInv of         *)
(* ApprovalGateInductive survives it; each lemma first states what the     *)
(* action does to the places IInv relates (steps f1, f2, ...), then takes  *)
(* the conjuncts of IInv one by one.                                       *)
(***************************************************************************)
EXTENDS ApprovalGateInductive, FiniteSetTheorems, TLAPS

(* Creating one pending record keeps every other record but its listing.   *)
LEMMA PrunedKeeps ==
    ASSUME TypeOK, NEW a \in Action
    PROVE  LET P == [Pruned(a) EXCEPT ![a] = [state |-> "pending",
                       listed |-> TRUE, left |-> Timeout, by |-> None]]
           IN  /\ P \in [Action -> PendingRecord]
               /\ P[a].state = "pending"
               /\ \A b \in Action : b # a =>
                     /\ P[b].state = pending[b].state
                     /\ P[b].by = pending[b].by
                     /\ P[b].listed => pending[b].listed
  <1>1. \A b \in Action : pending[b] \in PendingRecord
    BY DEF TypeOK
  <1>2. \A b \in Action : [pending[b] EXCEPT !.listed = FALSE] \in PendingRecord
    BY <1>1 DEF PendingRecord
  <1>3. [state |-> "pending", listed |-> TRUE, left |-> Timeout, by |-> None]
           \in PendingRecord
    BY DurationsOK DEF PendingRecord
  <1>4. \A b \in Action : b # a =>
           \/ Pruned(a)[b] = pending[b]
           \/ Pruned(a)[b] = [pending[b] EXCEPT !.listed = FALSE]
    BY DEF Pruned
  <1>5. DOMAIN Pruned(a) = Action
    BY DEF Pruned
  <1> QED
    BY <1>1, <1>2, <1>3, <1>4, <1>5 DEF PendingRecord, Pruned

(* The check answers with one of the results an operator may be told.      *)
LEMMA VerdictTyped ==
    \A x \in Answer : AnswerVerdict(x) \in Result
  BY DEF AnswerVerdict, check_approval, Result

(* An answer the check lets through is vetted.                             *)
LEMMA VouchedIsVetted ==
    ASSUME NEW x \in Answer, AnswerVerdict(x) = "ok"
    PROVE  Vetted(x)
  <1> DEFINE f == ans[x].frame
             r == req[ans[x].about]
  <1>1. check_approval(gates, r.origin, r.originActor, f.path, f.actor) = "ok"
    BY DEF AnswerVerdict
  <1>2. f.op = "approve" => f.sameDigest
    BY <1>1 DEF AnswerVerdict
  <1>3. f.actor # Blank /\ ~(f.path = r.origin /\ f.actor = r.originActor)
    <2>1. /\ is_approver(gates, f.path, f.actor)
          /\ answer_is_independent(gates, r.origin, r.originActor, f.path, f.actor)
      BY <1>1 DEF check_approval
    <2> QED
      BY <2>1 DEF is_approver, answer_is_independent, identity_may_substitute
  <1> QED
    BY <1>2, <1>3 DEF Vetted

(* Time keeps an integer deadline an integer.                              *)
LEMMA AgedTyped == \A n \in Int : Aged(n) \in Int
  BY DurationsOK DEF Aged

(* The values a restart leaves in the stores and in an open answer.        *)
LEMMA BlanksTyped == Absent \in PendingRecord /\ NoToken \in TokenRecord
  <1>1. Absent \in PendingRecord
    BY DEF Absent, PendingRecord
  <1>2. ASSUME NEW S, NEW D, Blank \in S, Blank \in D
        PROVE  NoToken \in [state : {"absent", "live", "used"}, left : Int,
                            session : S, digest : D]
    BY <1>2 DEF NoToken
  <1>3. NoToken \in TokenRecord
    <2> DEFINE S == {r.session : r \in Request} \cup {Blank}
               D == {r.digest : r \in Request} \cup {Blank}
    <2>1. Blank \in S /\ Blank \in D
      OBVIOUS
    <2>2. TokenRecord = [state : {"absent", "live", "used"}, left : Int,
                         session : S, digest : D]
      BY DEF TokenRecord
    <2> HIDE DEF S, D
    <2> QED
      BY <1>2, <2>1, <2>2
  <1> QED
    BY <1>1, <1>3

(* Closing an open answer keeps what it is about.                          *)
LEMMA UnavailableTyped ==
    ASSUME NEW u \in AnswerThread
    PROVE  LET v == [u EXCEPT !.pc = "done", !.result = "unavailable"]
           IN  /\ v \in AnswerThread
               /\ v.pc = "done" /\ v.result = "unavailable"
               /\ v.frame = u.frame /\ v.about = u.about
  BY DEF AnswerThread, Result

(* A submitted action starts with a request and nothing else. *)
LEMMA SubmitPreserves ==
    ASSUME IInv, NEW a \in Action, NEW r \in Request, Submit(a, r)
    PROVE  IInv'
  <1>a. TypeOK BY DEF IInv
  <1>u. UNCHANGED <<gates, authority, response, hostRuns, log, pending, token, ans>>
    BY DEF Submit
  <1>t. TypeOK'
    <2>req. (req \in [Action -> Request \cup {None}])'
      BY <1>a, <1>u DEF TypeOK, Submit, Goto
    <2>pc. (pc \in [Action -> Stage])'
      BY <1>a, <1>u DEF TypeOK, Submit, Goto, Stage
    <2> QED BY <1>a, <1>u, <2>req, <2>pc DEF TypeOK
  <1>1. AnswersVetted'
    BY <1>a, <1>u
       DEF IInv, TypeOK, AnswersVetted, Vetted, Early, Stage, NewAnswer,
           Submit, Goto
  <1>2. Submitted'
    BY <1>a, <1>u DEF IInv, TypeOK, Submitted, Submit, Goto
  <1>3. OneAnswerCounts'
    BY <1>a, <1>u DEF IInv, TypeOK, OneAnswerCounts, Landed, Submit, Goto
  <1>4. RecordMatchesAnswers'
    BY <1>a, <1>u
       DEF IInv, TypeOK, RecordMatchesAnswers, LandedAs, Landed, Submit, Goto
  <1>5. ThreadMatchesRecord'
    BY <1>a, <1>u
       DEF IInv, TypeOK, ThreadMatchesRecord, Landed, Early, Going, Absent,
           Submit, Goto
  <1>6. AuthorityMatchesAnswers'
    BY <1>a, <1>u
       DEF IInv, TypeOK, AuthorityMatchesAnswers, ThreadMatchesRecord,
           LandedAs, Landed, Early, Absent, Submit, Goto
  <1>7. ThreadMatchesLog'
    BY <1>a, <1>u
       DEF IInv, TypeOK, ThreadMatchesLog, ThreadMatchesRecord, Early, Asked,
           Going, Submit, Goto
  <1>8. HostMatchesThread'
    BY <1>a, <1>u
       DEF IInv, TypeOK, HostMatchesThread, ThreadMatchesLog,
           ThreadMatchesRecord, Early, Asked, Going, Submit, Goto
  <1>9. OnlyTheWinnersTokenIsSpent'
    BY <1>a, <1>u
       DEF IInv, TypeOK, OnlyTheWinnersTokenIsSpent, LandedAs, Landed, Submit,
           Goto
  <1> QED
    BY <1>t, <1>1, <1>2, <1>3, <1>4, <1>5, <1>6, <1>7, <1>8, <1>9 DEF IInv

(* The gate allows, refuses or sends the action to be suspended. *)
LEMMA GatePreserves ==
    ASSUME IInv, NEW a \in Action, Gate(a)
    PROVE  IInv'
  <1>a. TypeOK BY DEF IInv
  <1>u. UNCHANGED <<gates, req, hostRuns, pending, token, ans>>
    BY DEF Gate
  <1>t. TypeOK'
    <2>pc. (pc \in [Action -> Stage])'
      BY <1>a, <1>u
         DEF TypeOK, Gate, RecordThen, RecordFails, Record, Refuse, Respond,
             Goto, Stage
    <2>authority. (authority \in [Action -> {"none", "allow", "grant", "approved",
                              "denied", "expired"}])'
      BY <1>a, <1>u
         DEF TypeOK, Gate, RecordThen, RecordFails, Record, Refuse, Respond,
             Goto
    <2>response. (response \in [Action -> {"none", "ok", "failed", "error", "withheld",
                             "not_terminal", "unavailable"}])'
      BY <1>a, <1>u
         DEF TypeOK, Gate, RecordThen, RecordFails, Record, Refuse, Respond,
             Goto
    <2>log. (log \in [Action -> SUBSET Decision])'
      BY <1>a, <1>u
         DEF TypeOK, Gate, RecordThen, RecordFails, Record, Refuse, Respond,
             Goto, Decision
    <2> QED BY <1>a, <1>u, <2>pc, <2>authority, <2>response, <2>log DEF TypeOK
  <1>1. AnswersVetted'
    BY <1>a, <1>u
       DEF IInv, TypeOK, AnswersVetted, Vetted, Early, Stage, NewAnswer, Gate,
           RecordThen, RecordFails, Record, Refuse, Respond, Goto
  <1>2. Submitted'
    BY <1>a, <1>u
       DEF IInv, TypeOK, Submitted, Gate, RecordThen, RecordFails, Record,
           Refuse, Respond, Goto
  <1>3. OneAnswerCounts'
    BY <1>a, <1>u
       DEF IInv, TypeOK, OneAnswerCounts, Landed, Gate, RecordThen,
           RecordFails, Record, Refuse, Respond, Goto
  <1>4. RecordMatchesAnswers'
    BY <1>a, <1>u
       DEF IInv, TypeOK, RecordMatchesAnswers, LandedAs, Landed, Gate,
           RecordThen, RecordFails, Record, Refuse, Respond, Goto
  <1>5. ThreadMatchesRecord'
    BY <1>a, <1>u
       DEF IInv, TypeOK, ThreadMatchesRecord, Landed, Early, Going, Absent,
           Gate, RecordThen, RecordFails, Record, Refuse, Respond, Goto
  <1>6. AuthorityMatchesAnswers'
    BY <1>a, <1>u
       DEF IInv, TypeOK, AuthorityMatchesAnswers, ThreadMatchesRecord,
           LandedAs, Landed, Early, Absent, Gate, RecordThen, RecordFails,
           Record, Refuse, Respond, Goto
  <1>7. ThreadMatchesLog'
    BY <1>a, <1>u
       DEF IInv, TypeOK, ThreadMatchesLog, ThreadMatchesRecord, Early, Asked,
           Going, Gate, RecordThen, RecordFails, Record, Refuse, Respond, Goto
  <1>8. HostMatchesThread'
    BY <1>a, <1>u
       DEF IInv, TypeOK, HostMatchesThread, ThreadMatchesLog,
           ThreadMatchesRecord, Early, Asked, Going, Gate, RecordThen,
           RecordFails, Record, Refuse, Respond, Goto
  <1>9. OnlyTheWinnersTokenIsSpent'
    BY <1>a, <1>u
       DEF IInv, TypeOK, OnlyTheWinnersTokenIsSpent, LandedAs, Landed, Gate,
           RecordThen, RecordFails, Record, Refuse, Respond, Goto
  <1> QED
    BY <1>t, <1>1, <1>2, <1>3, <1>4, <1>5, <1>6, <1>7, <1>8, <1>9 DEF IInv

(* A suspension creates one pending record and can only unlist others. *)
LEMMA SuspendPreserves ==
    ASSUME IInv, NEW a \in Action, Suspend(a)
    PROVE  IInv'
  <1>a. TypeOK BY DEF IInv
  <1>u. UNCHANGED <<gates, req, authority, hostRuns, token, ans>>
    BY DEF Suspend
  <1>f1.
         \/ /\ pc'[a] = "created"
            /\ pending' = [Pruned(a) EXCEPT ![a] =
                             [state |-> "pending", listed |-> TRUE,
                              left |-> Timeout, by |-> None]]
         \/ pc'[a] = "done" /\ pending' = pending
    BY <1>a
       DEF Suspend, CreatePending, TypeOK, RecordThen, RecordFails, Record,
           Refuse, Respond, Goto
  <1>f2.
         /\ pending' \in [Action -> PendingRecord]
         /\ pc'[a] = "created" => pending'[a].state = "pending"
         /\ \A b \in Action : b # a =>
               /\ pending'[b].state = pending[b].state
               /\ pending'[b].by = pending[b].by
               /\ pending'[b].listed => pending[b].listed
    <2>1. CASE pc'[a] = "done" /\ pending' = pending
      BY <1>a, <2>1 DEF TypeOK
    <2>2. CASE /\ pc'[a] = "created"
               /\ pending' = [Pruned(a) EXCEPT ![a] =
                                [state |-> "pending", listed |-> TRUE,
                                 left |-> Timeout, by |-> None]]
      BY <1>a, <2>2, PrunedKeeps
    <2> QED
      BY <1>f1, <2>1, <2>2
  <1>f3.
         /\ pc[a] = "suspend" /\ authority[a] = "none"
         /\ pending[a].state = "absent"
         /\ \A y \in Answer : ~Landed(y, a)
    BY <1>a DEF Suspend, IInv, TypeOK, ThreadMatchesRecord, Early
  <1>f4. \A b \in Action : b # a => pc'[b] = pc[b]
    BY <1>a
       DEF Suspend, TypeOK, RecordThen, RecordFails, Record, Refuse, Respond,
           Goto
  <1>f5.
         \A y \in Answer, b \in Action : Landed(y, b)' <=> Landed(y, b)
    BY <1>u DEF Landed
  <1>f6.
         \A y \in Answer, b \in Action, op \in {"approve", "deny"} :
            LandedAs(y, b, op)' <=> LandedAs(y, b, op)
    BY <1>u DEF LandedAs, Landed
  <1>t. TypeOK'
    <2>pc. (pc \in [Action -> Stage])'
      BY <1>a, <1>u, <1>f1, <1>f2, <1>f3, <1>f4, <1>f5, <1>f6
         DEF TypeOK, Suspend, RecordThen, RecordFails, Record, Refuse,
             Respond, Goto, Stage
    <2>response. (response \in [Action -> {"none", "ok", "failed", "error", "withheld",
                             "not_terminal", "unavailable"}])'
      BY <1>a
         DEF Suspend, TypeOK, SuspendRefusal, RecordThen, RecordFails, Record,
             Refuse, Respond, Goto
    <2>log. (log \in [Action -> SUBSET Decision])'
      BY <1>a, <1>u, <1>f1, <1>f2, <1>f3, <1>f4, <1>f5, <1>f6
         DEF TypeOK, Suspend, RecordThen, RecordFails, Record, Refuse,
             Respond, Goto, Decision
    <2>pending. (pending \in [Action -> PendingRecord])'
      BY <1>f2
    <2> QED BY <1>a, <1>u, <2>pc, <2>response, <2>log, <2>pending DEF TypeOK
  <1>1. AnswersVetted'
    BY <1>a, <1>u, <1>f1, <1>f2, <1>f3, <1>f4, <1>f5, <1>f6
       DEF IInv, TypeOK, AnswersVetted, Vetted, Early, Stage, NewAnswer,
           Suspend, RecordThen, RecordFails, Record, Refuse, Respond, Goto
  <1>2. Submitted'
    BY <1>a, <1>u, <1>f1, <1>f2, <1>f3, <1>f4, <1>f5, <1>f6
       DEF IInv, TypeOK, Submitted, Suspend, RecordThen, RecordFails, Record,
           Refuse, Respond, Goto
  <1>3. OneAnswerCounts'
    BY <1>a, <1>u, <1>f1, <1>f2, <1>f3, <1>f4, <1>f5, <1>f6
       DEF IInv, TypeOK, OneAnswerCounts, Landed, Suspend, RecordThen,
           RecordFails, Record, Refuse, Respond, Goto
  <1>4. RecordMatchesAnswers'
    BY <1>u, <1>f1, <1>f2, <1>f3, <1>f5, <1>f6 DEF IInv, RecordMatchesAnswers
  <1>5. ThreadMatchesRecord'
    BY <1>u, <1>f1, <1>f2, <1>f3, <1>f4, <1>f5
       DEF IInv, ThreadMatchesRecord, Early, Going
  <1>6. AuthorityMatchesAnswers'
    BY <1>u, <1>f1, <1>f2, <1>f3, <1>f5, <1>f6
       DEF IInv, AuthorityMatchesAnswers
  <1>7. ThreadMatchesLog'
    BY <1>a, <1>u, <1>f1, <1>f2, <1>f3, <1>f4, <1>f5, <1>f6
       DEF IInv, TypeOK, ThreadMatchesLog, ThreadMatchesRecord, Early, Asked,
           Going, Suspend, RecordThen, RecordFails, Record, Refuse, Respond,
           Goto
  <1>8. HostMatchesThread'
    BY <1>a, <1>u, <1>f1, <1>f2, <1>f3, <1>f4, <1>f5, <1>f6
       DEF IInv, TypeOK, HostMatchesThread, ThreadMatchesLog,
           ThreadMatchesRecord, Early, Asked, Going, Suspend, RecordThen,
           RecordFails, Record, Refuse, Respond, Goto
  <1>9. OnlyTheWinnersTokenIsSpent'
    BY <1>a, <1>u, <1>f1, <1>f2, <1>f3, <1>f4, <1>f5, <1>f6
       DEF IInv, TypeOK, OnlyTheWinnersTokenIsSpent, LandedAs, Landed,
           Suspend, RecordThen, RecordFails, Record, Refuse, Respond, Goto
  <1> QED
    BY <1>t, <1>1, <1>2, <1>3, <1>4, <1>5, <1>6, <1>7, <1>8, <1>9 DEF IInv

(* The waiter takes its record, or answers with the KeyError. *)
LEMMA BeginWaitPreserves ==
    ASSUME IInv, NEW a \in Action, BeginWait(a)
    PROVE  IInv'
  <1>a. TypeOK BY DEF IInv
  <1>u. UNCHANGED <<gates, req, authority, hostRuns, log, pending, token, ans>>
    BY DEF BeginWait
  <1>t. TypeOK'
    <2>pc. (pc \in [Action -> Stage])'
      BY <1>a, <1>u DEF TypeOK, BeginWait, Respond, Goto, Stage
    <2>response. (response \in [Action -> {"none", "ok", "failed", "error", "withheld",
                             "not_terminal", "unavailable"}])'
      BY <1>a, <1>u DEF TypeOK, BeginWait, Respond, Goto
    <2> QED BY <1>a, <1>u, <2>pc, <2>response DEF TypeOK
  <1>1. AnswersVetted'
    BY <1>a, <1>u
       DEF IInv, TypeOK, AnswersVetted, Vetted, Early, Stage, NewAnswer,
           BeginWait, Respond, Goto
  <1>2. Submitted'
    BY <1>a, <1>u DEF IInv, TypeOK, Submitted, BeginWait, Respond, Goto
  <1>3. OneAnswerCounts'
    BY <1>a, <1>u
       DEF IInv, TypeOK, OneAnswerCounts, Landed, BeginWait, Respond, Goto
  <1>4. RecordMatchesAnswers'
    BY <1>a, <1>u
       DEF IInv, TypeOK, RecordMatchesAnswers, LandedAs, Landed, BeginWait,
           Respond, Goto
  <1>5. ThreadMatchesRecord'
    BY <1>a, <1>u
       DEF IInv, TypeOK, ThreadMatchesRecord, Landed, Early, Going, Absent,
           BeginWait, Respond, Goto
  <1>6. AuthorityMatchesAnswers'
    BY <1>a, <1>u
       DEF IInv, TypeOK, AuthorityMatchesAnswers, ThreadMatchesRecord,
           LandedAs, Landed, Early, Absent, BeginWait, Respond, Goto
  <1>7. ThreadMatchesLog'
    BY <1>a, <1>u
       DEF IInv, TypeOK, ThreadMatchesLog, ThreadMatchesRecord, Early, Asked,
           Going, BeginWait, Respond, Goto
  <1>8. HostMatchesThread'
    BY <1>a, <1>u
       DEF IInv, TypeOK, HostMatchesThread, ThreadMatchesLog,
           ThreadMatchesRecord, Early, Asked, Going, BeginWait, Respond, Goto
  <1>9. OnlyTheWinnersTokenIsSpent'
    BY <1>a, <1>u
       DEF IInv, TypeOK, OnlyTheWinnersTokenIsSpent, LandedAs, Landed,
           BeginWait, Respond, Goto
  <1> QED
    BY <1>t, <1>1, <1>2, <1>3, <1>4, <1>5, <1>6, <1>7, <1>8, <1>9 DEF IInv

(* The wait ends with the state of the record. *)
LEMMA EndWaitPreserves ==
    ASSUME IInv, NEW a \in Action, EndWait(a)
    PROVE  IInv'
  <1>a. TypeOK BY DEF IInv
  <1>u. UNCHANGED <<gates, req, response, hostRuns, log, token, ans>>
    BY DEF EndWait
  <1>f1.
         /\ pending[a] \in PendingRecord /\ pc[a] = "waiting"
         /\ pending[a].state \in {"pending", "approved", "denied"}
         /\ pc'[a] = "answered"
    BY <1>a DEF EndWait, Goto, TypeOK, IInv, ThreadMatchesRecord
  <1>f2.
         /\ \A b \in Action : b # a => pc'[b] = pc[b] /\ authority'[b] = authority[b]
         /\ \/ pending[a].state # "pending" /\ pending' = pending
            \/ /\ pending[a].state = "pending"
               /\ pending' = [pending EXCEPT ![a].state = "expired"]
         /\ authority'[a] = IF pending[a].state = "pending" THEN "expired"
                                                           ELSE pending[a].state
    BY <1>a, <1>f1 DEF EndWait, Goto, TypeOK
  <1>f3.
         /\ pending' \in [Action -> PendingRecord]
         /\ \A b \in Action : /\ b # a => pending'[b] = pending[b]
                              /\ pending'[b].by = pending[b].by
                              /\ pending'[b].listed = pending[b].listed
         /\ pending'[a].state = IF pending[a].state = "pending" THEN "expired"
                                                              ELSE pending[a].state
    BY <1>a, <1>f1, <1>f2 DEF TypeOK, PendingRecord
  <1>f4.
         \A y \in Answer, b \in Action : Landed(y, b)' <=> Landed(y, b)
    BY <1>u DEF Landed
  <1>f5.
         \A y \in Answer, b \in Action, op \in {"approve", "deny"} :
            LandedAs(y, b, op)' <=> LandedAs(y, b, op)
    BY <1>u DEF LandedAs, Landed
  <1>t. TypeOK'
    <2>pc. (pc \in [Action -> Stage])'
      BY <1>a, <1>u, <1>f1, <1>f2, <1>f3, <1>f4, <1>f5
         DEF TypeOK, EndWait, Goto, Stage
    <2>authority. (authority \in [Action -> {"none", "allow", "grant", "approved",
                              "denied", "expired"}])'
      BY <1>a, <1>f1, <1>f2 DEF EndWait, TypeOK
    <2>pending. (pending \in [Action -> PendingRecord])'
      BY <1>f3
    <2> QED BY <1>a, <1>u, <2>pc, <2>authority, <2>pending DEF TypeOK
  <1>1. AnswersVetted'
    BY <1>a, <1>u, <1>f1, <1>f2, <1>f3, <1>f4, <1>f5
       DEF IInv, TypeOK, AnswersVetted, Vetted, Early, Stage, NewAnswer,
           EndWait, Goto
  <1>2. Submitted'
    BY <1>a, <1>u, <1>f1, <1>f2, <1>f3, <1>f4, <1>f5
       DEF IInv, TypeOK, Submitted, EndWait, Goto
  <1>3. OneAnswerCounts'
    BY <1>a, <1>u, <1>f1, <1>f2, <1>f3, <1>f4, <1>f5
       DEF IInv, TypeOK, OneAnswerCounts, Landed, EndWait, Goto
  <1>4. RecordMatchesAnswers'
    BY <1>u, <1>f1, <1>f3, <1>f4, <1>f5 DEF IInv, RecordMatchesAnswers
  <1>5. ThreadMatchesRecord'
    BY <1>u, <1>f1, <1>f2, <1>f3, <1>f4
       DEF IInv, ThreadMatchesRecord, Early, Going
  <1>6. AuthorityMatchesAnswers'
    BY <1>u, <1>f1, <1>f2, <1>f3, <1>f4, <1>f5
       DEF IInv, AuthorityMatchesAnswers, RecordMatchesAnswers,
           ThreadMatchesRecord, Early
  <1>7. ThreadMatchesLog'
    BY <1>a, <1>u, <1>f1, <1>f2 DEF IInv, ThreadMatchesLog, Early, Asked, Going
  <1>8. HostMatchesThread'
    BY <1>a, <1>u, <1>f1, <1>f2 DEF IInv, HostMatchesThread, Early, Asked
  <1>9. OnlyTheWinnersTokenIsSpent'
    BY <1>a, <1>u, <1>f1, <1>f2, <1>f3, <1>f4, <1>f5
       DEF IInv, TypeOK, OnlyTheWinnersTokenIsSpent, LandedAs, Landed,
           EndWait, Goto
  <1> QED
    BY <1>t, <1>1, <1>2, <1>3, <1>4, <1>5, <1>6, <1>7, <1>8, <1>9 DEF IInv

(* A denied or expired action ends with its record. *)
LEMMA UnapprovedPreserves ==
    ASSUME IInv, NEW a \in Action, Unapproved(a)
    PROVE  IInv'
  <1>a. TypeOK BY DEF IInv
  <1>u. UNCHANGED <<gates, req, authority, hostRuns, pending, token, ans>>
    BY DEF Unapproved
  <1>t. TypeOK'
    <2>pc. (pc \in [Action -> Stage])'
      BY <1>a, <1>u
         DEF TypeOK, Unapproved, RecordThen, RecordFails, Record, Refuse,
             Respond, Goto, Stage
    <2>response. (response \in [Action -> {"none", "ok", "failed", "error", "withheld",
                             "not_terminal", "unavailable"}])'
      BY <1>a, <1>u
         DEF TypeOK, Unapproved, RecordThen, RecordFails, Record, Refuse,
             Respond, Goto
    <2>log. (log \in [Action -> SUBSET Decision])'
      BY <1>a, <1>u
         DEF TypeOK, Unapproved, RecordThen, RecordFails, Record, Refuse,
             Respond, Goto, Decision
    <2> QED BY <1>a, <1>u, <2>pc, <2>response, <2>log DEF TypeOK
  <1>1. AnswersVetted'
    BY <1>a, <1>u
       DEF IInv, TypeOK, AnswersVetted, Vetted, Early, Stage, NewAnswer,
           Unapproved, RecordThen, RecordFails, Record, Refuse, Respond, Goto
  <1>2. Submitted'
    BY <1>a, <1>u
       DEF IInv, TypeOK, Submitted, Unapproved, RecordThen, RecordFails,
           Record, Refuse, Respond, Goto
  <1>3. OneAnswerCounts'
    BY <1>a, <1>u
       DEF IInv, TypeOK, OneAnswerCounts, Landed, Unapproved, RecordThen,
           RecordFails, Record, Refuse, Respond, Goto
  <1>4. RecordMatchesAnswers'
    BY <1>a, <1>u
       DEF IInv, TypeOK, RecordMatchesAnswers, LandedAs, Landed, Unapproved,
           RecordThen, RecordFails, Record, Refuse, Respond, Goto
  <1>5. ThreadMatchesRecord'
    BY <1>a, <1>u
       DEF IInv, TypeOK, ThreadMatchesRecord, Landed, Early, Going, Absent,
           Unapproved, RecordThen, RecordFails, Record, Refuse, Respond, Goto
  <1>6. AuthorityMatchesAnswers'
    BY <1>a, <1>u
       DEF IInv, TypeOK, AuthorityMatchesAnswers, ThreadMatchesRecord,
           LandedAs, Landed, Early, Absent, Unapproved, RecordThen,
           RecordFails, Record, Refuse, Respond, Goto
  <1>7. ThreadMatchesLog'
    BY <1>a, <1>u
       DEF IInv, TypeOK, ThreadMatchesLog, ThreadMatchesRecord, Early, Asked,
           Going, Unapproved, RecordThen, RecordFails, Record, Refuse,
           Respond, Goto
  <1>8. HostMatchesThread'
    BY <1>a, <1>u
       DEF IInv, TypeOK, HostMatchesThread, ThreadMatchesLog,
           ThreadMatchesRecord, Early, Asked, Going, Unapproved, RecordThen,
           RecordFails, Record, Refuse, Respond, Goto
  <1>9. OnlyTheWinnersTokenIsSpent'
    BY <1>a, <1>u
       DEF IInv, TypeOK, OnlyTheWinnersTokenIsSpent, LandedAs, Landed,
           Unapproved, RecordThen, RecordFails, Record, Refuse, Respond, Goto
  <1> QED
    BY <1>t, <1>1, <1>2, <1>3, <1>4, <1>5, <1>6, <1>7, <1>8, <1>9 DEF IInv

(* The token spent is the one of the approval that landed. *)
LEMMA ConsumePreserves ==
    ASSUME IInv, NEW a \in Action, Consume(a)
    PROVE  IInv'
  <1>a. TypeOK BY DEF IInv
  <1>u. UNCHANGED <<gates, req, authority, hostRuns, pending, ans>>
    BY DEF Consume
  <1>f1. LandedAs(pending[a].by, a, "approve") /\ pending[a].by \in Answer
    BY <1>a DEF Consume, IInv, ThreadMatchesRecord, RecordMatchesAnswers
  <1>f2.
         \A y \in Answer : token'[y].state = "used" =>
            token[y].state = "used" \/ y = pending[a].by
    BY <1>a, <1>f1 DEF Consume, TypeOK, TokenRecord
  <1>t. TypeOK'
    <2>pc. (pc \in [Action -> Stage])'
      BY <1>a, <1>u, <1>f1, <1>f2
         DEF TypeOK, Consume, RecordThen, RecordFails, Record, Refuse,
             Respond, Goto, Stage
    <2>response. (response \in [Action -> {"none", "ok", "failed", "error", "withheld",
                             "not_terminal", "unavailable"}])'
      BY <1>a, <1>u, <1>f1, <1>f2
         DEF TypeOK, Consume, RecordThen, RecordFails, Record, Refuse,
             Respond, Goto
    <2>log. (log \in [Action -> SUBSET Decision])'
      BY <1>a, <1>u, <1>f1, <1>f2
         DEF TypeOK, Consume, RecordThen, RecordFails, Record, Refuse,
             Respond, Goto, Decision
    <2>token. (token \in [Answer -> TokenRecord])'
      BY <1>a, <1>u, <1>f1, <1>f2
         DEF TypeOK, Consume, RecordThen, RecordFails, Record, Refuse,
             Respond, Goto, TokenRecord
    <2> QED BY <1>a, <1>u, <2>pc, <2>response, <2>log, <2>token DEF TypeOK
  <1>1. AnswersVetted'
    BY <1>a, <1>u, <1>f1, <1>f2
       DEF IInv, TypeOK, AnswersVetted, Vetted, Early, Stage, NewAnswer,
           Consume, RecordThen, RecordFails, Record, Refuse, Respond, Goto
  <1>2. Submitted'
    BY <1>a, <1>u, <1>f1, <1>f2
       DEF IInv, TypeOK, Submitted, Consume, RecordThen, RecordFails, Record,
           Refuse, Respond, Goto
  <1>3. OneAnswerCounts'
    BY <1>a, <1>u, <1>f1, <1>f2
       DEF IInv, TypeOK, OneAnswerCounts, Landed, Consume, RecordThen,
           RecordFails, Record, Refuse, Respond, Goto
  <1>4. RecordMatchesAnswers'
    BY <1>a, <1>u, <1>f1, <1>f2
       DEF IInv, TypeOK, RecordMatchesAnswers, LandedAs, Landed, Consume,
           RecordThen, RecordFails, Record, Refuse, Respond, Goto
  <1>5. ThreadMatchesRecord'
    BY <1>a, <1>u, <1>f1, <1>f2
       DEF IInv, TypeOK, ThreadMatchesRecord, Landed, Early, Going, Absent,
           Consume, RecordThen, RecordFails, Record, Refuse, Respond, Goto
  <1>6. AuthorityMatchesAnswers'
    BY <1>a, <1>u, <1>f1, <1>f2
       DEF IInv, TypeOK, AuthorityMatchesAnswers, ThreadMatchesRecord,
           LandedAs, Landed, Early, Absent, Consume, RecordThen, RecordFails,
           Record, Refuse, Respond, Goto
  <1>7. ThreadMatchesLog'
    BY <1>a, <1>u, <1>f1, <1>f2
       DEF IInv, TypeOK, ThreadMatchesLog, ThreadMatchesRecord, Early, Asked,
           Going, Consume, RecordThen, RecordFails, Record, Refuse, Respond,
           Goto
  <1>8. HostMatchesThread'
    BY <1>a, <1>u, <1>f1, <1>f2
       DEF IInv, TypeOK, HostMatchesThread, ThreadMatchesLog,
           ThreadMatchesRecord, Early, Asked, Going, Consume, RecordThen,
           RecordFails, Record, Refuse, Respond, Goto
  <1>9. OnlyTheWinnersTokenIsSpent'
    BY <1>u, <1>f1, <1>f2
       DEF IInv, OnlyTheWinnersTokenIsSpent, LandedAs, Landed
  <1> QED
    BY <1>t, <1>1, <1>2, <1>3, <1>4, <1>5, <1>6, <1>7, <1>8, <1>9 DEF IInv

(* The allow that names the approver is recorded. *)
LEMMA RecordApprovalPreserves ==
    ASSUME IInv, NEW a \in Action, RecordApproval(a)
    PROVE  IInv'
  <1>a. TypeOK BY DEF IInv
  <1>u. UNCHANGED <<gates, req, authority, hostRuns, pending, token, ans>>
    BY DEF RecordApproval
  <1>t. TypeOK'
    <2>pc. (pc \in [Action -> Stage])'
      BY <1>a, <1>u
         DEF TypeOK, RecordApproval, RecordThen, RecordFails, Record, Refuse,
             Respond, Goto, Stage
    <2>response. (response \in [Action -> {"none", "ok", "failed", "error", "withheld",
                             "not_terminal", "unavailable"}])'
      BY <1>a, <1>u
         DEF TypeOK, RecordApproval, RecordThen, RecordFails, Record, Refuse,
             Respond, Goto
    <2>log. (log \in [Action -> SUBSET Decision])'
      BY <1>a, <1>u
         DEF TypeOK, RecordApproval, RecordThen, RecordFails, Record, Refuse,
             Respond, Goto, Decision
    <2> QED BY <1>a, <1>u, <2>pc, <2>response, <2>log DEF TypeOK
  <1>1. AnswersVetted'
    BY <1>a, <1>u
       DEF IInv, TypeOK, AnswersVetted, Vetted, Early, Stage, NewAnswer,
           RecordApproval, RecordThen, RecordFails, Record, Refuse, Respond,
           Goto
  <1>2. Submitted'
    BY <1>a, <1>u
       DEF IInv, TypeOK, Submitted, RecordApproval, RecordThen, RecordFails,
           Record, Refuse, Respond, Goto
  <1>3. OneAnswerCounts'
    BY <1>a, <1>u
       DEF IInv, TypeOK, OneAnswerCounts, Landed, RecordApproval, RecordThen,
           RecordFails, Record, Refuse, Respond, Goto
  <1>4. RecordMatchesAnswers'
    BY <1>a, <1>u
       DEF IInv, TypeOK, RecordMatchesAnswers, LandedAs, Landed,
           RecordApproval, RecordThen, RecordFails, Record, Refuse, Respond,
           Goto
  <1>5. ThreadMatchesRecord'
    BY <1>a, <1>u
       DEF IInv, TypeOK, ThreadMatchesRecord, Landed, Early, Going, Absent,
           RecordApproval, RecordThen, RecordFails, Record, Refuse, Respond,
           Goto
  <1>6. AuthorityMatchesAnswers'
    BY <1>a, <1>u
       DEF IInv, TypeOK, AuthorityMatchesAnswers, ThreadMatchesRecord,
           LandedAs, Landed, Early, Absent, RecordApproval, RecordThen,
           RecordFails, Record, Refuse, Respond, Goto
  <1>7. ThreadMatchesLog'
    BY <1>a, <1>u
       DEF IInv, TypeOK, ThreadMatchesLog, ThreadMatchesRecord, Early, Asked,
           Going, RecordApproval, RecordThen, RecordFails, Record, Refuse,
           Respond, Goto
  <1>8. HostMatchesThread'
    BY <1>a, <1>u
       DEF IInv, TypeOK, HostMatchesThread, ThreadMatchesLog,
           ThreadMatchesRecord, Early, Asked, Going, RecordApproval,
           RecordThen, RecordFails, Record, Refuse, Respond, Goto
  <1>9. OnlyTheWinnersTokenIsSpent'
    BY <1>a, <1>u
       DEF IInv, TypeOK, OnlyTheWinnersTokenIsSpent, LandedAs, Landed,
           RecordApproval, RecordThen, RecordFails, Record, Refuse, Respond,
           Goto
  <1> QED
    BY <1>t, <1>1, <1>2, <1>3, <1>4, <1>5, <1>6, <1>7, <1>8, <1>9 DEF IInv

(* The credential decision is recorded. *)
LEMMA OpenCredentialPreserves ==
    ASSUME IInv, NEW a \in Action, OpenCredential(a)
    PROVE  IInv'
  <1>a. TypeOK BY DEF IInv
  <1>u. UNCHANGED <<gates, req, authority, hostRuns, pending, token, ans>>
    BY DEF OpenCredential
  <1>t. TypeOK'
    <2>pc. (pc \in [Action -> Stage])'
      BY <1>a, <1>u
         DEF TypeOK, OpenCredential, RecordThen, RecordFails, Record, Refuse,
             Respond, Goto, Stage
    <2>response. (response \in [Action -> {"none", "ok", "failed", "error", "withheld",
                             "not_terminal", "unavailable"}])'
      BY <1>a, <1>u
         DEF TypeOK, OpenCredential, RecordThen, RecordFails, Record, Refuse,
             Respond, Goto
    <2>log. (log \in [Action -> SUBSET Decision])'
      BY <1>a, <1>u
         DEF TypeOK, OpenCredential, RecordThen, RecordFails, Record, Refuse,
             Respond, Goto, Decision
    <2> QED BY <1>a, <1>u, <2>pc, <2>response, <2>log DEF TypeOK
  <1>1. AnswersVetted'
    BY <1>a, <1>u
       DEF IInv, TypeOK, AnswersVetted, Vetted, Early, Stage, NewAnswer,
           OpenCredential, RecordThen, RecordFails, Record, Refuse, Respond,
           Goto
  <1>2. Submitted'
    BY <1>a, <1>u
       DEF IInv, TypeOK, Submitted, OpenCredential, RecordThen, RecordFails,
           Record, Refuse, Respond, Goto
  <1>3. OneAnswerCounts'
    BY <1>a, <1>u
       DEF IInv, TypeOK, OneAnswerCounts, Landed, OpenCredential, RecordThen,
           RecordFails, Record, Refuse, Respond, Goto
  <1>4. RecordMatchesAnswers'
    BY <1>a, <1>u
       DEF IInv, TypeOK, RecordMatchesAnswers, LandedAs, Landed,
           OpenCredential, RecordThen, RecordFails, Record, Refuse, Respond,
           Goto
  <1>5. ThreadMatchesRecord'
    BY <1>a, <1>u
       DEF IInv, TypeOK, ThreadMatchesRecord, Landed, Early, Going, Absent,
           OpenCredential, RecordThen, RecordFails, Record, Refuse, Respond,
           Goto
  <1>6. AuthorityMatchesAnswers'
    BY <1>a, <1>u
       DEF IInv, TypeOK, AuthorityMatchesAnswers, ThreadMatchesRecord,
           LandedAs, Landed, Early, Absent, OpenCredential, RecordThen,
           RecordFails, Record, Refuse, Respond, Goto
  <1>7. ThreadMatchesLog'
    BY <1>a, <1>u
       DEF IInv, TypeOK, ThreadMatchesLog, ThreadMatchesRecord, Early, Asked,
           Going, OpenCredential, RecordThen, RecordFails, Record, Refuse,
           Respond, Goto
  <1>8. HostMatchesThread'
    BY <1>a, <1>u
       DEF IInv, TypeOK, HostMatchesThread, ThreadMatchesLog,
           ThreadMatchesRecord, Early, Asked, Going, OpenCredential,
           RecordThen, RecordFails, Record, Refuse, Respond, Goto
  <1>9. OnlyTheWinnersTokenIsSpent'
    BY <1>a, <1>u
       DEF IInv, TypeOK, OnlyTheWinnersTokenIsSpent, LandedAs, Landed,
           OpenCredential, RecordThen, RecordFails, Record, Refuse, Respond,
           Goto
  <1> QED
    BY <1>t, <1>1, <1>2, <1>3, <1>4, <1>5, <1>6, <1>7, <1>8, <1>9 DEF IInv

(* The transport reaches the host once. *)
LEMMA DialPreserves ==
    ASSUME IInv, NEW a \in Action, Dial(a)
    PROVE  IInv'
  <1>a. TypeOK BY DEF IInv
  <1>u. UNCHANGED <<gates, req, authority, log, pending, token, ans>>
    BY DEF Dial
  <1>t. TypeOK'
    <2>pc. (pc \in [Action -> Stage])'
      BY <1>a, <1>u DEF TypeOK, Dial, Respond, Goto, Stage
    <2>response. (response \in [Action -> {"none", "ok", "failed", "error", "withheld",
                             "not_terminal", "unavailable"}])'
      BY <1>a, <1>u DEF TypeOK, Dial, Respond, Goto
    <2>hostRuns. (hostRuns \in [Action -> Nat])'
      BY <1>a, <1>u DEF TypeOK, Dial, Respond, Goto
    <2> QED BY <1>a, <1>u, <2>pc, <2>response, <2>hostRuns DEF TypeOK
  <1>1. AnswersVetted'
    BY <1>a, <1>u
       DEF IInv, TypeOK, AnswersVetted, Vetted, Early, Stage, NewAnswer, Dial,
           Respond, Goto
  <1>2. Submitted'
    BY <1>a, <1>u DEF IInv, TypeOK, Submitted, Dial, Respond, Goto
  <1>3. OneAnswerCounts'
    BY <1>a, <1>u
       DEF IInv, TypeOK, OneAnswerCounts, Landed, Dial, Respond, Goto
  <1>4. RecordMatchesAnswers'
    BY <1>a, <1>u
       DEF IInv, TypeOK, RecordMatchesAnswers, LandedAs, Landed, Dial,
           Respond, Goto
  <1>5. ThreadMatchesRecord'
    BY <1>a, <1>u
       DEF IInv, TypeOK, ThreadMatchesRecord, Landed, Early, Going, Absent,
           Dial, Respond, Goto
  <1>6. AuthorityMatchesAnswers'
    BY <1>a, <1>u
       DEF IInv, TypeOK, AuthorityMatchesAnswers, ThreadMatchesRecord,
           LandedAs, Landed, Early, Absent, Dial, Respond, Goto
  <1>7. ThreadMatchesLog'
    BY <1>a, <1>u
       DEF IInv, TypeOK, ThreadMatchesLog, ThreadMatchesRecord, Early, Asked,
           Going, Dial, Respond, Goto
  <1>8. HostMatchesThread'
    BY <1>a, <1>u
       DEF IInv, TypeOK, HostMatchesThread, ThreadMatchesLog,
           ThreadMatchesRecord, Early, Asked, Going, Dial, Respond, Goto
  <1>9. OnlyTheWinnersTokenIsSpent'
    BY <1>a, <1>u
       DEF IInv, TypeOK, OnlyTheWinnersTokenIsSpent, LandedAs, Landed, Dial,
           Respond, Goto
  <1> QED
    BY <1>t, <1>1, <1>2, <1>3, <1>4, <1>5, <1>6, <1>7, <1>8, <1>9 DEF IInv

(* The transport ends. *)
LEMMA FinishPreserves ==
    ASSUME IInv, NEW a \in Action, Finish(a)
    PROVE  IInv'
  <1>a. TypeOK BY DEF IInv
  <1>u. UNCHANGED <<gates, req, authority, hostRuns, pending, token, ans>>
    BY DEF Finish
  <1>t. TypeOK'
    <2>pc. (pc \in [Action -> Stage])'
      BY <1>a, <1>u DEF TypeOK, Finish, Record, Respond, Goto, Stage
    <2>response. (response \in [Action -> {"none", "ok", "failed", "error", "withheld",
                             "not_terminal", "unavailable"}])'
      BY <1>a, <1>u DEF TypeOK, Finish, Record, Respond, Goto
    <2>log. (log \in [Action -> SUBSET Decision])'
      BY <1>a, <1>u DEF TypeOK, Finish, Record, Respond, Goto, Decision
    <2> QED BY <1>a, <1>u, <2>pc, <2>response, <2>log DEF TypeOK
  <1>1. AnswersVetted'
    BY <1>a, <1>u
       DEF IInv, TypeOK, AnswersVetted, Vetted, Early, Stage, NewAnswer,
           Finish, Record, Respond, Goto
  <1>2. Submitted'
    BY <1>a, <1>u DEF IInv, TypeOK, Submitted, Finish, Record, Respond, Goto
  <1>3. OneAnswerCounts'
    BY <1>a, <1>u
       DEF IInv, TypeOK, OneAnswerCounts, Landed, Finish, Record, Respond,
           Goto
  <1>4. RecordMatchesAnswers'
    BY <1>a, <1>u
       DEF IInv, TypeOK, RecordMatchesAnswers, LandedAs, Landed, Finish,
           Record, Respond, Goto
  <1>5. ThreadMatchesRecord'
    BY <1>a, <1>u
       DEF IInv, TypeOK, ThreadMatchesRecord, Landed, Early, Going, Absent,
           Finish, Record, Respond, Goto
  <1>6. AuthorityMatchesAnswers'
    BY <1>a, <1>u
       DEF IInv, TypeOK, AuthorityMatchesAnswers, ThreadMatchesRecord,
           LandedAs, Landed, Early, Absent, Finish, Record, Respond, Goto
  <1>7. ThreadMatchesLog'
    BY <1>a, <1>u
       DEF IInv, TypeOK, ThreadMatchesLog, ThreadMatchesRecord, Early, Asked,
           Going, Finish, Record, Respond, Goto
  <1>8. HostMatchesThread'
    BY <1>a, <1>u
       DEF IInv, TypeOK, HostMatchesThread, ThreadMatchesLog,
           ThreadMatchesRecord, Early, Asked, Going, Finish, Record, Respond,
           Goto
  <1>9. OnlyTheWinnersTokenIsSpent'
    BY <1>a, <1>u
       DEF IInv, TypeOK, OnlyTheWinnersTokenIsSpent, LandedAs, Landed, Finish,
           Record, Respond, Goto
  <1> QED
    BY <1>t, <1>1, <1>2, <1>3, <1>4, <1>5, <1>6, <1>7, <1>8, <1>9 DEF IInv

(* A fresh answer names a suspended, hence submitted, action. *)
LEMMA AskPreserves ==
    ASSUME IInv, NEW x \in Answer, NEW a \in Action, NEW f \in Frame, Ask(x, a, f)
    PROVE  IInv'
  <1>a. TypeOK BY DEF IInv
  <1>u. UNCHANGED <<gates, req, pc, authority, response, hostRuns, log, pending, token>>
    BY DEF Ask
  <1>f1. \A y \in Answer : y # x => ans'[y] = ans[y]
    BY <1>a DEF Ask, TypeOK
  <1>f2.
         /\ ans[x].result # "ok" /\ ans'[x].result = "none" /\ ans'[x].pc = "read"
         /\ ans'[x].frame = f /\ ans'[x].about = a
    BY <1>a DEF Ask, TypeOK, IInv, AnswersVetted, NewAnswer
  <1>f3. \A y \in Answer, b \in Action : Landed(y, b)' <=> Landed(y, b)
    BY <1>a, <1>u, <1>f1, <1>f2 DEF Landed
  <1>f4.
         \A y \in Answer, b \in Action, op \in {"approve", "deny"} :
            LandedAs(y, b, op)' <=> LandedAs(y, b, op)
    BY <1>a, <1>u, <1>f1, <1>f2, <1>f3 DEF LandedAs, Landed
  <1>f5. pc[a] \notin Early
    BY DEF Ask, Answerable, IInv, ThreadMatchesRecord
  <1>t. TypeOK'
    <2>ans. (ans \in [Answer -> AnswerThread])'
      BY <1>a, <1>u, <1>f1, <1>f2, <1>f3, <1>f4, <1>f5
         DEF TypeOK, Ask, AnswerThread, Result
    <2> QED BY <1>a, <1>u, <2>ans DEF TypeOK
  <1>1. AnswersVetted'
    BY <1>u, <1>f1, <1>f2, <1>f5 DEF IInv, AnswersVetted, Vetted
  <1>2. Submitted'
    BY <1>a, <1>u, <1>f1, <1>f2, <1>f3, <1>f4, <1>f5
       DEF IInv, TypeOK, Submitted, Ask
  <1>3. OneAnswerCounts'
    BY <1>f3, <1>f4 DEF IInv, OneAnswerCounts
  <1>4. RecordMatchesAnswers'
    BY <1>u, <1>f3, <1>f4 DEF IInv, RecordMatchesAnswers
  <1>5. ThreadMatchesRecord'
    BY <1>u, <1>f3, <1>f4 DEF IInv, ThreadMatchesRecord
  <1>6. AuthorityMatchesAnswers'
    BY <1>u, <1>f3, <1>f4 DEF IInv, AuthorityMatchesAnswers
  <1>7. ThreadMatchesLog'
    BY <1>a, <1>u, <1>f1, <1>f2, <1>f3, <1>f4, <1>f5
       DEF IInv, TypeOK, ThreadMatchesLog, ThreadMatchesRecord, Early, Asked,
           Going, Ask
  <1>8. HostMatchesThread'
    BY <1>a, <1>u, <1>f1, <1>f2, <1>f3, <1>f4, <1>f5
       DEF IInv, TypeOK, HostMatchesThread, ThreadMatchesLog,
           ThreadMatchesRecord, Early, Asked, Going, Ask
  <1>9. OnlyTheWinnersTokenIsSpent'
    BY <1>u, <1>f1, <1>f2
       DEF IInv, OnlyTheWinnersTokenIsSpent, LandedAs, Landed
  <1> QED
    BY <1>t, <1>1, <1>2, <1>3, <1>4, <1>5, <1>6, <1>7, <1>8, <1>9 DEF IInv

(* A check refuses the answer, or vouches for it. *)
LEMMA CheckAnswerPreserves ==
    ASSUME IInv, NEW x \in Answer, CheckAnswer(x)
    PROVE  IInv'
  <1>a. TypeOK BY DEF IInv
  <1>u. UNCHANGED <<gates, req, pc, authority, response, hostRuns, pending, token>>
    BY DEF CheckAnswer
  <1>f1. \A y \in Answer : y # x => ans'[y] = ans[y]
    BY <1>a DEF CheckAnswer, AnswerEnds, TypeOK
  <1>f2.
         /\ ans[x].pc = "read" /\ ans'[x].pc \in {"done", "mint", "land"}
         /\ ans'[x].frame = ans[x].frame /\ ans'[x].about = ans[x].about
         /\ ans[x].result # "ok" /\ ans'[x].result # "ok"
         /\ ans'[x].pc = "mint" => ans[x].frame.op = "approve"
         /\ ans'[x].pc # "done" => ans'[x].result = "none" /\ AnswerVerdict(x) = "ok"
    BY <1>a, VerdictTyped
       DEF CheckAnswer, AnswerEnds, TypeOK, AnswerThread, IInv, AnswersVetted
  <1>f3.
         \A y \in Answer, b \in Action : Landed(y, b)' <=> Landed(y, b)
    BY <1>f1, <1>f2 DEF Landed
  <1>f4.
         \A y \in Answer, b \in Action, op \in {"approve", "deny"} :
            LandedAs(y, b, op)' <=> LandedAs(y, b, op)
    BY <1>f1, <1>f2 DEF LandedAs, Landed
  <1>f5. ans'[x].pc # "done" => Vetted(x)
    BY <1>f2, VouchedIsVetted DEF IInv, AnswersVetted
  <1>f6.
         \A b \in Action : /\ log[b] \subseteq log'[b]
                           /\ log'[b] \subseteq log[b] \cup {"approval_refused"}
                           /\ b # ans[x].about => log'[b] = log[b]
    BY <1>a DEF CheckAnswer, Record, TypeOK
  <1>f7. pc[ans[x].about] \notin Early
    BY <1>f2 DEF IInv, AnswersVetted
  <1>t. TypeOK'
    <2>log. (log \in [Action -> SUBSET Decision])'
      BY <1>a, <1>f6 DEF CheckAnswer, Record, TypeOK, Decision
    <2>ans. (ans \in [Answer -> AnswerThread])'
      BY <1>a, VerdictTyped
         DEF CheckAnswer, AnswerEnds, TypeOK, AnswerThread, Result
    <2> QED BY <1>a, <1>u, <2>log, <2>ans DEF TypeOK
  <1>1. AnswersVetted'
    BY <1>u, <1>f1, <1>f2, <1>f5 DEF IInv, AnswersVetted, Vetted
  <1>2. Submitted'
    BY <1>a, <1>u, <1>f1, <1>f2, <1>f3, <1>f4, <1>f5, <1>f6, <1>f7
       DEF IInv, TypeOK, Submitted, CheckAnswer, AnswerEnds, Record
  <1>3. OneAnswerCounts'
    BY <1>f3, <1>f4 DEF IInv, OneAnswerCounts
  <1>4. RecordMatchesAnswers'
    BY <1>u, <1>f3, <1>f4 DEF IInv, RecordMatchesAnswers
  <1>5. ThreadMatchesRecord'
    BY <1>u, <1>f3, <1>f4 DEF IInv, ThreadMatchesRecord
  <1>6. AuthorityMatchesAnswers'
    BY <1>u, <1>f3, <1>f4 DEF IInv, AuthorityMatchesAnswers
  <1>7. ThreadMatchesLog'
    BY <1>a, <1>u, <1>f6, <1>f7 DEF IInv, ThreadMatchesLog, Asked, Going
  <1>8. HostMatchesThread'
    BY <1>a, <1>u, <1>f6 DEF IInv, HostMatchesThread
  <1>9. OnlyTheWinnersTokenIsSpent'
    BY <1>u, <1>f1, <1>f2
       DEF IInv, OnlyTheWinnersTokenIsSpent, LandedAs, Landed
  <1> QED
    BY <1>t, <1>1, <1>2, <1>3, <1>4, <1>5, <1>6, <1>7, <1>8, <1>9 DEF IInv

(* A fresh token is live, and no token becomes used. *)
LEMMA MintPreserves ==
    ASSUME IInv, NEW x \in Answer, Mint(x)
    PROVE  IInv'
  <1>a. TypeOK BY DEF IInv
  <1>u. UNCHANGED <<gates, req, pc, authority, response, hostRuns, log, pending>>
    BY DEF Mint
  <1>f1. \A y \in Answer : y # x => ans'[y] = ans[y]
    BY <1>a DEF Mint, TypeOK
  <1>f2.
         /\ ans[x].pc = "mint" /\ ans'[x].pc = "land"
         /\ ans'[x].frame = ans[x].frame /\ ans'[x].about = ans[x].about
         /\ ans'[x].result = ans[x].result /\ ans[x].result = "none"
         /\ ans[x].about \in Action /\ req[ans[x].about] \in Request
    BY <1>a
       DEF Mint, TypeOK, AnswerThread, IInv, AnswersVetted, Submitted, Early
  <1>f3. \A y \in Answer, b \in Action : Landed(y, b)' <=> Landed(y, b)
    BY <1>a, <1>u, <1>f1, <1>f2 DEF Landed
  <1>f4.
         \A y \in Answer, b \in Action, op \in {"approve", "deny"} :
            LandedAs(y, b, op)' <=> LandedAs(y, b, op)
    BY <1>a, <1>u, <1>f1, <1>f2, <1>f3 DEF LandedAs, Landed
  <1>f5. \A y \in Answer : token'[y].state = "used" => token[y].state = "used"
    BY <1>a DEF Mint, NoToken
  <1>t. TypeOK'
    <2>token. (token \in [Answer -> TokenRecord])'
      BY <1>a, <1>f2, DurationsOK DEF Mint, TypeOK, TokenRecord, NoToken
    <2>ans. (ans \in [Answer -> AnswerThread])'
      BY <1>a, <1>u, <1>f1, <1>f2, <1>f3, <1>f4, <1>f5
         DEF TypeOK, Mint, AnswerThread, Result
    <2> QED BY <1>a, <1>u, <2>token, <2>ans DEF TypeOK
  <1>1. AnswersVetted'
    BY <1>u, <1>f1, <1>f2 DEF IInv, AnswersVetted, Vetted
  <1>2. Submitted'
    BY <1>a, <1>u, <1>f1, <1>f2, <1>f3, <1>f4, <1>f5
       DEF IInv, TypeOK, Submitted, Mint
  <1>3. OneAnswerCounts'
    BY <1>f3, <1>f4 DEF IInv, OneAnswerCounts
  <1>4. RecordMatchesAnswers'
    BY <1>u, <1>f3, <1>f4 DEF IInv, RecordMatchesAnswers
  <1>5. ThreadMatchesRecord'
    BY <1>u, <1>f3, <1>f4 DEF IInv, ThreadMatchesRecord
  <1>6. AuthorityMatchesAnswers'
    BY <1>u, <1>f3, <1>f4 DEF IInv, AuthorityMatchesAnswers
  <1>7. ThreadMatchesLog'
    BY <1>a, <1>u, <1>f1, <1>f2, <1>f3, <1>f4, <1>f5
       DEF IInv, TypeOK, ThreadMatchesLog, ThreadMatchesRecord, Early, Asked,
           Going, Mint
  <1>8. HostMatchesThread'
    BY <1>a, <1>u, <1>f1, <1>f2, <1>f3, <1>f4, <1>f5
       DEF IInv, TypeOK, HostMatchesThread, ThreadMatchesLog,
           ThreadMatchesRecord, Early, Asked, Going, Mint
  <1>9. OnlyTheWinnersTokenIsSpent'
    BY <1>f1, <1>f2, <1>f4, <1>f5
       DEF IInv, OnlyTheWinnersTokenIsSpent, LandedAs, Landed
  <1> QED
    BY <1>t, <1>1, <1>2, <1>3, <1>4, <1>5, <1>6, <1>7, <1>8, <1>9 DEF IInv

(* An answer lands on a pending record, or changes nothing. *)
LEMMA LandPreserves ==
    ASSUME IInv, NEW x \in Answer, Land(x)
    PROVE  IInv'
  <1>a. TypeOK BY DEF IInv
  <1>u. UNCHANGED <<gates, req, pc, authority, response, hostRuns, log, token>>
    BY DEF Land
  <1>f1. \A y \in Answer : y # x => ans'[y] = ans[y]
    BY <1>a DEF Land, AnswerEnds, TypeOK
  <1>f2.
         /\ ans[x].pc = "land" /\ ans'[x].pc = "done" /\ ans[x].about \in Action
         /\ ans'[x].frame = ans[x].frame /\ ans'[x].about = ans[x].about
         /\ ans[x].frame.op \in {"approve", "deny"}
         /\ Vetted(x) /\ ans[x].result = "none" /\ pc[ans[x].about] \notin Early
    BY <1>a, FrameOK
       DEF Land, AnswerEnds, TypeOK, AnswerThread, IInv, AnswersVetted
  <1>f3.
         \/ ans'[x].result # "ok" /\ pending' = pending
         \/ /\ ans'[x].result = "ok"
            /\ pending[ans[x].about].listed
            /\ pending[ans[x].about].state = "pending"
            /\ pending' = [pending EXCEPT ![ans[x].about].state =
                             IF ans[x].frame.op = "approve" THEN "approved"
                                                            ELSE "denied",
                             ![ans[x].about].by = x]
    BY <1>a DEF Land, AnswerEnds, LandRefusal, TypeOK, AnswerThread
  <1>f4.
         \A y \in Answer, b \in Action :
            Landed(y, b)' <=> \/ Landed(y, b)
                              \/ /\ y = x /\ b = ans[x].about
                                 /\ ans'[x].result = "ok"
    BY <1>f1, <1>f2 DEF Landed
  <1>f5.
         \A y \in Answer, b \in Action, op \in {"approve", "deny"} :
            LandedAs(y, b, op)' <=> Landed(y, b)' /\ ans[y].frame.op = op
    BY <1>f1, <1>f2 DEF LandedAs, Landed
  <1>f6.
         ans'[x].result = "ok" =>
            /\ pc[ans[x].about] \in {"created", "waiting"}
            /\ authority[ans[x].about] = "none"
            /\ \A y \in Answer : ~Landed(y, ans[x].about)
    BY <1>f2, <1>f3 DEF IInv, ThreadMatchesRecord, RecordMatchesAnswers
  <1>f7.
         \A b \in Action :
            /\ ans'[x].result # "ok" \/ b # ans[x].about => pending'[b] = pending[b]
            /\ ans'[x].result = "ok" /\ b = ans[x].about =>
                  /\ pending'[b].state = IF ans[x].frame.op = "approve"
                                         THEN "approved" ELSE "denied"
                  /\ pending'[b].by = x
    BY <1>a, <1>f2, <1>f3 DEF TypeOK, PendingRecord
  <1>f8. \A b \in Action : pending'[b].listed = pending[b].listed
    BY <1>a, <1>f2, <1>f3 DEF TypeOK, PendingRecord
  <1>f9.
         \A y \in Answer, b \in Action, op \in {"approve", "deny"} :
            LandedAs(y, b, op) => LandedAs(y, b, op)'
    BY <1>f4, <1>f5 DEF LandedAs
  <1>t. TypeOK'
    <2>pending. (pending \in [Action -> PendingRecord])'
      BY <1>a, <1>f2, <1>f3 DEF TypeOK, PendingRecord
    <2>ans. (ans \in [Answer -> AnswerThread])'
      BY <1>a, <1>f1
         DEF Land, AnswerEnds, LandRefusal, TypeOK, AnswerThread, Result
    <2> QED BY <1>a, <1>u, <2>pending, <2>ans DEF TypeOK
  <1>1. AnswersVetted'
    BY <1>u, <1>f1, <1>f2 DEF IInv, AnswersVetted, Vetted
  <1>2. Submitted'
    BY <1>a, <1>u, <1>f1, <1>f2, <1>f3, <1>f4, <1>f5, <1>f6, <1>f7, <1>f8,
       <1>f9
       DEF IInv, TypeOK, Submitted, Land, AnswerEnds, LandRefusal
  <1>3. OneAnswerCounts'
    BY <1>f4, <1>f6 DEF IInv, OneAnswerCounts
  <1>4. RecordMatchesAnswers'
    BY <1>u, <1>f2, <1>f4, <1>f5, <1>f6, <1>f7, <1>f8, <1>f9
       DEF IInv, RecordMatchesAnswers
  <1>5. ThreadMatchesRecord'
    BY <1>u, <1>f2, <1>f4, <1>f6, <1>f7, <1>f8
       DEF IInv, ThreadMatchesRecord, Early, Going
  <1>6. AuthorityMatchesAnswers'
    BY <1>u, <1>f4, <1>f6, <1>f7, <1>f9 DEF IInv, AuthorityMatchesAnswers
  <1>7. ThreadMatchesLog'
    BY <1>a, <1>u, <1>f1, <1>f2, <1>f3, <1>f4, <1>f5, <1>f6, <1>f7, <1>f8,
       <1>f9
       DEF IInv, TypeOK, ThreadMatchesLog, ThreadMatchesRecord, Early, Asked,
           Going, Land, AnswerEnds, LandRefusal
  <1>8. HostMatchesThread'
    BY <1>a, <1>u, <1>f1, <1>f2, <1>f3, <1>f4, <1>f5, <1>f6, <1>f7, <1>f8,
       <1>f9
       DEF IInv, TypeOK, HostMatchesThread, ThreadMatchesLog,
           ThreadMatchesRecord, Early, Asked, Going, Land, AnswerEnds,
           LandRefusal
  <1>9. OnlyTheWinnersTokenIsSpent'
    BY <1>u, <1>f1, <1>f2
       DEF IInv, OnlyTheWinnersTokenIsSpent, LandedAs, Landed
  <1> QED
    BY <1>t, <1>1, <1>2, <1>3, <1>4, <1>5, <1>6, <1>7, <1>8, <1>9 DEF IInv

(* The configuration is only read by later decisions. *)
LEMMA SetGatesPreserves ==
    ASSUME IInv, NEW g \in GatesChoice, SetGates(g)
    PROVE  IInv'
  <1>a. TypeOK BY DEF IInv
  <1>u. UNCHANGED <<req, pc, authority, response, hostRuns, log, pending, token, ans>>
    BY DEF SetGates
  <1>t. TypeOK'
    <2>gates. (gates \in GatesChoice)'
      BY <1>a, <1>u DEF TypeOK, SetGates
    <2> QED BY <1>a, <1>u, <2>gates DEF TypeOK
  <1>1. AnswersVetted'
    BY <1>a, <1>u
       DEF IInv, TypeOK, AnswersVetted, Vetted, Early, Stage, NewAnswer,
           SetGates
  <1>2. Submitted'
    BY <1>a, <1>u DEF IInv, TypeOK, Submitted, SetGates
  <1>3. OneAnswerCounts'
    BY <1>a, <1>u DEF IInv, TypeOK, OneAnswerCounts, Landed, SetGates
  <1>4. RecordMatchesAnswers'
    BY <1>a, <1>u
       DEF IInv, TypeOK, RecordMatchesAnswers, LandedAs, Landed, SetGates
  <1>5. ThreadMatchesRecord'
    BY <1>a, <1>u
       DEF IInv, TypeOK, ThreadMatchesRecord, Landed, Early, Going, Absent,
           SetGates
  <1>6. AuthorityMatchesAnswers'
    BY <1>a, <1>u
       DEF IInv, TypeOK, AuthorityMatchesAnswers, ThreadMatchesRecord,
           LandedAs, Landed, Early, Absent, SetGates
  <1>7. ThreadMatchesLog'
    BY <1>a, <1>u
       DEF IInv, TypeOK, ThreadMatchesLog, ThreadMatchesRecord, Early, Asked,
           Going, SetGates
  <1>8. HostMatchesThread'
    BY <1>a, <1>u
       DEF IInv, TypeOK, HostMatchesThread, ThreadMatchesLog,
           ThreadMatchesRecord, Early, Asked, Going, SetGates
  <1>9. OnlyTheWinnersTokenIsSpent'
    BY <1>a, <1>u
       DEF IInv, TypeOK, OnlyTheWinnersTokenIsSpent, LandedAs, Landed,
           SetGates
  <1> QED
    BY <1>t, <1>1, <1>2, <1>3, <1>4, <1>5, <1>6, <1>7, <1>8, <1>9 DEF IInv

(* Time moves deadlines and nothing else. *)
LEMMA TickPreserves ==
    ASSUME IInv, Tick
    PROVE  IInv'
  <1>a. TypeOK BY DEF IInv
  <1>u. UNCHANGED <<gates, req, pc, authority, response, hostRuns, log, ans>>
    BY DEF Tick
  <1>f1.
         \A b \in Action : /\ pending'[b] \in PendingRecord
                           /\ pending'[b].state = pending[b].state
                           /\ pending'[b].by = pending[b].by
                           /\ pending'[b].listed = pending[b].listed
    BY <1>a, AgedTyped DEF Tick, TypeOK, PendingRecord
  <1>f2.
         \A y \in Answer : token'[y] \in TokenRecord /\ token'[y].state = token[y].state
    BY <1>a, AgedTyped DEF Tick, TypeOK, TokenRecord
  <1>f3.
         \A y \in Answer, b \in Action : Landed(y, b)' <=> Landed(y, b)
    BY <1>u DEF Landed
  <1>f4.
         \A y \in Answer, b \in Action, op \in {"approve", "deny"} :
            LandedAs(y, b, op)' <=> LandedAs(y, b, op)
    BY <1>u DEF LandedAs, Landed
  <1>t. TypeOK'
    <2>pending. (pending \in [Action -> PendingRecord])'
      BY <1>f1 DEF Tick
    <2>token. (token \in [Answer -> TokenRecord])'
      BY <1>f2 DEF Tick
    <2> QED BY <1>a, <1>u, <2>pending, <2>token DEF TypeOK
  <1>1. AnswersVetted'
    BY <1>a, <1>u, <1>f1, <1>f2, <1>f3, <1>f4
       DEF IInv, TypeOK, AnswersVetted, Vetted, Early, Stage, NewAnswer, Tick
  <1>2. Submitted'
    BY <1>a, <1>u, <1>f1, <1>f2, <1>f3, <1>f4 DEF IInv, TypeOK, Submitted, Tick
  <1>3. OneAnswerCounts'
    BY <1>a, <1>u, <1>f1, <1>f2, <1>f3, <1>f4
       DEF IInv, TypeOK, OneAnswerCounts, Landed, Tick
  <1>4. RecordMatchesAnswers'
    BY <1>u, <1>f1, <1>f3, <1>f4 DEF IInv, RecordMatchesAnswers
  <1>5. ThreadMatchesRecord'
    BY <1>u, <1>f1, <1>f3 DEF IInv, ThreadMatchesRecord
  <1>6. AuthorityMatchesAnswers'
    BY <1>u, <1>f1, <1>f3, <1>f4 DEF IInv, AuthorityMatchesAnswers
  <1>7. ThreadMatchesLog'
    BY <1>a, <1>u, <1>f1, <1>f2, <1>f3, <1>f4
       DEF IInv, TypeOK, ThreadMatchesLog, ThreadMatchesRecord, Early, Asked,
           Going, Tick
  <1>8. HostMatchesThread'
    BY <1>a, <1>u, <1>f1, <1>f2, <1>f3, <1>f4
       DEF IInv, TypeOK, HostMatchesThread, ThreadMatchesLog,
           ThreadMatchesRecord, Early, Asked, Going, Tick
  <1>9. OnlyTheWinnersTokenIsSpent'
    BY <1>u, <1>f2 DEF IInv, OnlyTheWinnersTokenIsSpent, LandedAs, Landed
  <1> QED
    BY <1>t, <1>1, <1>2, <1>3, <1>4, <1>5, <1>6, <1>7, <1>8, <1>9 DEF IInv

(* A restart forgets the stores and closes every thread. *)
LEMMA CrashPreserves ==
    ASSUME IInv, Crash
    PROVE  IInv'
  <1>a. TypeOK BY DEF IInv
  <1>u. UNCHANGED <<gates, req, authority, hostRuns, log>>
    BY DEF Crash
  <1>f1.
         \A b \in Action : pending'[b].state = "absent" /\ ~pending'[b].listed
    BY DEF Crash, Absent
  <1>f2. \A y \in Answer : token'[y].state = "absent"
    BY DEF Crash, NoToken
  <1>f3.
         \A y \in Answer :
            \/ ans'[y] = ans[y] /\ ans[y].pc \in {"new", "done"}
            \/ /\ ans[y].pc \notin {"new", "done"} /\ ans[y].result # "ok"
               /\ ans'[y] = [ans[y] EXCEPT !.pc = "done", !.result = "unavailable"]
    BY <1>a DEF Crash, TypeOK, AnswerThread, IInv, AnswersVetted
  <1>f4.
         \A y \in Answer : /\ ans'[y].frame = ans[y].frame
                           /\ ans'[y].about = ans[y].about
                           /\ ans'[y].pc \in {"new", "done"}
                           /\ ans'[y].pc = "new" => ans'[y] = ans[y]
                           /\ ans'[y].pc = "done" => ans[y].pc # "new"
                           /\ ans'[y].result = "ok" => ans[y].result = "ok"
                           /\ ans[y].result = "ok" => ans'[y].result = "ok"
    <2> TAKE y \in Answer
    <2>1. ans[y] \in AnswerThread
      BY <1>a DEF TypeOK
    <2>2. CASE ans'[y] = ans[y] /\ ans[y].pc \in {"new", "done"}
      BY <2>2
    <2>3. CASE /\ ans[y].pc \notin {"new", "done"} /\ ans[y].result # "ok"
               /\ ans'[y] = [ans[y] EXCEPT !.pc = "done", !.result = "unavailable"]
      BY <2>1, <2>3, UnavailableTyped
    <2> QED
      BY <1>f3, <2>2, <2>3
  <1>f5.
         \A b \in Action : \/ /\ pc[b] \in {"new", "done", "lost"}
                              /\ pc'[b] = pc[b] /\ response'[b] = response[b]
                           \/ /\ pc[b] \notin {"new", "done", "lost"}
                              /\ pc'[b] = "lost" /\ response'[b] = "unavailable"
    BY DEF Crash, Busy
  <1>f6.
         \A y \in Answer, b \in Action : Landed(y, b)' <=> Landed(y, b)
    BY <1>f4 DEF Landed
  <1>f7.
         \A y \in Answer, b \in Action, op \in {"approve", "deny"} :
            LandedAs(y, b, op)' <=> LandedAs(y, b, op)
    BY <1>f4 DEF LandedAs, Landed
  <1>t. TypeOK'
    <2>pc. (pc \in [Action -> Stage])'
      BY <1>a, <1>f5 DEF Crash, TypeOK, Stage
    <2>response. (response \in [Action -> {"none", "ok", "failed", "error", "withheld",
                             "not_terminal", "unavailable"}])'
      BY <1>a, <1>f5 DEF Crash, TypeOK
    <2>pending. (pending \in [Action -> PendingRecord])'
      BY BlanksTyped DEF Crash
    <2>token. (token \in [Answer -> TokenRecord])'
      BY BlanksTyped DEF Crash
    <2>ans. (ans \in [Answer -> AnswerThread])'
      BY <1>a, <1>f3, UnavailableTyped DEF Crash, TypeOK
    <2> QED BY <1>a, <1>u, <2>pc, <2>response, <2>pending, <2>token, <2>ans DEF TypeOK
  <1>1. AnswersVetted'
    BY <1>u, <1>f4, <1>f5 DEF IInv, AnswersVetted, Vetted, Early
  <1>2. Submitted'
    BY <1>u, <1>f5 DEF IInv, Submitted
  <1>3. OneAnswerCounts'
    BY <1>f6 DEF IInv, OneAnswerCounts
  <1>4. RecordMatchesAnswers'
    BY <1>f1 DEF RecordMatchesAnswers
  <1>5. ThreadMatchesRecord'
    BY <1>u, <1>f1, <1>f5, <1>f6 DEF IInv, ThreadMatchesRecord, Early, Going
  <1>6. AuthorityMatchesAnswers'
    BY <1>u, <1>f1, <1>f6, <1>f7 DEF IInv, AuthorityMatchesAnswers
  <1>7. ThreadMatchesLog'
    BY <1>a, <1>u, <1>f5 DEF IInv, ThreadMatchesLog, Early, Asked, Going
  <1>8. HostMatchesThread'
    BY <1>a, <1>u, <1>f5 DEF IInv, HostMatchesThread, Early, Asked
  <1>9. OnlyTheWinnersTokenIsSpent'
    BY <1>f2 DEF OnlyTheWinnersTokenIsSpent
  <1> QED
    BY <1>t, <1>1, <1>2, <1>3, <1>4, <1>5, <1>6, <1>7, <1>8, <1>9 DEF IInv

-----------------------------------------------------------------------------
(* Every step of the specification preserves the inductive invariant.      *)
LEMMA NextPreserves ==
    ASSUME IInv, [Next]_vars
    PROVE  IInv'
  <1>1. ASSUME NEW a \in Action, ExecutorStep(a)
        PROVE  IInv'
    BY <1>1, GatePreserves, SuspendPreserves, BeginWaitPreserves,
       EndWaitPreserves, UnapprovedPreserves, ConsumePreserves,
       RecordApprovalPreserves, OpenCredentialPreserves, DialPreserves,
       FinishPreserves DEF ExecutorStep
  <1>2. ASSUME NEW x \in Answer, OperatorStep(x)
        PROVE  IInv'
    BY <1>2, CheckAnswerPreserves, MintPreserves, LandPreserves
       DEF OperatorStep
  <1>3. CASE UNCHANGED vars
    <2>1. /\ TypeOK' /\ AnswersVetted' /\ Submitted' /\ OneAnswerCounts'
          /\ RecordMatchesAnswers' /\ ThreadMatchesRecord'
      BY <1>3 DEF vars, IInv, TypeOK, AnswersVetted, Vetted, Submitted,
                  OneAnswerCounts, RecordMatchesAnswers, ThreadMatchesRecord,
                  LandedAs, Landed
    <2>2. /\ AuthorityMatchesAnswers' /\ ThreadMatchesLog'
          /\ HostMatchesThread' /\ OnlyTheWinnersTokenIsSpent'
      BY <1>3 DEF vars, IInv, AuthorityMatchesAnswers, ThreadMatchesLog,
                  HostMatchesThread, OnlyTheWinnersTokenIsSpent, LandedAs,
                  Landed
    <2> QED
      BY <2>1, <2>2 DEF IInv
  <1> QED
    BY <1>1, <1>2, <1>3, SubmitPreserves, AskPreserves, SetGatesPreserves,
       TickPreserves, CrashPreserves DEF Next

(* Nothing was submitted, answered or recorded before the first step.      *)
LEMMA InitEstablishes == Init => IInv
  <1> SUFFICES ASSUME Init PROVE IInv
    OBVIOUS
  <1>1. TypeOK
    BY BlanksTyped DEF Init, TypeOK, Stage, NewAnswer, AnswerThread, Result
  <1>2. /\ AnswersVetted /\ Submitted /\ OneAnswerCounts
        /\ OnlyTheWinnersTokenIsSpent
    BY DEF Init, NewAnswer, NoToken, AnswersVetted, Submitted, OneAnswerCounts,
           OnlyTheWinnersTokenIsSpent, Landed
  <1>3. /\ RecordMatchesAnswers /\ ThreadMatchesRecord
        /\ AuthorityMatchesAnswers
    BY DEF Init, NewAnswer, Absent, RecordMatchesAnswers, ThreadMatchesRecord,
           AuthorityMatchesAnswers, LandedAs, Landed, Early, Going
  <1>4. ThreadMatchesLog /\ HostMatchesThread
    BY DEF Init, ThreadMatchesLog, HostMatchesThread, Early, Asked, Going
  <1> QED
    BY <1>1, <1>2, <1>3, <1>4 DEF IInv

(* The inductive invariant holds in every state.                           *)
THEOREM Invariance == Spec => []IInv
  BY InitEstablishes, NextPreserves, PTL DEF Spec

-----------------------------------------------------------------------------
\* The properties of ApprovalGate, for any number of actions, answers,
\* requests and configurations, and for any deadlines.

(* Every thread, store and record keeps its type.                          *)
THEOREM TypeCorrectness == Spec => []TypeOK
  <1>1. IInv => TypeOK
    BY DEF IInv
  <1> QED
    BY <1>1, Invariance, PTL

(* One answer means one answer (pending.py:150-154).                       *)
THEOREM AtMostOneAnswerCounts == Spec => []OneAnswerCounts
  <1>1. IInv => OneAnswerCounts
    BY DEF IInv
  <1> QED
    BY <1>1, Invariance, PTL

(* No host is reached without the policy or an independent approval         *)
(* (server.py:374-553).                                                     *)
THEOREM IndependentApproval == Spec => []RunNeedsIndependentApproval
  <1>1. IInv => RunNeedsIndependentApproval
    <2> SUFFICES ASSUME IInv, NEW a \in Action, hostRuns[a] > 0,
                        authority[a] \notin {"allow", "grant"}
                 PROVE  \E x \in Answer :
                          LET f == ans[x].frame
                          IN  /\ LandedAs(x, a, "approve")
                              /\ f.sameDigest
                              /\ f.actor # Blank
                              /\ ~(f.path = req[a].origin
                                   /\ f.actor = req[a].originActor)
      BY DEF RunNeedsIndependentApproval
    <2>1. hostRuns[a] = 1
      BY DEF IInv, HostMatchesThread
    <2>2. authority[a] = "approved"
      BY <2>1 DEF IInv, HostMatchesThread
    <2>3. PICK x \in Answer : LandedAs(x, a, "approve")
      BY <2>2 DEF IInv, AuthorityMatchesAnswers
    <2>4. Vetted(x)
      BY <2>3 DEF IInv, AnswersVetted, LandedAs, Landed
    <2> QED
      BY <2>3, <2>4 DEF Vetted, LandedAs, Landed
  <1> QED
    BY <1>1, Invariance, PTL

(* An action reaches its host at most once, after its authorization was     *)
(* recorded (server.py:607).                                                *)
THEOREM OnceAndOnRecord == Spec => []RunOnceAndOnRecord
  <1>1. IInv => RunOnceAndOnRecord
    <2> SUFFICES ASSUME IInv, NEW a \in Action
                 PROVE  /\ hostRuns[a] <= 1
                        /\ hostRuns[a] > 0 =>
                              /\ "allow" \in log[a]
                              /\ authority[a] = "approved" => "approve" \in log[a]
                              /\ req[a].secret => "credential_allow" \in log[a]
      BY DEF RunOnceAndOnRecord
    <2>1. hostRuns[a] \in {0, 1}
      BY DEF IInv, HostMatchesThread
    <2>2. hostRuns[a] = 1 => /\ "allow" \in log[a]
                             /\ req[a].secret => "credential_allow" \in log[a]
      BY DEF IInv, HostMatchesThread
    <2>3. authority[a] = "approved" => "approve" \in log[a]
      BY DEF IInv, ThreadMatchesLog
    <2> QED
      BY <2>1, <2>2, <2>3
  <1> QED
    BY <1>1, Invariance, PTL

(* Whoever was told of a refusal, a denial or an expiry can rely on it.     *)
THEOREM RefusalIsReal == Spec => []RefusedNeverRuns
  <1>1. IInv => RefusedNeverRuns
    <2> SUFFICES ASSUME IInv, NEW a \in Action, hostRuns[a] # 0
                 PROVE  /\ response[a] \notin {"withheld", "not_terminal"}
                        /\ \A x \in Answer : ~LandedAs(x, a, "deny")
                        /\ log[a] \cap {"denied", "expired",
                                        "credential_denied"} = {}
      BY DEF RefusedNeverRuns
    <2>1. /\ hostRuns[a] = 1
          /\ authority[a] \in {"allow", "grant", "approved"}
          /\ response[a] \notin {"withheld", "not_terminal"}
          /\ log[a] \cap {"denied", "expired", "credential_denied"} = {}
      BY DEF IInv, HostMatchesThread
    <2>2. ASSUME NEW x \in Answer, LandedAs(x, a, "deny")
          PROVE  FALSE
      <3>1. Landed(x, a) /\ ans[x].frame.op = "deny"
        BY <2>2 DEF LandedAs
      <3>2. PICK y \in Answer : LandedAs(y, a, "approve")
        BY <2>1, <3>1 DEF IInv, AuthorityMatchesAnswers
      <3> QED
        BY <3>1, <3>2 DEF IInv, OneAnswerCounts, LandedAs
    <2> QED
      BY <2>1, <2>2
  <1> QED
    BY <1>1, Invariance, PTL

(* The deadline and the answers exclude each other (pending.py:350-353).    *)
THEOREM ExpiryIsExclusive == Spec => []ExpiryExcludesAnswers
  <1>1. IInv => ExpiryExcludesAnswers
    BY DEF IInv, ExpiryExcludesAnswers, ThreadMatchesLog, RecordMatchesAnswers,
           AuthorityMatchesAnswers
  <1> QED
    BY <1>1, Invariance, PTL

(* The audit log never holds two verdicts on one action.                    *)
THEOREM OneVerdict == Spec => []OneVerdictOnRecord
  <1>1. IInv => OneVerdictOnRecord
    <2> SUFFICES ASSUME IInv, NEW a \in Action
                 PROVE  Cardinality(log[a] \cap {"allow", "denied", "expired"}) <= 1
      BY DEF OneVerdictOnRecord
    <2> DEFINE V == log[a] \cap {"allow", "denied", "expired"}
    <2>1. \/ V = {}
          \/ \E d \in {"allow", "denied", "expired"} : V = {d}
      BY DEF IInv, ThreadMatchesLog
    <2> HIDE DEF V
    <2>2. Cardinality(V) \in {0, 1}
      BY <2>1, FS_EmptySet, FS_Singleton
    <2> QED
      BY <2>2 DEF V
  <1> QED
    BY <1>1, Invariance, PTL

(* A spent token is the token of the approval that landed                   *)
(* (operator_socket.py:293-294).                                            *)
THEOREM SpentTokenIsTheWinners == Spec => []OnlyTheWinnersTokenIsSpent
  <1>1. IInv => OnlyTheWinnersTokenIsSpent
    BY DEF IInv
  <1> QED
    BY <1>1, Invariance, PTL

(* A suspension that starts is one that somebody may answer                 *)
(* (server.py:379-381).                                                     *)
THEOREM SuspensionIsAnswerable == Spec => NoHopelessSuspension
  <1> DEFINE Answered(a) == \E ap \in gates.approvers :
                check_approval(gates, req[a].origin, req[a].originActor,
                               ap.channel, ap.sender) = "ok"
  <1>1. ASSUME IInv, [Next]_vars, NEW a \in Action,
               pc[a] = "suspend", pc'[a] = "created"
        PROVE  Answered(a)
    <2>1. pc \in [Action -> Stage] /\ gates \in GatesChoice
      BY <1>1 DEF IInv, TypeOK
    <2>2. Suspend(a)
      BY <1>1, <2>1 DEF Next, vars, ExecutorStep, OperatorStep, Submit, Gate,
         Suspend, BeginWait, EndWait, Unapproved, Consume, RecordApproval,
         OpenCredential, Dial, Finish, Ask, CheckAnswer, Mint, Land, SetGates,
         Tick, Crash, Refuse, RecordThen, RecordFails, Respond, Goto, Busy
    <2>3. SuspendRefusal(gates, req[a]) = "none"
      BY <1>1, <2>1, <2>2 DEF Suspend, Refuse, RecordFails, Respond, Goto
    <2>4. approval_feasible(gates, req[a].origin, req[a].originActor) = "ok"
      BY <2>3 DEF SuspendRefusal
    <2>5. \A ap \in gates.approvers : ap = Approver(ap.channel, ap.sender)
      BY <2>1, GatesOK
    <2> DEFINE o == req[a].origin
               oa == req[a].originActor
    <2>6. PICK ap \in gates.approvers :
            /\ ap.channel \in answering_paths(gates, o, oa)
            /\ ap.sender # Blank
            /\ answer_is_independent(gates, o, oa, ap.channel, ap.sender)
      BY <2>4 DEF approval_feasible, reachable_approvers
    <2>7. /\ o # Blank /\ answering_paths(gates, o, oa) # {}
          /\ is_approver(gates, ap.channel, ap.sender)
      BY <2>4, <2>5, <2>6 DEF approval_feasible, is_approver, answering_paths,
         authenticated_paths
    <2>8. check_approval(gates, o, oa, ap.channel, ap.sender) = "ok"
      BY <2>6, <2>7 DEF check_approval, answering_paths, authenticated_paths
    <2> QED
      BY <2>6, <2>8
  <1>2. IInv /\ [Next]_vars =>
           [\A a \in Action : pc[a] = "suspend" /\ pc'[a] = "created" =>
                                 Answered(a)]_vars
    BY <1>1
  <1> QED
    BY <1>2, Invariance, PTL DEF Spec, NoHopelessSuspension

(* The first answer or the deadline settles a suspended action for good.    *)
THEOREM VerdictsAreFinal == Spec => VerdictIsFinal
  <1> DEFINE Settled(a) == pending[a].state \in {"approved", "denied", "expired"}
             Kept(a) == \/ pending'[a].state = pending[a].state
                        \/ pending'[a] = Absent /\ ~Busy(a)'
  <1>1. ASSUME IInv, [Next]_vars, NEW a \in Action, Settled(a)
        PROVE  Kept(a)
    <2>1. CASE UNCHANGED pending
      BY <2>1
    <2>2. ASSUME NEW b \in Action, Suspend(b)
          PROVE  Kept(a)
      <3>1. pending[b].state = "absent" /\ b # a
        BY <1>1, <2>2 DEF Suspend, IInv, ThreadMatchesRecord, Early
      <3>2. \/ pending' = pending
            \/ pending' = [Pruned(b) EXCEPT ![b] =
                             [state |-> "pending", listed |-> TRUE,
                              left |-> Timeout, by |-> None]]
        BY <2>2 DEF Suspend, CreatePending
      <3> QED
        BY <1>1, <3>1, <3>2, PrunedKeeps DEF IInv
    <2>3. ASSUME NEW b \in Action, EndWait(b)
          PROVE  Kept(a)
      BY <1>1, <2>3 DEF EndWait, IInv, TypeOK
    <2>4. ASSUME NEW x \in Answer, Land(x)
          PROVE  Kept(a)
      <3>1. \/ pending' = pending
            \/ /\ pending[ans[x].about].state = "pending"
               /\ \A b \in Action : b # ans[x].about => pending'[b] = pending[b]
        BY <1>1, <2>4 DEF Land, LandRefusal, IInv, TypeOK
      <3> QED
        BY <1>1, <3>1
    <2>5. CASE Tick
      BY <1>1, <2>5 DEF Tick, IInv, TypeOK, PendingRecord
    <2>6. CASE Crash
      BY <2>6 DEF Crash, Busy
    <2> QED
      BY <1>1, <2>1, <2>2, <2>3, <2>4, <2>5, <2>6
         DEF Next, vars, ExecutorStep, OperatorStep, Submit, Gate, BeginWait,
             Unapproved, Consume, RecordApproval, OpenCredential, Dial, Finish,
             Ask, CheckAnswer, Mint, SetGates
  <1>2. IInv /\ [Next]_vars =>
           [\A a \in Action : Settled(a) => Kept(a)]_vars
    BY <1>1
  <1> QED
    BY <1>2, Invariance, PTL DEF Spec, VerdictIsFinal

-----------------------------------------------------------------------------
(* The approval path keeps its promise                                     *)

View == [a \in Action |-> Phase(a)]
Wins == [a \in Action |-> Winner(a)]

(* What the promise says about an action is read off its thread, and while *)
(* the thread waits off its record.                                        *)
PhaseIsRead ==
    \A a \in Action :
        /\ pc[a] = "new" <=> Phase(a) = "new"
        /\ pc[a] \in {"gate", "suspend"} => Phase(a) = "deciding"
        /\ pc[a] \in {"created", "waiting"} =>
              /\ pending[a].state \in {"pending", "approved", "denied"}
              /\ pending[a].state = "pending" => Phase(a) = "waiting"
              /\ pending[a].state = "approved" => Phase(a) = "approved"
              /\ pending[a].state = "denied" => Phase(a) = "refused"
        /\ pc[a] = "answered" =>
              Phase(a) = IF authority[a] = "approved" THEN "approved"
                                                      ELSE "refused"
        /\ pc[a] = "approved" => Phase(a) = "approved"
        /\ pc[a] \in {"credential", "dial"} => Phase(a) = "authorized"
        /\ pc[a] = "running" => Phase(a) = "executed"
        /\ pc[a] \in {"done", "lost"} => Phase(a) = "closed"

(* The winner is the answer that landed, as at most one did.               *)
WinnerLanded ==
    \A a \in Action :
        /\ \A x \in Answer : Landed(x, a) => Winner(a) = x
        /\ (\A x \in Answer : ~Landed(x, a)) => Winner(a) = None

LEMMA ViewIsRead == IInv => PhaseIsRead /\ WinnerLanded
  <1>1. ASSUME IInv, NEW a \in Action
        PROVE  /\ pc[a] \in {"created", "waiting"} =>
                      pending[a].state \in {"pending", "approved", "denied"}
               /\ pc[a] \in Stage
    BY <1>1 DEF IInv, TypeOK, ThreadMatchesRecord
  <1>2. IInv => PhaseIsRead
    BY <1>1 DEF PhaseIsRead, Phase, Stage
  <1>3. ASSUME IInv, NEW a \in Action, NEW x \in Answer, Landed(x, a)
        PROVE  Winner(a) = x
    <2> DEFINE w == CHOOSE z \in Answer : Landed(z, a)
    <2>1. w \in Answer /\ Landed(w, a)
      BY <1>3
    <2>2. Winner(a) = w
      BY <1>3 DEF Winner
    <2> HIDE DEF w
    <2> QED
      BY <1>3, <2>1, <2>2 DEF IInv, OneAnswerCounts
  <1>4. IInv => WinnerLanded
    BY <1>3 DEF WinnerLanded, Winner
  <1> QED
    BY <1>2, <1>4

LEMMA ViewIsReadNext == IInv' => PhaseIsRead' /\ WinnerLanded'
  BY ViewIsRead, PTL

(* Nobody's winner changes while the same answers have landed.             *)
LEMMA SameWinners ==
    ASSUME IInv, IInv',
           \A a \in Action, x \in Answer : Landed(x, a)' <=> Landed(x, a)
    PROVE  UNCHANGED Wins
  <1>1. ASSUME NEW a \in Action
        PROVE  Winner(a)' = Winner(a)
    <2>1. CASE \E x \in Answer : Landed(x, a)
      BY <2>1, ViewIsRead, ViewIsReadNext DEF WinnerLanded
    <2>2. CASE \A x \in Answer : ~Landed(x, a)
      BY <2>2, ViewIsRead, ViewIsReadNext DEF WinnerLanded
    <2> QED
      BY <2>1, <2>2
  <1> QED
    BY <1>1 DEF Wins

(* A thread, its authority and its record tell the phase.                  *)
LEMMA SamePhase ==
    ASSUME NEW a \in Action, pc'[a] = pc[a], authority'[a] = authority[a],
           pending'[a].state = pending[a].state
    PROVE  Phase(a)' = Phase(a)
  BY DEF Phase

(* A step of one action changes what the promise says of that one.         *)
LEMMA OnePhaseChanges ==
    ASSUME NEW a \in Action, NEW s, Phase(a)' = s,
           \A b \in Action : b # a =>
              /\ pc'[b] = pc[b] /\ authority'[b] = authority[b]
              /\ pending'[b].state = pending[b].state
    PROVE  View' = [View EXCEPT ![a] = s]
  <1>1. \A b \in Action : b # a => Phase(b)' = Phase(b)
    BY SamePhase
  <1> QED
    BY <1>1 DEF View

(* An action that ends is closed, whatever it reached.                     *)
LEMMA EndsArePromised ==
    ASSUME IInv, IInv', NEW a \in Action, UNCHANGED <<ans, hostRuns>>,
           pc[a] # "new", pc'[a] = "done",
           \A b \in Action : b # a =>
              /\ pc'[b] = pc[b] /\ authority'[b] = authority[b]
              /\ pending'[b].state = pending[b].state
    PROVE  Promise!Next
  <1>1. Phase(a) # "new" /\ Phase(a)' = "closed"
    BY ViewIsRead, ViewIsReadNext DEF PhaseIsRead
  <1>2. View' = [View EXCEPT ![a] = "closed"]
    BY <1>1, OnePhaseChanges
  <1>3. UNCHANGED Wins
    BY SameWinners DEF Landed
  <1>4. Promise!Close(a)
    BY <1>1, <1>2, <1>3 DEF Promise!Close, View, Wins
  <1> QED
    BY <1>4 DEF Promise!Next

(* A step no promise is about.                                             *)
LEMMA StuttersArePromised ==
    ASSUME IInv, IInv', UNCHANGED hostRuns,
           \A b \in Action : Phase(b)' = Phase(b),
           \A b \in Action, x \in Answer : Landed(x, b)' <=> Landed(x, b)
    PROVE  UNCHANGED <<View, Wins, hostRuns>>
  <1>1. UNCHANGED View
    BY DEF View
  <1>2. UNCHANGED Wins
    BY SameWinners
  <1> QED
    BY <1>1, <1>2


(* The decision about a submitted action: ask a person, authorize or end.  *)
LEMMA DecisionsArePromised ==
    ASSUME IInv, IInv', NEW a \in Action,
           Gate(a) \/ RecordApproval(a) \/ OpenCredential(a)
    PROVE  Promise!Next \/ UNCHANGED <<View, Wins, hostRuns>>
  <1>1. pc \in [Action -> Stage] /\ authority \in [Action -> {"none", "allow",
                     "grant", "approved", "denied", "expired"}]
    BY DEF IInv, TypeOK
  <1>2. /\ UNCHANGED <<ans, hostRuns, pending>>
        /\ pc[a] \in {"gate", "approved", "credential"}
        /\ \A b \in Action : b # a => /\ pc'[b] = pc[b]
                                      /\ authority'[b] = authority[b]
        /\ \/ pc'[a] = "done"
           \/ pc[a] = "gate" /\ pc'[a] \in {"suspend", "credential"}
           \/ pc[a] = "approved" /\ pc'[a] = "credential"
           \/ pc[a] = "credential" /\ pc'[a] = "dial"
    BY <1>1 DEF Gate, RecordApproval, OpenCredential, RecordThen, RecordFails,
                Refuse, Respond, Goto
  <1>3. CASE pc'[a] = "done"
    BY <1>2, <1>3, EndsArePromised
  <1>4. CASE pc'[a] = "credential"
    <2>1. Phase(a) \in {"deciding", "approved"} /\ Phase(a)' = "authorized"
      BY <1>2, <1>4, ViewIsRead, ViewIsReadNext DEF PhaseIsRead
    <2>2. View' = [View EXCEPT ![a] = "authorized"]
      BY <1>2, <2>1, OnePhaseChanges
    <2>3. UNCHANGED Wins
      BY <1>2, SameWinners DEF Landed
    <2>4. Promise!Authorize(a)
      BY <1>2, <2>1, <2>2, <2>3
         DEF Promise!Authorize, Promise!Advance, View, Wins
    <2> QED
      BY <2>4 DEF Promise!Next
  <1>5. CASE pc'[a] \in {"suspend", "dial"}
    <2>1. Phase(a)' = Phase(a)
      BY <1>2, <1>5, ViewIsRead, ViewIsReadNext DEF PhaseIsRead
    <2>2. \A b \in Action : Phase(b)' = Phase(b)
      BY <1>2, <2>1, SamePhase
    <2> QED
      BY <1>2, <2>2, StuttersArePromised DEF Landed
  <1> QED
    BY <1>2, <1>3, <1>4, <1>5

(* A suspension is a wait, and a wait ends with an answer or the deadline. *)
LEMMA SuspensionIsPromised ==
    ASSUME IInv, IInv', NEW a \in Action, Suspend(a)
    PROVE  Promise!Next
  <1>1. TypeOK /\ pc \in [Action -> Stage]
    BY DEF IInv, TypeOK
  <1>2. /\ UNCHANGED <<ans, hostRuns, authority>>
        /\ pc[a] = "suspend"
        /\ \A b \in Action : b # a => pc'[b] = pc[b]
        /\ \/ pc'[a] = "done" /\ pending' = pending
           \/ pc'[a] = "created" /\ CreatePending(a)
    BY <1>1 DEF Suspend, RecordThen, RecordFails, Refuse, Respond, Goto
  <1>3. CASE pc'[a] = "done" /\ pending' = pending
    BY <1>2, <1>3, EndsArePromised
  <1>4. CASE pc'[a] = "created" /\ CreatePending(a)
    <2>1. /\ pending'[a].state = "pending"
          /\ \A b \in Action : b # a => pending'[b].state = pending[b].state
      BY <1>1, <1>4, PrunedKeeps DEF CreatePending
    <2>2. Phase(a) = "deciding" /\ Phase(a)' = "waiting"
      BY <1>2, <1>4, <2>1, ViewIsRead, ViewIsReadNext DEF PhaseIsRead
    <2>3. View' = [View EXCEPT ![a] = "waiting"]
      BY <1>2, <2>1, <2>2, OnePhaseChanges
    <2>4. UNCHANGED Wins
      BY <1>2, SameWinners DEF Landed
    <2>5. Promise!Suspend(a)
      BY <1>2, <2>2, <2>3, <2>4
         DEF Promise!Suspend, Promise!Advance, View, Wins
    <2> QED
      BY <2>5 DEF Promise!Next
  <1> QED
    BY <1>2, <1>3, <1>4

LEMMA WaitIsPromised ==
    ASSUME IInv, IInv', NEW a \in Action, BeginWait(a) \/ EndWait(a)
    PROVE  Promise!Next \/ UNCHANGED <<View, Wins, hostRuns>>
  <1>1. /\ pc \in [Action -> Stage]
        /\ authority \in [Action -> {"none", "allow", "grant", "approved",
                                     "denied", "expired"}]
        /\ pending \in [Action -> PendingRecord]
    BY DEF IInv, TypeOK
  <1>2. UNCHANGED <<ans, hostRuns>>
    BY DEF BeginWait, EndWait
  <1>3. CASE BeginWait(a)
    <2>1. /\ UNCHANGED <<authority, pending>> /\ pc[a] = "created"
          /\ \A b \in Action : b # a => pc'[b] = pc[b]
          /\ pc'[a] \in {"waiting", "done"}
      BY <1>1, <1>3 DEF BeginWait, Respond, Goto
    <2>2. CASE pc'[a] = "done"
      BY <1>2, <2>1, <2>2, EndsArePromised
    <2>3. CASE pc'[a] = "waiting"
      <3>1. Phase(a)' = Phase(a)
        BY <2>1, <2>3, ViewIsRead, ViewIsReadNext DEF PhaseIsRead
      <3>2. \A b \in Action : Phase(b)' = Phase(b)
        BY <2>1, <3>1, SamePhase
      <3> QED
        BY <1>2, <3>2, StuttersArePromised DEF Landed
    <2> QED
      BY <2>1, <2>2, <2>3
  <1>4. CASE EndWait(a)
    <2>1. /\ pc[a] = "waiting" /\ pc'[a] = "answered"
          /\ \A b \in Action : b # a => /\ pc'[b] = pc[b]
                                        /\ authority'[b] = authority[b]
                                        /\ pending'[b] = pending[b]
          /\ authority'[a] = IF pending[a].state = "pending"
                             THEN "expired" ELSE pending[a].state
      BY <1>1, <1>4 DEF EndWait, Goto
    <2>2. CASE pending[a].state # "pending"
      <3>1. Phase(a)' = Phase(a)
        BY <2>1, <2>2, ViewIsRead, ViewIsReadNext DEF PhaseIsRead
      <3>2. \A b \in Action : Phase(b)' = Phase(b)
        BY <2>1, <3>1, SamePhase
      <3> QED
        BY <1>2, <3>2, StuttersArePromised DEF Landed
    <2>3. CASE pending[a].state = "pending"
      <3>1. Phase(a) = "waiting" /\ Phase(a)' = "refused"
        BY <2>1, <2>3, ViewIsRead, ViewIsReadNext DEF PhaseIsRead
      <3>2. View' = [View EXCEPT ![a] = "refused"]
        BY <2>1, <3>1, OnePhaseChanges
      <3>3. UNCHANGED Wins
        BY <1>2, SameWinners DEF Landed
      <3>4. Promise!Expire(a)
        BY <1>2, <3>1, <3>2, <3>3
           DEF Promise!Expire, Promise!Advance, View, Wins
      <3> QED
        BY <3>4 DEF Promise!Next
    <2> QED
      BY <2>2, <2>3
  <1> QED
    BY <1>3, <1>4

(* A refused action ends; an approved one is approved until its allow is   *)
(* on record.                                                              *)
LEMMA VerdictsArePromised ==
    ASSUME IInv, IInv', NEW a \in Action, Unapproved(a) \/ Consume(a) \/ Finish(a)
    PROVE  Promise!Next \/ UNCHANGED <<View, Wins, hostRuns>>
  <1>1. pc \in [Action -> Stage]
    BY DEF IInv, TypeOK
  <1>2. /\ UNCHANGED <<ans, hostRuns, authority, pending>>
        /\ pc[a] \in {"answered", "running"}
        /\ \A b \in Action : b # a => pc'[b] = pc[b]
        /\ \/ pc'[a] = "done"
           \/ pc[a] = "answered" /\ authority[a] = "approved" /\ pc'[a] = "approved"
    BY <1>1 DEF Unapproved, Consume, Finish, RecordFails, Refuse, Respond, Goto
  <1>3. CASE pc'[a] = "done"
    BY <1>2, <1>3, EndsArePromised
  <1>4. CASE pc'[a] = "approved"
    <2>1. Phase(a)' = Phase(a)
      BY <1>2, <1>4, ViewIsRead, ViewIsReadNext DEF PhaseIsRead
    <2>2. \A b \in Action : Phase(b)' = Phase(b)
      BY <1>2, <2>1, SamePhase
    <2> QED
      BY <1>2, <2>2, StuttersArePromised DEF Landed
  <1> QED
    BY <1>2, <1>3, <1>4

(* The host is reached from "authorized" only, and once.                   *)
LEMMA DialIsPromised ==
    ASSUME IInv, IInv', NEW a \in Action, Dial(a)
    PROVE  Promise!Next
  <1>1. pc \in [Action -> Stage]
    BY DEF IInv, TypeOK
  <1>2. /\ UNCHANGED <<ans, authority, pending>> /\ pc[a] = "dial"
        /\ \A b \in Action : b # a => pc'[b] = pc[b]
        /\ \/ pc'[a] = "done" /\ UNCHANGED hostRuns
           \/ pc'[a] = "running" /\ hostRuns' = [hostRuns EXCEPT ![a] = @ + 1]
    BY <1>1 DEF Dial, Respond, Goto
  <1>3. CASE pc'[a] = "done" /\ UNCHANGED hostRuns
    BY <1>2, <1>3, EndsArePromised
  <1>4. CASE pc'[a] = "running" /\ hostRuns' = [hostRuns EXCEPT ![a] = @ + 1]
    <2>1. Phase(a) = "authorized" /\ Phase(a)' = "executed"
      BY <1>2, <1>4, ViewIsRead, ViewIsReadNext DEF PhaseIsRead
    <2>2. View' = [View EXCEPT ![a] = "executed"]
      BY <1>2, <2>1, OnePhaseChanges
    <2>3. UNCHANGED Wins
      BY <1>2, SameWinners DEF Landed
    <2>4. Promise!Execute(a)
      BY <1>4, <2>1, <2>2, <2>3 DEF Promise!Execute, Promise!Advance, View, Wins
    <2> QED
      BY <2>4 DEF Promise!Next
  <1> QED
    BY <1>2, <1>3, <1>4

(* An answer decides an action only where it lands, and then for ever.     *)
LEMMA AnswerIsPromised ==
    ASSUME IInv, IInv', NEW x \in Answer,
           OperatorStep(x) \/ \E a \in Action, f \in Frame : Ask(x, a, f)
    PROVE  Promise!Next \/ UNCHANGED <<View, Wins, hostRuns>>
  <1>1. ans \in [Answer -> AnswerThread] /\ pending \in [Action -> PendingRecord]
    BY DEF IInv, TypeOK
  <1>2. UNCHANGED <<pc, authority, hostRuns>>
    BY DEF OperatorStep, CheckAnswer, Mint, Land, Ask
  <1>3. ans[x].pc \in {"new", "read", "mint", "land"} => ans[x].result # "ok"
    BY DEF IInv, AnswersVetted, NewAnswer
  <1>4. ASSUME UNCHANGED pending, ans[x].result # "ok", ans'[x].result # "ok",
               \A y \in Answer \ {x} : ans'[y] = ans[y]
        PROVE  UNCHANGED <<View, Wins, hostRuns>>
    <2>1. \A b \in Action : Phase(b)' = Phase(b)
      BY <1>2, <1>4, SamePhase
    <2>2. \A b \in Action, y \in Answer : Landed(y, b)' <=> Landed(y, b)
      BY <1>4 DEF Landed
    <2> QED
      BY <1>2, <2>1, <2>2, StuttersArePromised
  <1>5. CASE \E a \in Action, f \in Frame : Ask(x, a, f)
    BY <1>1, <1>3, <1>4, <1>5 DEF Ask
  <1>6. CASE CheckAnswer(x)
    BY <1>1, <1>3, <1>4, <1>6 DEF CheckAnswer, AnswerEnds, AnswerThread
  <1>7. CASE Mint(x)
    BY <1>1, <1>3, <1>4, <1>7 DEF Mint, AnswerThread
  <1>8. CASE Land(x)
    <2>1. CASE LandRefusal(ans[x].about) # "none"
      BY <1>1, <1>3, <1>4, <1>8, <2>1
         DEF Land, LandRefusal, AnswerEnds, AnswerThread
    <2>2. CASE LandRefusal(ans[x].about) = "none"
      <3> PICK a : a = ans[x].about
        OBVIOUS
      <3> PICK s : s = IF ans[x].frame.op = "approve" THEN "approved" ELSE "denied"
        OBVIOUS
      <3>1. a \in Action /\ ans[x].pc = "land" /\ s \in {"approved", "denied"}
        BY <1>8 DEF Land, IInv, AnswersVetted
      <3>2. /\ pending[a].listed /\ pending[a].state = "pending"
            /\ pending' = [pending EXCEPT ![a].state = s, ![a].by = x]
            /\ ans' = [ans EXCEPT ![x].pc = "done", ![x].result = "ok"]
        BY <1>8, <2>2 DEF Land, LandRefusal, AnswerEnds
      <3>3. /\ pending'[a].state = s
            /\ \A b \in Action : b # a => pending'[b] = pending[b]
            /\ ans'[x].result = "ok" /\ ans'[x].about = a
            /\ \A y \in Answer \ {x} : ans'[y] = ans[y]
        BY <1>1, <3>1, <3>2 DEF PendingRecord, AnswerThread
      <3>4. pc[a] \in {"created", "waiting"} /\ \A y \in Answer : ~Landed(y, a)
        BY <3>1, <3>2 DEF IInv, ThreadMatchesRecord, RecordMatchesAnswers
      <3>5. Winner(a) = None /\ Winner(a)' = x
        BY <3>1, <3>3, <3>4, ViewIsRead, ViewIsReadNext DEF WinnerLanded, Landed
      <3>6. ASSUME NEW b \in Action, b # a
            PROVE  Winner(b)' = Winner(b)
        <4>1. \A y \in Answer : Landed(y, b)' <=> Landed(y, b)
          BY <3>1, <3>3, <3>6 DEF Landed
        <4>2. CASE \E y \in Answer : Landed(y, b)
          BY <3>6, <4>1, <4>2, ViewIsRead, ViewIsReadNext DEF WinnerLanded
        <4>3. CASE \A y \in Answer : ~Landed(y, b)
          BY <3>6, <4>1, <4>3, ViewIsRead, ViewIsReadNext DEF WinnerLanded
        <4> QED
          BY <4>2, <4>3
      <3>7. Wins' = [Wins EXCEPT ![a] = x]
        BY <3>5, <3>6 DEF Wins
      <3>8. Phase(a) = "waiting" /\ Phase(a)' = IF s = "approved" THEN s ELSE "refused"
        BY <1>2, <3>1, <3>2, <3>3, <3>4, ViewIsRead, ViewIsReadNext DEF PhaseIsRead
      <3>9. /\ Phase(a)' \in {"approved", "refused"}
            /\ View' = [View EXCEPT ![a] = Phase(a)']
        BY <1>2, <3>1, <3>3, <3>8, OnePhaseChanges
      <3>10. Promise!Answered(a, x)
        BY <1>2, <3>1, <3>5, <3>7, <3>8, <3>9
           DEF Promise!Answered, Promise!Advance, View, Wins
      <3> QED
        BY <3>1, <3>10 DEF Promise!Next
    <2> QED
      BY <2>1, <2>2
  <1> QED
    BY <1>5, <1>6, <1>7, <1>8 DEF OperatorStep

(* A restart closes whatever is open, and no answer lands through it.      *)
LEMMA CrashIsPromised ==
    ASSUME IInv, IInv', Crash
    PROVE  Promise!Next
  <1>1. pc \in [Action -> Stage] /\ ans \in [Answer -> AnswerThread]
    BY DEF IInv, TypeOK
  <1>2. \A a \in Action : IF pc[a] = "new" THEN pc'[a] = "new"
                          ELSE pc'[a] \in {"done", "lost"}
    BY <1>1 DEF Crash, Busy
  <1>3. \A a \in Action : Phase(a)' = IF Phase(a) = "new" THEN "new" ELSE "closed"
    BY <1>2, ViewIsRead, ViewIsReadNext DEF PhaseIsRead
  <1>4. ASSUME NEW x \in Answer
        PROVE  \/ ans'[x] = ans[x]
               \/ ans[x].result # "ok" /\ ans'[x].result # "ok"
    <2>1. CASE ans[x].pc \in {"new", "done"}
      BY <1>1, <2>1 DEF Crash
    <2>0. ans[x] \in AnswerThread
      BY <1>1
    <2>2. CASE ans[x].pc \in {"read", "mint", "land"}
      <3>1. ans[x].result = "none"
        BY <2>2 DEF IInv, AnswersVetted
      <3>2. ans'[x] = [ans[x] EXCEPT !.pc = "done", !.result = "unavailable"]
        BY <2>2 DEF Crash
      <3>3. ans'[x].result = "unavailable"
        BY <2>0, <3>2 DEF AnswerThread
      <3> QED
        BY <3>1, <3>3
    <2>3. ans[x].pc \in {"new", "read", "mint", "land", "done"}
      BY <2>0 DEF AnswerThread
    <2> QED
      BY <2>1, <2>2, <2>3
  <1>5. \A a \in Action, x \in Answer : Landed(x, a)' <=> Landed(x, a)
    BY <1>4 DEF Landed
  <1>6. UNCHANGED <<Wins, hostRuns>>
    BY <1>5, SameWinners DEF Crash
  <1>7. View' = [a \in Action |-> IF View[a] = "new" THEN "new" ELSE "closed"]
    BY <1>3 DEF View
  <1>8. Promise!Restart
    BY <1>6, <1>7 DEF Promise!Restart, View, Wins
  <1> QED
    BY <1>8 DEF Promise!Next

LEMMA StepIsPromised ==
    ASSUME IInv, IInv', [Next]_vars
    PROVE  Promise!Next \/ UNCHANGED <<View, Wins, hostRuns>>
  <1>1. ASSUME NEW a \in Action, ExecutorStep(a)
        PROVE  Promise!Next \/ UNCHANGED <<View, Wins, hostRuns>>
    BY <1>1, DecisionsArePromised, SuspensionIsPromised, WaitIsPromised,
       VerdictsArePromised, DialIsPromised DEF ExecutorStep
  <1>2. ASSUME NEW a \in Action, NEW r \in Request, Submit(a, r)
        PROVE  Promise!Next
    <2>1. /\ UNCHANGED <<ans, hostRuns, authority, pending>>
          /\ pc[a] = "new" /\ pc'[a] = "gate"
          /\ \A b \in Action : b # a => pc'[b] = pc[b]
      BY <1>2 DEF Submit, Goto, IInv, TypeOK
    <2>2. Phase(a) = "new" /\ Phase(a)' = "deciding"
      BY <2>1, ViewIsRead, ViewIsReadNext DEF PhaseIsRead
    <2>3. View' = [View EXCEPT ![a] = "deciding"]
      BY <2>1, <2>2, OnePhaseChanges
    <2>4. UNCHANGED Wins
      BY <2>1, SameWinners DEF Landed
    <2>5. Promise!Submit(a)
      BY <2>1, <2>2, <2>3, <2>4 DEF Promise!Submit, Promise!Advance, View, Wins
    <2> QED
      BY <2>5 DEF Promise!Next
  <1>3. ASSUME UNCHANGED <<pc, authority, ans, hostRuns>>,
               \A b \in Action : pending'[b].state = pending[b].state
        PROVE  UNCHANGED <<View, Wins, hostRuns>>
    <2>1. \A b \in Action : Phase(b)' = Phase(b)
      BY <1>3, SamePhase
    <2> QED
      BY <1>3, <2>1, StuttersArePromised DEF Landed
  <1>4. CASE Tick
    <2>1. pending \in [Action -> PendingRecord]
      BY DEF IInv, TypeOK
    <2>2. \A b \in Action : pending'[b].state = pending[b].state
      BY <1>4, <2>1 DEF Tick, PendingRecord
    <2> QED
      BY <1>3, <1>4, <2>2 DEF Tick
  <1>5. CASE \E g \in GatesChoice : SetGates(g)
    BY <1>3, <1>5 DEF SetGates
  <1>6. CASE UNCHANGED vars
    BY <1>3, <1>6 DEF vars
  <1> QED
    BY <1>1, <1>2, <1>4, <1>5, <1>6, AnswerIsPromised, CrashIsPromised DEF Next

LEMMA InitIsPromised == Init => Promise!Init
  <1> SUFFICES ASSUME Init PROVE Promise!Init
    OBVIOUS
  <1>1. \A a \in Action : Phase(a) = "new"
    BY InitEstablishes, ViewIsRead DEF Init, PhaseIsRead
  <1>2. \A a \in Action, x \in Answer : ~Landed(x, a)
    BY DEF Init, NewAnswer, Landed
  <1>3. \A a \in Action : Winner(a) = None
    BY <1>2 DEF Winner
  <1> QED
    BY <1>1, <1>3 DEF Init, Promise!Init

(* The threads, stores, tokens and records implement the promise: every    *)
(* action reaches its host at most once, from an authorization that the    *)
(* policy or the one answer that counted gave (server.py, pending.py,      *)
(* tokens.py, operator_socket.py).                                         *)
THEOREM GateKeepsItsPromise == Spec => ImplementsPromise
  <1>1. IInv /\ IInv' /\ [Next]_vars =>
           [Promise!Next]_<<[a \in Action |-> Phase(a)],
                            [a \in Action |-> Winner(a)], hostRuns>>
    BY StepIsPromised DEF View, Wins
  <1> QED
    BY <1>1, InitIsPromised, Invariance, PTL
       DEF Spec, Promise!Spec, Promise!promise, ImplementsPromise

=============================================================================
