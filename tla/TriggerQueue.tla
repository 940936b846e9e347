---------------------------- MODULE TriggerQueue ----------------------------
(***************************************************************************)
(* Local triggers: the delivery files of nanoinfra/triggers/local_store.py *)
(* and the task that consumes them, nanoinfra/triggers/local_runner.py.    *)
(*                                                                         *)
(* Other processes (the CLI, a script) and the WebUI put deliveries into   *)
(* the inbox; the gateway's queue task claims them, submits one turn at a  *)
(* time, and requeues what failed.  Every operation of the store holds the *)
(* workspace's file lock, so it is one step; the places where a process    *)
(* may die, or a write may fail, half way through are steps of their own.  *)
(*                                                                         *)
(* A delivery keeps its file name wherever it goes, so each directory is a *)
(* function from deliveries to what the file says.                         *)
(***************************************************************************)
EXTENDS Integers, Sequences, FiniteSets

CONSTANTS
    Trigger,
    Delivery,       \* delivery ids, numbers in the order of their file names
    Policy,         \* the delivery policies a trigger may be given
    Answer,         \* what a turn may answer
    Sorry,          \* what the session publishes when a turn raises
    None,           \* no answer, no origin, no fingerprint
    MaxAttempts,    \* _MAX_DELIVERY_ATTEMPTS
    BatchSize,      \* batch_size of the queue task
    MaxFailures,    \* bound: writes that fail
    MaxCrashes      \* bound: times the gateway dies or is stopped

ASSUME DeliveryAssumption == Delivery \subseteq Nat
ASSUME AttemptsAssumption == MaxAttempts \in Nat \ {0}
ASSUME BatchAssumption == BatchSize \in Nat \ {0}
ASSUME NoneAssumption ==
    /\ None \notin Trigger \cup Delivery \cup Answer \cup {Sorry}
    /\ None \notin {"ok", "error", "dropped"}
ASSUME BoundsAssumption == MaxFailures \in Nat /\ MaxCrashes \in Nat

VARIABLES
    trig,           \* trigger -> "none", "on", "off" or "gone" (deleted)
    policy,         \* trigger -> its delivery policy
    of,             \* delivery -> the trigger it is for, or None
    inbox,          \* delivery -> File or NoFile, for the three directories
    processing,
    failed,
    pc,             \* where the queue task stands
    batch,          \* its claimed deliveries, the current one first
    attempts,       \* the attempts of those deliveries, as claimed
    answer,         \* the answer of the turn that has just ended
    log,            \* AutomationDeliveryLog: trigger -> fingerprint or None
    failures,       \* writes that failed so far
    crashes,        \* times the gateway died so far
    acked,          \* history: deliveries whose enqueue or replay returned
    turns,          \* history: turns begun for a delivery
    outcome,        \* history: how a delivery was concluded, or None
    told            \* history: what was last published for a trigger

files == <<inbox, processing, failed>>
task == <<pc, batch, attempts, answer>>
budget == <<failures, crashes>>
vars == <<trig, policy, of, files, task, log, budget, acked, turns, outcome, told>>

NoFile == [attempts |-> -1, waiting |-> FALSE]
File == [attempts : 0..MaxAttempts, waiting : BOOLEAN]
FreshFile == [attempts |-> 0, waiting |-> FALSE]

In(dir) == {d \in Delivery : dir[d] # NoFile}
Minimum(S) == CHOOSE d \in S : \A e \in S : d <= e
Current == Head(batch)
Unused == {d \in Delivery : of[d] = None}

Pcs == {"down", "recover", "idle", "submitted", "running", "answered",
        "published", "told"}

TypeOK ==
    /\ trig \in [Trigger -> {"none", "on", "off", "gone"}]
    /\ policy \in [Trigger -> Policy]
    /\ of \in [Delivery -> Trigger \cup {None}]
    /\ inbox \in [Delivery -> File \cup {NoFile}]
    /\ processing \in [Delivery -> File \cup {NoFile}]
    /\ failed \in [Delivery -> File \cup {NoFile}]
    /\ pc \in Pcs
    /\ batch \in Seq(Delivery)
    /\ attempts \in [Delivery -> 0..MaxAttempts]
    /\ answer \in Answer \cup {None}
    /\ log \in [Trigger -> Answer \cup {None}]
    /\ failures \in 0..MaxFailures /\ crashes \in 0..MaxCrashes
    /\ acked \subseteq Delivery
    /\ turns \in [Delivery -> Nat]
    /\ outcome \in [Delivery -> {None, "ok", "error", "dropped"}]
    /\ told \in [Trigger -> Answer \cup {None, Sorry}]

Init ==
    /\ trig = [t \in Trigger |-> "none"]
    /\ policy \in [Trigger -> Policy]
    /\ of = [d \in Delivery |-> None]
    /\ inbox = [d \in Delivery |-> NoFile]
    /\ processing = [d \in Delivery |-> NoFile]
    /\ failed = [d \in Delivery |-> NoFile]
    /\ pc = "down" /\ batch = <<>> /\ answer = None
    /\ attempts = [d \in Delivery |-> 0]
    /\ log = [t \in Trigger |-> None]
    /\ failures = 0 /\ crashes = 0
    /\ acked = {}
    /\ turns = [d \in Delivery |-> 0]
    /\ outcome = [d \in Delivery |-> None]
    /\ told = [t \in Trigger |-> None]

Failing == failures < MaxFailures /\ failures' = failures + 1
Dying == crashes < MaxCrashes /\ crashes' = crashes + 1

-----------------------------------------------------------------------------
(* The store, as the CLI and the WebUI use it.  Recovery holds the lock     *)
(* from its first file to its last.                                         *)

LockFree == pc # "recover"

create(t) ==
    /\ LockFree /\ trig[t] = "none"
    /\ trig' = [trig EXCEPT ![t] = "on"]
    /\ UNCHANGED <<policy, of, files, task, log, budget, acked, turns,
                   outcome, told>>

enable(t) ==
    /\ LockFree /\ trig[t] \in {"on", "off"}
    /\ trig' = [trig EXCEPT ![t] = IF @ = "on" THEN "off" ELSE "on"]
    /\ UNCHANGED <<policy, of, files, task, log, budget, acked, turns,
                   outcome, told>>

\* The triggers are saved without t, then its files are deleted, wherever
\* they are.  A file that cannot be deleted is logged and stays.
Cleared(dir, t, kept) ==
    [d \in Delivery |-> IF of[d] = t /\ d \notin kept THEN NoFile ELSE dir[d]]
delete(t) ==
    /\ LockFree /\ trig[t] \in {"on", "off"}
    /\ trig' = [trig EXCEPT ![t] = "gone"]
    /\ \E kept \in SUBSET {d \in Delivery : of[d] = t} :
         /\ inbox' = Cleared(inbox, t, kept)
         /\ processing' = Cleared(processing, t, kept)
         /\ failed' = Cleared(failed, t, kept)
         /\ IF kept = {} THEN UNCHANGED failures ELSE Failing
    /\ UNCHANGED <<policy, of, task, log, crashes, acked, turns, outcome, told>>

\* A new delivery for t: its file is written first.  When a later write of
\* the same call fails, the caller gets an error.
Deliver(d, t, acknowledged) ==
    /\ LockFree /\ d \in Unused /\ trig[t] = "on"
    /\ of' = [of EXCEPT ![d] = t]
    /\ inbox' = [inbox EXCEPT ![d] = FreshFile]
    /\ acked' = IF acknowledged THEN acked \cup {d} ELSE acked
    /\ UNCHANGED <<trig, policy, processing, failed, task, log, crashes,
                   turns, outcome, told>>

enqueue(d, t) == Deliver(d, t, TRUE) /\ UNCHANGED failures

\* The caller dies once the file is in place, or a replay, which unlike an
\* enqueue does not take its file back, cannot write the run record: the
\* delivery is in the inbox and nobody was told so.
EnqueueTorn(d, t) == Deliver(d, t, FALSE) /\ Failing

\* A dead letter is queued again as a new delivery; the original stays.
replay_failed_delivery(o, d) ==
    /\ failed[o] # NoFile
    /\ Deliver(d, of[o], TRUE)
    /\ UNCHANGED failures

-----------------------------------------------------------------------------
(* Requeueing                                                               *)

\* The file a retry of d writes after n attempts, and where: the failed
\* directory when that was the last one, else the inbox.  The random delay
\* may be nothing.
Retried(d, n, wait) ==
    /\ inbox' = IF n + 1 >= MaxAttempts THEN inbox
                ELSE [inbox EXCEPT ![d] = [attempts |-> n + 1, waiting |-> wait]]
    /\ failed' = IF n + 1 >= MaxAttempts
                 THEN [failed EXCEPT ![d] = [attempts |-> n + 1, waiting |-> FALSE]]
                 ELSE failed

\* The new file is written before the old one is removed.
_retry_delivery_unlocked(d, n) ==
    /\ \E wait \in BOOLEAN : Retried(d, n, wait)
    /\ processing' = [processing EXCEPT ![d] = NoFile]

\* Mutant: the old file is removed before the new one is written.
RetryTorn_RemovesFirst(d, n) ==
    /\ processing' = [processing EXCEPT ![d] = NoFile]
    /\ UNCHANGED <<inbox, failed>>

\* The gateway dies between the two, or the removal fails.
RetryTorn(d, n) ==
    /\ \E wait \in BOOLEAN : Retried(d, n, wait)
    /\ UNCHANGED processing

Stopped == pc' = "down" /\ batch' = <<>> /\ answer' = None
           /\ attempts' = [d \in Delivery |-> 0]

-----------------------------------------------------------------------------
(* The queue task                                                           *)

\* Mutant: the task starts without a recovery.
Start_SkipsRecovery ==
    /\ pc = "down"
    /\ pc' = "idle"
    /\ UNCHANGED <<trig, policy, of, files, batch, attempts, answer, log,
                   budget, acked, turns, outcome, told>>

Start ==
    /\ pc = "down"
    /\ pc' = "recover"
    /\ UNCHANGED <<trig, policy, of, files, batch, attempts, answer, log,
                   budget, acked, turns, outcome, told>>

\* recover_processing_deliveries: what an earlier gateway had claimed is
\* requeued, one attempt more, in the order of the file names.
recover_processing_deliveries ==
    /\ pc = "recover"
    /\ IF In(processing) = {}
       THEN pc' = "idle" /\ UNCHANGED files
       ELSE LET d == Minimum(In(processing))
            IN  _retry_delivery_unlocked(d, processing[d].attempts)
                /\ UNCHANGED pc
    /\ UNCHANGED <<trig, policy, of, batch, attempts, answer, log, budget,
                   acked, turns, outcome, told>>

RecoverTorn ==
    /\ pc = "recover" /\ In(processing) # {}
    /\ LET d == Minimum(In(processing)) IN RetryTorn(d, processing[d].attempts)
    /\ Dying /\ Stopped
    /\ UNCHANGED <<trig, policy, of, log, failures, acked, turns, outcome, told>>

Claimable == {d \in In(inbox) : ~inbox[d].waiting}

Moved(s) == {s[i] : i \in DOMAIN s}

\* The first BatchSize claimable deliveries, in the order of their file names.
Batches ==
    {s \in UNION {[1..n -> Claimable] : n \in 1..BatchSize} :
        /\ \A i, j \in DOMAIN s : i < j => s[i] < s[j]
        /\ \A d \in Claimable \ Moved(s) : /\ Len(s) = BatchSize
                                         /\ s[Len(s)] < d}
\* Mutant: a claim copies the files.
MoveToProcessing_Copies(D) ==
    /\ inbox' = inbox
    /\ processing' = [d \in Delivery |-> IF d \in D THEN inbox[d]
                                         ELSE processing[d]]

MoveToProcessing(D) ==
    /\ inbox' = [d \in Delivery |-> IF d \in D THEN NoFile ELSE inbox[d]]
    /\ processing' = [d \in Delivery |-> IF d \in D THEN inbox[d]
                                         ELSE processing[d]]

claim_deliveries ==
    /\ pc = "idle" /\ batch = <<>>
    /\ \E s \in Batches :
         /\ batch' = s
         /\ MoveToProcessing(Moved(s))
         /\ attempts' = [d \in Delivery |-> IF d \in Moved(s)
                                            THEN inbox[d].attempts ELSE 0]
    /\ UNCHANGED <<trig, policy, of, failed, pc, answer, log, budget, acked,
                   turns, outcome, told>>

\* A move fails, or the gateway dies, with part of the batch moved: the
\* exception ends the queue task, and with it the gateway.
ClaimTorn ==
    /\ pc = "idle" /\ batch = <<>>
    /\ \E s \in Batches : \E n \in 1..Len(s) :
         MoveToProcessing(Moved(SubSeq(s, 1, n)))
    /\ Dying /\ Stopped
    /\ UNCHANGED <<trig, policy, of, failed, log, failures, acked, turns,
                   outcome, told>>

\* The current delivery is concluded: its file goes, the next one is due.
complete_delivery(how) ==
    /\ processing' = [processing EXCEPT ![Current] = NoFile]
    /\ outcome' = [outcome EXCEPT ![Current] = how]
    /\ batch' = Tail(batch) /\ pc' = "idle" /\ answer' = None
    /\ attempts' = [attempts EXCEPT ![Current] = 0]

\* _deliver_delivery up to submit_turn.  A trigger that is gone or off, a
\* channel that is not up, a reference or an agent that no longer resolves:
\* the delivery is recorded as an error and dropped.
Drop ==
    /\ pc = "idle" /\ batch # <<>>
    /\ complete_delivery("dropped")
    /\ UNCHANGED <<trig, policy, of, inbox, failed, log, budget, acked, turns,
                   told>>

Submit ==
    /\ pc = "idle" /\ batch # <<>> /\ trig[of[Current]] = "on"
    /\ pc' = "submitted"
    /\ UNCHANGED <<trig, policy, of, files, batch, attempts, answer, log,
                   budget, acked, turns, outcome, told>>

\* The session was idle, or has become so, and the turn begins.
TurnStarts ==
    /\ pc = "submitted"
    /\ pc' = "running"
    /\ turns' = [turns EXCEPT ![Current] = @ + 1]
    /\ UNCHANGED <<trig, policy, of, files, batch, attempts, answer, log,
                   budget, acked, outcome, told>>

\* The turn ends, and may say nothing.  Under "always" the session publishes
\* the answer itself.
TurnAnswers(a) ==
    /\ pc = "running"
    /\ pc' = "answered" /\ answer' = a
    /\ told' = IF policy[of[Current]] = "always" /\ a # None
               THEN [told EXCEPT ![of[Current]] = a] ELSE told
    /\ UNCHANGED <<trig, policy, of, files, batch, attempts, log, budget,
                   acked, turns, outcome>>

\* AutomationTurnError: the turn reached the agent and was stopped, or it
\* raised and the session says so.  It is recorded and not tried again.
TurnStopped ==
    /\ pc \in {"submitted", "running"}
    /\ complete_delivery("error")
    /\ UNCHANGED <<trig, policy, of, inbox, failed, log, budget, acked, turns,
                   told>>
TurnRaises ==
    /\ pc = "running"
    /\ complete_delivery("error")
    /\ told' = [told EXCEPT ![of[Current]] = Sorry]
    /\ UNCHANGED <<trig, policy, of, inbox, failed, log, budget, acked, turns>>

\* should_deliver for a turn that ended well.
should_deliver(p, a, last) ==
    a # None /\ (p = "always" \/ (p = "on-change" /\ a # last))

\* _deliver_if_policy_allows: a withheld answer is published, or silenced.
PublishAnswer ==
    /\ pc = "answered" /\ policy[of[Current]] # "always"
    /\ should_deliver(policy[of[Current]], answer, log[of[Current]])
    /\ pc' = "published"
    /\ told' = [told EXCEPT ![of[Current]] = answer]
    /\ UNCHANGED <<trig, policy, of, files, batch, attempts, answer, log,
                   budget, acked, turns, outcome>>
Silence ==
    /\ pc = "answered"
    /\ \/ policy[of[Current]] = "always"
       \/ ~should_deliver(policy[of[Current]], answer, log[of[Current]])
    /\ pc' = "told"
    /\ UNCHANGED <<trig, policy, of, files, batch, attempts, answer, log,
                   budget, acked, turns, outcome, told>>

\* The fingerprint is recorded after the publish.
RecordFingerprint ==
    /\ pc = "published"
    /\ log' = [log EXCEPT ![of[Current]] = answer]
    /\ pc' = "told"
    /\ UNCHANGED <<trig, policy, of, files, batch, attempts, answer, budget,
                   acked, turns, outcome, told>>

\* record_delivery, the run record, and complete_delivery.
Conclude ==
    /\ pc = "told"
    /\ complete_delivery("ok")
    /\ UNCHANGED <<trig, policy, of, inbox, failed, log, budget, acked, turns,
                   told>>

Busy == {"submitted", "running", "answered", "published", "told"}

\* Any other exception, from the first read of the trigger to the removal of
\* the file: the delivery is requeued, its turn run again if it had run.
retry_delivery ==
    /\ pc \in {"idle", "submitted", "answered", "published", "told"}
    /\ batch # <<>>
    /\ Failing
    /\ _retry_delivery_unlocked(Current, attempts[Current])
    /\ pc' = "idle" /\ batch' = Tail(batch) /\ answer' = None
    /\ attempts' = [attempts EXCEPT ![Current] = 0]
    /\ UNCHANGED <<trig, policy, of, log, crashes, acked, turns, outcome, told>>

\* CancelledError, when the gateway is stopped while the task awaits the turn
\* or the room to publish: the delivery is requeued, then the task ends.
Cancelled ==
    /\ pc \in {"submitted", "running", "answered"}
    /\ Dying
    /\ _retry_delivery_unlocked(Current, attempts[Current])
    /\ Stopped
    /\ UNCHANGED <<trig, policy, of, log, failures, acked, turns, outcome, told>>

RequeueTorn ==
    /\ pc \in {"idle"} \cup Busy /\ batch # <<>>
    /\ RetryTorn(Current, attempts[Current])
    /\ Dying /\ Stopped
    /\ UNCHANGED <<trig, policy, of, log, failures, acked, turns, outcome, told>>

\* The gateway dies, or an exception leaves the queue task, which the gateway
\* does not survive.  What was claimed stays in processing.
Crash ==
    /\ pc # "down"
    /\ Dying /\ Stopped
    /\ UNCHANGED <<trig, policy, of, files, log, failures, acked, turns,
                   outcome, told>>

\* not_before_ms passes.
BackoffElapses(d) ==
    /\ inbox[d] # NoFile /\ inbox[d].waiting
    /\ inbox' = [inbox EXCEPT ![d].waiting = FALSE]
    /\ UNCHANGED <<trig, policy, of, processing, failed, task, log, budget,
                   acked, turns, outcome, told>>

Turn ==
    \/ TurnStarts \/ TurnStopped \/ TurnRaises
    \/ \E a \in Answer \cup {None} : TurnAnswers(a)
QueueTask ==
    \/ Start \/ recover_processing_deliveries
    \/ claim_deliveries \/ Drop \/ Submit
    \/ PublishAnswer \/ Silence \/ RecordFingerprint \/ Conclude
Store ==
    \/ \E t \in Trigger : create(t) \/ enable(t) \/ delete(t)
    \/ \E d \in Delivery, t \in Trigger : enqueue(d, t) \/ EnqueueTorn(d, t)
    \/ \E o, d \in Delivery : replay_failed_delivery(o, d)
Fault ==
    \/ RecoverTorn \/ ClaimTorn \/ RequeueTorn
    \/ retry_delivery \/ Cancelled \/ Crash

Next ==
    \/ Store \/ QueueTask \/ Turn \/ Fault
    \/ \E d \in Delivery : BackoffElapses(d)

Spec == Init /\ [][Next]_vars

\* The task is a loop of the gateway, which is always started again, and a
\* turn ends; that a backoff ends is NOT assumed.
FairSpec == Spec /\ WF_vars(QueueTask) /\ WF_vars(Turn)

-----------------------------------------------------------------------------
(* Properties                                                              *)

Forgotten(d) == of[d] # None /\ trig[of[d]] = "gone"

(* Whatever fails or dies half way, a delivery whose enqueue or replay      *)
(* returned is in one of the three directories until it is concluded, or    *)
(* its trigger is deleted (local_store.py:571-594: the new file is written  *)
(* before the old one goes).                                                *)
AcknowledgedDeliveryIsKept ==
    \A d \in acked :
        \/ d \in In(inbox) \cup In(processing) \cup In(failed)
        \/ outcome[d] # None
        \/ Forgotten(d)

(* A delivery that kills the gateway every time must not run for ever: the  *)
(* attempts survive every crash, so no more turns begin than attempts are   *)
(* allowed (_MAX_DELIVERY_ATTEMPTS).                                        *)
RunsAreBounded == \A d \in Delivery : turns[d] <= MaxAttempts

(* A dead letter can be replayed, so it must not be a delivery that was     *)
(* concluded: the replay would run it a second time.                        *)
DeadLettersAreUnconcluded == \A d \in In(failed) : outcome[d] = None

\* An operator "who asked for silence gets silence" (tests/automations/
\* test_delivery_policy.py:45).
NeverMeansSilence == \A t \in Trigger : policy[t] = "never" => told[t] = None

(* A delivery in backoff never blocks one behind it (local_store.py:334-336)*)
(* and the gateway's restarts lose nobody's turn: a delivery that was       *)
(* accepted is concluded or dead-lettered, or it waits for its own retry.   *)
EveryDeliveryIsSettled ==
    \A d \in Delivery :
        d \in acked ~> \/ outcome[d] # None \/ failed[d] # NoFile
                       \/ Forgotten(d) \/ inbox[d].waiting

-----------------------------------------------------------------------------
(* What the queue promises, with the state of a delivery read off the files.*)

Held == In(inbox) \cup In(processing) \cup Moved(batch)
StatusOf(d) ==
    IF outcome[d] # None THEN "done"
    ELSE IF d \in Held
         THEN IF pc \in Busy \ {"submitted"} /\ d = Current
              THEN "running" ELSE "queued"
    ELSE IF failed[d] # NoFile THEN "dead"
    ELSE IF of[d] = None THEN "none" ELSE "deleted"
Promise == INSTANCE TriggerPromise WITH
    st <- [d \in Delivery |-> StatusOf(d)],
    runs <- turns
ImplementsPromise == Promise!Spec

=============================================================================
