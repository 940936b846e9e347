----------------------------- MODULE CronService -----------------------------
(***************************************************************************)
(* The scheduler of the gateway (nanoinfra/cron/service.py): the job list  *)
(* in memory and in jobs.json, the timer that runs due jobs one after the  *)
(* other, manual runs and edits from the operator's routes that interleave *)
(* with a running job, and the lines a second process (nanoinfra agent)    *)
(* leaves in action.jsonl for the gateway to merge.                        *)
(*                                                                         *)
(* The gateway is one asyncio thread: a handler is atomic up to the await  *)
(* of on_job, so an execution is a beginning and an end with anything in   *)
(* between.  The order of the jobs in the list is left open: a tick may    *)
(* run its due jobs in any order.  Legacy payloads, bindings, run history  *)
(* and the fields that only the prompt of the turn reads are left out.     *)
(***************************************************************************)
EXTENDS Integers, Sequences, FiniteSets

CONSTANTS
    Job,             \* job ids; an id is never given twice
    NoJob,           \* nobody
    System,          \* the jobs the gateway registers at every boot
    Schedules,       \* schedules a user's job may have
    SystemSchedules, \* schedules the configuration may give a system job
    Retries,         \* CronRetryPolicy.attempts of a user's job
    MaxDelay,        \* bound: the longest backoff
    MaxTime,         \* bound: the clock
    MaxFailures,     \* bound: failed writes of jobs.json
    MaxCrashes,      \* bound: times the gateway goes down
    MaxCorruptions,  \* bound: times jobs.json becomes unreadable
    MaxLines         \* bound: lines the second process leaves

Kinds == {"every", "at", "once"}    \* "once": "at" with delete_after_run
Schedule == [kind : Kinds, at : Nat \ {0}]

ASSUME ConstantsOK ==
    /\ NoJob \notin Job
    /\ System \subseteq Job
    /\ Schedules \subseteq Schedule
    /\ SystemSchedules \subseteq {s \in Schedule : s.kind = "every"}
    /\ SystemSchedules # {}
    /\ {Retries, MaxDelay, MaxTime, MaxFailures, MaxCrashes, MaxCorruptions,
        MaxLines} \subseteq Nat

VARIABLES
    phase,       \* the gateway: "down", "boot" until start(), "up" (_running)
    registered,  \* the system jobs registered in this boot
    store,       \* _store, jobs.json, action.jsonl and _store_dirty
    timer,       \* _timer_task and _timer_executing
    manual,      \* the job a run_job call is executing
    now,
    count,       \* how much of each bound is used
    born,        \* history: which process gave an id
    begun,       \* history: the slot the timer last began a run of the job for
    acked,       \* history: user's jobs whose creation was acknowledged
    refused      \* history: jobs whose creation raised, in this process

vars == <<phase, registered, store, timer, manual, now, count, born, begun,
          acked, refused>>
history == <<born, begun, acked, refused>>

NoJobs == [j \in {} |-> 0]
Without(jobs, gone) == [j \in DOMAIN jobs \ gone |-> jobs[j]]
With(jobs, j, job) == [k \in DOMAIN jobs \cup {j} |-> IF k = j THEN job ELSE jobs[k]]

Asleep == [pc |-> "asleep", job |-> NoJob, due |-> NoJobs]
Off == [pc |-> "off", job |-> NoJob, due |-> NoJobs]

NewStore == [loaded |-> FALSE, jobs |-> NoJobs, dirty |-> FALSE,
             file |-> "missing", disk |-> NoJobs, lines |-> <<>>]

Init ==
    /\ phase = "down"
    /\ registered = {}
    /\ store = NewStore
    /\ timer = Off
    /\ manual = NoJob
    /\ now = 1
    /\ count = [failures |-> 0, crashes |-> 0, corruptions |-> 0, verdicts |-> 0]
    /\ born = [j \in Job |-> IF j \in System THEN "gateway" ELSE "nobody"]
    /\ begun = [j \in Job |-> 0]
    /\ acked = {}
    /\ refused = {}

-----------------------------------------------------------------------------
\* Jobs.  A next run of 0 is None.

\* _compute_next_run
NextRun(schedule) ==
    IF schedule.kind = "every" THEN now + schedule.at
    ELSE IF schedule.at > now THEN schedule.at ELSE 0

NewJob(schedule) == [enabled |-> TRUE, schedule |-> schedule, next |-> NextRun(schedule),
                     attempts |-> 0, pending |-> FALSE]

Enabled(job, on) == [job EXCEPT !.enabled = on,
                                !.next = IF on THEN NextRun(job.schedule) ELSE 0]
Rescheduled(job, schedule) ==
    [job EXCEPT !.schedule = schedule,
                !.next = IF job.enabled THEN NextRun(schedule) ELSE 0]
Judged(job, disable) ==
    IF disable THEN [job EXCEPT !.enabled = FALSE, !.next = 0] ELSE job

\* _schedule_retry: full jitter, so the delay may be zero.
MayRetry(j, job) == j \notin System /\ job.attempts < Retries
Retried(job) == {[job EXCEPT !.attempts = @ + 1, !.pending = TRUE,
                             !.next = now + delay] : delay \in 0..MaxDelay}

\* _execute_job after on_job: the job lists a run of j may leave.  A job that
\* was removed while it ran is no longer in the list.
Outcomes == {"ok", "error", "terminal", "skipped"}
After(jobs, j, outcome) ==
    IF j \notin DOMAIN jobs THEN {jobs}
    ELSE IF outcome = "error" /\ MayRetry(j, jobs[j])
    THEN {With(jobs, j, job) : job \in Retried(jobs[j])}
    ELSE LET done == [jobs[j] EXCEPT !.attempts = 0, !.pending = FALSE] IN
         CASE done.schedule.kind = "once" -> {Without(jobs, {j})}
           [] done.schedule.kind = "at" ->
                 {With(jobs, j, [done EXCEPT !.enabled = FALSE, !.next = 0])}
           [] OTHER -> {With(jobs, j, [done EXCEPT !.next = NextRun(done.schedule)])}

\* _on_timer: the due jobs, each with the slot it is due for.
DueSlots(jobs) ==
    LET due == {j \in DOMAIN jobs : /\ jobs[j].enabled /\ jobs[j].next # 0
                                    /\ jobs[j].next <= now}
    IN [j \in due |-> jobs[j].next]

-----------------------------------------------------------------------------
\* The store.  Save and Load return what a call may leave and whether it
\* raises: a result is [ok, st, fails].

\* _save_store and _atomic_write: a failed write leaves the file as it was, or
\* replaced when it is the fsync of the directory that fails.
Result(ok, st, fails) == [ok |-> ok, st |-> st, fails |-> fails]
OnDisk(st) == [st EXCEPT !.file = "good", !.disk = st.jobs]
Save_CleanOnFailure(st) ==
    {Result(TRUE, [OnDisk(st) EXCEPT !.dirty = FALSE], 0)} \cup
    IF count.failures < MaxFailures THEN {Result(FALSE, st, 1)} ELSE {}
Save(st) ==
    {Result(TRUE, [OnDisk(st) EXCEPT !.dirty = FALSE], 0)} \cup
    IF count.failures < MaxFailures
    THEN {Result(FALSE, [s EXCEPT !.dirty = TRUE], 1) : s \in {st, OnDisk(st)}}
    ELSE {}

\* _merge_action: the last line about a job decides.
Merge(jobs, lines) ==
    LET about(j) == {i \in DOMAIN lines : lines[i].id = j}
        last(j) == CHOOSE i \in about(j) : \A k \in about(j) : k <= i
        kept == {j \in Job : IF about(j) = {} THEN j \in DOMAIN jobs
                             ELSE lines[last(j)].action # "del"}
    IN [j \in kept |-> IF about(j) = {} THEN jobs[j] ELSE lines[last(j)].job]

\* _load_store and _require_store: memory is kept while it is dirty or a job is
\* executing; an unreadable file is moved away.  The owner truncates the lines
\* it merged, and then saves.
Load_AnyReaderTruncates(st, owner, executing) ==
    IF st.loaded /\ (st.dirty \/ executing) THEN {Result(TRUE, st, 0)}
    ELSE {Result(TRUE, [st EXCEPT !.loaded = TRUE, !.lines = <<>>,
                                  !.jobs = Merge(st.disk, st.lines)], 0)}
Load(st, owner, executing) ==
    IF st.loaded /\ (st.dirty \/ executing) THEN {Result(TRUE, st, 0)}
    ELSE IF st.file = "corrupt"
    THEN {Result(st.loaded, [st EXCEPT !.file = "missing"], 0)}
    ELSE LET merged == [st EXCEPT !.loaded = TRUE, !.jobs = Merge(st.disk, st.lines)]
         IN IF owner /\ st.lines # <<>> THEN Save([merged EXCEPT !.lines = <<>>])
            ELSE {Result(TRUE, merged, 0)}

Becomes(r) ==
    /\ store' = r.st
    /\ count' = [count EXCEPT !.failures = @ + r.fails]

Executing == timer.pc = "executing" \/ manual # NoJob
Loads == Load(store, phase = "up", Executing)

\* _arm_timer leaves the timer alone while it is executing a job.
Armed_CancelsTheTurn == Asleep
Armed == IF timer.pc = "executing" THEN timer ELSE Asleep

-----------------------------------------------------------------------------
\* The life of the gateway.

\* A process that ends, in order or not, loses its memory and saves nothing.
\* The history forgets what was not on disk yet.
Ends(st) ==
    /\ phase' = "down"
    /\ registered' = {}
    /\ store' = [st EXCEPT !.loaded = FALSE, !.jobs = NoJobs, !.dirty = FALSE]
    /\ timer' = Off
    /\ manual' = NoJob
    /\ begun' = IF st.dirty \/ timer.pc = "executing" THEN [j \in Job |-> 0] ELSE begun
    /\ acked' = IF st.dirty THEN acked \cap DOMAIN Merge(st.disk, st.lines) ELSE acked
    /\ refused' = {}
    /\ UNCHANGED <<now, born>>

Crash ==
    /\ phase # "down"
    /\ count.crashes < MaxCrashes
    /\ count' = [count EXCEPT !.crashes = @ + 1]
    /\ Ends(store)

\* gateway_runtime builds the service and lists the jobs for a log line, inside
\* a try that swallows what the listing raises.
Boot ==
    /\ phase = "down"
    /\ phase' = "boot"
    /\ \E l \in Load(store, FALSE, FALSE) : Becomes(l)
    /\ UNCHANGED <<registered, timer, manual, now, history>>

\* register_system_job: the stored state is kept unless the schedule changed.
RegisteredJob(jobs, j, schedule) ==
    IF j \notin DOMAIN jobs THEN NewJob(schedule)
    ELSE IF jobs[j].schedule # schedule \/ jobs[j].next = 0
    THEN [NewJob(schedule) EXCEPT !.attempts = jobs[j].attempts]
    ELSE [jobs[j] EXCEPT !.enabled = TRUE]
Register(j, schedule) ==
    /\ phase = "boot"
    /\ j \in System \ registered
    /\ \E l \in Loads :
          IF ~l.ok THEN Ends(l.st) /\ UNCHANGED count
          ELSE \E s \in Save([l.st EXCEPT !.jobs =
                     With(@, j, RegisteredJob(@, j, schedule))]) :
                  IF ~s.ok
                  THEN /\ Ends(s.st)
                       /\ count' = [count EXCEPT !.failures = @ + s.fails]
                  ELSE /\ Becomes(s)
                       /\ registered' = registered \cup {j}
                       /\ UNCHANGED <<phase, timer, manual, now, history>>

\* start: every enabled job gets a new slot, except a pending retry.
Recomputed(jobs) ==
    [j \in DOMAIN jobs |->
        IF jobs[j].enabled /\ ~(jobs[j].pending /\ jobs[j].next # 0)
        THEN [jobs[j] EXCEPT !.next = NextRun(jobs[j].schedule)] ELSE jobs[j]]
Start ==
    /\ phase = "boot" /\ registered = System
    /\ \E l \in Load(store, TRUE, FALSE) :
          IF ~l.ok THEN Ends(l.st) /\ count' = [count EXCEPT !.failures = @ + l.fails]
          ELSE \E s \in Save([l.st EXCEPT !.jobs = Recomputed(@)]) :
                  IF ~s.ok
                  THEN /\ Ends(s.st)
                       /\ count' = [count EXCEPT !.failures = @ + s.fails]
                  ELSE /\ Becomes(s)
                       /\ phase' = "up"
                       /\ timer' = Asleep
                       /\ UNCHANGED <<registered, manual, now, history>>

-----------------------------------------------------------------------------
\* Executions.

\* The loop of _on_timer: the next due job, or the save that ends the tick, and
\* the finally that arms the timer again whatever the save does.
RunDue_ArmsAfterTheSave(st, due) ==
    IF DOMAIN due = {}
    THEN /\ \E s \in Save(st) : Becomes(s) /\ timer' = IF s.ok THEN Asleep ELSE Off
         /\ UNCHANGED begun
    ELSE \E j \in DOMAIN due :
         /\ Becomes(Result(TRUE, st, 0))
         /\ timer' = [pc |-> "executing", job |-> j, due |-> Without(due, {j})]
         /\ begun' = [begun EXCEPT ![j] = due[j]]
RunDue(st, due) ==
    IF DOMAIN due = {}
    THEN /\ \E s \in Save(st) : Becomes(s)
         /\ timer' = Asleep
         /\ UNCHANGED begun
    ELSE \E j \in DOMAIN due :
         /\ Becomes(Result(TRUE, st, 0))
         /\ timer' = [pc |-> "executing", job |-> j, due |-> Without(due, {j})]
         /\ begun' = [begun EXCEPT ![j] = due[j]]

\* The sleep is at most max_sleep_ms, whatever is due: the timer may fire at
\* any time.  A dirty store is saved first, and nothing runs in that tick.
TimerFires ==
    /\ phase = "up" /\ timer.pc = "asleep"
    /\ IF store.dirty
       THEN RunDue(store, NoJobs)
       ELSE \E l \in Load(store, TRUE, manual # NoJob) :
               IF l.ok /\ l.fails = 0 THEN RunDue(l.st, DueSlots(l.st.jobs))
               ELSE Becomes(l) /\ UNCHANGED <<timer, begun>>
    /\ UNCHANGED <<phase, registered, manual, now, born, acked, refused>>

Finished(jobs) == acked' = acked \ (DOMAIN store.jobs \ DOMAIN jobs)

TimerJobEnds(outcome) ==
    /\ timer.pc = "executing"
    /\ \E jobs \in After(store.jobs, timer.job, outcome) :
          /\ RunDue([store EXCEPT !.jobs = jobs], timer.due)
          /\ Finished(jobs)
    /\ UNCHANGED <<phase, registered, manual, now, born, refused>>

\* run_job, from the operator's route, up to on_job.
ManualRun(j) ==
    /\ phase = "up" /\ j \notin System /\ manual = NoJob
    /\ j \in DOMAIN store.jobs /\ store.jobs[j].enabled
    /\ \E s \in IF store.dirty THEN Save(store) ELSE {Result(TRUE, store, 0)} :
          IF ~s.ok THEN Becomes(s) /\ UNCHANGED manual
          ELSE \E l \in Load(s.st, TRUE, timer.pc = "executing") :
               /\ Becomes(l)
               /\ manual' = IF /\ l.ok /\ j \in DOMAIN l.st.jobs
                               /\ l.st.jobs[j].enabled
                            THEN j ELSE NoJob
    /\ timer' = Armed
    /\ UNCHANGED <<phase, registered, now, history>>

ManualRunEnds(outcome) ==
    /\ manual # NoJob
    /\ \E jobs \in After(store.jobs, manual, outcome) :
          /\ \E s \in Save([store EXCEPT !.jobs = jobs]) : Becomes(s)
          /\ Finished(jobs)
    /\ manual' = NoJob
    /\ timer' = Armed
    /\ UNCHANGED <<phase, registered, now, born, begun, refused>>

-----------------------------------------------------------------------------
\* The operator and the agent's tools, in the gateway.

\* list_jobs, get_job and status
Poll ==
    /\ phase = "up"
    /\ \E l \in Loads : Becomes(l)
    /\ UNCHANGED <<phase, registered, timer, manual, now, history>>

\* add_job: a job that could not be written is taken out of the list again.
RolledBack_KeepsTheJob(st, j) == st
RolledBack(st, j) == [st EXCEPT !.jobs = Without(@, {j})]
Add(j, schedule) ==
    /\ phase = "up" /\ born[j] = "nobody"
    /\ born' = [born EXCEPT ![j] = "gateway"]
    /\ \E l \in Loads :
          IF ~l.ok
          THEN /\ Becomes(l) /\ refused' = refused \cup {j}
               /\ UNCHANGED <<timer, acked>>
          ELSE \E s \in Save([l.st EXCEPT !.jobs = With(@, j, NewJob(schedule))]) :
               IF s.ok
               THEN /\ Becomes(s) /\ timer' = Armed
                    /\ acked' = acked \cup {j} /\ UNCHANGED refused
               ELSE /\ Becomes(Result(FALSE, RolledBack(s.st, j), s.fails))
                    /\ refused' = refused \cup {j} /\ UNCHANGED <<timer, acked>>
    /\ UNCHANGED <<phase, registered, manual, now, begun>>

\* A mutator: load, change the list, save, arm.  A save that raises keeps the
\* change in memory, and does not arm.
Change(j, Changed(_)) ==
    /\ phase = "up" /\ j \notin System
    /\ \E l \in Loads :
          IF ~l.ok \/ j \notin DOMAIN l.st.jobs
          THEN Becomes(l) /\ UNCHANGED timer
          ELSE \E s \in Save([l.st EXCEPT !.jobs = Changed(@)]) :
                  Becomes(s) /\ timer' = IF s.ok THEN Armed ELSE timer
    /\ UNCHANGED <<phase, registered, manual, now, born, begun, refused>>

Remove(j) ==
    Change(j, LAMBDA jobs : Without(jobs, {j})) /\ acked' = acked \ {j}
Enable(j, on) ==
    Change(j, LAMBDA jobs : With(jobs, j, Enabled(jobs[j], on))) /\ UNCHANGED acked
Update(j, schedule) ==
    /\ Change(j, LAMBDA jobs : With(jobs, j, Rescheduled(jobs[j], schedule)))
    /\ UNCHANGED acked
SetCommissioning(j, disable) ==
    Change(j, LAMBDA jobs : With(jobs, j, Judged(jobs[j], disable))) /\ UNCHANGED acked

-----------------------------------------------------------------------------
\* The second process: a service that is never started, with a fresh store.

AppendAction(action, j, job) ==
    /\ Len(store.lines) < MaxLines
    /\ store' = [store EXCEPT !.lines =
                    Append(@, [action |-> action, id |-> j, job |-> job])]
    /\ UNCHANGED <<phase, registered, timer, manual, now, begun, refused>>

\* What it loads; an unreadable file is moved away by whoever meets it.
Seen == Merge(store.disk, store.lines)
MeetsCorruption ==
    /\ store.file = "corrupt"
    /\ store' = [store EXCEPT !.file = "missing"]
    /\ UNCHANGED <<phase, registered, timer, manual, now, count, history>>

\* add_job loads nothing.
AgentAdds(j, schedule) ==
    /\ born[j] = "nobody"
    /\ AppendAction("add", j, NewJob(schedule))
    /\ born' = [born EXCEPT ![j] = "agent"] /\ acked' = acked \cup {j} /\ UNCHANGED count
AgentRemoves(j) ==
    /\ store.file # "corrupt" /\ j \in DOMAIN Seen \ System
    /\ AppendAction("del", j, NoJob)
    /\ acked' = acked \ {j} /\ UNCHANGED <<born, count>>
\* The rehearsal of a job it added ends: the line carries the whole job as the
\* second process sees it.
AgentJudges(j, disable) ==
    /\ born[j] = "agent" /\ store.file # "corrupt" /\ j \in DOMAIN Seen
    /\ AppendAction("update", j, Judged(Seen[j], disable))
    /\ count' = [count EXCEPT !.verdicts = 1]
    /\ UNCHANGED <<born, acked>>

-----------------------------------------------------------------------------
\* The world.

Tick ==
    /\ now < MaxTime
    /\ now' = now + 1
    /\ UNCHANGED <<phase, registered, store, timer, manual, count, history>>

\* jobs.json becomes unreadable: an editor, a file system, another writer.
Corrupt ==
    /\ store.file = "good"
    /\ count.corruptions < MaxCorruptions
    /\ count' = [count EXCEPT !.corruptions = @ + 1]
    /\ store' = [store EXCEPT !.file = "corrupt", !.disk = NoJobs]
    /\ acked' = {}
    /\ UNCHANGED <<phase, registered, timer, manual, now, born, begun, refused>>

Next ==
    \/ Boot \/ Start \/ Crash
    \/ \E j \in System, s \in SystemSchedules : Register(j, s)
    \/ TimerFires \/ Poll \/ Tick \/ Corrupt \/ MeetsCorruption
    \/ \E o \in Outcomes : TimerJobEnds(o) \/ ManualRunEnds(o)
    \/ \E j \in Job :
          \/ ManualRun(j) \/ Remove(j) \/ AgentRemoves(j)
          \/ \E s \in Schedules : Add(j, s) \/ Update(j, s) \/ AgentAdds(j, s)
          \/ \E b \in BOOLEAN :
                Enable(j, b) \/ SetCommissioning(j, b) \/ AgentJudges(j, b)

Spec == Init /\ [][Next]_vars

\* The timer task is scheduled and a turn ends (its iterations and its tools
\* have limits); nobody has to crash, edit or let time pass.
Fairness == WF_vars(TimerFires) /\ WF_vars(\E o \in Outcomes : TimerJobEnds(o))
FairSpec == Spec /\ Fairness

-----------------------------------------------------------------------------
\* Properties.

JobRecord == [enabled : BOOLEAN, schedule : Schedule, next : Nat,
              attempts : Nat, pending : BOOLEAN]
IsJobList(f) == DOMAIN f \subseteq Job /\ \A j \in DOMAIN f : f[j] \in JobRecord

TypeOK ==
    /\ phase \in {"down", "boot", "up"}
    /\ registered \subseteq System
    /\ store.loaded \in BOOLEAN /\ store.dirty \in BOOLEAN
    /\ store.file \in {"good", "missing", "corrupt"}
    /\ IsJobList(store.jobs) /\ IsJobList(store.disk)
    /\ \A i \in DOMAIN store.lines :
          /\ store.lines[i].id \in Job
          /\ store.lines[i].action # "del" => store.lines[i].job \in JobRecord
    /\ timer.pc \in {"off", "asleep", "executing"}
    /\ timer.job \in Job \cup {NoJob} /\ DOMAIN timer.due \subseteq Job
    /\ manual \in Job \cup {NoJob}
    /\ now \in Nat
    /\ born \in [Job -> {"nobody", "gateway", "agent"}]
    /\ phase = "up" => timer.pc # "off"

(* A slot that ran is not taken up again, unless a retry is pending: not    *)
(* when the save that should advance it fails, not when a mutator arms the  *)
(* timer during the run, not after a restart once it was saved              *)
(* (service.py:201-204).  A line of action.jsonl carries the job as it was  *)
(* before the run and must not be merged after it.  A verdict of the second *)
(* process is one, and is excluded.  So is a file that becomes unreadable   *)
(* twice: lines that a boot merged and did not truncate are still there     *)
(* when start() and the first tick load nothing.                            *)
TakesUp(j) ==
    /\ timer.pc = "asleep" /\ timer'.pc = "executing"
    /\ j \in {timer'.job} \cup DOMAIN timer'.due
SlotOf(j) == IF j = timer'.job THEN begun'[j] ELSE timer'.due[j]
SlotRunsOnce ==
    [][\A j \in Job :
          TakesUp(j) /\ count.verdicts = 0 /\ count.corruptions < 2
          => \/ SlotOf(j) > begun[j]
             \/ j \in DOMAIN store.jobs /\ store.jobs[j].pending]_vars

(* Creating a job is a promise: from the answer on, the job is in the list  *)
(* a restart would load, or in the memory a failed write made authoritative *)
(* (and the lines the second process appended since).                       *)
AcknowledgedJobIsKept ==
    acked \subseteq DOMAIN Merge(IF store.dirty THEN store.jobs ELSE store.disk,
                                 store.lines)

(* A job the store could not write is not a job (service.py:846): the       *)
(* process never lists it, arms it or runs it, although the write that      *)
(* failed may have left it in the file.                                     *)
RefusedJobIsNoJob ==
    /\ refused \cap DOMAIN store.jobs = {}
    /\ timer.job \notin refused

(* Between ticks, a memory that is not marked dirty is what the file says:  *)
(* the reloads that every poll does change nothing (service.py:201-204).    *)
CleanMeansSaved ==
    phase = "up" /\ timer.pc = "asleep" /\ ~store.dirty /\ store.file = "good"
    => store.disk = store.jobs

(* No job is forgotten: one that is due is run, put off by an edit, or the  *)
(* gateway goes down; no failed save, failed load, manual run or edit in    *)
(* the middle of a run leaves the schedule without a timer.                 *)
IsDue(j) == j \in DOMAIN DueSlots(store.jobs)
DueJobRuns ==
    \A j \in Job :
        (phase = "up" /\ IsDue(j)) ~> (phase # "up" \/ timer.job = j \/ ~IsDue(j))

-----------------------------------------------------------------------------
\* What the code says of itself and does not do.

(* register_system_job keeps a missed slot, so the timer fires it at once   *)
(* (service.py:876-878): a restart never moves the missed slot of a job    *)
(* that ran before into the future.                                         *)
MissedSlotIsKept ==
    [][Start /\ phase' = "up" =>
          \A j \in System : begun[j] # 0 /\ IsDue(j)
                            => store'.jobs[j].next = store.jobs[j].next]_vars

(* A corruption that is met while the gateway runs drops no live job        *)
(* (service.py:345-346).                                                    *)
PollDropsNoJob ==
    [][Poll /\ store.lines = <<>> => DOMAIN store.jobs \subseteq DOMAIN store'.jobs]_vars

=============================================================================
