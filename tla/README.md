# nanoinfra in TLA+

TLA+ specifications of nanoinfra's runtime, the TLC instances that check them
and theorems about them that TLAPS proves. Paths are relative to
`nanoinfra/` in the repository unless they start with another directory.
`PROJECT.json` holds the same facts in machine-readable form: components, runs,
the line map, hazards, findings, theorems and, for every property, a mutation
of the model that breaks it.

Check a run with `tlc -config MCApprovalRace.cfg MCApprovalGate`, a proof with
`tlapm ApprovalGateProofs.tla`.

## 1. The system

nanoinfra runs an LLM agent for an operations team. A message arrives on a chat
channel or from a timer and becomes a turn of the agent; the turn calls tools;
a tool that changes a remote host is decided by a separate process.

```
 channel ─┐                                   ┌─ operator (web UI, another channel)
 subagent ─┼─> inbound queue ─> AgentLoop ─> tool ─> executor ─> host
 cron ────┘        (bus)        1 consumer    │       threads, pending store, tokens
 trigger                        n tasks       │            │
                                           denial latch <─ audit log (shared)
```

Four processes share a state directory: the gateway (channels, bus, agent loop,
scheduler, web UI), the executor (decides and runs remote actions, owns the
credentials), the fetcher and the MCP host. `nanoinfra agent` on the command
line is one more process, which shares `jobs.json` and `action.jsonl` with the
gateway. The gateway is one asyncio thread; the executor has a thread per
connection.

### Components with state

| component (source) | state | operations | what is hard, and what makes it correct |
|---|---|---|---|
| Approval rules (`gates/approvals.py`) | none | may an answer exist, does this one count | two functions that must agree for every configuration; nobody approves their own request |
| Executor, approval path (`gates/executor/server.py`) | one thread per action, its audit records | gate, suspend, wait, consume the token, open the credential, dial | every record may fail, the configuration changes between loads, the process dies; a host is reached once, only with a recorded authorization |
| Pending store, token store (`gates/pending.py`, `gates/tokens.py`) | records with deadlines | create, prune, wait, decide; mint, consume | answers race each other and the deadline; one verdict for ever, one token for one action |
| Operator socket (`gates/executor/operator_socket.py`) | one thread per answer | approve, deny | check, mint and land are three steps |
| Denial latch, restore, audit log (`gates/latch.py`, `gates/latch_restore.py`, `gates/runtime.py`, `gates/audit.py`) | latched classes in memory, lines on disk | refuse, count, clear, restart | memory of one process against a log two processes write; no restart over a readable log lifts a latch younger than the retention, no session pays for another |
| Cron service (`cron/service.py`) | job list in memory and in `jobs.json`, lines of a second process, timer | tick, run by hand, add, remove, enable, update, poll, boot | edits interleave with a running job, saves fail, the process dies; no slot runs twice, no acknowledged job is lost |
| Message bus (`bus/queue.py`) | bounded queues | publish (waits), publish_nowait (drops) | the agent's own publishers must not wait for the agent |
| Agent loop (`agent/loop.py`, `agent/automation_turns.py`, `command/builtin.py`) | pending queue per live turn, deferred automation turns, session locks, a gate on concurrency, task lists | route, dispatch, inject, defer, `/stop`, `/new`, overflow, cancellation | a message moves between five queues and its task; none is lost, none is handled twice, everything is handled in the end |
| Capability policy, delegation (`gates/policy.py`, `gates/delegation.py`) | none | what one request gets: allow, ask, refuse | three decision tables, a matrix, a ceiling, grants that expire; a peer never holds more than whoever is behind it: its manager or, where nobody knows who talks to that one, an unattended turn |
| Standing grants (`gates/derived_grants.py`, `webui/approvals_api.py`, `webui/commissioning_api.py`, `webui/settings_api.py`) | the list in `config.json` | derive from an approval, promote from a rehearsal, edit in the panel | three writers of one list, an inventory that is repointed under it; nothing runs unasked that nobody agreed to |
| Trigger queue (`triggers/`, `automations/delivery.py`) | files in inbox, processing and failed, attempts, fingerprint of the last delivery | enqueue, replay, claim, complete, retry, recover, delete | a crash between two file operations, a failed publish after the turn ran; no delivery is lost, none runs for ever |
| Session store, checkpoint, consolidation (`session/manager.py`, `agent/loop.py`, `agent/runner.py`, `agent/memory.py`, `agent/autocompact.py`) | Session objects in a cache, the file, the checkpoint of the live turn, a cursor behind which all is archived | begin, checkpoint, save, restore, clear, delete, archive in the background, after idling, by `/compact` | a turn may end at any step, and a consolidation awaits a model call with an object of the session in hand; a history that providers accept, and no message that is neither there nor archived |
| Provider fallback (`providers/fallback_provider.py`) | failures, tripped_at; per request, what was streamed | ask the primary, ask the fallbacks in order, trip, probe, resume a stalled stream, retry | concurrent turns share one circuit; two layers ask again while text is shown already; no segment mixes two answers, no error is lost, the primary is asked again |
| Channel manager (`channels/manager.py`) | outbound queue, a buffer of its own, fingerprints | dispatch, merge, retry, suppress | one consumer reads ahead; order, ends of streams, and messages that nobody accounts for |
| Remote jobs (`servers/`) | job records | start, poll, stop | polls against restarts |

The rest (channels, HTTP clients of models, prompt assembly, tools on files, web UI,
configuration, packaging) is I/O, text or interface; PROJECT.json lists each
part with the reason it has no module.

### How the components interact

- The gateway calls the executor over a socket and waits without a deadline;
  the executor never looks at that connection while it waits for an operator.
  A stopped turn therefore leaves a thread behind that may still run the action.
- The executor and the gateway meet again in the audit log only: the executor
  writes the refusal, the gateway hears the reply (or does not) and latches.
- The scheduler calls the agent loop through a coordinator: `submit` publishes
  a message on the bus and waits for a future that the turn's task resolves.
- An approval is answered in the web UI, which writes a grant after the executor
  has taken the answer; the executor reads the list with the next request.
- A trigger is fired by a file. The queue task of the gateway makes it a turn of
  the agent loop, asks the delivery policy about its answer, and publishes it on
  the outbound queue, which the dispatcher empties into the channels.
- A turn and the consolidation of its session share the Session object while the
  cache holds it, and hold two as soon as one of them invalidates it; whoever
  saves last decides what the file says.
- The consumer of the bus executes `/stop` and `/new` itself and waits inside
  them for tasks that publish to the same bus.

## 2. Modules

| module | models | checked by | proved in |
|---|---|---|---|
| `ApprovalRules` | `approvals.py` as operators | `MCGates`, through `ApprovalQuestions` (one state per question) | `GatesProofs` |
| `ApprovalGate` | executor thread, stores, operator threads, log, configuration | `MCApprovalGate` | `ApprovalGateInductive` (the invariant), `ApprovalGateProofs` |
| `ApprovalPromise` | the abstract promise of the approval path | implemented by `ApprovalGate` (`ImplementsPromise`) | `ApprovalGateProofs` (the refinement) |
| `GatePolicy` | `policy.py` and the rules of `delegation.py` as operators, the two doors that ask them | `MCGates` | `GatesProofs` |
| `StandingGrants` | the list of grants, its writers, the inventory, expiry | `MCGates` | `GatesProofs` |
| `DenialLatch` | latch, its restore, the audit lines, the tools around a gated call | `MCGates`, `MCDenialLatch` | `DenialLatchProofs` |
| `CronService` | the scheduler and the second process | `MCCronService` | `CronServiceProofs` |
| `AgentLoop` | bus, consumer, tasks, automation turns, `/stop` and `/new` | `MCAgentLoop` | `AgentLoopProofs` |
| `SessionHistory` | Session objects, their file, the turn that writes to it, consolidation | `MCAgentLoop`; the two findings directly | `HistoryProofs` |
| `TriggerQueue` | delivery files, the queue task, the delivery policy | `MCDelivery` | `TriggerQueueProofs` |
| `TriggerPromise` | the abstract promise of the queue | implemented by `TriggerQueue` (`ImplementsPromise`) | `TriggerQueueProofs` (the refinement) |
| `OutboundDispatch` | outbound queue and dispatcher | `MCDelivery` | `DeliveryProofs` |
| `ProviderFallback` | the circuit and the chain of `fallback_provider.py`, the retry loop of `providers/base.py` | `MCDelivery` | `DeliveryProofs` |

`ApprovalGate` EXTENDS `ApprovalRules`, and `StandingGrants` EXTENDS
`GatePolicy`; both call the operators where the code calls the functions.
`DenialLatch` stands on `ApprovalGate` informally: the whole decision about a
call is one step there (`Decide`, `Answer`) whose outcomes are the responses that
the other module can give. `AgentLoop` sees a job of `CronService` as an "auto"
message and its waiter; `CronService` sees the turn as `TimerJobEnds(outcome)`,
`TriggerQueue` as `TurnAnswers`, `TurnStopped` or `TurnRaises`.

`AgentLoop` has a turn as one place (`BeginTurn` to `EndTurn`, with `Inject`),
of which `SessionHistory` has the steps that touch the session.

`MCGates`, `MCAgentLoop` and `MCDelivery` check parts that share no state in one
run each. `MCApprovalGate` and `MCCronService` use the same device for two ways of
spending their bounds. A
variable `focus`, chosen in the initial state, names the part that moves; the
others rest in an initial state. Parts that share nothing have no interleaving
worth exploring, so nothing is lost by it.

Several modules define an operator twice, as `Name` and `Name_WithAMistake`.
The second form is never used by the specification: it is the code with a
plausible bug, and substituting it for the first breaks a property
(`mutants` in PROJECT.json).

### 2.1 ApprovalRules and ApprovalQuestions

`check_approval` and `approval_feasible` are translated case by case; a path or
person is a model value, and `Blank` is the empty string that an operator may
write in the configuration, with the code's treatment of it. `ApprovalQuestions`
makes each combination of configuration, request and answer a state.

### 2.2 ApprovalGate

An action is `Executor.handle` for one execute frame. `pc[a]` names the place of
its thread:

| pc | code |
|---|---|
| gate, suspend | `_decide`, then `_suspend` up to the record |
| created, waiting | the record is in the store; `PendingApprovalStore.wait` |
| answered | the wait is over; `Unapproved` or `Consume` |
| approved | the token was consumed; `RecordApproval` appends the allow line |
| credential, dial, running | credential decision, `backend.run()`, completion record |
| done, lost | the response left, or the process died |

An answer `x` is a thread of the operator socket with the three steps of
`ApprovalService`: `CheckAnswer`, `Mint`, `Land`. Deadlines are kept as time left,
so no clock is needed: `Tick` lowers them all. `SetGates` is the operator who
edits the configuration, and each place that calls `gates_loader()` reads `gates`
anew. `Crash` empties both stores and loses every thread, and keeps the log.
Every `_record` may fail.

`ApprovalPromise` says what all this is for: an action is submitted, decided,
perhaps waits, gets at most one verdict, is authorized once, executes once, and
is closed for good. The refinement maps `pc`, `authority` and `hostRuns` to
`phase`, `winner` and `runs`.

Left out: previews, the arguments of an action beyond the digest the operator
saw, rendering, connector actions other than through the same path, job records.

### 2.3 GatePolicy and StandingGrants

`evaluate`, `evaluate_connector` and `evaluate_credential_access` are the three
decision tables of `policy.py`; `_gate` is `Executor._gate`, which refuses what
has no target or an unbounded one and asks nobody on an unattended turn. A name
of the inventory and an address are words of one set, because a grant may list
either and `_resolved_grant_hosts` looks every entry up first.

| variable | code |
|---|---|
| `matrix`, `grants` | the policy and `gates.standingGrants` in `config.json` |
| `servers` | the inventory: name to what its target expands to |
| `waiting` | what an operator is shown of a suspended action |
| `proposed` | what the last rehearsal of an automation would need |
| `panel` | the list the settings panel was opened with |
| `agreed`, `kept` | history: what an operator asked a grant for, and of that what no panel has saved over |

Actions: `Suspend`, `SuspendConnector`, `Settle`, `write_derived_grant` (approve
and add), `Rehearse`, `promote`, `OpenPanel`, `update_gates_settings`,
`EditInventory`, `Tick`.

`Peer` is the binding that `delegate.py` builds for a turn. Its `human` is the
person the channel authenticated, and the peer of a manager without one is
decided as unattended, whatever its manager is. `Sponsor` says who such a peer is
compared with in `DelegationNeverWidens`; section 4 says what follows.

Left out: how a pattern expands over inventory files (the result is an input),
the text of a command, writing the configuration file (the routes run one at a
time), the roster of agents.

### 2.4 DenialLatch

| variable | code |
|---|---|
| `latched`, `refusals`, `at` | the keys of `_LatchState.entries`, and of each entry the count and the day it was denied |
| `log` | the lines of the audit segments, oldest first: day, decision, pair of session and class |
| `call` | a tool call, from the latch check to its result; `heard` while the tool still listens |
| `today`, `tears`, `losses` | the UTC day; how often the machine died in an append, how often an append failed |

A line keeps what the restore reads. Those that move no latch (allowed, suspended,
expired) are "other": they still join a stump, begin a day and stand behind a torn
line. The same line written again changes nothing the restore could tell apart, unless
it is a "refused" one, which is counted, so `Written` keeps one of them.

`RefuseAction` keeps the order of `refuse_action`: the record, the latch, and the
latch's own event, which is a second denied line. The first may fail and then
nothing is latched; the second is lost in silence. `PowerLoss` leaves a torn line;
the next append of that day joins it and makes one unreadable line of both
("corrupt"). The first append of a day drops the segments older than the retention
(`Prune`; `Retention = 0` keeps them all). `Restored` is `new_denial_latch` over
`restore_latches`, and `Healthy` is the reader's tolerance for a bad line at the end
of its segment only. `Stop` and `Restart` take the listener away from a call that
goes on in the executor (`Deserted`); what it is then refused is on record alone.

### 2.5 CronService

`store` holds `_store`, `_store_dirty`, the file and the lines of the second
process. `Load` and `Save` are operators from store to store with the failures
the code meets (unreadable file, failed write before or after the replace), and
every action that the code starts with `_load_store()` starts with it. A run is
two steps, `TimerFires` or `TimerJobEnds`, with everything that may interleave
with the await of `on_job` in between. `Boot`, `Register` and `Start` are the
three passes over the file at start.

Left out: run history, bindings of a job to agents and sessions, legacy
payloads, time zones and cron expressions (a schedule is an interval or a
moment).

### 2.6 AgentLoop

A message is published once and gives its name to the task made for it.

| variable | code |
|---|---|
| `mode` | `_mid_turn_messages` |
| `inbound` | `MessageBus.inbound` |
| `pending` | `_pending_queues`; a session in its domain has a live turn |
| `deferred` | `_deferred_automation_turns` |
| `line` | tasks in the order they reached the session lock; the head holds it |
| `active` | `_active_tasks` |
| `task` | where the task is: created, waiting for lock and gate, in the turn, waiting inside `/new`, waiting for room in a put, ended |
| `left` | what a task that leaves still holds: leftovers, the deferred turn |
| `doomed` | cancellations requested and not delivered |
| `consumer`, `awaits` | the command `run()` executes inline and the tasks it waits for |
| `waiter` | `AutomationTurnCoordinator._waiters` |

Actions: `Publish` (a channel, which waits for room), `Announce` (a subagent,
dropped when there is none), `Consume` (the routing in `run()`), `CommandEnds`,
`Start`, `BeginTurn`, `Inject`, `Clear`, `EndTurn`, `Resume` and `Cancelled`,
which has a case for each await a cancellation may reach.

Left out: what a turn computes, commands that touch no task, the outbound queue,
unified sessions, the continuation of a sustained goal (one message with two
tasks), turns that enter past the bus (`process_direct`, the API), shutdown.

### 2.7 SessionHistory

One session. `object` is what each Session object in somebody's hands holds,
`cached` the one in `SessionManager._cache`, `file` what is stored; `Got` is
`get_or_create`, which reads the file when nobody is in the cache, and `Saved` is
`save`, which writes the object it is given and puts it in the cache.

| variable | code |
|---|---|
| `turn` | the turn that has the session lock: its object (`ctx.session`), where it is, and what it has said (`ctx.all_messages` past the history) |
| `lock` | the consolidation lock of the session, held over the await of `archive`: by whom, on which object, for which chunk |
| `queued` | background consolidations and idle compactions that wait for it |
| `archived`, `snapshot` | `history.jsonl`, and what `/new` left to a background task |
| `owed` | history: the messages the file held since the last `/new` |
| `overtaken` | history: the object in somebody's hands was not the only one, or was cleared or deleted meanwhile |

Actions of the turn: `StartTurn` (`_restore_turn`), `BuildTurn` (the early user
message), `CallsTools`, `ToolsEnd` and `Answers` (the checkpoints of the runner,
with messages taken in), `PersistTurn`, `FailTurn`, `CancelTurn` (`/stop`, or a
`/new` that goes on as `New`). Actions of the consolidation: `BeginRound` and
`EndRound` (`maybe_consolidate_by_tokens`), `ScheduleIdle`, `BeginCompaction`,
`EndIdle` and `EndCompact` (`compact_idle_session`). `Delete` comes from the web UI,
`Crash` leaves the file.

Left out: the file format and its repair, the cap on the length of a file,
provider state, read-only turns, subagents' records, commands other than
`/compact`, `/new` and `/stop`, token estimates (a round takes any boundary before
a user's message), a tool error that ends the turn, and a second session, with
which nothing is shared.

### 2.8 TriggerQueue and TriggerPromise

A delivery keeps its file name, so a directory is a function from deliveries to
what the file says: attempts, and whether it waits for `not_before_ms`. Every
operation of the store holds one file lock and is one step; where a process may
die or a write may fail inside it, the half operation is a step of its own
(`EnqueueTorn`, `RecoverTorn`, `ClaimTorn`, `RetryTorn`,
`RequeueTorn`). `pc` follows the queue task: recovery at its start, a claimed
batch, the turn, the answer, the fingerprint, the run record. An exception after
the turn takes the same way as a failed turn (`Requeue`), a cancellation its own.

`TriggerPromise` has no files: a delivery is accepted, begun at most so often,
requeued, and ends concluded, dead-lettered or forgotten with its trigger. The
refinement reads the state of a delivery off the files (`StatusOf`).

Left out: the record of runs in the web UI, renaming a trigger, the content of
a turn; two gateways in one workspace, which the code does not guard against.

### 2.9 OutboundDispatch

A message is its channel, kind, stream, origin and text, with its number in the
order of publication. `pending` is the local list of `_dispatch_outbound` that
holds the message which stopped a merge. `_dispatch_outbound` is everything up
to the first await (take, filter, merge, suppress, remember); `SendSucceeds`,
`SendFails` and `SendExhausted` are the outcomes of a send in
`_send_with_retry`, between which the queue fills and channels come and go.

Left out: the wire of each channel, splitting of long texts, the typing
indicator, the several chats of a channel (they share the dispatcher and
nothing else but the fingerprints, which are kept per origin).

### 2.10 ProviderFallback

One `FallbackProvider` and the turns that have a model request under way. `call`
has a turn's locals through both layers: the wrapper's `has_streamed` and loop
variable (`streamed`, `leaf`, `last`), the retry loop's attempt and
`has_streamed_content` (`attempt`, `shown`). An action is what runs between two
awaits: the request is answered (`PrimarySucceeds`, `FailureEndsAttempt`,
`PrimaryFails`, `FallbackFails`, `FallbackSucceeds`), the chain goes on
(`AskFallback`, `FallbackNotBuilt`) or is over (`ChainEnds`), the wait ends
(`Wake`). Awaits of callbacks that touch the turn's own locals only are folded
into the action around them. An exception of a provider is the failure it is
classified as. `primary_failures` counts up to the threshold, beyond which the code
compares nothing, and `cooldown` is the time left, so that no clock grows; an
expired trip and none differ in `primary_failures` only. `segment`, `asked` and
`tried` are histories: the requests whose text the open segment of the reader's
stream holds, whether the attempt has asked anybody, and how many fallbacks it
asked or could not build.

Left out: the persistent retry mode, the second try without images, request
parameters and provider state of a fallback, usage rows. The code has branches
for a stream whose caller cannot start a new segment. The only such caller,
`runner.py:1032`, needs a turn that has no stream (`runner.py:952`) and streams
progress, and the loop asks for progress only where there is a stream
(`loop.py:1577`); they are left out as unreachable.

## 3. Runs

| run | instance | states | shows |
|---|---|---|---|
| `race` | 1 action, 2 answers, 6 kinds of request, 5 configurations; or 2 actions of one session, 1 answer; fair threads | 140,297 | the safety of a suspended action, its refinement of the promise, every action ends |
| `gates` | rules: 2 paths, 2 people, blank entries; grants: 2 requests, 2 connector calls, 4 inventories; latch: 2 calls, 2 sessions, 1 tear, 1 lost line, 3 days, retention 1 | 735,316 | check and feasibility agree, no self-approval; nothing runs unasked that nobody agreed to, no peer is wider than who is behind it; latches survive restarts, tears and trimming, and are nobody else's |
| `latch_degraded` | 2 calls of 1 session, 1 tear | violation | finding 1 |
| `cron` | system and user's job, 1 failed save, 2 crashes: all schedules and 3 units of time; or a second process, an unreadable file, one schedule and 2 units; fairness | 255,778 | slots run once; memory and file agree; acknowledged jobs are kept; due jobs run |
| `cron_slot`, `cron_corrupt` | 1 job | violation | findings 2 and 3 |
| `loop` | loop: 6 messages of all kinds, 2 sessions, both modes; history: 1 session, 4 messages, 2 rounds, 1 crash, 1 `/new` or deletion | 620,080 | no message lost or doubled; the gateway catches up; the history stays replayable and nothing drops out of it unarchived |
| `loop_stop` | 5 messages | violation | finding 4 |
| `history_compact`, `history_stop` | 1 session, 4 messages | violation | findings 6 and 7 |
| `delivery` | triggers: 1 trigger, 2 deliveries, 3 policies, 1 failure, 1 crash; outbound: 3 messages of 11 sorts, 2 channels, 2 origins; models: 2 turns, 2 fallbacks, threshold 2, cooldown 2, 1 retry | 378,702 | no delivery lost, the promise; order, ends and repetitions; streams are not mixed, the chain is complete; deliveries, messages and requests all settle |
| `never_silence` | the triggers | violation | finding 5 |

### Bounds, and why they are enough

- `race`: two answers compete, or one comes after the verdict of the other; that
  no number of answers does harm is proved. One time unit of timeout and token
  life lets the deadline and the
  token expire at every point between two steps, because `Tick` may come
  anywhere; `Retention = 0` prunes a record as soon as it may be pruned. The
  second action is there because prune works on the others' records.
- `gates`, the rules: an approver, a second one and a blank entry in each list
  are all that the two functions compare; three entries make them differ.
- `gates`, the grants: one policy holds each word that leads somewhere (ask a
  person for one host, need a grant for a group or for an automation). The
  inventories are a host, a group, an unbounded pattern and a record named like
  an address. Two grants and two agreements make a second writer meet a first;
  one unit of time expires the shorter duration and not the longer.
- `gates`, the latch: two calls of one session or of two make every order of a refusal, a
  clear and a restart; one lost line can be any line, one tear any moment, and an
  append may follow it onto the stump before the next restart. Three days with a retention
  of one trim segments that hold the record of a live latch, of one that is still
  young enough (the boundary day) and of one that is not. That more tears, onto stumps
  too, more days and any retention change nothing is proved.
- `cron`: three units of time give a slot, its retry and the next slot; one
  failed save may be any; two crashes are one between a run and its save and one
  during the boot after it. System jobs are of kind "every", as in the code. The
  invariants behind `CleanMeansSaved` and `RefusedJobIsNoJob` are proved for any
  number of all of these.
- `loop`: every queue has one place and the gate one holder, so each is full as
  soon as anything is in it, and the messages are one of each kind the routing
  tells apart. `/stop` and `/new` meet in one session.

- `loop`, the history: four new messages are a turn with a tool call and its
  answer, and another one after it; a turn that fails costs one, so a history of
  three turns with a consolidation of two rounds is in reach. `Window = 1` lets
  `/compact` find something in it. Four objects are one for each of cache, turn,
  consolidation and the next to be read. The invariants were checked with five
  messages besides (3,110,036 states).
- `delivery`, the triggers: two deliveries are the current one and one behind it
  in the batch, or the original and its replay. Two attempts are one that fails
  and the last. The one crash and the one failed write may come at every step;
  the invariant of the proof was checked with two crashes besides.
- `delivery`, the dispatcher: three messages are a merge and what stops it, or an
  answer, its repetition and news. A queue of two fills while one is sent.
- `delivery`, the models: two turns are one that asks and one whose answer is late; a
  threshold and a cooldown of two tell a first failure from the one that trips
  and a late trip from an early one; two fallbacks are a next one and a last
  one, one retry an attempt that may be repeated and one that may not. Turns
  ask again without end: no bound cuts a behaviour off.

Deadlock is checked where the system cannot stop. In the loop the gateway rests
when all is handled, and the wedge of finding 4 is a stop: `CatchesUp` and
`InlineCommandEnds` say what must not stop there. In `delivery` the dispatcher
rests when the queue is empty and stops with the gateway: `EveryMessageIsResolved`
and `EveryDeliveryIsSettled` say what must not.

### Fairness

- `race`: each executor thread takes its next step, and time passes. Threads
  are the operating system's; the wait has a deadline that `Condition.wait`
  honours. An answer that was begun is finished; nobody has to begin
  one.
- `cron`: the timer task fires when it is due, and a turn ends, because
  iterations and tools have limits. Nobody has to crash or edit; the clock needs
  no fairness, since the property starts at a due job.
- `loop`: the consumer and every task take their next step. asyncio resumes
  what is ready, in order. A turn ends, as above. Nobody has to publish.
  Weak fairness is enough throughout: `asyncio.Lock` and `asyncio.Queue` serve
  in order, which `line` has as its order. The gate of the loop is a semaphore
  that several sessions compete for; `WF` on `BeginTurn` is enough in the model
  because no message is published twice.

- `delivery`: the queue task is a loop of a gateway that is started again; a turn
  ends; the dispatcher takes its next step, a send being bounded by its number
  of attempts. That a backoff ends is not assumed: a delivery that waits for its
  own retry counts as settled.
- `delivery`, the models: a request ends, because a stream has an idle limit
  (`NANOINFRA_STREAM_IDLE_TIMEOUT_S`) and clients have timeouts; the turn goes
  on; time passes. Nobody has to ask or to cancel, and no text has to come.

## 4. What the checks found

The seven violation runs state what the code says of itself and does not do.

1. `latch_degraded`: "An unreadable audit log must never read as 'no latches'"
   (`gates/latch_restore.py:15`), "every session stays latched" (`:75`), and every
   gated action waits (`tests/gates/test_latch_restore.py:157`). A machine dies in
   the middle of an append, the record of the next refusal joins the stump, and the
   latch's own event stands behind it: the restore is degraded, as it should be.
   `_seed` (`gates/latch.py:423`) then copies the empty `latched` and never reads
   `degraded`, so the gateway starts without latches and the tools refuse nothing.
2. `cron_slot`: `register_system_job` keeps a missed slot so that it fires at
   once (`cron/service.py:876`); `start` then recomputes it into the future.
3. `cron_corrupt`: an unreadable `jobs.json` is to leave the memory alone
   (`cron/service.py:345`); it is renamed, and the next poll reads a missing file
   as an empty list.
4. `loop_stop`: the bounded queues must not deadlock the agent
   (`tests/bus/test_bounded_queues.py:1`); `/stop` inside the only consumer waits
   for a task whose `finally` waits for room in the queue.

5. `never_silence`: an operator who asked for silence gets silence
   (`tests/automations/test_delivery_policy.py:45`); a turn that raises publishes
   its apology all the same, because `fail` does not ask `_delivery_withheld`
   (`agent/turn_delivery.py:265`).
6. `history_compact`: the summary of a `/compact` reaches the prompt on the next
   turn (`command/builtin.py:1157`); the reply of the command is saved with the
   object the turn held before the compaction, so summary and cursor are lost
   and the same messages are archived again.
7. `history_stop`: a stopped turn keeps the tool results and assistant messages
   accumulated before (`agent/loop.py:1796`); the checkpoint has those of the last
   iteration only.

Four more places where the code and its comments disagree, which the models show
and no run repeats:

- A refusal about the deployment is documented as not blocking the session
  (`agent/tools/server_execution.py:295`). The executor records it as `denied`
  like every other (`gates/executor/server.py:576`), so the next restart latches
  the session: `Decide` with "not_terminal", then `Restart`. `LatchHasACause` has
  to allow that cause.
- An expiry "deliberately latches nothing across a restart"
  (`gates/executor/server.py:135`). The executor does write `expired`, but the
  tool that hears of it calls `refuse_action`, which writes `denied`: `Handle`
  with "expired", then `Restart`. Only an expiry that nobody heard of is forgotten.
- "Time does not clear it" (`gates/latch.py:16`). Retention trims segments whatever
  latches their lines hold (`gates/audit.py:428`), and the first restart after that lifts
  those latches: `NewDay` past the retention, any record, `Restart`. The properties are
  about latches younger than the retention (`Recent`).
- "A delegated turn never holds more authority than the turn that spawned it"
  (`gates/delegation.py:35`). Where the manager is interactive and its channel
  authenticated nobody (`sender_id` empty, which `gates/executor/client.py:178`
  foresees), `delegate.py:270` binds the peer to no actor, and
  `effective_execution_context` (`delegation.py:196`) leaves it unattended. A standing grant for
  unattended turns then answers "allow" to the peer where the manager's own call
  would have been suspended for an operator. `DelegationNeverWidens` therefore
  compares such a peer with an automation that asks the same, and every other peer
  with its manager.

Behaviour the models reach and no document forbids, so that no run refutes
anything. The properties exclude exactly these cases:

- Latch: a refusal whose own record fails latches nothing; when one of the two lines
  of a refusal joins a stump and the other is lost, nothing of it is on record; a call that was on its way is
  suspended under a latch that was set meanwhile; inventory writes never ask the
  latch.
- Cron: a commissioning verdict of the second process carries the whole job and
  brings back a slot that ran; the lines of `action.jsonl` are truncated before
  the merged list is saved; the results of a tick are saved after its last job;
  a manual run may overlap the timer's run of the same job; the due jobs of a
  tick are picked once.
- Loop: a task cancelled before it has the session lock never resolves `submit`
  (the scheduler then waits for ever); one cancelled before its first step
  publishes no deferred turn; a cancellation that meets a waiting put loses
  what the task held; leftovers come back behind newer messages; `/new` cancels
  the messages queued behind it.

- Grants: a grant follows an inventory record that is named like an agreed
  address; approve and add for a connector call writes a grant for a host and a
  command, which never matches that call; a connector call on an unattended turn
  is suspended where the matrix says so, with nobody to answer; the promotion of
  a rehearsal takes an expired grant for a permission; a panel that was opened
  earlier drops the grants added since, or brings back removed ones, and cannot
  save a list that holds a connector grant; a ceiling that names only unknown
  classes binds nothing.
- History: `/new` or a deletion during a consolidation is overwritten when that
  one saves the object it holds, cursor included, and the next load resets a
  cursor that is out of range; an idle compaction that begins while a turn is
  about to start leaves turn and compaction with an object each, of which the
  last to save wins; messages taken in by a turn are in no checkpoint; a crash
  loses what `/new` left to its background task.
- Triggers: a delivery whose publish or record fails after its turn ran is run
  again; a turn that was stopped or raised is recorded and not retried; each
  restart spends an attempt of every delivery in `processing`, begun or not; a
  crash between the publish and the fingerprint repeats an answer under
  "on-change"; a replay whose run record fails leaves its delivery in the inbox;
  an exception outside the guarded part of the queue task ends the gateway.
- Dispatcher: a text is remembered before it is sent, so it suppresses its
  repetition even when no attempt delivered it; the fingerprints are never
  dropped; merging loses the usage figures of a stream's end; a message may be
  given up after a trigger's fingerprint was recorded, as publishing only
  enqueues.
- Fallback: a success of a request that was sent before the circuit opened
  closes it; a late failure starts the cooldown anew; a failure with text shown,
  a refusal and a request that the wall-clock limit cancels are not counted; a
  turn that waits for an open circuit may find it opened again by another turn.
  "Allow one probe" (`fallback_provider.py:230`) holds nothing back: every turn
  that finds the cooldown over asks the primary.

## 5. What is proved

Every theorem is about the specification with all constants arbitrary within
the named ASSUMEs of its module (sizes and durations are natural numbers, the
records have the fields the code reads; nothing about how many actions,
answers, sessions or calls).

- `GatesProofs`, of the rules: that check and feasibility agree, and that nobody answers
  themselves, for every configuration. The lemmas are about the operators; the theorems lift them.
- `ApprovalGateProofs`: `Invariance` is the core. None of the safety properties is
  inductive alone: that an action runs only with an independent approval needs
  what the answer's thread established before it landed (`AnswersVetted`), that
  the stored verdict is some landed answer's (`RecordMatchesAnswers`), that the
  executor thread carries that verdict (`ThreadMatchesRecord`,
  `AuthorityMatchesAnswers`), and that the log has caught up with the thread
  (`ThreadMatchesLog`, `HostMatchesThread`). `IInv` is their conjunction, checked
  on the instance of `race` before it was proved; there is one lemma per action. The safety
  properties follow from it, the two action properties from it and the step.
  `GateKeepsItsPromise` is the refinement, `Spec => ImplementsPromise`, from the
  same invariant: the mapping reads phase, winner and runs off thread, authority
  and host, and each action of the gate is one step of the promise or a stutter.
  `IInv` is needed where the mapping reads an answer: that the one that lands is
  the first for an action still waiting, that the token consumed is the winner's,
  and that an answer under way at a restart has not counted.
- `DenialLatchProofs`: for any retention, any number of days, torn and lost lines;
  nothing is assumed of the constants but that they are numbers. What is on record
  (`LatchedOnRecord`) is not inductive, as trimming takes lines away: `LInv` says
  *when* a latch was denied on record. Every latch younger than the retention has a
  denied line of its own day or a later one, and no cleared line of its pair behind it
  (`HasRecord`). A line that is trimmed is too old, one that is young enough is in a
  segment that stays (`WrittenKeeps`, from `Dated`: the lines are in the order of their
  days), and what is appended goes behind. Until a line is torn there is no stump to
  join (`NoStump`), so the record of a refusal is a line of its own whatever becomes of the
  event; until a line is lost both are written, and only the first can join a stump. That
  is why `SomeRecordSurvives` asks for one of the two, and for no more.
  `RestartLiftsNothing` follows as soon as the log reads as healthy. `TearLiftsNothing`
  also shows that it does: the stump is the last line of its segment, alone or
  the one that was there. `LatchesHaveACause` has an invariant of its own
  (`CauseInv`): every denied line of the log names a pair some call of this session
  was refused for, and a verdict, once given, stays; joining and trimming only take
  denied lines away.

- `CronServiceProofs`: `StoreIsOwned` says who owns the job list, for any number of
  jobs, schedules, failures, crashes and lines of the second process. Neither
  `CleanMeansSaved` nor `RefusedJobIsNoJob` is inductive. The first needs that a
  clean list is the file's except while a job executes, when the list is ahead of
  the file and every load leaves it alone (`Settled`). The second needs that a
  refused job is not only absent from memory but out of reach of every load:
  in the file only while memory is dirty, which no load then replaces, and in
  no line of the second process, whose ids are its own (`KeepsOut`). The invariant
  was checked on the instance of `cron` before it was proved; there is one
  lemma per action, and one for each of the load, the save and the tick they share.
  Merging the lines takes the last one about a job, a CHOOSE: `HasLast` shows
  that there is one, from the well-foundedness of the subset order.
  `AcknowledgmentIsKept` adds `KInv`, that every acknowledged job is kept by
  whatever a restart would read, and that jobs not yet created are in no list and
  no line, so that a line about one job cannot stand in the way of another's.
  `SlotsRunOnce` is the longest proof here. `SInv` says of each of the three
  copies of the list (memory, file, lines) that no job in it is due for a slot
  that has begun: it is ahead of it, a retry is pending, or its run is under way;
  and that no line of the second process carries a job that ever ran. It gives
  both up after a verdict of the second process or a second
  corruption of the file, which the property excludes because the code runs a slot
  twice then: the line of a verdict carries the job as it was before the run, and
  lines that a boot merged over an unreadable file, and did not truncate, are
  merged again by a later load if `start()` and the first tick found the file
  unreadable too. The second exclusion came out of this proof.

- `GatesProofs`, of the grants: for every inventory, policy, request and number of
  grants. `GInv` is the type, that every grant in the list *and in an open panel*
  was written by hand or agreed to (the panel saves its list later), that what an
  operator sees is derived from a request, and that every grant promised and not
  saved over is covered by one in the list. `_grant_hits` picks the first match of
  a list: that there is one comes from the well-foundedness of < on numbers.
  `NoPeerHoldsMore` needs no invariant: it compares the three decision tables
  case by case, for a peer and for its sponsor, which is the manager or, where the manager is
  interactive and nobody is known to talk to it, an unattended turn.
- `TriggerQueueProofs`: `QInv` says how many attempts each file counts: one in the
  inbox every turn begun, one in processing all but the last, and where two files
  of one delivery exist after a half operation, they agree as recovery expects.
  With the attempts bounded by the type, `NoDeliveryRunsForEver` follows; without
  the relation between the two files it is not inductive. `QueueKeepsItsPromise`
  is the refinement as a theorem, `Spec => ImplementsPromise`, one lemma per action.

- `DeliveryProofs`, of the model request: `FInv` is one predicate per turn, because
  a step of one turn changes the circuit, which every turn may find in any state,
  and its own request alone. Both layers keep a flag for text that was shown
  (`streamed`, `shown`); that the two agree, and that the segment holds only the
  text of the request at work, is what `OneVoice` and `ChainIsTried` need.
- `DeliveryProofs`, of the dispatcher: `DInv` places every published number:
  with the channel, in the send under way, pending, queued, or dropped for a reason, the
  places in this order and a merged message as a stretch of its own stream. The
  three properties speak of the concatenation of what the merged messages stand
  for, which the community modules define by recursion; `FlattenJoins` and
  `FlattenRises` say what it does, by induction on the length, stated with a set
  of numbers (`EveryNumber`) as the library's induction theorem takes an operator.
  `RepeatsOnly` adds `RInv`: a fingerprint that is remembered is of an accepted
  message. It assumes, as the code does, that no text is the absent fingerprint
  (`NilAssumption`).

- `AgentLoopProofs`: for any messages, sessions and sizes of the queues. None of
  the four properties is inductive. That a message is in one place needs to know
  which queue it may be in: `QueuesOK` (each queue holds a message once, of its own
  session and kind), `Apart` (no two queues share one, and none holds a message
  that has a task) and `FatesOK` (placed exactly as long as the fate is open).
  That a pending queue has its turn needs the order of the lock: behind the head of
  a line there are only tasks that wait (`LinesOK`). That `/stop` may take the
  queue away needs that the turn is over by then: a task in a turn that is to be
  cancelled is awaited by the command the consumer executes, and nobody of that
  command's session is in `_active_tasks` (`CancellationOK`). `LoopInv` is their
  conjunction, checked on the instance of `loop` before it was proved. There
  is one lemma per action; the three ways out of a task (a turn that ends, a put
  that finds room, a delivered cancellation) share `Departs`, and what the queues
  do (cut, join, take out) is stated once, for sequences, as TLAPS has no
  induction over them.

- `HistoryProofs`, nothing is lost: `HInv` speaks of the time before an object is
  overtaken, which `KeptUntilArchived` excludes. Until then whoever has the session
  in hand (the cache, the turn, the lock) has what is stored (`InStep`), so that a save
  never takes a message away; every message the cursor has passed is archived
  (`Keeps`); and an archive under way carries all messages between the cursor and
  its end (`Carries`), which a turn that appends meanwhile leaves where they are.
  The last is what makes a cursor that moves later safe. That nobody is overtaken
  means that all who have an object have one, which is a fact about the cardinality
  of a set (`OneInHand`).
- `HistoryProofs`, a history can be sent again: `RInv` needs nothing of the sort, as
  overtaken objects are sound histories too. `Sound` orders the messages: each is
  later than those before it, but for one that closes the one before (the result
  of a call, the note behind a question that was never answered), and bears its
  number. Soundness carries over to one history behind another (`SoundJoin`) if the
  second is later and does not ask behind an open question. So the invariant keeps three
  parts that may follow each other: the messages, the checkpoint and what the turn
  has said, the last two later than the first. While tools run, what was said
  is sound only with a reply behind its call, and `Ready` says so for both replies.
  It follows that a checkpoint never repeats what the history ends with
  (`NoOverlap`): the search for an overlap in `_restore_runtime_checkpoint` finds
  none after any of the turns modelled here, because what puts a turn into the
  history clears its checkpoint before the same save.
- Both assume that a session can be read into an object nobody holds
  (`HistoryConstantsOK`), as Python makes a new one; three are held at most.

Theorems without a run state the type invariants, `LoopInvariant`, `HistoryInvariant`,
`ReplayInvariant`,
`OneVerdictOnRecord`, `DeadLettersAreUnconcluded`, `RunsAreBounded` (which the
promise the queue implements contains), and
`NoHopelessSuspension`: a suspended action was answerable by somebody when it was
suspended.

Only model-checked: the liveness properties (the provers take neither fairness
nor ENABLED). Every invariant and every action property that a passing run checks
is a theorem.

## 6. Not modelled, and why

- An audit log torn within a character, which the restore cannot decode; retention
  that an operator changes while the gateway runs.
- The text of prompts, sanitising, audit rendering: no property is about them.
- Cryptography, Landlock, sockets and file modes: outside the program.
- Channels, the providers' HTTP clients, tools, user interface: I/O without state that two steps
  share. The components with such state that have no module yet are below.

## 7. Plan

Done, in this order: rules, approval path with its promise, latch, scheduler,
loop, grants, triggers with their promise, dispatcher, history, provider
fallback. The order follows the damage a mistake does: an unauthorized command
on a host first, then work that runs twice or not at all, then a message that is
lost.

Next: remote jobs, start, poll and stop against a restart of the executor.
