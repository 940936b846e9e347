------------------------------ MODULE AgentLoop ------------------------------
(***************************************************************************)
(* The message loop of the gateway (nanoinfra/agent/loop.py) on the        *)
(* bounded inbound queue (nanoinfra/bus/queue.py): one consumer routes     *)
(* each message to a task of its own, to the turn its session is in, or to *)
(* the automation turns that wait for the session to be idle; /stop and    *)
(* /new cancel the tasks of a session and wait for them.                   *)
(*                                                                         *)
(* All tasks share one asyncio thread: a step here is what a task does     *)
(* between two awaits that may really wait.  A message and the task that   *)
(* was created for it have the same name.  What a turn computes, commands  *)
(* that change no task, the outbound queue, unified sessions and the       *)
(* internal continuation of a sustained goal are left out.                 *)
(***************************************************************************)
EXTENDS Integers, Sequences, FiniteSets

CONSTANTS
    Msg,        \* messages; each is published once
    Session,
    KindOf,     \* who sends it, or which command it is
    SessionOf,  \* its effective session key
    Modes,      \* values mid_turn_messages may have
    Cap,        \* size of the inbound queue
    PendingCap, \* size of a pending queue
    Gate,       \* NANOINFRA_MAX_CONCURRENT_REQUESTS
    NoMsg

Kinds == {"chat", "subagent", "auto", "stop", "new"}

ASSUME LoopConstantsOK ==
    /\ KindOf \in [Msg -> Kinds]
    /\ SessionOf \in [Msg -> Session]
    /\ Modes \subseteq {"inject", "dispatch"}
    /\ {Cap, PendingCap, Gate} \subseteq Nat \ {0}
    /\ NoMsg \notin Msg

VARIABLES
    mode,      \* _mid_turn_messages
    inbound,   \* MessageBus.inbound
    pending,   \* _pending_queues: the queue of each session in a turn
    deferred,  \* _deferred_automation_turns
    line,      \* per session, its tasks in the order of the session lock
    active,    \* _active_tasks
    task,      \* where the task of a message is
    left,      \* what a task that is leaving still has to publish
    doomed,    \* tasks whose cancellation was requested and not delivered
    awaits,    \* the tasks a /stop or /new waits for
    consumer,  \* the command run() is executing inline
    waiter,    \* AutomationTurnCoordinator._waiters
    sent,      \* history: messages published or refused
    fate,      \* history: what became of a message
    stopped    \* history: sessions that were sent a /stop or a /new

queues == <<inbound, pending, deferred>>
tasks == <<line, active, task, left, doomed, awaits>>
history == <<sent, fate, stopped>>
vars == <<mode, queues, tasks, consumer, waiter, history>>

Places == {"none", "new", "waiting", "turn", "clearing", "draining", "publishing",
           "ended"}
Fates == {"none", "answered", "injected", "cancelled", "refused", "dropped", "lost"}

Init ==
    /\ mode \in Modes
    /\ inbound = <<>>
    /\ pending = [s \in {} |-> <<>>]
    /\ deferred = [s \in Session |-> <<>>]
    /\ line = [s \in Session |-> <<>>]
    /\ active = {} /\ doomed = {} /\ sent = {} /\ stopped = {}
    /\ task = [m \in Msg |-> "none"]
    /\ left = [m \in Msg |-> <<>>]
    /\ awaits = [m \in Msg |-> {}]
    /\ consumer = NoMsg
    /\ waiter = [m \in Msg |-> "none"]
    /\ fate = [m \in Msg |-> "none"]

-----------------------------------------------------------------------------
Elements(q) == {q[i] : i \in DOMAIN q}
Without(q, m) ==
    LET i == CHOOSE i \in DOMAIN q : q[i] = m
    IN IF m \in Elements(q) THEN SubSeq(q, 1, i - 1) \o SubSeq(q, i + 1, Len(q)) ELSE q
Room == Cap - Len(inbound)

Fated(ms, f) == [m \in Msg |-> IF m \in ms THEN f ELSE fate[m]]

HoldsLock(t) == task[t] \in {"turn", "clearing", "draining", "publishing"}
                /\ t \in Elements(line[SessionOf[t]])
GateIsFree == Cardinality({t \in Msg : HoldsLock(t)}) < Gate

\* The queue of a turn; a /stop may have taken it away and emptied it.
OwnQueue(s) == IF s \in DOMAIN pending THEN pending[s] ELSE <<>>
Closed(s) == [k \in DOMAIN pending \ {s} |-> pending[k]]

\* The end of _dispatch: the task publishes the leftovers of its session, then
\* the next deferred automation turn, and leaves.  The put waits for room.
Leave_NoDeferred(t, queue, takesDeferred) ==
    LET n == IF Len(queue) <= Room THEN Len(queue) ELSE Room
        s == SessionOf[t]
    IN /\ inbound' = inbound \o SubSeq(queue, 1, n)
       /\ left' = [left EXCEPT ![t] = SubSeq(queue, n + 1, Len(queue))]
       /\ task' = [task EXCEPT ![t] = IF n = Len(queue) THEN "ended" ELSE "draining"]
       /\ line' = IF n = Len(queue) \/ task[t] = "waiting"
                  THEN [line EXCEPT ![s] = Without(@, t)] ELSE line
       /\ active' = IF n = Len(queue) THEN active \ {t} ELSE active
       /\ UNCHANGED deferred
Leave_DropsLeftovers(t, queue, takesDeferred) ==
    /\ task' = [task EXCEPT ![t] = "ended"]
    /\ line' = [line EXCEPT ![SessionOf[t]] = Without(@, t)]
    /\ active' = active \ {t}
    /\ UNCHANGED <<inbound, left, deferred>>
Leave(t, queue, takesDeferred) ==
    LET s == SessionOf[t]
        next == IF takesDeferred /\ Len(queue) <= Room /\ deferred[s] # <<>>
                THEN <<Head(deferred[s])>> ELSE <<>>
        out == queue \o next
        n == IF Len(out) <= Room THEN Len(out) ELSE Room
        gone == n = Len(out)
    IN /\ inbound' = inbound \o SubSeq(out, 1, n)
       /\ left' = [left EXCEPT ![t] = SubSeq(out, n + 1, Len(out))]
       /\ deferred' = [deferred EXCEPT ![s] = IF next = <<>> THEN @ ELSE Tail(@)]
       /\ task' = [task EXCEPT ![t] = IF gone THEN "ended"
                                      ELSE IF takesDeferred /\ next = <<>>
                                      THEN "draining" ELSE "publishing"]
       /\ line' = IF gone \/ task[t] = "waiting"
                  THEN [line EXCEPT ![s] = Without(@, t)] ELSE line
       /\ active' = IF gone THEN active \ {t} ELSE active

-----------------------------------------------------------------------------
\* Publishers.

\* A channel waits for room; so does submit, which then waits for the turn.
Publish(m) ==
    /\ m \notin sent /\ KindOf[m] # "subagent" /\ Room > 0
    /\ inbound' = Append(inbound, m)
    /\ sent' = sent \cup {m}
    /\ waiter' = IF KindOf[m] = "auto" THEN [waiter EXCEPT ![m] = "waiting"] ELSE waiter
    /\ UNCHANGED <<mode, pending, deferred, tasks, consumer, fate, stopped>>

\* A finished subagent: publish_inbound_nowait
Announce(m) ==
    /\ m \notin sent /\ KindOf[m] = "subagent"
    /\ sent' = sent \cup {m}
    /\ IF Room > 0 THEN inbound' = Append(inbound, m) /\ UNCHANGED fate
       ELSE fate' = Fated({m}, "refused") /\ UNCHANGED inbound
    /\ UNCHANGED <<mode, pending, deferred, tasks, consumer, waiter, stopped>>

-----------------------------------------------------------------------------
\* The consumer: run().

\* _cancel_active_tasks up to its first await.  A task that cancels itself
\* swallows it.
CancelSession(m) ==
    LET found == {t \in active : SessionOf[t] = SessionOf[m]}
    IN /\ active' = active \ found
       /\ doomed' = doomed \cup (found \ {m})
       /\ awaits' = [awaits EXCEPT ![m] = found \ {m}]
       /\ stopped' = stopped \cup {SessionOf[m]}
       /\ UNCHANGED <<line, left, waiter, sent, fate>>
Awaited(m) == \A t \in awaits[m] : task[t] = "ended"

Dispatched(m) ==
    /\ task' = [task EXCEPT ![m] = "new"]
    /\ line' = [line EXCEPT ![SessionOf[m]] = Append(@, m)]
    /\ active' = active \cup {m}
    /\ UNCHANGED <<pending, deferred, left, doomed, awaits, consumer, waiter, history>>
Inline(m) ==
    /\ CancelSession(m)
    /\ consumer' = m
    /\ UNCHANGED <<pending, deferred, task>>
Deferred(m) ==
    /\ deferred' = [deferred EXCEPT ![SessionOf[m]] = Append(@, m)]
    /\ UNCHANGED <<pending, tasks, consumer, waiter, history>>
Injected(m) ==
    /\ pending' = [pending EXCEPT ![SessionOf[m]] = Append(@, m)]
    /\ UNCHANGED <<deferred, tasks, consumer, waiter, history>>

Consume_InjectsFirst ==
    /\ consumer = NoMsg /\ inbound # <<>>
    /\ inbound' = Tail(inbound)
    /\ LET m == Head(inbound)
           inTurn == SessionOf[m] \in DOMAIN pending
       IN IF KindOf[m] = "stop" \/ (KindOf[m] = "new" /\ inTurn) THEN Inline(m)
          ELSE IF inTurn /\ mode = "inject" /\ Len(pending[SessionOf[m]]) < PendingCap
          THEN Injected(m)
          ELSE IF KindOf[m] = "auto" /\ inTurn THEN Deferred(m)
          ELSE Dispatched(m)
    /\ UNCHANGED mode
Consume ==
    /\ consumer = NoMsg /\ inbound # <<>>
    /\ inbound' = Tail(inbound)
    /\ LET m == Head(inbound)
           inTurn == SessionOf[m] \in DOMAIN pending
       IN IF KindOf[m] = "stop" \/ (KindOf[m] = "new" /\ inTurn) THEN Inline(m)
          ELSE IF KindOf[m] = "auto" /\ inTurn THEN Deferred(m)
          ELSE IF inTurn /\ mode = "inject" /\ Len(pending[SessionOf[m]]) < PendingCap
          THEN Injected(m)
          ELSE Dispatched(m)
    /\ UNCHANGED mode

\* cmd_stop and cmd_new after the last awaited task; /stop also empties a
\* pending queue that is still there.
CommandEnds ==
    /\ consumer # NoMsg /\ Awaited(consumer)
    /\ LET s == SessionOf[consumer]
           dropped == IF KindOf[consumer] = "stop" /\ s \in DOMAIN pending
                      THEN Elements(pending[s]) ELSE {}
       IN /\ fate' = [Fated(dropped, "dropped") EXCEPT ![consumer] = "answered"]
          /\ pending' = IF KindOf[consumer] = "stop" THEN Closed(s) ELSE pending
    /\ consumer' = NoMsg
    /\ UNCHANGED <<mode, inbound, deferred, tasks, waiter, sent, stopped>>

-----------------------------------------------------------------------------
\* The tasks: _dispatch.

Start_OpensTheQueue(t) ==
    /\ task[t] = "new" /\ t \notin doomed
    /\ task' = [task EXCEPT ![t] = "waiting"]
    /\ pending' = [s \in DOMAIN pending \cup {SessionOf[t]} |->
                      IF s = SessionOf[t] THEN <<>> ELSE pending[s]]
    /\ UNCHANGED <<mode, inbound, deferred, line, active, left, doomed, awaits,
                   consumer, waiter, history>>
Start(t) ==
    /\ task[t] = "new" /\ t \notin doomed
    /\ task' = [task EXCEPT ![t] = "waiting"]
    /\ UNCHANGED <<mode, queues, line, active, left, doomed, awaits, consumer, waiter,
                   history>>

\* The task has the lock of the session and the gate, and opens the queue.
BeginTurn(t) ==
    /\ task[t] = "waiting" /\ t \notin doomed
    /\ t = Head(line[SessionOf[t]]) /\ GateIsFree
    /\ task' = [task EXCEPT ![t] = "turn"]
    /\ pending' = [s \in DOMAIN pending \cup {SessionOf[t]} |->
                      IF s = SessionOf[t] THEN <<>> ELSE pending[s]]
    /\ UNCHANGED <<mode, inbound, deferred, line, active, left, doomed, awaits,
                   consumer, waiter, history>>

\* _drain_pending; a command turn asks the model nothing.
Inject(t) ==
    LET s == SessionOf[t] IN
    /\ task[t] = "turn" /\ t \notin doomed /\ KindOf[t] # "new"
    /\ s \in DOMAIN pending /\ pending[s] # <<>>
    /\ fate' = Fated({Head(pending[s])}, "injected")
    /\ pending' = [pending EXCEPT ![s] = Tail(@)]
    /\ UNCHANGED <<mode, inbound, deferred, tasks, consumer, waiter, sent, stopped>>

\* cmd_new inside a turn of its own
Clear(t) ==
    /\ task[t] = "turn" /\ t \notin doomed /\ KindOf[t] = "new"
    /\ CancelSession(t)
    /\ task' = [task EXCEPT ![t] = "clearing"]
    /\ UNCHANGED <<mode, queues, consumer>>

EndTurn_FailureForgetsTheCaller(t) ==
    /\ t \notin doomed
    /\ \/ task[t] = "turn" /\ KindOf[t] # "new"
       \/ task[t] = "clearing" /\ Awaited(t)
    /\ Leave(t, OwnQueue(SessionOf[t]), TRUE)
    /\ pending' = Closed(SessionOf[t])
    /\ fate' = Fated({t}, "answered")
    /\ \/ waiter' = IF KindOf[t] = "auto" THEN [waiter EXCEPT ![t] = "done"] ELSE waiter
       \/ UNCHANGED waiter
    /\ UNCHANGED <<mode, doomed, awaits, consumer, sent, stopped>>
\* The turn replies or fails: complete() resolves the future of submit in both
\* cases, and the finally publishes what the turn did not take.
EndTurn(t) ==
    /\ t \notin doomed
    /\ \/ task[t] = "turn" /\ KindOf[t] # "new"
       \/ task[t] = "clearing" /\ Awaited(t)
    /\ Leave(t, OwnQueue(SessionOf[t]), TRUE)
    /\ pending' = Closed(SessionOf[t])
    /\ fate' = Fated({t}, "answered")
    /\ waiter' = IF KindOf[t] = "auto" THEN [waiter EXCEPT ![t] = "done"] ELSE waiter
    /\ UNCHANGED <<mode, doomed, awaits, consumer, sent, stopped>>

\* A put that waited finds room.
Resume(t) ==
    /\ task[t] \in {"draining", "publishing"} /\ t \notin doomed /\ Room > 0
    /\ Leave(t, left[t], task[t] = "draining")
    /\ UNCHANGED <<mode, pending, doomed, awaits, consumer, waiter, history>>

\* The cancellation is delivered: before the first step the body never runs,
\* before the lock only the outer finally does, in the turn all of it, and a
\* put that is waiting gives up with what it still had.
Cancelled(t) ==
    /\ t \in doomed
    /\ doomed' = doomed \ {t}
    /\ CASE task[t] = "new" ->
              /\ task' = [task EXCEPT ![t] = "ended"]
              /\ line' = [line EXCEPT ![SessionOf[t]] = Without(@, t)]
              /\ fate' = Fated({t}, "cancelled")
              /\ UNCHANGED <<queues, active, left, waiter>>
         [] task[t] = "waiting" ->
              /\ Leave(t, <<>>, TRUE)
              /\ fate' = Fated({t}, "cancelled")
              /\ UNCHANGED <<pending, waiter>>
         [] task[t] = "turn" ->
              /\ Leave(t, OwnQueue(SessionOf[t]), TRUE)
              /\ pending' = Closed(SessionOf[t])
              /\ fate' = Fated({t}, "cancelled")
              /\ waiter' = IF KindOf[t] = "auto" THEN [waiter EXCEPT ![t] = "done"]
                           ELSE waiter
         [] OTHER ->
              /\ task' = [task EXCEPT ![t] = "ended"]
              /\ line' = [line EXCEPT ![SessionOf[t]] = Without(@, t)]
              /\ left' = [left EXCEPT ![t] = <<>>]
              /\ fate' = Fated(Elements(left[t]), "lost")
              /\ UNCHANGED <<queues, active, waiter>>
    /\ UNCHANGED <<mode, awaits, consumer, sent, stopped>>

TaskStep(t) == Start(t) \/ BeginTurn(t) \/ Clear(t) \/ EndTurn(t) \/ Resume(t)
               \/ Cancelled(t)

Next ==
    \/ \E m \in Msg : Publish(m) \/ Announce(m) \/ Inject(m) \/ TaskStep(m)
    \/ Consume \/ CommandEnds

Spec == Init /\ [][Next]_vars

\* The event loop runs every task that can go on, and a turn ends (its
\* iterations and its tools have limits); nobody has to publish.
Fairness ==
    /\ WF_vars(Consume) /\ WF_vars(CommandEnds)
    /\ \A t \in Msg : WF_vars(TaskStep(t))
FairSpec == Spec /\ Fairness

-----------------------------------------------------------------------------
\* Properties.

TypeOK ==
    /\ mode \in Modes
    /\ inbound \in Seq(Msg) /\ Len(inbound) <= Cap
    /\ DOMAIN pending \subseteq Session
    /\ pending \in [DOMAIN pending -> Seq(Msg)]
    /\ \A s \in DOMAIN pending : Len(pending[s]) <= PendingCap
    /\ deferred \in [Session -> Seq(Msg)]
    /\ line \in [Session -> Seq(Msg)]
    /\ active \subseteq Msg /\ doomed \subseteq Msg
    /\ sent \subseteq Msg /\ stopped \subseteq Session
    /\ task \in [Msg -> Places]
    /\ left \in [Msg -> Seq(Msg)]
    /\ awaits \in [Msg -> SUBSET Msg]
    /\ consumer \in Msg \cup {NoMsg}
    /\ waiter \in [Msg -> {"none", "waiting", "done"}]
    /\ fate \in [Msg -> Fates]

(* No message is silently lost and none is handled twice (loop.py:1833-     *)
(* 1836): until its fate is decided a published message is in exactly one   *)
(* queue or in the hands of exactly one task, through injections, overflow, *)
(* deferrals, leftovers and cancellations; afterwards it is nowhere.        *)
OnceAtMost(q) == \A i, j \in DOMAIN q : q[i] = q[j] => i = j
OwnPlaces(m) ==
    {p \in {"inbound", "deferred", "pending", "held"} :
        CASE p = "inbound" -> m \in Elements(inbound)
          [] p = "deferred" -> m \in Elements(deferred[SessionOf[m]])
          [] p = "pending" -> /\ SessionOf[m] \in DOMAIN pending
                              /\ m \in Elements(pending[SessionOf[m]])
          [] OTHER -> m = consumer \/ task[m] \in {"new", "waiting", "turn", "clearing"}}
PlacesOf(m) ==
    LET leaving == {t \in Msg : m \in Elements(left[t])}
    IN {<<p>> : p \in OwnPlaces(m)} \cup {<<"left", t>> : t \in leaving}
EachMessageIsInOnePlace ==
    /\ OnceAtMost(inbound)
    /\ \A s \in Session : OnceAtMost(deferred[s])
    /\ \A s \in DOMAIN pending : OnceAtMost(pending[s])
    /\ \A t \in Msg : OnceAtMost(left[t])
    /\ \A m \in sent : IF fate[m] = "none"
                        THEN \E p \in PlacesOf(m) : PlacesOf(m) = {p}
                        ELSE PlacesOf(m) = {}

(* Only the task that owns the session lock has a pending queue published   *)
(* (loop.py:1764-1765), and it has one as long as its turn runs: a message  *)
(* that is injected always has a turn that will take it or give it back.    *)
(* A /new is cleared while it runs, so a /stop takes its queue away.        *)
PendingQueueHasItsTurn ==
    \A s \in Session :
        LET owner(places) == line[s] # <<>> /\ task[Head(line[s])] \in places IN
        /\ s \in DOMAIN pending => owner({"turn", "clearing"})
        /\ owner({"turn"}) => s \in DOMAIN pending

(* An automation turn is never mixed into a live one (automation_turns.py   *)
(* 87): the schedule's message is answered or cancelled as a turn of its    *)
(* own, whatever the session is doing when it arrives or comes back.        *)
AutomationIsNotInjected ==
    \A m \in Msg : KindOf[m] = "auto" =>
        /\ fate[m] # "injected"
        /\ \A s \in DOMAIN pending : m \notin Elements(pending[s])

(* A deferred automation turn has somebody who will publish it: a task of   *)
(* its session that is still to leave, or an automation turn on its way     *)
(* that will publish the next one in its turn.  A session that was sent a   *)
(* /stop is excluded: a task cancelled before its first step publishes      *)
(* nothing.                                                                 *)
OnItsWay == Elements(inbound) \cup UNION {Elements(left[t]) : t \in Msg}
DeferredTurnIsPublished ==
    \A s \in Session \ stopped : deferred[s] # <<>> =>
        \/ \E t \in Elements(line[s]) : task[t] # "publishing"
        \/ \E m \in OnItsWay : KindOf[m] = "auto" /\ SessionOf[m] = s

(* The gateway catches up: every message of a session nobody stops is       *)
(* handled, and the caller of submit gets its answer; no full queue,        *)
(* deferral, overflow or busy gate leaves one behind.  The gateway that     *)
(* waits for itself is the exception.                                       *)
Wedged ==
    /\ consumer # NoMsg /\ Room = 0
    /\ \E t \in awaits[consumer] : /\ task[t] \in {"draining", "publishing"}
                                   /\ t \notin doomed
Handled(m) == fate[m] # "none" /\ waiter[m] # "waiting"
CatchesUp == []<>(Wedged \/ \A m \in sent : Handled(m) \/ SessionOf[m] \in stopped)

-----------------------------------------------------------------------------
\* What the code says of itself and does not do.

(* Bounding the queues must not deadlock the agent (tests/bus/              *)
(* test_bounded_queues.py:1): a command that the consumer executes inline   *)
(* comes to an end.                                                         *)
InlineCommandEnds == consumer # NoMsg ~> consumer = NoMsg

=============================================================================
