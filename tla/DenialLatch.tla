----------------------------- MODULE DenialLatch -----------------------------
(***************************************************************************)
(* The denial latch of the gateway (nanoinfra/gates/latch.py), the gate    *)
(* runtime that sets it (gates/runtime.py), the tools that ask it before   *)
(* and after a gated call (agent/tools/server_execution.py, servers.py),   *)
(* the operator who clears it (webui/latch_api.py), the audit log both     *)
(* processes append to (gates/audit.py), and the restore that rebuilds the *)
(* latches from that log after a restart (gates/latch_restore.py).         *)
(*                                                                         *)
(* The executor's decision about a call is ApprovalGate's subject; here it *)
(* is one step that ends in a reply, with the record it leaves.  A session *)
(* may have several calls in flight: the turn's own, those of the peers it *)
(* delegated to, and those of a turn that was stopped.                     *)
(***************************************************************************)
EXTENDS Integers, Sequences, FiniteSets

CONSTANTS
    Call,        \* gated tool calls
    Session,     \* sessions of the gateway
    MaxDay,      \* bound: UTC days that pass
    Retention,   \* gates.audit.retentionDays, 0 for a log that keeps all
    MaxTears,    \* bound: machine failures that tear a line
    MaxLosses    \* bound: lines the gateway fails to append (disk, permissions)

ASSUME BoundsOK == /\ MaxDay \in Nat /\ Retention \in Nat
                   /\ MaxTears \in Nat /\ MaxLosses \in Nat

VARIABLES
    call,      \* call[c]: a tool call, from the latch check to its result
    latched,   \* the keys of _LatchState.entries
    refusals,  \* refusals[p]: _Entry.refusals
    at,        \* at[p]: the day of _Entry.at, when the class was denied
    log,       \* the lines of the audit segments, oldest first
    today,     \* the UTC day the next line belongs to
    tears,
    losses

vars == <<call, latched, refusals, at, log, today, tears, losses>>

\* A latch covers one capability class of one session.
Class == {"mutate.remote", "mutate.inventory"}
Pair == Session \X Class
Remote(s) == <<s, "mutate.remote">>
Inventory(s) == <<s, "mutate.inventory">>

NewCall == [pc |-> "new", session |-> "none", heard |-> TRUE, verdict |-> "none"]

Init ==
    /\ call = [c \in Call |-> NewCall]
    /\ latched = {}
    /\ refusals = [p \in Pair |-> 0]
    /\ at = [p \in Pair |-> 0]
    /\ log = <<>>
    /\ today = 0
    /\ tears = 0
    /\ losses = 0

-----------------------------------------------------------------------------
\* The audit log.

\* A line moves a latch, or it is one of the others, which nobody tells apart.
Line(decision, p) == [day |-> today, decision |-> decision, pair |-> p]

\* AuditStore._append: a line after a torn one joins the stump, so neither can
\* be read; the first line of a day trims the segments that are too old.
Joins(lines) == /\ lines # <<>>
                /\ lines[Len(lines)].decision = "torn"
                /\ lines[Len(lines)].day = today
FirstOfDay(lines) == \A i \in DOMAIN lines : lines[i].day # today
TooOld(day) == Retention > 0 /\ day < today - Retention

\* Mutant: the cutoff day is trimmed with the days before it.
Old_TrimsTheCutoff(l) == Retention > 0 /\ l.day <= today - Retention
Old(l) == TooOld(l.day)
Prune(lines) ==
    LET kept == CHOOSE i \in DOMAIN lines : /\ ~Old(lines[i])
                                            /\ \A j \in 1..i-1 : Old(lines[j])
    IN  IF \E i \in DOMAIN lines : Old(lines[i])
        THEN SubSeq(lines, kept, Len(lines)) ELSE lines

\* A line that says again what the last one said is not kept apart, but for the
\* refusals, which are counted.
Repeats(lines, l) ==
    lines # <<>> /\ lines[Len(lines)] = l /\ l.decision # "refused"
Written(lines, decision, p) ==
    LET l == Line(decision, p)
    IN  IF Joins(lines) THEN [lines EXCEPT ![Len(lines)].decision = "corrupt"]
        ELSE IF FirstOfDay(lines) THEN Prune(Append(lines, l))
        ELSE IF Repeats(lines, l) THEN lines
        ELSE Append(lines, l)

\* _read_records: a bad line is tolerated at the end of its segment alone.
Unreadable(i) == log[i].decision \in {"torn", "corrupt"}
Healthy_NoTolerance == \A i \in DOMAIN log : ~Unreadable(i)
Healthy == \A i \in DOMAIN log :
              Unreadable(i) => \A j \in i+1..Len(log) : log[j].day # log[i].day

\* restore_latches: the latest denied or cleared line of a pair decides, and
\* the refused lines since the latest cleared one are counted.
\* (Mutant: the key has no session.)
Lines_ClassOnly(decision, p) ==
    {i \in DOMAIN log : log[i].decision = decision /\ log[i].pair[2] = p[2]}
Lines(decision, p) ==
    {i \in DOMAIN log : log[i].decision = decision /\ log[i].pair = p}
LatchedOnRecord(p) ==
    \E i \in Lines("denied", p) : \A j \in Lines("cleared", p) : j < i
LastDenied(p) ==
    CHOOSE i \in Lines("denied", p) : \A j \in Lines("denied", p) : j <= i
RefusalsOnRecord(p) ==
    Cardinality({i \in Lines("refused", p) :
                    \A j \in Lines("cleared", p) : j < i})

-----------------------------------------------------------------------------
\* The gateway.

\* A call the executor has answered: the tool reads the reply, if it is there.
Replied(rec, verdict) ==
    [rec EXCEPT !.pc = IF rec.heard THEN "replied" ELSE "done",
                !.heard = TRUE, !.verdict = verdict]
\* A call whose tool is gone.
Deserted(rec) ==
    IF rec.pc = "replied" THEN [rec EXCEPT !.pc = "done"]
    ELSE IF rec.pc \in {"deciding", "waiting"} THEN [rec EXCEPT !.heard = FALSE]
    ELSE rec
Reply(c, verdict) == call' = [call EXCEPT ![c] = Replied(call[c], verdict)]

\* AuditStore._append raises and writes nothing, or _LatchState.emit swallows
\* what it raised: the line is not there.
Fails == losses < MaxLosses /\ losses' = losses + 1 /\ UNCHANGED log
Writes(decision, p) == log' = Written(log, decision, p) /\ UNCHANGED losses
WritesOther == log' = Written(log, "other", "none")
MayLose(decision, p) == Writes(decision, p) \/ Fails

\* DenialLatch.deny: the latch, with a fresh count.
Latch(p) ==
    /\ latched' = latched \cup {p}
    /\ refusals' = [refusals EXCEPT ![p] = 0]
    /\ at' = [at EXCEPT ![p] = today]

\* GateRuntime.refuse_action: the record first, which may raise and then
\* latches nothing; the latch; the latch's own event, a second denied line,
\* which emit may lose.
RefuseAction_LatchFirst(p) ==
    Latch(p) /\ MayLose("denied", p)
RefuseAction(p) ==
    \/ /\ Latch(p)
       /\ LET record == Written(log, "denied", p)
          IN  \/ log' = Written(record, "denied", p) /\ UNCHANGED losses
              \/ losses < MaxLosses /\ losses' = losses + 1 /\ log' = record
    \/ Fails /\ UNCHANGED <<latched, refusals, at>>

\* ExecuteOnServerTool.execute (and ConnectorTool.execute): a latched class is
\* refused and counted, any other call goes to the executor.
Start(c, s) ==
    /\ call[c].pc = "new"
    /\ \/ /\ Remote(s) \in latched
          /\ call' = [call EXCEPT ![c] = [NewCall EXCEPT !.pc = "done",
                            !.session = s, !.verdict = "latched"]]
          /\ refusals' = [refusals EXCEPT ![Remote(s)] = @ + 1]
          /\ MayLose("refused", Remote(s))
       \/ /\ Remote(s) \notin latched
          /\ call' = [call EXCEPT ![c] = [NewCall EXCEPT !.pc = "deciding",
                            !.session = s]]
          /\ UNCHANGED <<refusals, log, losses>>
    /\ UNCHANGED <<latched, at, today, tears>>

\* _gate_inventory_write in agent/tools/servers.py: the policy decides, and
\* the latch is set by a refusal but not asked before.
StartInventory(c, s) ==
    /\ call[c].pc = "new"
    /\ \/ /\ call' = [call EXCEPT ![c] = [NewCall EXCEPT !.pc = "done",
                            !.session = s, !.verdict = "ran"]]
          /\ UNCHANGED <<latched, refusals, at, log, losses>>
       \/ /\ call' = [call EXCEPT ![c] = [NewCall EXCEPT !.pc = "done",
                            !.session = s, !.verdict = "policy"]]
          /\ RefuseAction(Inventory(s))
    /\ UNCHANGED <<today, tears>>

\* The executor decides a call; every refusal it takes is a denied line of the
\* session, terminal or not.
Decide(c) ==
    /\ call[c].pc = "deciding"
    /\ \/ Reply(c, "ran") /\ WritesOther
       \/ \E verdict \in {"refused", "not_terminal"} :
             /\ Reply(c, verdict)
             /\ log' = Written(log, "denied", Remote(call[c].session))
       \/ /\ call' = [call EXCEPT ![c].pc = "waiting"]
          /\ WritesOther
       \/ Reply(c, "error") /\ UNCHANGED log
    /\ UNCHANGED <<latched, refusals, at, today, tears, losses>>

\* The suspended call is answered, or its deadline passes.
Answer(c) ==
    /\ call[c].pc = "waiting"
    /\ \/ \E verdict \in {"ran", "expired"} : Reply(c, verdict) /\ WritesOther
       \/ /\ Reply(c, "refused")
          /\ log' = Written(log, "denied", Remote(call[c].session))
    /\ UNCHANGED <<latched, refusals, at, today, tears, losses>>

\* The tool reads the reply: a terminal refusal latches the class.
Terminal == {"refused", "expired"}
Handle(c) ==
    /\ call[c].pc = "replied"
    /\ call' = [call EXCEPT ![c].pc = "done"]
    /\ IF call[c].verdict \in Terminal
       THEN RefuseAction(Remote(call[c].session))
       ELSE UNCHANGED <<log, latched, refusals, at, losses>>
    /\ UNCHANGED <<today, tears>>

\* LatchController.clear, from the operator's authenticated route.
Clear(p) ==
    /\ p \in latched
    /\ latched' = latched \ {p}
    /\ refusals' = [refusals EXCEPT ![p] = 0]
    /\ at' = [at EXCEPT ![p] = 0]
    /\ MayLose("cleared", p)
    /\ UNCHANGED <<call, today, tears>>

\* The user stops the turn: the tool is cancelled, and its worker thread and
\* the executor go on without it.
Stop(c) ==
    /\ call[c].pc \in {"deciding", "waiting", "replied"} /\ call[c].heard
    /\ call' = [call EXCEPT ![c] = Deserted(call[c])]
    /\ UNCHANGED <<latched, refusals, at, log, today, tears, losses>>

\* new_denial_latch over restore_latches: _seed copies what the log says, and
\* a degraded restore carries nothing to copy.
Restored ==
    /\ latched' = IF Healthy' THEN {p \in Pair : LatchedOnRecord(p)'} ELSE {}
    /\ refusals' = [p \in Pair |-> IF p \in latched' THEN RefusalsOnRecord(p)'
                                                    ELSE 0]
    /\ at' = [p \in Pair |-> IF p \in latched' THEN log'[LastDenied(p)'].day
                                              ELSE 0]

\* The gateway restarts (the model may cause it); the executor goes on.
Restart ==
    /\ call' = [c \in Call |-> Deserted(call[c])]
    /\ UNCHANGED <<log, today, tears, losses>>
    /\ Restored

\* The executor dies: its calls get no answer, and nothing about them is
\* appended any more.
ExecutorDies ==
    /\ call' = [c \in Call |-> IF call[c].pc \in {"deciding", "waiting"}
                               THEN Replied(call[c], "error") ELSE call[c]]
    /\ UNCHANGED <<latched, refusals, at, log, today, tears, losses>>

\* The machine dies in the middle of an append, and both processes restart: a
\* call keeps the verdict it had, and its tool hears nothing.
PowerLoss ==
    /\ tears < MaxTears
    /\ tears' = tears + 1
    /\ log' = IF Joins(log) THEN log
              ELSE Append(log, [day |-> today, decision |-> "torn",
                                pair |-> "none"])
    /\ call' = [c \in Call |-> IF call[c].pc \in {"deciding", "waiting"}
                               THEN Deserted(Replied(call[c], "error"))
                               ELSE Deserted(call[c])]
    /\ UNCHANGED <<today, losses>>
    /\ Restored

NewDay ==
    /\ today < MaxDay
    /\ today' = today + 1
    /\ UNCHANGED <<call, latched, refusals, at, log, tears, losses>>

Next ==
    \/ \E c \in Call :
          \/ \E s \in Session : Start(c, s) \/ StartInventory(c, s)
          \/ Decide(c) \/ Answer(c) \/ Handle(c) \/ Stop(c)
    \/ \E p \in Pair : Clear(p)
    \/ Restart \/ ExecutorDies \/ PowerLoss \/ NewDay

Spec == Init /\ [][Next]_vars

-----------------------------------------------------------------------------
\* Properties.

CallRecord ==
    [pc : {"new", "deciding", "waiting", "replied", "done"},
     session : Session \cup {"none"}, heard : BOOLEAN,
     verdict : {"none", "ran", "refused", "not_terminal", "expired", "error",
                "latched", "policy"}]
Decision == {"denied", "refused", "cleared", "other", "torn", "corrupt"}
LogLine == [day : Nat, decision : Decision, pair : Pair \cup {"none"}]

TypeOK ==
    /\ call \in [Call -> CallRecord]
    /\ latched \subseteq Pair
    /\ refusals \in [Pair -> Nat]
    /\ at \in [Pair -> Nat]
    /\ log \in Seq(LogLine)
    /\ today \in Nat
    /\ tears \in Nat
    /\ losses \in Nat

\* A latch set no longer ago than the log is kept.
Recent(p) == ~TooOld(at[p])

\* Both lines of a refusal can only be gone when one joined a stump and the
\* other was lost.
SomeRecordSurvives == tears = 0 \/ losses = 0

(* What the gateway enforces it could enforce again (runtime.py:208 "a      *)
(* restart does not clear a denial"): whatever was written, torn, joined or *)
(* trimmed, or appended by the other process in between, the log still says *)
(* so of every latch younger than the retention.                            *)
LatchIsOnRecord ==
    SomeRecordSurvives => \A p \in latched : Recent(p) => LatchedOnRecord(p)

LiftsALatch == \E p \in latched : Recent(p) /\ p \notin latched'

(* A restart, which the model can cause, and a power loss lift no such      *)
(* latch (latch.py:411-413), also when a record has joined a stump, as long *)
(* as the log reads as healthy afterwards.                                  *)
RestartKeepsLatches ==
    [][LiftsALatch
          => ~((Restart \/ PowerLoss) /\ SomeRecordSurvives /\ Healthy')]_vars

(* A torn tail costs the tail, not the latches the log holds                *)
(* (latch_restore.py:122-124): a machine that dies in the middle of an      *)
(* append, again and again or onto the stump it left before, leaves a       *)
(* healthy log healthy, unless a record has joined the stump of today.      *)
StumpIsSwallowed ==
    /\ log # <<>>
    /\ log[Len(log)].decision = "corrupt" /\ log[Len(log)].day = today
TearKeepsLatches ==
    [][LiftsALatch
          => ~(PowerLoss /\ SomeRecordSurvives /\ Healthy /\ ~StumpIsSwallowed)]_vars

(* Nobody's latch is somebody else's: a session is latched for a class only *)
(* after a refusal of one of its own calls, across restarts and clears.     *)
RefusedCall(p, verdicts) ==
    \E c \in Call : call[c].session = p[1] /\ call[c].verdict \in verdicts
LatchHasACause ==
    \A p \in latched :
        IF p[2] = "mutate.inventory" THEN RefusedCall(p, {"policy"})
        ELSE RefusedCall(p, Terminal \cup {"not_terminal"})

-----------------------------------------------------------------------------
\* What the code says of itself and does not do.

(* "An unreadable audit log must never read as no latches"                  *)
(* (latch_restore.py:16): a gateway that starts over a log it cannot trust  *)
(* keeps at least the latches it had, of the class that the tools ask it    *)
(* about.                                                                   *)
UnreadableIsNotEmpty ==
    [][(Restart \/ PowerLoss) /\ ~Healthy'
          => \A s \in Session : Remote(s) \in latched => Remote(s) \in latched']_vars

=============================================================================
