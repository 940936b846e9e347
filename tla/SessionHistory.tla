--------------------------- MODULE SessionHistory ---------------------------
(***************************************************************************)
(* The history of one conversation: the Session objects the gateway holds, *)
(* the file behind them (nanoinfra/session/manager.py), the turn that      *)
(* writes to it with its checkpoint (nanoinfra/agent/loop.py), and the     *)
(* consolidation that archives its beginning (nanoinfra/agent/memory.py).  *)
(*                                                                         *)
(* Whoever works on a session holds an object.  The cache gives everybody  *)
(* the same one, until somebody invalidates it; a save writes the object   *)
(* that saves, whole, and puts it in the cache.  A step is what a task     *)
(* does between two awaits.  A message is a number and a role; a call is   *)
(* all tool calls of one iteration.  Left out: histories of more than      *)
(* FILE_MAX_MESSAGES messages, provider state, read-only turns, subagents, *)
(* other commands, and the order in which waiters get the lock.            *)
(***************************************************************************)
EXTENDS Integers, Sequences, FiniteSets

CONSTANTS
    Obj, NoObj,  \* Session objects
    Window,      \* MIN_COMPACTED_REPLAY_MESSAGES
    MaxRounds,   \* _MAX_CONSOLIDATION_ROUNDS
    MaxWritten,  \* bound: messages
    MaxDowns,    \* bound: crashes
    MaxCleared   \* bound: /new and deletions

ASSUME HistoryConstantsOK ==
    /\ NoObj \notin Obj
    /\ {Window, MaxRounds, MaxWritten, MaxDowns, MaxCleared} \subseteq Nat
    \* A session can always be read into an object nobody holds.
    /\ \A a, b, c \in Obj \cup {NoObj} : Obj \ {a, b, c} # {}

VARIABLES
    object,    \* what each object holds
    cached,    \* SessionManager._cache
    file,      \* the stored session; an empty one is none
    turn,      \* the turn that has the session lock
    lock,      \* who holds the consolidation lock, awaiting an archive
    queued,    \* background tasks that wait for that lock
    archived,  \* messages written to history.jsonl
    snapshot,  \* messages a /new left to a background archive
    written, downs, cleared,
    owed,      \* history: messages the file held since the last /new
    overtaken  \* history: an object was used beside another or cleared in use

svars == <<object, cached, file, turn, lock, queued, archived, snapshot, written,
           downs, cleared, owed, overtaken>>

Empty == [messages |-> <<>>, cursor |-> 0, checkpoint |-> <<>>,
          pendingUser |-> FALSE, summary |-> FALSE]
NoTurn == [pc |-> "idle", obj |-> NoObj, said |-> <<>>]
Unlocked == [who |-> "nobody", obj |-> NoObj, end |-> 0, chunk |-> {},
             round |-> 0, summary |-> FALSE]

HistoryInit ==
    /\ object = [o \in Obj |-> Empty]
    /\ cached = NoObj
    /\ file = Empty
    /\ turn = NoTurn
    /\ lock = Unlocked
    /\ queued = {} /\ archived = {} /\ snapshot = {} /\ owed = {}
    /\ written = 0 /\ downs = 0 /\ cleared = 0
    /\ overtaken = FALSE

-----------------------------------------------------------------------------
\* Sessions.

Message(role) == <<written + 1, role>>
Fits(n) == written + n <= MaxWritten
In(messages) == {messages[i] : i \in DOMAIN messages}
Unarchived(s) == {s.messages[i] : i \in s.cursor + 1 .. Len(s.messages)}

\* A session that is read back: an offset out of range is reset.
Loaded == IF file.cursor <= Len(file.messages) THEN file
          ELSE [file EXCEPT !.cursor = 0]

\* get_or_create
Spare == CHOOSE o \in Obj : o \notin {cached, turn.obj, lock.obj}
Got == IF cached # NoObj THEN cached ELSE Spare
Known == IF cached # NoObj THEN object ELSE [object EXCEPT ![Spare] = Loaded]

\* Objects nobody holds any more are forgotten.
Held == {cached', turn'.obj, lock'.obj} \ {NoObj}
Objects(os) == object' = [o \in Obj |-> IF o \in Held THEN os[o] ELSE Empty]
Watched == overtaken' = (overtaken \/ Cardinality(Held) > 1)

\* save: the object that saves is the one in the cache.
Saved(os, o) ==
    /\ file' = os[o]
    /\ cached' = o
    /\ Objects(os)
    /\ owed' = owed \cup In(os[o].messages)
Untouched(os) == Objects(os) /\ UNCHANGED <<file, owed>>

\* _restore_runtime_checkpoint: what the history already ends with is not
\* written again.
Overlap(messages, restored) ==
    LET ks == {k \in 0 .. Len(restored) :
                    /\ k <= Len(messages)
                    /\ SubSeq(messages, Len(messages) - k + 1, Len(messages))
                       = SubSeq(restored, 1, k)}
    IN CHOOSE k \in ks : \A j \in ks : j <= k
Restored_LeavesCallsOpen(s) ==
    LET done == SelectSeq(s.checkpoint, LAMBDA m : m[2] # "interrupted") IN
    IF s.checkpoint = <<>> THEN s
    ELSE [s EXCEPT !.messages = @ \o done, !.checkpoint = <<>>, !.pendingUser = FALSE]
Restored(s) ==
    IF s.checkpoint = <<>> THEN s
    ELSE [s EXCEPT !.messages = @ \o SubSeq(s.checkpoint,
                       Overlap(s.messages, s.checkpoint) + 1, Len(s.checkpoint)),
                   !.checkpoint = <<>>, !.pendingUser = FALSE]

\* _restore_pending_user_turn
Concluded(s) ==
    LET n == Len(s.messages)
        open == n > 0 /\ s.messages[n][2] \in {"user", "more"}
    IN IF ~s.pendingUser THEN s
       ELSE [s EXCEPT !.pendingUser = FALSE,
                      !.messages = IF open THEN Append(@, <<s.messages[n][1], "sorry">>)
                                   ELSE @]

-----------------------------------------------------------------------------
\* The turn.

\* _restore_turn, for a chat message or a /compact that has enough to archive.
StartTurn(kind) ==
    /\ turn.pc = "idle" /\ Fits(1)
    /\ UNCHANGED <<lock, queued, archived, snapshot, written, downs, cleared>>
    /\ LET before == Known[Got]
           s == Concluded(Restored(before))
           os == [Known EXCEPT ![Got] = s]
       IN /\ kind = "compact" => Cardinality(Unarchived(s)) > Window /\ Fits(2)
          /\ turn' = [NoTurn EXCEPT !.pc = kind, !.obj = Got]
          /\ IF s = before THEN cached' = Got /\ Untouched(os) ELSE Saved(os, Got)
    /\ Watched

\* What the turn writes into the object it holds.
Writes(s, pc, said, n) ==
    /\ turn' = IF pc = "idle" THEN NoTurn ELSE [turn EXCEPT !.pc = pc, !.said = said]
    /\ UNCHANGED <<lock, archived, snapshot, downs, cleared>>
    /\ Saved([object EXCEPT ![turn.obj] = s], turn.obj)
    /\ Watched
    /\ written' = written + n

\* _build_turn, after the consolidation or without one.
BuildTurn ==
    /\ Fits(1)
    /\ turn.pc = "consolidated" \/ (turn.pc = "chat" /\ lock.who = "nobody")
    /\ Writes([object[turn.obj] EXCEPT !.messages = Append(@, Message("user")),
                                       !.pendingUser = TRUE], "model", <<>>, 1)
    /\ UNCHANGED queued

\* The runner emits a checkpoint of its iteration at each step, and takes in
\* messages that arrived meanwhile after the tools and after an answer.
Checkpoint(said) == [object[turn.obj] EXCEPT !.checkpoint = said]
CallsTools ==
    /\ turn.pc = "model" /\ Fits(1)
    /\ LET call == Message("call") IN
       Writes(Checkpoint(<<call, <<call[1], "interrupted">>>>), "tools",
              Append(turn.said, call), 1)
    /\ UNCHANGED queued
ToolsEnd ==
    /\ turn.pc = "tools"
    /\ LET call == turn.said[Len(turn.said)]
           result == <<call[1], "result">>
           said == Append(turn.said, result)
       IN \/ Writes(Checkpoint(<<call, result>>), "model", said, 0)
          \/ /\ Fits(1)
             /\ Writes(Checkpoint(<<call, result>>), "model",
                       Append(said, Message("more")), 1)
    /\ UNCHANGED queued
Answers ==
    /\ turn.pc = "model" /\ Fits(1)
    /\ LET answer == Message("answer") IN
       \/ Writes(Checkpoint(<<answer>>), "final", Append(turn.said, answer), 1)
       \/ /\ Fits(2)
          /\ Writes(Checkpoint(<<answer>>), "model",
                    turn.said \o <<answer, <<written + 2, "more">>>>, 2)
    /\ UNCHANGED queued

\* _persist_turn: the whole turn, and a consolidation in the background.
PersistTurn ==
    /\ turn.pc = "final"
    /\ Writes([object[turn.obj] EXCEPT !.messages = @ \o turn.said,
                   !.checkpoint = <<>>, !.pendingUser = FALSE], "idle", <<>>, 0)
    /\ queued' = queued \cup {"background"}

\* The turn raises: the next one restores what it left.
FailTurn ==
    /\ turn.pc \in {"model", "tools"}
    /\ turn' = NoTurn
    /\ UNCHANGED <<cached, lock, queued, archived, snapshot, written, downs, cleared>>
    /\ Untouched(object) /\ Watched

\* The turn is cancelled by /stop, or by a /new that goes on after it; an
\* archive it was waiting for is given up.
CancelTurn(byNew) ==
    /\ turn.pc \notin {"idle", "new"}
    /\ turn' = [NoTurn EXCEPT !.pc = IF byNew THEN "new" ELSE "idle"]
    /\ lock' = IF lock.who \in {"turn", "compact"} THEN Unlocked ELSE lock
    /\ UNCHANGED <<queued, archived, snapshot, written, downs, cleared>>
    /\ LET s == Known[Got] IN
       IF s.checkpoint = <<>> THEN cached' = Got /\ Untouched(Known)
       ELSE Saved([Known EXCEPT ![Got] = Restored(s)], Got)
    /\ Watched

-----------------------------------------------------------------------------
\* /new and deletion.

\* cmd_new, in a turn of its own or after the turn it cancelled.
New ==
    /\ turn.pc \in {"idle", "new"} /\ cleared < MaxCleared
    /\ cleared' = cleared + 1
    /\ UNCHANGED <<lock, queued, archived, written, downs>>
    /\ cached' = NoObj /\ turn' = NoTurn
    /\ LET s == IF turn.pc = "new" THEN Known[Got] ELSE Concluded(Restored(Known[Got]))
           blank == [s EXCEPT !.messages = <<>>, !.cursor = 0, !.summary = FALSE]
       IN /\ file' = blank
          /\ snapshot' = snapshot \cup Unarchived(s)
          /\ Objects([Known EXCEPT ![Got] = blank])
    /\ owed' = {}
    /\ overtaken' = (overtaken \/ lock.who # "nobody")

ArchiveSnapshot ==
    /\ snapshot # {}
    /\ archived' = archived \cup snapshot
    /\ snapshot' = {}
    /\ UNCHANGED <<object, cached, file, turn, lock, queued, written, downs, cleared,
                   owed, overtaken>>

\* delete_session, from the web UI; nobody is told.
Delete ==
    /\ file # Empty /\ cleared < MaxCleared
    /\ cleared' = cleared + 1
    /\ file' = Empty /\ cached' = NoObj
    /\ UNCHANGED <<turn, lock, queued, archived, snapshot, written, downs>>
    /\ Objects(object)
    /\ owed' = {}
    /\ overtaken' = (overtaken \/ turn.obj # NoObj \/ lock.who # "nobody")

Crash ==
    /\ downs < MaxDowns
    /\ downs' = downs + 1
    /\ object' = [o \in Obj |-> Empty]
    /\ cached' = NoObj /\ turn' = NoTurn /\ lock' = Unlocked
    /\ queued' = {} /\ snapshot' = {}
    /\ UNCHANGED <<file, archived, written, cleared, owed, overtaken>>

-----------------------------------------------------------------------------
\* Consolidation: maybe_consolidate_by_tokens, of the turn or in background.

Waits(who) == (who = "turn" /\ turn.pc = "chat") \/ who \in queued

\* A round archives up to a message of the user.
Boundaries(s) == {i \in s.cursor + 1 .. Len(s.messages) - 1 :
                     s.messages[i + 1][2] \in {"user", "more"}}
Round(who, o, s, end, round, summary) ==
    [who |-> who, obj |-> o, end |-> end, round |-> round, summary |-> summary,
     chunk |-> {s.messages[i] : i \in s.cursor + 1 .. end}]

BeginRound(who) ==
    /\ lock.who = "nobody" /\ Waits(who)
    /\ \E end \in Boundaries(Known[Got]) :
          lock' = Round(who, Got, Known[Got], end, 1, FALSE)
    /\ cached' = Got /\ queued' = queued \ {who}
    /\ UNCHANGED <<turn, archived, snapshot, written, downs, cleared>>
    /\ Untouched(Known) /\ Watched

\* The prompt fits, or there is no boundary.
SkipRound ==
    /\ lock.who = "nobody" /\ "background" \in queued
    /\ cached' = Got /\ queued' = queued \ {"background"}
    /\ UNCHANGED <<turn, lock, archived, snapshot, written, downs, cleared>>
    /\ Untouched(Known) /\ Watched

\* The archive returns a summary, or has dumped the messages as they are; the
\* cursor passes them either way.  Another round may follow a summary.
EndRound(ok) ==
    /\ lock.who \in {"turn", "background"}
    /\ archived' = archived \cup lock.chunk
    /\ UNCHANGED <<queued, snapshot, written, downs, cleared>>
    /\ LET s == [object[lock.obj] EXCEPT !.cursor = lock.end]
           done == [s EXCEPT !.summary = @ \/ ok \/ lock.summary]
       IN \/ /\ ok /\ lock.round < MaxRounds
             /\ \E end \in Boundaries(s) :
                   lock' = Round(lock.who, lock.obj, s, end, lock.round + 1, TRUE)
             /\ turn' = turn
             /\ Saved([object EXCEPT ![lock.obj] = s], lock.obj)
          \/ /\ lock' = Unlocked
             /\ turn' = IF lock.who = "turn" THEN [turn EXCEPT !.pc = "consolidated"]
                        ELSE turn
             /\ Saved([object EXCEPT ![lock.obj] = done], lock.obj)
    /\ Watched

-----------------------------------------------------------------------------
\* compact_idle_session, of AutoCompact or of /compact.

\* check_expired skips a session with a turn; its task may wait for the lock.
ScheduleIdle ==
    /\ turn.pc = "idle" /\ "idle" \notin queued /\ lock.who # "idle"
    /\ file # Empty /\ Unarchived(Known[Got]) # {}
    /\ queued' = queued \cup {"idle"}
    /\ cached' = Got
    /\ UNCHANGED <<turn, lock, archived, snapshot, written, downs, cleared>>
    /\ Untouched(Known) /\ Watched

\* The session is invalidated and read again.
BeginCompaction(who) ==
    /\ lock.who = "nobody"
    /\ IF who = "compact" THEN turn.pc = "compact" ELSE who \in queued
    /\ Unarchived(Loaded) # {}
    /\ lock' = Round(who, Spare, Loaded, Len(Loaded.messages), 1, FALSE)
    /\ cached' = Spare /\ queued' = queued \ {who}
    /\ UNCHANGED <<turn, archived, snapshot, written, downs, cleared>>
    /\ Untouched([object EXCEPT ![Spare] = Loaded]) /\ Watched
SkipCompaction ==
    /\ lock.who = "nobody" /\ "idle" \in queued
    /\ Unarchived(Loaded) = {}
    /\ cached' = Spare /\ queued' = queued \ {"idle"}
    /\ UNCHANGED <<turn, lock, archived, snapshot, written, downs, cleared>>
    /\ Untouched([object EXCEPT ![Spare] = Loaded]) /\ Watched

\* Only the captured batch is passed.
Compacted_PassesWhatCameLater(s, ok) ==
    [s EXCEPT !.cursor = Len(s.messages), !.summary = @ \/ ok]
Compacted(s, ok) == [s EXCEPT !.cursor = lock.end, !.summary = @ \/ ok]

EndIdle(ok) ==
    /\ lock.who = "idle"
    /\ archived' = archived \cup lock.chunk
    /\ lock' = Unlocked
    /\ UNCHANGED <<turn, queued, snapshot, written, downs, cleared>>
    /\ Saved([object EXCEPT ![lock.obj] = Compacted(@, ok)], lock.obj)
    /\ Watched

\* cmd_compact replies, and _dispatch_command persists command and reply with
\* the object the turn has held since before the compaction.
EndCompact(ok) ==
    /\ lock.who = "compact"
    /\ archived' = archived \cup lock.chunk
    /\ lock' = Unlocked /\ turn' = NoTurn
    /\ UNCHANGED <<queued, snapshot, downs, cleared>>
    /\ LET s == [object[turn.obj] EXCEPT !.pendingUser = FALSE,
                    !.messages = @ \o <<Message("user"), <<written + 2, "answer">>>>]
       IN Saved([object EXCEPT ![lock.obj] = Compacted(@, ok), ![turn.obj] = s],
                turn.obj)
    /\ Watched
    /\ written' = written + 2

-----------------------------------------------------------------------------
HistoryNext ==
    \/ StartTurn("chat") \/ StartTurn("compact") \/ BuildTurn \/ CallsTools
    \/ ToolsEnd \/ Answers \/ PersistTurn \/ FailTurn
    \/ New \/ ArchiveSnapshot \/ Delete \/ Crash
    \/ SkipRound \/ ScheduleIdle \/ SkipCompaction
    \/ BeginRound("turn") \/ BeginRound("background")
    \/ BeginCompaction("idle") \/ BeginCompaction("compact")
    \/ \E b \in BOOLEAN : CancelTurn(b) \/ EndRound(b) \/ EndIdle(b) \/ EndCompact(b)

HistorySpec == HistoryInit /\ [][HistoryNext]_svars

-----------------------------------------------------------------------------
\* Properties.

(* A history can be sent to a provider again whatever ended its turns:      *)
(* every call is followed by its result or by the note that it was          *)
(* interrupted, no result stands alone, a question that was never answered  *)
(* is closed before the next one, and nothing is there twice                *)
(* (loop.py:2694-2700).                                                     *)
Opens(m) == m[2] = "user"
HistoryIsReplayable ==
    LET h == file.messages
        at(i) == IF i \in DOMAIN h THEN h[i] ELSE <<0, "none">>
    IN /\ \A i \in DOMAIN h :
             /\ h[i][2] = "call" <=> /\ at(i + 1)[1] = h[i][1]
                                     /\ at(i + 1)[2] \in {"result", "interrupted"}
             /\ ~(Opens(h[i]) /\ Opens(at(i + 1)))
       /\ Cardinality(In(h)) = Len(h)

(* Nothing the cursor passes is unwritten (memory.py:1532-1534): a message  *)
(* the file has held is in history.jsonl or will still be replayed, however *)
(* turns, stops, failures and crashes fall between consolidations.  Two     *)
(* objects of one session, and one that is cleared or deleted while a task  *)
(* holds it, are excluded.                                                  *)
KeptUntilArchived ==
    overtaken \/ owed \subseteq archived \cup Unarchived(file)

-----------------------------------------------------------------------------
\* What the code says of itself and does not do.

(* A /stop loses no tool results and assistant messages accumulated before  *)
(* it (loop.py:1796-1798): what the turn has said is in the history.        *)
StopKeepsWhatTheTurnSaid ==
    [][CancelTurn(FALSE) =>
          {m \in In(turn.said) : m[2] # "more"} \subseteq In(file'.messages)]_svars

(* The summary of a /compact reaches the prompt on the next turn            *)
(* (builtin.py:1157): the session the next turn gets has it.                *)
SummaryReachesNextTurn ==
    [][EndCompact(TRUE) => object'[cached'].summary]_svars

=============================================================================
