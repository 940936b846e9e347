----------------------------- MODULE MCAgentLoop -----------------------------
(***************************************************************************)
(* The agent loop on small instances: a message, the announcement of a     *)
(* subagent, a scheduled turn and the two commands in one session, and a   *)
(* message of another session that competes for the gate; beside it, what  *)
(* the turns of one session leave in its history.  AgentLoop and           *)
(* SessionHistory share no state: a behaviour exercises the part that      *)
(* focus names, and the other one rests in an initial state.               *)
(***************************************************************************)
EXTENDS AgentLoop, SessionHistory

CONSTANTS m1, a1, sub, stop, new, o1, ops, other

VARIABLE focus

Kinds1 == [m \in Msg |-> CASE m = a1 -> "auto" [] m = sub -> "subagent"
                           [] m = stop -> "stop" [] m = new -> "new"
                           [] OTHER -> "chat"]
Sessions1 == [m \in Msg |-> IF m = o1 THEN other ELSE ops]
BothModes == {"inject", "dispatch"}
InjectOnly == {"inject"}

Focused(parts) ==
    /\ focus \in parts
    /\ Init /\ HistoryInit
    /\ focus = "history" => mode = "inject"
FocusedNext ==
    /\ \/ focus = "loop" /\ Next /\ UNCHANGED svars
       \/ focus = "history" /\ HistoryNext /\ UNCHANGED vars
    /\ UNCHANGED focus

FairLoop ==
    Focused({"loop"}) /\ [][FocusedNext]_<<focus, vars, svars>> /\ Fairness
FairBoth ==
    Focused({"loop", "history"}) /\ [][FocusedNext]_<<focus, vars, svars>> /\ Fairness

=============================================================================
