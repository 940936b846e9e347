----------------------------- MODULE MCDelivery -----------------------------
(***************************************************************************)
(* Three ways to an answer on small instances, one beside the other: what a*)
(* trigger owes whoever fired it (TriggerQueue), what the models' wrapper  *)
(* owes a turn (ProviderFallback) and what the dispatcher owes the chats   *)
(* (OutboundDispatch).  They share no state but the room in the outbound   *)
(* queue, which none of them needs; a behaviour exercises the part that    *)
(* focus names, and the others rest in an initial state.                   *)
(***************************************************************************)
EXTENDS TriggerQueue, OutboundDispatch, ProviderFallback

CONSTANTS
    yes, no,                            \* what turns of triggers answer
    web, chat, s1, s2, o1, o2, x, y     \* channels, streams, origins, texts

VARIABLE focus

Streamed(c, kind, s) ==
    [channel |-> c, kind |-> kind, stream |-> s, origin |-> Nil, text |-> Nil]
Plain(c, kind) == Streamed(c, kind, Nil)
Reply(c, kind, o, t) ==
    [channel |-> c, kind |-> kind, stream |-> Nil, origin |-> o, text |-> t]

\* Two turns stream to one chat and one to another, an answer is followed by
\* a repetition, by news and by the same answer to another message, and one channel declines progress.
Messages ==
    {Streamed(web, "delta", s1), Streamed(web, "delta", s2),
     Streamed(chat, "delta", s1), Streamed(web, "end", s1),
     Streamed(web, "close", s1), Plain(web, "progress"), Plain(web, "streamed"),
     Reply(web, "answer", o1, x), Reply(web, "followup", o1, x),
     Reply(web, "followup", o1, y), Reply(web, "followup", o2, x)}

DeliveryInit ==
    /\ focus \in {"triggers", "outbound", "models"}
    /\ Init /\ DispatchInit /\ FallbackInit
    /\ focus # "triggers" => \A t \in Trigger : policy[t] = "always"

DeliveryNext ==
    /\ \/ focus = "triggers" /\ Next /\ UNCHANGED <<dvars, fvars>>
       \/ focus = "outbound" /\ DispatchNext /\ UNCHANGED <<vars, fvars>>
       \/ focus = "models" /\ FallbackNext /\ UNCHANGED <<vars, dvars>>
    /\ UNCHANGED focus

FairDelivery ==
    /\ DeliveryInit /\ [][DeliveryNext]_<<focus, vars, dvars, fvars>>
    /\ WF_vars(focus = "triggers" /\ QueueTask)
    /\ WF_vars(focus = "triggers" /\ Turn)
    /\ WF_dvars(focus = "outbound" /\ Dispatcher)
    /\ WF_fvars(focus = "models" /\ Tick)
    /\ \A t \in Asker : WF_fvars(focus = "models" /\ Proceed(t))
=============================================================================
