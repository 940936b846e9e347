-------------------------- MODULE OutboundDispatch --------------------------
(***************************************************************************)
(* The outbound half of the message bus and its one consumer, the          *)
(* dispatcher of nanoinfra/channels/manager.py.                            *)
(*                                                                         *)
(* A message stands for everything the dispatcher tells apart: the channel *)
(* it goes to (one chat per channel), its kind, the stream it belongs to,  *)
(* the source message it answers, and its text.  Its number is its place   *)
(* in the order of publication; a merged message carries the numbers of    *)
(* all it was merged from, in order.                                       *)
(***************************************************************************)
EXTENDS Integers, SequencesExt, TLC

CONSTANTS
    Channel,        \* names the gateway has configured a channel for
    Stream,         \* stream ids of the turns that stream their answer
    Origin,         \* source messages an answer may name
    Text,           \* what messages say, up to white space
    Declines,       \* channels whose config declines progress messages
    Nil,           \* no stream, no origin, no text
    Published,      \* the messages the gateway's tasks may publish
    QueueSize,      \* maxsize of the outbound queue
    MaxSends,    \* max(channels.send_max_retries, 1)
    MaxPublished,   \* bound: messages published in one behaviour
    MaxApplied      \* bound: channels enabled or disabled while running

ASSUME QueueAssumption == QueueSize \in Nat \ {0}
ASSUME SendsAssumption == MaxSends \in Nat \ {0}

\* outbound_event_from_message: the events the dispatcher has a rule for.
\*   delta           StreamDeltaEvent
\*   end, close      StreamEndEvent with and without content
\*   progress        ProgressEvent, RetryWaitEvent: a channel may decline them
\*   streamed        StreamedResponseEvent: its text is in the chat already
\*   answer          a message that carries the message_id it answers
\*   followup        one that carries an origin_message_id
\*   other           any other message
StreamKind == {"delta", "end", "close"}
Message ==
    [channel : Channel, kind : StreamKind, stream : Stream, origin : {Nil},
     text : {Nil}]
    \cup [channel : Channel, kind : {"progress", "streamed", "other"},
          stream : {Nil}, origin : {Nil}, text : {Nil}]
    \cup [channel : Channel, kind : {"answer", "followup"}, stream : {Nil},
          origin : Origin, text : Text]

ASSUME PublishedAssumption == Published \subseteq Message
ASSUME NilAssumption == Nil \notin Text

VARIABLES
    outbound,       \* the queue: sequence of [msg, parts]
    pending,        \* the boundary message a merge handed back
    sending,        \* the message being sent, or Nothing
    attempt,        \* failed sends of that message
    running,        \* the dispatcher task is alive
    channels,       \* the channels that are up
    fingerprints,   \* _origin_reply_fingerprints: origin -> text, or Nil
    applied,        \* channels enabled or disabled so far
    published,      \* history: all messages, in order of publication
    sent,           \* history: what the channels got, in order
    dropped         \* history: number -> why it was never sent

dvars == <<outbound, pending, sending, attempt, running, channels,
           fingerprints, applied, published, sent, dropped>>

Nothing == [msg |-> Nil, parts |-> <<>>]
Entry(m, n) == [msg |-> m, parts |-> <<n>>]

DispatchInit ==
    /\ outbound = <<>> /\ pending = <<>>
    /\ sending = Nothing /\ attempt = 0
    /\ running = TRUE
    /\ channels = Channel
    /\ fingerprints = [k \in Channel \X Origin |-> Nil]
    /\ applied = 0
    /\ published = <<>> /\ sent = <<>>
    /\ dropped = [n \in {} |-> Nil]

\* publish_outbound waits for room; its caller is never the dispatcher.
publish_outbound(m) ==
    /\ Len(published) < MaxPublished
    /\ Len(outbound) < QueueSize
    /\ published' = Append(published, m)
    /\ outbound' = Append(outbound, Entry(m, Len(published) + 1))
    /\ UNCHANGED <<pending, sending, attempt, running, channels,
                   fingerprints, applied, sent, dropped>>

-----------------------------------------------------------------------------
(* Merging                                                                 *)

\* Mutant: the stream is not compared.
Joins_AnyStream(first, next) ==
    /\ next.msg.kind \in {"delta", "end"}
    /\ next.msg.channel = first.msg.channel

\* Whether next joins a merge that began with first: the same stream, and a
\* delta, or an end that says something.
Joins(first, next) ==
    /\ next.msg.kind \in {"delta", "end"}
    /\ next.msg.channel = first.msg.channel
    /\ next.msg.stream = first.msg.stream

\* How many messages of the queue q the merge that began with first takes:
\* it stops after an end, and before the first message that does not join.
Taken(first, q) ==
    LET Fits(k) == /\ \A i \in 1..k : Joins(first, q[i])
                   /\ \A i \in 1..(k - 1) : q[i].msg.kind = "delta"
    IN  CHOOSE k \in 0..Len(q) : Fits(k) /\ (k = Len(q) \/ ~Fits(k + 1))

\* The merged message is an end as soon as the last one taken is.
Merge(first, taken) ==
    LET all == <<first>> \o taken
    IN  [msg |-> [first.msg EXCEPT !.kind = Last(all).msg.kind],
         parts |-> FlattenSeq([i \in DOMAIN all |-> all[i].parts])]

\* _coalesce_stream_deltas: the merged message, and what is left of the
\* queue and of pending.  A message that stopped the merge goes to pending.
_coalesce_stream_deltas(first, q) ==
    LET k == Taken(first, q)
        rest == SubSeq(q, k + 1, Len(q))
        ended == k > 0 /\ q[k].msg.kind = "end"
        boundary == IF ended \/ rest = <<>> THEN <<>> ELSE <<Head(rest)>>
    IN  [merged |-> Merge(first, SubSeq(q, 1, k)),
         pending |-> boundary,
         queue |-> IF boundary = <<>> THEN rest ELSE Tail(rest)]

\* The history of drops once entry e is dropped for the reason why.
Dropping(e, why) ==
    [n \in DOMAIN dropped \cup ToSet(e.parts) |->
        IF n \in DOMAIN dropped THEN dropped[n] ELSE why]

-----------------------------------------------------------------------------
(* Dispatching                                                             *)

\* Mutant: the fingerprints are those of the chat, whatever was answered.
_should_suppress_outbound_AnyOrigin(m) ==
    m.kind = "followup" /\ \E o \in Origin : fingerprints[<<m.channel, o>>] = m.text

\* _should_suppress_outbound: the same text has already answered the same
\* source message.  An answer is remembered, and only a followup is checked.
_should_suppress_outbound(m) ==
    m.kind = "followup" /\ fingerprints[<<m.channel, m.origin>>] = m.text
Remembered(m) ==
    IF m.kind \in {"answer", "followup"}
    THEN [fingerprints EXCEPT ![<<m.channel, m.origin>>] = m.text]
    ELSE fingerprints

\* The fate of the message taken next, before any send: why it is dropped,
\* or "send".
Verdict(m) ==
    IF m.kind = "progress" /\ m.channel \in Declines THEN "declined"
    ELSE IF m.channel \notin channels THEN "unknown"
    ELSE IF _should_suppress_outbound(m) THEN "repeated"
    ELSE "send"

\* Mutant: the queue is served before the message a merge handed back.
Taking_QueueFirst ==
    IF outbound # <<>>
    THEN [first |-> Head(outbound), pending |-> pending, queue |-> Tail(outbound)]
    ELSE [first |-> Head(pending), pending |-> Tail(pending), queue |-> outbound]

\* What remains of the two queues once their first message is taken.
Taking ==
    IF pending # <<>>
    THEN [first |-> Head(pending), pending |-> Tail(pending), queue |-> outbound]
    ELSE [first |-> Head(outbound), pending |-> <<>>, queue |-> Tail(outbound)]

\* One turn of _dispatch_outbound up to its first await: take, filter,
\* merge, suppress; the text is remembered before it is sent.
_dispatch_outbound ==
    /\ running /\ sending = Nothing
    /\ pending # <<>> \/ outbound # <<>>
    /\ LET t == Taking
           c == IF t.first.msg.kind = "delta"
                THEN _coalesce_stream_deltas(t.first, t.queue)
                ELSE [merged |-> t.first, pending |-> <<>>, queue |-> t.queue]
           e == c.merged
           verdict == Verdict(e.msg)
       IN  /\ pending' = t.pending \o c.pending
           /\ outbound' = c.queue
           /\ sending' = IF verdict = "send" THEN e ELSE Nothing
           /\ dropped' = IF verdict = "send" THEN dropped
                         ELSE Dropping(e, verdict)
           /\ fingerprints' = IF verdict = "send" THEN Remembered(e.msg)
                              ELSE fingerprints
    /\ attempt' = 0
    /\ UNCHANGED <<running, channels, applied, published, sent>>

\* _send_with_retry: the channel takes it (a streamed response needs no send).
SendSucceeds ==
    /\ running /\ sending # Nothing
    /\ sent' = IF sending.msg.kind = "streamed" THEN sent
               ELSE Append(sent, sending)
    /\ dropped' = IF sending.msg.kind # "streamed" THEN dropped
                  ELSE Dropping(sending, "streamed")
    /\ sending' = Nothing /\ attempt' = 0
    /\ UNCHANGED <<outbound, pending, running, channels,
                   fingerprints, applied, published>>

\* Mutant: the attempts are not bounded.
SendFails_ForEver ==
    /\ running /\ sending # Nothing /\ sending.msg.kind # "streamed"
    /\ attempt' = (attempt + 1) % MaxSends
    /\ UNCHANGED <<outbound, pending, sending, running, channels,
                   fingerprints, applied, published, sent, dropped>>

\* The channel raises and there are attempts left: sleep and send again.
SendFails ==
    /\ running /\ sending # Nothing /\ sending.msg.kind # "streamed"
    /\ attempt + 1 < MaxSends
    /\ attempt' = attempt + 1
    /\ UNCHANGED <<outbound, pending, sending, running, channels,
                   fingerprints, applied, published, sent, dropped>>

\* The last attempt fails: the message is given up, the dispatcher goes on.
SendExhausted ==
    /\ running /\ sending # Nothing /\ sending.msg.kind # "streamed"
    /\ attempt + 1 >= MaxSends
    /\ dropped' = Dropping(sending, "exhausted")
    /\ sending' = Nothing /\ attempt' = 0
    /\ UNCHANGED <<outbound, pending, running, channels,
                   fingerprints, applied, published, sent>>

\* apply_channel_feature_action: a channel comes or goes without a restart.
\* A send under way keeps the channel object it was given.
apply_channel_feature_action(c) ==
    /\ running /\ applied < MaxApplied
    /\ channels' = IF c \in channels THEN channels \ {c} ELSE channels \cup {c}
    /\ applied' = applied + 1
    /\ UNCHANGED <<outbound, pending, sending, attempt, running,
                   fingerprints, published, sent, dropped>>

\* stop_all cancels the dispatcher wherever it waits; what it held is lost.
stop_all ==
    /\ running
    /\ running' = FALSE
    /\ UNCHANGED <<outbound, pending, sending, attempt, channels,
                   fingerprints, applied, published, sent, dropped>>

Dispatcher == \/ _dispatch_outbound
              \/ SendSucceeds
              \/ SendFails
              \/ SendExhausted

DispatchNext ==
    \/ \E m \in Published : publish_outbound(m)
    \/ Dispatcher
    \/ \E c \in Channel : apply_channel_feature_action(c)
    \/ stop_all

DispatchSpec == DispatchInit /\ [][DispatchNext]_dvars
FairDispatchSpec == DispatchSpec /\ WF_dvars(Dispatcher)


-----------------------------------------------------------------------------
(* Properties                                                              *)

PartsOf(q) == FlattenSeq([i \in DOMAIN q |-> q[i].parts])

(* One consumer, a boundary message handed back through a local list, and   *)
(* merges that swallow messages: read in the order channel, send under way, *)
(* pending, queue, the messages stand in the order they were published,     *)
(* none twice, and one that is missing was dropped for a reason.            *)
OrderIsKeptAndNothingVanishes ==
    LET line == PartsOf(sent) \o sending.parts \o PartsOf(pending)
                              \o PartsOf(outbound)
    IN  /\ \A i, j \in DOMAIN line : i < j => line[i] < line[j]
        /\ ToSet(line) \cap DOMAIN dropped = {}
        /\ ToSet(line) \cup DOMAIN dropped = DOMAIN published

(* A merge never mixes two streams and never hides where a stream ends: the *)
(* channel gets an end whenever one was published, as the last thing of its *)
(* message (manager.py:893-909), or its streaming reply would stay open.    *)
EndsReachTheChannel ==
    \A e \in ToSet(sent) :
        /\ \A n \in ToSet(e.parts) :
             /\ published[n].channel = e.msg.channel
             /\ published[n].stream = e.msg.stream
             /\ published[n].kind \in {"end", "close"} => n = Last(e.parts)
        /\ e.msg.kind = published[Last(e.parts)].kind

(* "Duplicate suppression is scoped to a known source message so repeated   *)
(* content from separate turns is still delivered" (manager.py:738-739): a  *)
(* message is suppressed only after one with its text, to its chat, for its *)
(* source message, was accepted for sending.                                *)
SuppressedIsARepeat ==
    \A n \in DOMAIN dropped : dropped[n] = "repeated" =>
        \E k \in 1..(n - 1) :
            /\ published[k].channel = published[n].channel
            /\ published[k].origin = published[n].origin
            /\ published[k].text = published[n].text
            /\ k \in DOMAIN dropped => dropped[k] = "exhausted"

(* A channel that keeps failing costs a message, never the dispatcher: again*)
(* and again every message published so far is sent or dropped, unless the  *)
(* gateway stops.                                                           *)
EveryMessageIsResolved ==
    []<>(\/ ToSet(PartsOf(sent)) \cup DOMAIN dropped = DOMAIN published
         \/ ~running)

=============================================================================
