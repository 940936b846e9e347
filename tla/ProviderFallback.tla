-------------------------- MODULE ProviderFallback --------------------------
(***************************************************************************)
(* Model requests of the turns that share one FallbackProvider             *)
(* (nanoinfra/providers/fallback_provider.py), under the retry loop of     *)
(* nanoinfra/providers/base.py.                                            *)
(*                                                                         *)
(* A turn asks the primary, unless its circuit is open, and then the       *)
(* fallbacks in order; an attempt that ends in a transient error is made   *)
(* again after a wait.  The circuit is one for all turns: failures are     *)
(* counted up to the threshold, and cooldown is the time that is left      *)
(* until the primary is asked again, zero also when it never tripped.      *)
(*                                                                         *)
(* Streaming turns, standard retry mode: the caller can always close a     *)
(* stream segment (runner.py:994), so the branches that mute the deltas    *)
(* instead are unreachable.  A turn that does not stream is one without    *)
(* deltas.                                                                 *)
(***************************************************************************)
EXTENDS Integers, FiniteSetsExt

CONSTANTS
    Asker,          \* turns that may be at a model request at once
    Fallbacks,      \* number of fallback presets
    Threshold,      \* _PRIMARY_FAILURE_THRESHOLD
    Cooldown,       \* _PRIMARY_COOLDOWN_S
    Retries,        \* len(_CHAT_RETRY_DELAYS)
    RetryDelay,     \* a delay of that table
    Buffer          \* RETRY_AFTER_BUFFER

ASSUME FallbackAssumption ==
    /\ {Fallbacks, Threshold, Cooldown, Retries} \subseteq Nat \ {0}
    /\ {RetryDelay, Buffer} \subseteq Nat \ {0}

VARIABLES
    primary_failures,   \* _primary_failures, counted up to Threshold
    cooldown,           \* _primary_cooldown_remaining
    call                \* per turn: its request

fvars == <<primary_failures, cooldown, call>>

\* What a request, or an exception it raised, comes to.
\*   stalled   a timeout: another model may be asked, and the same again
\*   busy      429, 5xx, a lost connection: as well
\*   denied    credentials, billing: worth another model, not another try
\*   rejected  a bad request, a refusal: worth neither
\*   open      nobody was asked: the circuit was open and nothing was built
Failure == {"stalled", "busy", "denied", "rejected"}
_should_fallback(kind) == kind \in {"stalled", "busy", "denied"}
is_transient_response(kind) == kind \in {"stalled", "busy", "open"}

\* Leaf 0 is the primary, leaf n the n-th fallback.
Leaf == 0..Fallbacks
Request(c) == <<c.attempt, c.leaf>>

\* A request of a turn.  pc is "idle"; "ask": leaf is at work; "choose": in
\* the loop over the fallbacks, leaf the last one it got to; or "sleep": before
\* the next attempt.  last is the failure of the leaf asked last until
\* the next one is asked, or how the call went.  streamed is the wrapper's
\* has_streamed, shown the retry loop's has_streamed_content.  Histories:
\* segment has the requests whose text the open segment of the reader's stream
\* holds, asked says that this attempt has asked anybody, tried how many
\* fallbacks it asked or could not build.
Idle(last) ==
    [pc |-> "idle", attempt |-> 1, leaf |-> 0, last |-> last,
     streamed |-> FALSE, shown |-> FALSE, segment |-> {},
     asked |-> FALSE, tried |-> 0, wait |-> 0]

FallbackInit ==
    /\ primary_failures = 0 /\ cooldown = 0
    /\ call = [t \in Asker |-> Idle("none")]

-----------------------------------------------------------------------------
(* Helpers                                                                 *)

\* _recover_stream after a stall: the open segment is closed, and the next
\* text starts one.
Recovered(c) ==
    IF c.streamed /\ c.last = "stalled"
    THEN [c EXCEPT !.streamed = FALSE, !.shown = FALSE, !.segment = {}]
    ELSE c

\* The wait before the next attempt: what an open circuit asks for, or the
\* table's; a Retry-After of a provider is taken for a delay of the table.
Delay(kind) ==
    IF kind = "open" /\ cooldown > 0 THEN cooldown + Buffer ELSE RetryDelay

\* _run_with_retry: a stall does not end a stream that was shown, any other
\* failure does; then the error must be transient and attempts left.
GivesUp(c, kind) ==
    \/ kind = "ok"
    \/ c.shown /\ kind # "stalled"
    \/ ~is_transient_response(kind)
    \/ c.attempt > Retries

\* _run_with_retry once an attempt has returned: the call is over, or it
\* sleeps, and a stall has closed the segment it had shown.
AttemptOver(c, kind) ==
    IF GivesUp(c, kind) THEN Idle(kind)
    ELSE [Idle(kind) EXCEPT !.pc = "sleep", !.wait = Delay(kind),
                            !.attempt = c.attempt,
                            !.segment = IF kind = "stalled" THEN {}
                                        ELSE c.segment]

\* The primary is asked unless it is held back.
_primary_available == cooldown = 0
Attempt(t, c) ==
    /\ call' = [call EXCEPT ![t] =
                  IF _primary_available
                  THEN [c EXCEPT !.pc = "ask", !.asked = TRUE, !.last = "none"]
                  ELSE [c EXCEPT !.pc = "choose", !.last = "none"]]
    /\ UNCHANGED <<primary_failures, cooldown>>

-----------------------------------------------------------------------------
(* A turn's request                                                        *)

chat_stream_with_retry(t) ==
    /\ call[t].pc = "idle"
    /\ Attempt(t, Idle("none"))

\* _sleep_with_heartbeat is over: the next attempt.
Wake(t) ==
    /\ call[t].pc = "sleep" /\ call[t].wait = 0
    /\ Attempt(t, [call[t] EXCEPT !.attempt = @ + 1])

\* _tracking_delta, the wrapper's and the retry loop's: text reaches the reader.
_tracking_delta(t) ==
    LET c == call[t] IN
    /\ c.pc = "ask"
    /\ call' = [call EXCEPT ![t] =
                  [c EXCEPT !.streamed = TRUE, !.shown = TRUE,
                            !.segment = @ \cup {Request(c)}]]
    /\ UNCHANGED <<primary_failures, cooldown>>

\* The primary answers: the circuit closes, whoever opened it meanwhile.
PrimarySucceeds(t) ==
    /\ call[t].pc = "ask" /\ call[t].leaf = 0
    /\ primary_failures' = 0 /\ cooldown' = 0
    /\ call' = [call EXCEPT ![t] = AttemptOver(call[t], "ok")]

\* The primary fails and nobody else is asked: its text is shown already, or
\* the error is one that another model would repeat.  It is not counted.
FailureEndsAttempt(t, kind) ==
    LET c == call[t] IN
    /\ c.pc = "ask" /\ c.leaf = 0
    /\ (c.streamed /\ kind # "stalled") \/ ~_should_fallback(kind)
    /\ call' = [call EXCEPT ![t] = AttemptOver(c, kind)]
    /\ UNCHANGED <<primary_failures, cooldown>>

\* Mutant: the primary's error is not kept for the end of the chain.
PrimaryFails_ErrorForgotten(t, kind) ==
    LET c == call[t] IN
    /\ c.pc = "ask" /\ c.leaf = 0
    /\ _should_fallback(kind) /\ (c.streamed => kind = "stalled")
    /\ primary_failures' = Min({primary_failures + 1, Threshold})
    /\ cooldown' = IF primary_failures + 1 >= Threshold THEN Cooldown ELSE cooldown
    /\ call' = [call EXCEPT ![t] =
                  [Recovered([c EXCEPT !.last = kind])
                   EXCEPT !.pc = "choose", !.last = "none"]]

\* The primary fails and the fallbacks are next; the failure is counted, and
\* from the threshold on each one starts the cooldown anew.
PrimaryFails(t, kind) ==
    LET c == call[t] IN
    /\ c.pc = "ask" /\ c.leaf = 0
    /\ _should_fallback(kind) /\ (c.streamed => kind = "stalled")
    /\ primary_failures' = Min({primary_failures + 1, Threshold})
    /\ cooldown' = IF primary_failures + 1 >= Threshold THEN Cooldown ELSE cooldown
    /\ call' = [call EXCEPT ![t] =
                  [Recovered([c EXCEPT !.last = kind]) EXCEPT !.pc = "choose"]]

\* Mutant: text that is shown does not end the chain.
ChainIsOver_TextOrNot(c) == c.leaf = Fallbacks

\* The loop ends after the last fallback, and before the next one when text
\* was shown that no stall explains.
ChainIsOver(c) == c.leaf = Fallbacks \/ (c.streamed /\ c.last # "stalled")

ChainEnds(t) ==
    LET c == call[t] IN
    /\ c.pc = "choose" /\ ChainIsOver(c)
    /\ call' = [call EXCEPT ![t] =
                  AttemptOver(c, IF c.last = "none" THEN "open" ELSE c.last)]
    /\ UNCHANGED <<primary_failures, cooldown>>

\* _provider_factory raises: the next preset.
FallbackNotBuilt(t) ==
    LET c == call[t] IN
    /\ c.pc = "choose" /\ ~ChainIsOver(c)
    /\ call' = [call EXCEPT ![t] =
                  [Recovered(c) EXCEPT !.leaf = @ + 1, !.tried = @ + 1]]
    /\ UNCHANGED <<primary_failures, cooldown>>

AskFallback(t) ==
    LET c == call[t] IN
    /\ c.pc = "choose" /\ ~ChainIsOver(c)
    /\ call' = [call EXCEPT ![t] =
                  [Recovered(c) EXCEPT !.pc = "ask", !.last = "none",
                                       !.leaf = @ + 1, !.tried = @ + 1,
                                       !.asked = TRUE]]
    /\ UNCHANGED <<primary_failures, cooldown>>

\* Mutant: the circuit counts the failures of the fallbacks too.
FallbackFails_Counts(t, kind) ==
    LET c == call[t] IN
    /\ c.pc = "ask" /\ c.leaf > 0
    /\ call' = [call EXCEPT ![t] = [c EXCEPT !.pc = "choose", !.last = kind]]
    /\ primary_failures' = Min({primary_failures + 1, Threshold})
    /\ cooldown' = IF primary_failures + 1 >= Threshold THEN Cooldown ELSE cooldown

\* A fallback fails, in whatever way: the next one.
FallbackFails(t, kind) ==
    LET c == call[t] IN
    /\ c.pc = "ask" /\ c.leaf > 0
    /\ call' = [call EXCEPT ![t] = [c EXCEPT !.pc = "choose", !.last = kind]]
    /\ UNCHANGED <<primary_failures, cooldown>>

\* A fallback answers; the primary's circuit stays as it is.
FallbackSucceeds(t) ==
    /\ call[t].pc = "ask" /\ call[t].leaf > 0
    /\ call' = [call EXCEPT ![t] = AttemptOver(call[t], "ok")]
    /\ UNCHANGED <<primary_failures, cooldown>>

\* The turn is stopped, or the wall-clock limit of runner.py:1056 cancels the
\* request: CancelledError passes every handler, and nothing is counted.
CallCancelled(t) ==
    /\ call[t].pc # "idle"
    /\ call' = [call EXCEPT ![t] = Idle("cancelled")]
    /\ UNCHANGED <<primary_failures, cooldown>>

Tick ==
    /\ cooldown > 0 \/ \E t \in Asker : call[t].wait > 0
    /\ cooldown' = Max({cooldown - 1, 0})
    /\ call' = [t \in Asker |->
                  [call[t] EXCEPT !.wait = Max({@ - 1, 0})]]
    /\ UNCHANGED primary_failures

\* What a turn under way does next; a request ends in an answer or an error.
Proceed(t) ==
    \/ Wake(t)
    \/ PrimarySucceeds(t)
    \/ \E kind \in Failure : \/ FailureEndsAttempt(t, kind)
                             \/ PrimaryFails(t, kind)
                             \/ FallbackFails(t, kind)
    \/ ChainEnds(t)
    \/ FallbackNotBuilt(t)
    \/ AskFallback(t)
    \/ FallbackSucceeds(t)

FallbackNext ==
    \/ \E t \in Asker : \/ chat_stream_with_retry(t)
                       \/ _tracking_delta(t)
                       \/ Proceed(t)
                       \/ CallCancelled(t)
    \/ Tick

FallbackSpec == FallbackInit /\ [][FallbackNext]_fvars
FairFallbackSpec ==
    FallbackSpec /\ WF_fvars(Tick) /\ \A t \in Asker : WF_fvars(Proceed(t))

-----------------------------------------------------------------------------
(* Properties                                                              *)

(* Text is shown while the request is still under way, and two layers may   *)
(* ask again: a request writes into a segment of its own.  Otherwise the    *)
(* reader gets two answers run together, or, when the answer comes without  *)
(* deltas, half of one: the turn takes a segment with text for the answer   *)
(* (agent/loop.py:2161, 2236).                                              *)
SegmentHasOneVoice ==
    \A t \in Asker : call[t].pc = "ask" => call[t].segment \subseteq {Request(call[t])}

(* An attempt gives an error back only after every fallback was asked or    *)
(* could not be built, unless text that no stall explains is shown, or the  *)
(* primary's error is one that another model would repeat.  The error is a  *)
(* real one, with its status and its Retry-After, if anybody was asked.     *)
WholeChainIsTried ==
    [][\A t \in Asker :
         /\ call[t].pc \in {"ask", "choose"}
         /\ call'[t].pc \in {"idle", "sleep"}
         /\ call'[t].last \notin {"ok", "cancelled"}
         => /\ \/ call[t].tried = Fallbacks
               \/ call[t].streamed
               \/ call[t].leaf = 0 /\ call'[t].last = "rejected"
            /\ call'[t].last = "open" <=> ~call[t].asked]_fvars

(* Two nested loops and a wait that the failures of other turns prolong: an *)
(* open circuit comes to its end, whatever the answers that are still on    *)
(* their way and however often the fallbacks fail meanwhile, and a request  *)
(* ends with an answer, an error or its cancellation, every time.           *)
NobodyWaitsForEver ==
    /\ []<>(cooldown = 0)
    /\ \A t \in Asker : []<>(call[t].pc = "idle")

=============================================================================
