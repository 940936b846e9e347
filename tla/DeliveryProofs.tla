---------------------------- MODULE DeliveryProofs ----------------------------
(***************************************************************************)
(* What a turn's model request and the dispatcher of its answer guarantee, *)
(* for any number of turns, presets, retries, channels and messages.       *)
(*                                                                         *)
(* The two share nothing (MCDelivery).  The request is FInv, of one turn   *)
(* at a time: a step of a turn keeps the shape of its own request and      *)
(* cannot disturb another's, whatever the circuit they share does.  The    *)
(* dispatcher is DInv, which says where every published number is, and     *)
(* RInv, which says whose text a remembered fingerprint is.                *)
(***************************************************************************)
EXTENDS OutboundDispatch, ProviderFallback, SequenceTheorems,
        WellFoundedInduction, TLAPS

-----------------------------------------------------------------------------
(* A model request (fallback_provider.py, base.py)                          *)

CallFields == {"pc", "attempt", "leaf", "last", "streamed", "shown", "segment",
               "asked", "tried", "wait"}

\* A request of a turn: both layers have shown the same text, what was shown is
\* by the request at work, every fallback passed over counts as tried, and the
\* loop knows an error when somebody was asked.
CallOK(c) ==
    /\ c = [f \in CallFields |-> c[f]]
    /\ c.pc \in {"idle", "ask", "choose", "sleep"}
    /\ c.leaf \in Leaf
    /\ c.asked \in BOOLEAN /\ c.streamed \in BOOLEAN
    /\ c.shown = c.streamed
    /\ ~c.streamed => c.segment = {}
    /\ c.pc = "ask" => c.segment \subseteq {Request(c)} /\ c.asked
    /\ c.pc \in {"ask", "choose"} => c.tried = c.leaf
    /\ c.pc = "choose" => c.last \in Failure \cup {"none"}
    /\ c.pc = "choose" => (c.asked <=> c.last # "none")
    /\ c.pc = "sleep" => /\ c.leaf = 0 /\ c.tried = 0
                         /\ c.asked = FALSE /\ ~c.streamed

FInv ==
    /\ call = [t \in Asker |-> call[t]]
    /\ \A t \in Asker : CallOK(call[t])

\* An attempt that gives an error back gives the right one, after the chain.
EndsRight(c, c2) ==
    /\ c.pc \in {"ask", "choose"} /\ c2.pc \in {"idle", "sleep"}
    /\ c2.last \notin {"ok", "cancelled"}
    => /\ \/ c.tried = Fallbacks
          \/ c.streamed
          \/ c.leaf = 0 /\ c2.last = "rejected"
       /\ c2.last = "open" <=> ~c.asked

(* The primary is a leaf.                                                   *)
LEMMA FirstLeaf == 0 \in Leaf /\ Fallbacks \in Nat
BY FallbackAssumption DEF Leaf

(* A turn without a request holds nothing (FallbackProvider.chat_stream).   *)
LEMMA IdleOK == ASSUME NEW last PROVE CallOK(Idle(last))
<1>1. Idle(last) = [f \in CallFields |-> Idle(last)[f]]
  BY DEF Idle, CallFields
<1>. QED BY <1>1, FirstLeaf DEF CallOK, Idle

(* The retry loop sleeps only when nothing is shown that is not explained    *)
(* (_run_with_retry).                                                       *)
LEMMA AttemptOverOK ==
    ASSUME NEW c, CallOK(c), NEW kind
    PROVE  /\ CallOK(AttemptOver(c, kind))
           /\ AttemptOver(c, kind).pc \in {"idle", "sleep"}
           /\ AttemptOver(c, kind).last = kind
<1>1. CASE GivesUp(c, kind)
  <2>1. AttemptOver(c, kind) = Idle(kind)
    BY <1>1 DEF AttemptOver
  <2>. QED BY <2>1, IdleOK DEF Idle
<1>2. CASE ~GivesUp(c, kind)
  <2> DEFINE a == AttemptOver(c, kind)
             seg == IF kind = "stalled" THEN {} ELSE c.segment
  <2>1. seg = {}
    BY <1>2 DEF GivesUp, CallOK
  <2>2. /\ a = [f \in CallFields |-> a[f]]
        /\ a.pc = "sleep" /\ a.last = kind /\ a.leaf = 0 /\ a.tried = 0
        /\ a.asked = FALSE /\ a.streamed = FALSE /\ a.shown = FALSE
        /\ a.segment = seg
    BY <1>2 DEF AttemptOver, Idle, CallFields
  <2> HIDE DEF a
  <2>3. CallOK(a)
    BY <2>1, <2>2, FirstLeaf DEF CallOK
  <2>. QED BY <2>2, <2>3 DEF a
<1>. QED BY <1>1, <1>2

(* A stall closes the open segment (_recover_stream).                        *)
LEMMA RecoveredOK ==
    ASSUME NEW c, CallOK(c)
    PROVE  LET r == Recovered(c)
           IN  /\ r = [f \in CallFields |-> r[f]]
               /\ r.pc = c.pc /\ r.attempt = c.attempt /\ r.leaf = c.leaf
               /\ r.last = c.last /\ r.asked = c.asked /\ r.tried = c.tried
               /\ r.streamed \in BOOLEAN /\ r.shown = r.streamed
               /\ ~r.streamed => r.segment = {}
               /\ ~c.streamed \/ c.last = "stalled" => ~r.streamed
BY DEF Recovered, CallOK, CallFields

\* What a step of turn t has to show, and what then follows.
Steps(t) ==
    /\ call' = [call EXCEPT ![t] = call'[t]]
    /\ CallOK(call'[t]) /\ EndsRight(call[t], call'[t])

(* A request is a turn's own: the others are not disturbed.                 *)
LEMMA StepsPreserve ==
    ASSUME FInv, NEW t \in Asker, Steps(t)
    PROVE  FInv' /\ \A u \in Asker : EndsRight(call[u], call'[u])
<1>1. \A u \in Asker : u # t => call'[u] = call[u]
  BY DEF FInv, Steps
<1>2. \A u \in Asker : u # t => EndsRight(call[u], call'[u])
  BY <1>1 DEF FInv, CallOK, EndsRight
<1>3. call' = [u \in Asker |-> call'[u]] /\ \A u \in Asker : CallOK(call'[u])
  BY <1>1 DEF FInv, Steps
<1>. QED BY <1>2, <1>3 DEF FInv, Steps

(* A turn asks, and asks again.                                             *)
LEMMA AttemptSteps ==
    ASSUME FInv, NEW t \in Asker, chat_stream_with_retry(t) \/ Wake(t)
    PROVE  Steps(t)
<1>1. PICK c : /\ Attempt(t, c) /\ CallOK(c) /\ ~c.streamed
               /\ c.leaf = 0 /\ c.tried = 0 /\ c.asked = FALSE
  <2>1. CASE chat_stream_with_retry(t)
    BY <2>1, IdleOK DEF chat_stream_with_retry, Idle
  <2>2. CASE Wake(t)
    <3> DEFINE n == [call[t] EXCEPT !.attempt = @ + 1]
    <3>1. CallOK(call[t]) /\ call[t].pc = "sleep" /\ Attempt(t, n)
      BY <2>2 DEF FInv, Wake
    <3>2. /\ n = [f \in CallFields |-> n[f]]
          /\ n.pc = "sleep" /\ n.leaf = call[t].leaf /\ n.asked = call[t].asked
          /\ n.streamed = call[t].streamed /\ n.shown = call[t].shown
          /\ n.segment = call[t].segment /\ n.tried = call[t].tried
      BY <3>1 DEF CallOK, CallFields
    <3> HIDE DEF n
    <3>. QED BY <3>1, <3>2 DEF CallOK
  <2>. QED BY <2>1, <2>2
<1>2. /\ call' = [call EXCEPT ![t] = call'[t]]
      /\ \/ call'[t] = [c EXCEPT !.pc = "ask", !.asked = TRUE, !.last = "none"]
         \/ call'[t] = [c EXCEPT !.pc = "choose", !.last = "none"]
  BY <1>1 DEF Attempt, FInv
<1>3. CallOK(call'[t]) /\ call'[t].pc \in {"ask", "choose"}
  <2>1. CASE call'[t] = [c EXCEPT !.pc = "ask", !.asked = TRUE, !.last = "none"]
    BY <1>1, <2>1 DEF CallOK, CallFields
  <2>2. CASE call'[t] = [c EXCEPT !.pc = "choose", !.last = "none"]
    BY <1>1, <2>2 DEF CallOK, CallFields
  <2>. QED BY <1>2, <2>1, <2>2
<1>. QED BY <1>2, <1>3 DEF Steps, EndsRight

(* Text is shown: the segment is empty or holds this request's text only.   *)
LEMMA DeltaSteps ==
    ASSUME FInv, NEW t \in Asker, _tracking_delta(t)
    PROVE  Steps(t)
<1> DEFINE c == call[t]
<1>1. /\ call' = [call EXCEPT ![t] = call'[t]] /\ c.pc = "ask" /\ CallOK(c)
      /\ call'[t] = [c EXCEPT !.streamed = TRUE, !.shown = TRUE,
                              !.segment = @ \cup {Request(c)}]
  BY DEF _tracking_delta, FInv
<1>2. /\ call'[t] = [f \in CallFields |-> call'[t][f]]
      /\ call'[t].pc = c.pc /\ call'[t].leaf = c.leaf /\ call'[t].attempt = c.attempt
      /\ call'[t].asked = c.asked /\ call'[t].last = c.last /\ call'[t].tried = c.tried
      /\ call'[t].streamed = TRUE /\ call'[t].shown = TRUE
      /\ call'[t].segment = c.segment \cup {Request(c)}
  BY <1>1 DEF CallOK, CallFields
<1>3. CallOK(call'[t])
  BY <1>1, <1>2 DEF CallOK, Request
<1>. QED BY <1>1, <1>2, <1>3 DEF Steps, EndsRight

(* An attempt ends: with an answer, with the primary's own failure, or at   *)
(* the end of the chain.                                                    *)
LEMMA EndSteps ==
    ASSUME FInv, NEW t \in Asker,
           \/ PrimarySucceeds(t) \/ FallbackSucceeds(t) \/ ChainEnds(t)
           \/ \E kind \in Failure : FailureEndsAttempt(t, kind)
    PROVE  Steps(t)
<1> DEFINE c == call[t]
<1>1. PICK kind :
         /\ call' = [call EXCEPT ![t] = AttemptOver(c, kind)]
         /\ c.pc \in {"ask", "choose"}
         /\ \/ kind = "ok"
            \/ /\ c.pc = "choose" /\ ChainIsOver(c)
               /\ kind = IF c.last = "none" THEN "open" ELSE c.last
            \/ /\ c.pc = "ask" /\ c.leaf = 0 /\ kind \in Failure
               /\ (c.streamed /\ kind # "stalled") \/ ~_should_fallback(kind)
  BY DEF PrimarySucceeds, FallbackSucceeds, ChainEnds, FailureEndsAttempt
<1>2. CallOK(c) /\ call'[t] = AttemptOver(c, kind)
  BY <1>1 DEF FInv
<1>3. CallOK(call'[t]) /\ call'[t].last = kind
  BY <1>2, AttemptOverOK
<1>4. EndsRight(c, call'[t])
  BY <1>1, <1>2, <1>3
     DEF EndsRight, CallOK, ChainIsOver, Failure, _should_fallback
<1>. QED BY <1>1, <1>2, <1>3, <1>4 DEF Steps

(* The chain goes on: after a failure to the choice, and from the choice to *)
(* the next fallback, the text that a stall cut off behind a closed segment. *)
LEMMA ChainSteps ==
    ASSUME FInv, NEW t \in Asker,
           \/ \E kind \in Failure : PrimaryFails(t, kind) \/ FallbackFails(t, kind)
           \/ FallbackNotBuilt(t) \/ AskFallback(t)
    PROVE  Steps(t)
<1> DEFINE c == call[t]
<1>1. CallOK(c)
  BY DEF FInv
<1>2. ASSUME NEW kind \in Failure, PrimaryFails(t, kind)
      PROVE  Steps(t)
  <2> DEFINE k == [c EXCEPT !.last = kind]
             r == Recovered(k)
  <2>1. /\ call' = [call EXCEPT ![t] = call'[t]] /\ c.pc = "ask" /\ c.leaf = 0
        /\ call'[t] = [r EXCEPT !.pc = "choose"]
    BY <1>2 DEF PrimaryFails, FInv
  <2>2. /\ k = [f \in CallFields |-> k[f]] /\ k.last = kind
        /\ k.pc = c.pc /\ k.leaf = c.leaf /\ k.attempt = c.attempt
        /\ k.asked = c.asked /\ k.tried = c.tried /\ k.streamed = c.streamed
        /\ k.shown = c.shown /\ k.segment = c.segment
    BY <1>1 DEF CallOK, CallFields
  <2> HIDE DEF k
  <2>3. CallOK(k)
    BY <1>1, <2>1, <2>2 DEF CallOK, Request
  <2>4. /\ r = [f \in CallFields |-> r[f]]
        /\ r.leaf = k.leaf /\ r.last = k.last /\ r.asked = k.asked
        /\ r.tried = k.tried /\ r.streamed \in BOOLEAN /\ r.shown = r.streamed
        /\ ~r.streamed => r.segment = {}
    BY <2>3, RecoveredOK
  <2> HIDE DEF r
  <2>5. /\ call'[t] = [f \in CallFields |-> call'[t][f]] /\ call'[t].pc = "choose"
        /\ call'[t].leaf = r.leaf /\ call'[t].last = r.last
        /\ call'[t].asked = r.asked /\ call'[t].tried = r.tried
        /\ call'[t].streamed = r.streamed /\ call'[t].shown = r.shown
        /\ call'[t].segment = r.segment
    BY <2>1, <2>4 DEF CallFields
  <2>6. CallOK(call'[t])
    BY <1>1, <1>2, <2>1, <2>2, <2>4, <2>5 DEF CallOK, Failure
  <2>. QED BY <2>1, <2>5, <2>6 DEF Steps, EndsRight
<1>3. ASSUME NEW kind \in Failure, FallbackFails(t, kind)
      PROVE  Steps(t)
  <2>1. /\ call' = [call EXCEPT ![t] = call'[t]] /\ c.pc = "ask"
        /\ call'[t] = [c EXCEPT !.pc = "choose", !.last = kind]
    BY <1>3 DEF FallbackFails, FInv
  <2>2. /\ call'[t] = [f \in CallFields |-> call'[t][f]] /\ call'[t].pc = "choose"
        /\ call'[t].leaf = c.leaf /\ call'[t].last = kind
        /\ call'[t].asked = c.asked /\ call'[t].tried = c.tried
        /\ call'[t].streamed = c.streamed /\ call'[t].shown = c.shown
        /\ call'[t].segment = c.segment
    BY <1>1, <2>1 DEF CallOK, CallFields
  <2>3. CallOK(call'[t])
    BY <1>1, <1>3, <2>1, <2>2 DEF CallOK, Failure
  <2>. QED BY <2>1, <2>2, <2>3 DEF Steps, EndsRight
<1>4. CASE FallbackNotBuilt(t) \/ AskFallback(t)
  <2> DEFINE r == Recovered(c)
  <2>1. /\ call' = [call EXCEPT ![t] = call'[t]] /\ c.pc = "choose" /\ ~ChainIsOver(c)
        /\ \/ call'[t] = [r EXCEPT !.leaf = @ + 1, !.tried = @ + 1]
           \/ call'[t] = [r EXCEPT !.pc = "ask", !.last = "none", !.leaf = @ + 1,
                                   !.tried = @ + 1, !.asked = TRUE]
    BY <1>4 DEF FallbackNotBuilt, AskFallback, FInv
  <2>2. /\ r = [f \in CallFields |-> r[f]] /\ r.pc = "choose"
        /\ r.leaf = c.leaf /\ r.last = c.last /\ r.asked = c.asked
        /\ r.tried = c.tried /\ r.streamed = FALSE /\ r.shown = FALSE
        /\ r.segment = {}
    <3>1. ~c.streamed \/ c.last = "stalled"
      BY <2>1 DEF ChainIsOver
    <3>. QED BY <1>1, <2>1, <3>1, RecoveredOK
  <2> HIDE DEF r
  <2>3. /\ call'[t] = [f \in CallFields |-> call'[t][f]]
        /\ call'[t].leaf = r.leaf + 1 /\ call'[t].tried = r.tried + 1
        /\ call'[t].streamed = FALSE /\ call'[t].shown = FALSE
        /\ call'[t].segment = {}
        /\ \/ /\ call'[t].pc = "choose" /\ call'[t].last = r.last
              /\ call'[t].asked = r.asked
           \/ call'[t].pc = "ask" /\ call'[t].asked = TRUE
    BY <2>1, <2>2 DEF CallFields
  <2>4. c.leaf + 1 \in Leaf
    BY <1>1, <2>1, FirstLeaf DEF CallOK, Leaf, ChainIsOver
  <2>5. CallOK(call'[t])
    <3>1. /\ c.tried = c.leaf /\ c.last \in Failure \cup {"none"}
          /\ c.asked \in BOOLEAN /\ (c.asked <=> c.last # "none")
      BY <1>1, <2>1 DEF CallOK
    <3>2. /\ call'[t].leaf \in Leaf /\ call'[t].tried = call'[t].leaf
      BY <2>2, <2>3, <2>4, <3>1
    <3>3. CASE /\ call'[t].pc = "choose" /\ call'[t].last = r.last
               /\ call'[t].asked = r.asked
      <4>1. call'[t].last = c.last /\ call'[t].asked = c.asked
        BY <2>2, <3>3
      <4>. QED BY <2>3, <3>1, <3>2, <3>3, <4>1 DEF CallOK
    <3>4. CASE call'[t].pc = "ask" /\ call'[t].asked = TRUE
      BY <2>3, <3>2, <3>4 DEF CallOK
    <3>. QED BY <2>3, <3>3, <3>4
  <2>. QED BY <2>1, <2>3, <2>5 DEF Steps, EndsRight
<1>. QED BY <1>2, <1>3, <1>4

(* Every step, the cancellation of a request and the passing of time too.   *)
LEMMA FPreserved ==
    ASSUME FInv, [FallbackNext]_fvars
    PROVE  FInv' /\ \A t \in Asker : EndsRight(call[t], call'[t])
<1>1. ASSUME NEW t \in Asker, CallCancelled(t)
      PROVE  Steps(t)
  <2>1. /\ call' = [call EXCEPT ![t] = call'[t]] /\ call'[t] = Idle("cancelled")
    BY <1>1 DEF CallCancelled, FInv
  <2>. QED BY <2>1, IdleOK DEF Steps, EndsRight, Idle
<1>2. CASE Tick
  <2>1. /\ call' = [t \in Asker |-> call'[t]]
        /\ \A t \in Asker : \E w : call'[t] = [call[t] EXCEPT !.wait = w]
    BY <1>2 DEF Tick
  <2>2. ASSUME NEW t \in Asker
        PROVE  CallOK(call'[t]) /\ call'[t].pc = call[t].pc
    <3>1. PICK w : call'[t] = [call[t] EXCEPT !.wait = w]
      BY <2>1
    <3>2. CallOK(call[t])
      BY DEF FInv
    <3>. QED BY <3>1, <3>2 DEF CallOK, CallFields, Request
  <2>. QED BY <2>1, <2>2 DEF FInv, EndsRight
<1>3. CASE UNCHANGED fvars
  BY <1>3 DEF fvars, FInv, EndsRight, CallOK
<1>4. CASE \E t \in Asker : \/ chat_stream_with_retry(t) \/ _tracking_delta(t)
                            \/ Proceed(t) \/ CallCancelled(t)
  BY <1>1, <1>4, StepsPreserve, AttemptSteps, DeltaSteps, EndSteps, ChainSteps
     DEF Proceed
<1>. QED BY <1>2, <1>3, <1>4 DEF FallbackNext

(* At every moment both layers agree on what was shown, and what was shown  *)
(* is the text of the request at work (_try_with_fallback, _run_with_retry).*)
THEOREM FallbackInvariant == FallbackSpec => []FInv
<1>1. FallbackInit => FInv
  BY IdleOK DEF FallbackInit, FInv
<1>2. FInv /\ [FallbackNext]_fvars => FInv'
  BY FPreserved
<1>. QED BY <1>1, <1>2, PTL DEF FallbackSpec

(* Whatever the order of stalls, errors, retries and cancellations: while a *)
(* request is at work, its segment of the stream holds no text of another   *)
(* one (_tracking_delta, _recover_stream).                                  *)
THEOREM OneVoice == FallbackSpec => []SegmentHasOneVoice
<1>1. FInv => SegmentHasOneVoice
  BY DEF FInv, CallOK, SegmentHasOneVoice
<1>. QED BY <1>1, FallbackInvariant, PTL

(* For any number of presets and retries, an attempt that gives an error    *)
(* back has been through the whole chain, or had shown text, or met an      *)
(* error another model would repeat (_try_with_fallback).                   *)
THEOREM ChainIsTried == FallbackSpec => WholeChainIsTried
<1>1. FInv /\ [FallbackNext]_fvars =>
         [\A t \in Asker :
            /\ call[t].pc \in {"ask", "choose"}
            /\ call'[t].pc \in {"idle", "sleep"}
            /\ call'[t].last \notin {"ok", "cancelled"}
            => /\ \/ call[t].tried = Fallbacks
                  \/ call[t].streamed
                  \/ call[t].leaf = 0 /\ call'[t].last = "rejected"
               /\ call'[t].last = "open" <=> ~call[t].asked]_fvars
  BY FPreserved DEF EndsRight
<1>. QED BY <1>1, FallbackInvariant, PTL DEF FallbackSpec, WholeChainIsTried

(* A set of numbers that has 0, and with a number the next one, has all.    *)
LEMMA EveryNumber ==
    ASSUME NEW S, 0 \in S, \A n \in Nat : n \in S => n + 1 \in S
    PROVE  Nat \subseteq S
<1> DEFINE T == Nat \ S
<1> SUFFICES ASSUME T # {} PROVE FALSE
  OBVIOUS
<1>1. PICK m \in T : \A n \in T : ~(<<n, m>> \in OpToRel(<, Nat))
  <2>1. T \subseteq Nat
    OBVIOUS
  <2> HIDE DEF T
  <2>. QED BY <2>1, NatLessThanWellFounded, WFMin
<1>2. \A n \in T : ~(n < m)
  BY <1>1 DEF OpToRel
<1>3. m # 0 /\ m \in Nat
  BY <1>1
<1>5. m - 1 \in Nat /\ m - 1 < m /\ (m - 1) + 1 = m
  BY <1>3
<1>4. m - 1 \in S
  BY <1>2, <1>5
<1>. QED BY <1>1, <1>4, <1>5

\* The sequences that FlattenSeq joins, up to the n-th.
IsJoin(f, seqs, n) ==
    f = [i \in 1..n |-> IF i = 1 THEN seqs[i] ELSE f[i - 1] \o seqs[i]]

LEMMA JoinsExist ==
    ASSUME NEW seqs, NEW n \in Nat
    PROVE  \E f : IsJoin(f, seqs, n)
<1> DEFINE S == {m \in Nat : \E f : IsJoin(f, seqs, m)}
<1>1. 0 \in S
  <2>1. IsJoin([i \in 1..0 |-> 0], seqs, 0)
    BY DEF IsJoin
  <2>. QED BY <2>1
<1>2. ASSUME NEW m \in S PROVE m + 1 \in S
  <2>1. PICK f : IsJoin(f, seqs, m)
    OBVIOUS
  <2> DEFINE next == IF m + 1 = 1 THEN seqs[m + 1] ELSE f[m] \o seqs[m + 1]
             g == [i \in 1..(m + 1) |-> IF i = m + 1 THEN next ELSE f[i]]
  <2>2. \A i \in 1..m : f[i] = IF i = 1 THEN seqs[i] ELSE f[i - 1] \o seqs[i]
    BY <2>1 DEF IsJoin
  <2>3. ASSUME NEW i \in 1..(m + 1)
        PROVE  g[i] = IF i = 1 THEN seqs[i] ELSE g[i - 1] \o seqs[i]
    <3>1. CASE i = m + 1
      <4>1. g[i] = next
        BY <3>1
      <4>2. i # 1 => i - 1 = m /\ i - 1 \in 1..(m + 1) /\ i - 1 # m + 1
        BY <3>1
      <4>3. i # 1 => g[i - 1] = f[m]
        BY <4>2
      <4>. QED BY <3>1, <4>1, <4>3
    <3>2. CASE i # m + 1
      <4>1. i \in 1..m /\ (i # 1 => i - 1 \in 1..m /\ i - 1 # m + 1)
        BY <3>2
      <4>2. g[i] = f[i] /\ (i # 1 => g[i - 1] = f[i - 1])
        BY <4>1
      <4>. QED BY <2>2, <4>1, <4>2
    <3>. QED BY <3>1, <3>2
  <2>4. DOMAIN g = 1..(m + 1) /\ g = [i \in 1..(m + 1) |-> g[i]]
    OBVIOUS
  <2> HIDE DEF g
  <2>5. IsJoin(g, seqs, m + 1)
    BY <2>3, <2>4 DEF IsJoin
  <2>. QED BY <2>5
<1>3. Nat \subseteq S
  <2> HIDE DEF S
  <2>. QED BY <1>1, <1>2, EveryNumber
<1>. QED BY <1>3

LEMMA FlattenJoins ==
    ASSUME NEW seqs, Len(seqs) \in Nat, Len(seqs) # 0
    PROVE  \E f : IsJoin(f, seqs, Len(seqs)) /\ FlattenSeq(seqs) = f[Len(seqs)]
<1>1. \E f : IsJoin(f, seqs, Len(seqs))
  BY JoinsExist
<1>2. FlattenSeq(seqs) = (CHOOSE f : IsJoin(f, seqs, Len(seqs)))[Len(seqs)]
  BY DEF FlattenSeq, IsJoin
<1>. QED BY <1>1, <1>2

-----------------------------------------------------------------------------
(* Sequences of numbers                                                     *)

Ascending(s) == \A i, k \in DOMAIN s : i < k => s[i] < s[k]
Before(A, B) == \A a \in A, b \in B : a < b

(* Two ascending sequences, one after the other.                            *)
LEMMA JoinedAscend ==
    ASSUME NEW s \in Seq(Nat), NEW t \in Seq(Nat)
    PROVE  /\ s \o t \in Seq(Nat) /\ ToSet(s \o t) = ToSet(s) \cup ToSet(t)
           /\ Ascending(s) /\ Ascending(t) /\ Before(ToSet(s), ToSet(t))
              => Ascending(s \o t)
<1> DEFINE u == s \o t
<1>1. /\ u \in Seq(Nat) /\ Len(u) = Len(s) + Len(t)
      /\ \A i \in 1..Len(s) : u[i] = s[i]
      /\ \A i \in (Len(s) + 1)..(Len(s) + Len(t)) : u[i] = t[i - Len(s)]
  BY ConcatProperties
<1>2. /\ Len(s) \in Nat /\ Len(t) \in Nat
      /\ DOMAIN s = 1..Len(s) /\ DOMAIN t = 1..Len(t) /\ DOMAIN u = 1..(Len(s) + Len(t))
  <2> HIDE DEF u
  <2>. QED BY <1>1, LenProperties
<1> HIDE DEF u
<1>3. \A i \in DOMAIN u : \/ i \in DOMAIN s /\ u[i] = s[i]
                          \/ /\ i > Len(s) /\ i - Len(s) \in DOMAIN t
                             /\ u[i] = t[i - Len(s)]
  <2> SUFFICES ASSUME NEW i \in DOMAIN u, i \notin DOMAIN s
               PROVE  /\ i > Len(s) /\ i - Len(s) \in DOMAIN t
                      /\ u[i] = t[i - Len(s)]
    BY <1>1, <1>2
  <2>1. i \in (Len(s) + 1)..(Len(s) + Len(t))
    BY <1>2
  <2>2. i - Len(s) \in 1..Len(t)
    BY <1>2, <2>1
  <2>. QED BY <1>1, <1>2, <2>1, <2>2
<1>4. ToSet(u) \subseteq ToSet(s) \cup ToSet(t)
  BY <1>3 DEF ToSet
<1>5. \A i \in DOMAIN s : i \in DOMAIN u /\ u[i] = s[i]
  BY <1>1, <1>2
<1>6. \A i \in DOMAIN t : Len(s) + i \in DOMAIN u /\ u[Len(s) + i] = t[i]
  <2> SUFFICES ASSUME NEW i \in DOMAIN t
               PROVE  Len(s) + i \in DOMAIN u /\ u[Len(s) + i] = t[i]
    OBVIOUS
  <2>1. i \in Nat /\ i >= 1 /\ i <= Len(t)
    BY <1>2
  <2>2. Len(s) + i \in (Len(s) + 1)..(Len(s) + Len(t)) /\ (Len(s) + i) - Len(s) = i
    BY <1>2, <2>1
  <2>3. Len(s) + i \in DOMAIN u
    BY <1>2, <2>1
  <2>. QED BY <1>1, <2>2, <2>3
<1>7. ToSet(s) \cup ToSet(t) \subseteq ToSet(u)
  BY <1>5, <1>6 DEF ToSet
<1>8. ASSUME Ascending(s), Ascending(t), Before(ToSet(s), ToSet(t))
      PROVE  Ascending(u)
  <2> SUFFICES ASSUME NEW i \in DOMAIN u, NEW k \in DOMAIN u, i < k
               PROVE  u[i] < u[k]
    BY DEF Ascending
  <2>1. i \in Nat /\ k \in Nat
    BY <1>2
  <2>2. CASE i \in DOMAIN s /\ k \in DOMAIN s
    BY <1>5, <1>8, <2>2 DEF Ascending
  <2>3. CASE i \in DOMAIN s /\ k \notin DOMAIN s
    BY <1>3, <1>8, <2>3 DEF Before, ToSet
  <2>4. CASE i \notin DOMAIN s
    <3>1. i > Len(s) /\ i - Len(s) \in DOMAIN t /\ u[i] = t[i - Len(s)]
      BY <1>3, <2>4
    <3>2. k \notin DOMAIN s
      BY <1>2, <2>1, <3>1
    <3>3. k - Len(s) \in DOMAIN t /\ u[k] = t[k - Len(s)]
      BY <1>3, <3>2
    <3>4. i - Len(s) < k - Len(s)
      BY <1>2, <2>1
    <3>. QED BY <1>8, <3>1, <3>3, <3>4 DEF Ascending
  <2>. QED BY <2>2, <2>3, <2>4
<1>. QED BY <1>1, <1>4, <1>7, <1>8 DEF u

\* Sequences of numbers, each ascending and before those that follow it.
Rising(seqs) ==
    /\ \A i \in DOMAIN seqs : Ascending(seqs[i])
    /\ \A i, k \in DOMAIN seqs : i < k => Before(ToSet(seqs[i]), ToSet(seqs[k]))
Members(seqs) == UNION {ToSet(seqs[i]) : i \in DOMAIN seqs}

(* What FlattenSeq makes of them.                                           *)
LEMMA FlattenRises ==
    ASSUME NEW seqs \in Seq(Seq(Nat))
    PROVE  /\ FlattenSeq(seqs) \in Seq(Nat)
           /\ ToSet(FlattenSeq(seqs)) = Members(seqs)
           /\ Rising(seqs) => Ascending(FlattenSeq(seqs))
<1> DEFINE N == Len(seqs)
<1>1. N \in Nat /\ DOMAIN seqs = 1..N /\ \A i \in 1..N : seqs[i] \in Seq(Nat)
  BY LenProperties, ElementOfSeq
<1>2. CASE N = 0
  <2>1. FlattenSeq(seqs) = seqs /\ DOMAIN seqs = {} /\ seqs = <<>>
    BY <1>1, <1>2, EmptySeq DEF FlattenSeq
  <2>. QED BY <2>1 DEF ToSet, Members, Ascending
<1>3. CASE N # 0
  <2>1. PICK f : IsJoin(f, seqs, N) /\ FlattenSeq(seqs) = f[N]
    BY <1>1, <1>3, FlattenJoins
  <2> HIDE DEF N
  <2>2. \A i \in 1..N : f[i] = IF i = 1 THEN seqs[i] ELSE f[i - 1] \o seqs[i]
    BY <2>1 DEF IsJoin
  <2> DEFINE Good(i) == /\ f[i] \in Seq(Nat)
                        /\ ToSet(f[i]) = UNION {ToSet(seqs[k]) : k \in 1..i}
                        /\ Rising(seqs) => Ascending(f[i])
             S == {i \in Nat : i \in 1..N => Good(i)}
  <2>3. 0 \in S
    OBVIOUS
  <2>4. ASSUME NEW i \in Nat, i \in S
        PROVE  i + 1 \in S
    <3> SUFFICES ASSUME i + 1 \in 1..N PROVE Good(i + 1)
      OBVIOUS
    <3>1. CASE i = 0
      <4>1. f[1] = seqs[1] /\ 1 \in 1..N /\ 1..1 = {1}
        BY <1>1, <2>2, <3>1
      <4>2. f[1] \in Seq(Nat) /\ ToSet(f[1]) = UNION {ToSet(seqs[k]) : k \in 1..1}
        BY <1>1, <4>1
      <4>3. Rising(seqs) => Ascending(f[1])
        BY <1>1, <4>1 DEF Rising
      <4>4. Good(1)
        BY <4>2, <4>3
      <4>. QED BY <3>1, <4>4
    <3>2. CASE i # 0
      <4>1. i \in 1..N /\ i + 1 # 1 /\ (i + 1) - 1 = i
        BY <1>1, <3>2
      <4>2. f[i + 1] = f[i] \o seqs[i + 1]
        BY <2>2, <4>1
      <4>3. Good(i)
        BY <2>4, <4>1
      <4>4. seqs[i + 1] \in Seq(Nat)
        BY <1>1
      <4>5. 1..(i + 1) = 1..i \cup {i + 1}
        OBVIOUS
      <4>6. ToSet(f[i + 1]) = ToSet(f[i]) \cup ToSet(seqs[i + 1]) /\ f[i + 1] \in Seq(Nat)
        BY <4>2, <4>3, <4>4, JoinedAscend
      <4>7. ToSet(f[i + 1]) = UNION {ToSet(seqs[k]) : k \in 1..(i + 1)}
        BY <4>3, <4>5, <4>6
      <4>8. ASSUME Rising(seqs)
            PROVE  Ascending(f[i + 1])
        <5>1. \A k \in 1..i : k \in DOMAIN seqs /\ k < i + 1
          BY <1>1, <4>1
        <5>2. Before(ToSet(f[i]), ToSet(seqs[i + 1]))
          BY <1>1, <4>3, <4>8, <5>1 DEF Rising, Before
        <5>3. Ascending(seqs[i + 1]) /\ Ascending(f[i])
          BY <1>1, <4>3, <4>8 DEF Rising
        <5>. QED BY <4>2, <4>3, <4>4, <5>2, <5>3, JoinedAscend
      <4>. QED BY <4>6, <4>7, <4>8
    <3>. QED BY <3>1, <3>2
  <2>5. N \in S
    <3> HIDE DEF S
    <3>. QED BY <1>1, <2>3, <2>4, EveryNumber
  <2>6. Good(N) /\ N \in 1..N
    BY <1>1, <1>3, <2>5
  <2>. QED BY <1>1, <2>1, <2>6 DEF Members
<1>. QED BY <1>2, <1>3

(* The last number of an ascending sequence is the largest.                 *)
LEMMA LastIsMost ==
    ASSUME NEW s \in Seq(Nat), s # <<>>, Ascending(s)
    PROVE  /\ Last(s) \in ToSet(s)
           /\ \A n \in ToSet(s) : n <= Last(s)
           /\ \A n \in ToSet(s) : (\A m \in ToSet(s) : m <= n) => n = Last(s)
<1>1. /\ Len(s) \in Nat /\ Len(s) # 0 /\ DOMAIN s = 1..Len(s)
      /\ \A i \in DOMAIN s : s[i] \in Nat
  BY LenProperties, EmptySeq, ElementOfSeq
<1>2. Len(s) \in DOMAIN s /\ Last(s) = s[Len(s)]
  BY <1>1 DEF Last
<1>3. \A i \in DOMAIN s : s[i] <= s[Len(s)]
  <2> SUFFICES ASSUME NEW i \in DOMAIN s PROVE s[i] <= s[Len(s)]
    OBVIOUS
  <2>1. i = Len(s) \/ i < Len(s)
    BY <1>1
  <2>. QED BY <1>1, <1>2, <2>1 DEF Ascending
<1>4. Last(s) \in ToSet(s) /\ \A n \in ToSet(s) : n <= Last(s) /\ n \in Nat
  BY <1>1, <1>2, <1>3 DEF ToSet
<1>. QED BY <1>4

-----------------------------------------------------------------------------
(* The dispatcher (channels/manager.py)                                     *)

\* What the queue and the boundary hold is what was published, unmerged; what
\* is being sent, and was sent, may be merged.
Letter == [channel : Channel,
           kind : StreamKind \cup {"progress", "streamed", "other", "answer", "followup"},
           stream : Stream \cup {Nil}, origin : Origin \cup {Nil}, text : Text \cup {Nil}]
Item == [msg : Letter, parts : Seq(Nat)]
Numbers(q) == UNION {ToSet(q[i].parts) : i \in DOMAIN q}
Waiting == Numbers(pending) \cup Numbers(outbound)

Raw(e) == \E n \in DOMAIN published : e = Entry(published[n], n)
RawQueue(q) ==
    /\ q \in Seq(Item)
    /\ \A i \in DOMAIN q : Raw(q[i])
    /\ \A i, k \in DOMAIN q : i < k => q[i].parts[1] < q[k].parts[1]

\* One stream, and nothing after its end.
Whole(e) ==
    /\ e \in Item /\ e.parts # <<>> /\ Ascending(e.parts)
    /\ \A n \in ToSet(e.parts) :
          /\ n \in DOMAIN published
          /\ published[n].channel = e.msg.channel
          /\ published[n].stream = e.msg.stream
          /\ published[n].kind \in {"end", "close"} => n = Last(e.parts)
    /\ e.msg.kind = published[Last(e.parts)].kind
    /\ Raw(e) \/ \A n \in ToSet(e.parts) : published[n].kind \in {"delta", "end"}
WholeOnes(q) ==
    /\ q \in Seq(Item)
    /\ \A i \in DOMAIN q : Whole(q[i])
    /\ \A i, k \in DOMAIN q :
          i < k => Before(ToSet(q[i].parts), ToSet(q[k].parts))

\* Where the numbers are.
Placed ==
    LET sendings == ToSet(sending.parts)
        waiting == Numbers(pending) \cup Numbers(outbound)
        all == Numbers(sent) \cup sendings \cup waiting
    IN  /\ Before(Numbers(sent), sendings)
        /\ Before(Numbers(sent) \cup sendings \cup DOMAIN dropped, waiting)
        /\ Before(Numbers(pending), Numbers(outbound))
        /\ all \cap DOMAIN dropped = {}
        /\ all \cup DOMAIN dropped = DOMAIN published

DInv ==
    /\ published \in Seq(Message)
    /\ RawQueue(outbound) /\ RawQueue(pending) /\ Len(pending) <= 1
    /\ sending = Nothing \/ Whole(sending)
    /\ WholeOnes(sent)
    /\ Placed

\* An answer that was accepted for sending.
Accepted(k) ==
    /\ k \in DOMAIN published \ Waiting
    /\ published[k].kind \in {"answer", "followup"}
    /\ k \in DOMAIN dropped => dropped[k] = "exhausted"
Says(k, channel, origin, text) ==
    /\ published[k].channel = channel /\ published[k].origin = origin
    /\ published[k].text = text

\* A fingerprint is that of an accepted answer, and so is a repetition.
RInv ==
    /\ fingerprints = [p \in Channel \X Origin |-> fingerprints[p]]
    /\ \A c \in Channel, o \in Origin : fingerprints[<<c, o>>] # Nil =>
          \E k \in DOMAIN published : Accepted(k) /\ Says(k, c, o, fingerprints[<<c, o>>])
    /\ \A n \in DOMAIN dropped : dropped[n] = "repeated" =>
          \E k \in DOMAIN published :
             /\ k < n /\ Accepted(k)
             /\ Says(k, published[n].channel, published[n].origin, published[n].text)

(* What was published, as it stands in the queue (OutboundMessage).         *)
LEMMA RawReads ==
    ASSUME published \in Seq(Message), NEW e, Raw(e)
    PROVE  LET n == e.parts[1]
           IN  /\ n \in DOMAIN published /\ n \in Nat /\ e \in Item
               /\ e.parts = <<n>> /\ ToSet(e.parts) = {n} /\ Last(e.parts) = n
               /\ e.msg = published[n] /\ published[n] \in Message
               /\ e # Nothing
<1>1. PICK n \in DOMAIN published : e = Entry(published[n], n)
  BY DEF Raw
<1>2. n \in Nat /\ published[n] \in Message
  BY LenProperties, ElementOfSeq
<1>3. published[n] \in Letter
  BY <1>2 DEF Message, Letter, StreamKind
<1>4. e.msg = published[n] /\ e.parts = <<n>> /\ e = [msg |-> e.msg, parts |-> e.parts]
  BY <1>1 DEF Entry
<1>5. <<n>> \in Seq(Nat) /\ <<n>>[1] = n /\ Len(<<n>>) = 1
  BY <1>2
<1>6. e \in Item
  BY <1>3, <1>4, <1>5 DEF Item
<1>7. ToSet(<<n>>) = {n} /\ Last(<<n>>) = n
  BY <1>5 DEF ToSet, Last
<1>8. e # Nothing
  <2>1. Nothing.parts = <<>>
    BY DEF Nothing
  <2>2. <<n>> # <<>>
    OBVIOUS
  <2>3. e.parts # Nothing.parts
    BY <1>4, <2>1, <2>2
  <2>. QED BY <2>3
<1>. QED BY <1>2, <1>4, <1>5, <1>6, <1>7, <1>8

LEMMA RawIsWhole ==
    ASSUME published \in Seq(Message), NEW e, Raw(e)
    PROVE  Whole(e)
<1>1. PICK n : n = e.parts[1]
  OBVIOUS
<1>2. /\ n \in DOMAIN published /\ n \in Nat /\ e \in Item
      /\ e.parts = <<n>> /\ ToSet(e.parts) = {n} /\ Last(e.parts) = n
      /\ e.msg = published[n]
  BY <1>1, RawReads
<1>3. e.parts # <<>> /\ Ascending(e.parts)
  BY <1>2 DEF Ascending
<1>. QED BY <1>2, <1>3 DEF Whole

LEMMA RawNumbers ==
    ASSUME published \in Seq(Message), NEW q, RawQueue(q)
    PROVE  /\ Numbers(q) = {q[i].parts[1] : i \in DOMAIN q}
           /\ \A i \in DOMAIN q : /\ q[i].parts[1] \in DOMAIN published
                                  /\ q[i].parts[1] \in Nat
                                  /\ q[i].parts = <<q[i].parts[1]>>
<1>1. \A i \in DOMAIN q : /\ ToSet(q[i].parts) = {q[i].parts[1]}
                          /\ q[i].parts[1] \in DOMAIN published
                          /\ q[i].parts[1] \in Nat
                          /\ q[i].parts = <<q[i].parts[1]>>
  BY RawReads DEF RawQueue
<1>2. Numbers(q) = UNION {{q[i].parts[1]} : i \in DOMAIN q}
  BY <1>1 DEF Numbers
<1>. QED BY <1>1, <1>2

\* s is what is left of q after d items.
Left(q, d, s) ==
    /\ d \in 0..Len(q) /\ s \in Seq(Item) /\ Len(s) = Len(q) - d
    /\ \A i \in 1..Len(s) : s[i] = q[d + i]

(* What is left of a queue is a queue.                                      *)
LEMMA LeftIsRaw ==
    ASSUME published \in Seq(Message), NEW q, RawQueue(q), NEW d, NEW s, Left(q, d, s)
    PROVE  /\ RawQueue(s)
           /\ Numbers(s) = {q[i].parts[1] : i \in (d + 1)..Len(q)}
<1>1. /\ Len(q) \in Nat /\ DOMAIN q = 1..Len(q) /\ DOMAIN s = 1..Len(s)
      /\ d \in Nat /\ Len(s) = Len(q) - d
  BY LenProperties DEF RawQueue, Left
<1>2. \A i \in DOMAIN s : d + i \in DOMAIN q /\ s[i] = q[d + i]
  BY <1>1 DEF Left
<1>3. RawQueue(s)
  <2>1. \A i, k \in DOMAIN s : i < k => s[i].parts[1] < s[k].parts[1]
    <3> SUFFICES ASSUME NEW i \in DOMAIN s, NEW k \in DOMAIN s, i < k
                 PROVE  s[i].parts[1] < s[k].parts[1]
      OBVIOUS
    <3>1. d + i < d + k
      BY <1>1
    <3>. QED BY <1>2, <3>1 DEF RawQueue
  <2>. QED BY <1>2, <2>1 DEF RawQueue, Left
<1>4. Numbers(s) = {s[i].parts[1] : i \in DOMAIN s}
  BY <1>3, RawNumbers
<1>5. \A k \in (d + 1)..Len(q) : k - d \in DOMAIN s /\ d + (k - d) = k
  BY <1>1
<1>6. \A i \in DOMAIN s : d + i \in (d + 1)..Len(q)
  BY <1>1
<1>. QED BY <1>2, <1>3, <1>4, <1>5, <1>6

LEMMA LeftOvers ==
    ASSUME NEW q \in Seq(Item), NEW d \in 0..Len(q), NEW s, Left(q, d, s)
    PROVE  s # <<>> => /\ d + 1 \in 1..Len(q) /\ Head(s) = q[d + 1]
                       /\ Left(q, d + 1, Tail(s))
<1> SUFFICES ASSUME s # <<>>
             PROVE  /\ d + 1 \in 1..Len(q) /\ Head(s) = q[d + 1]
                    /\ Left(q, d + 1, Tail(s))
  OBVIOUS
<1>1. /\ Len(q) \in Nat /\ Len(s) \in Nat /\ Len(s) # 0 /\ s \in Seq(Item)
      /\ Len(s) = Len(q) - d /\ d \in Nat
  BY LenProperties, EmptySeq DEF Left
<1>2. Head(s) = s[1] /\ Tail(s) \in Seq(Item) /\ Len(Tail(s)) = Len(s) - 1
      /\ \A i \in 1..Len(Tail(s)) : Tail(s)[i] = s[i + 1]
  BY <1>1, HeadTailProperties
<1>3. d + 1 \in 1..Len(q) /\ s[1] = q[d + 1]
  BY <1>1 DEF Left
<1>4. \A i \in 1..Len(Tail(s)) : Tail(s)[i] = q[(d + 1) + i]
  <2> SUFFICES ASSUME NEW i \in 1..Len(Tail(s)) PROVE Tail(s)[i] = q[(d + 1) + i]
    OBVIOUS
  <2>1. i + 1 \in 1..Len(s) /\ d + (i + 1) = (d + 1) + i
    BY <1>1, <1>2
  <2>. QED BY <1>2, <2>1 DEF Left
<1>5. Len(Tail(s)) = Len(q) - (d + 1)
  BY <1>1, <1>2
<1>. QED BY <1>2, <1>3, <1>4, <1>5 DEF Left

(* How far a merge goes: as long as the next message joins                  *)
(* (_coalesce_stream_deltas).                                               *)
LEMMA TakenJoins ==
    ASSUME NEW first, NEW q \in Seq(Item)
    PROVE  LET k == Taken(first, q)
           IN  /\ k \in 0..Len(q)
               /\ \A i \in 1..k : Joins(first, q[i])
               /\ \A i \in 1..(k - 1) : q[i].msg.kind = "delta"
<1> DEFINE Fits(k) == /\ \A i \in 1..k : Joins(first, q[i])
                      /\ \A i \in 1..(k - 1) : q[i].msg.kind = "delta"
           Stops(k) == k = Len(q) \/ ~Fits(k + 1)
           N == Len(q)
<1>1. Taken(first, q) = CHOOSE k \in 0..N : Fits(k) /\ Stops(k)
  BY DEF Taken
<1>2. N \in Nat
  BY LenProperties
<1>3. Fits(0)
  OBVIOUS
<1> HIDE DEF Fits, N
<1>4. \E k \in 0..N : Fits(k) /\ (k = N \/ ~Fits(k + 1))
  <2> SUFFICES ASSUME \A k \in 0..N : Fits(k) => k # N /\ Fits(k + 1)
               PROVE  FALSE
    OBVIOUS
  <2> DEFINE S == {k \in Nat : k \in 0..N => Fits(k)}
  <2>1. 0 \in S
    BY <1>3
  <2>2. ASSUME NEW k \in Nat, k \in S
        PROVE  k + 1 \in S
    BY <2>2, <1>2
  <2>3. N \in S
    <3> HIDE DEF S
    <3>. QED BY <1>2, <2>1, <2>2, EveryNumber
  <2>. QED BY <1>2, <2>3
<1>5. Taken(first, q) \in 0..N /\ Fits(Taken(first, q))
  BY <1>1, <1>4 DEF N
<1>. QED BY <1>5 DEF Fits, N

\* The numbers of a stretch of the queue.
Stretch(q, a, b) == {q[i].parts[1] : i \in a..b}

(* A merge is one stream, as far as its end (_coalesce_stream_deltas).      *)
LEMMA MergedIsWhole ==
    ASSUME published \in Seq(Message), NEW first, Raw(first), first.msg.kind = "delta",
           NEW q, RawQueue(q), \A i \in DOMAIN q : first.parts[1] < q[i].parts[1],
           NEW k \in 0..Len(q),
           \A i \in 1..k : Joins(first, q[i]),
           \A i \in 1..(k - 1) : q[i].msg.kind = "delta"
    PROVE  LET m == Merge(first, SubSeq(q, 1, k))
           IN  /\ Whole(m) /\ m.msg.kind \in {"delta", "end"}
               /\ ToSet(m.parts) = {first.parts[1]} \cup Stretch(q, 1, k)
<1> DEFINE taken == SubSeq(q, 1, k)
           all == <<first>> \o taken
           ps == [i \in DOMAIN all |-> all[i].parts]
<1>1. Len(q) \in Nat /\ DOMAIN q = 1..Len(q) /\ k \in Nat /\ q \in Seq(Item)
  BY LenProperties DEF RawQueue
<1>2. /\ taken \in Seq(Item) /\ Len(taken) = k
      /\ \A i \in 1..k : taken[i] = q[i]
  <2>1. \A i \in 1..k : q[i] \in Item
    BY <1>1, ElementOfSeq
  <2>2. /\ SubSeq(q, 1, k) \in Seq(Item)
        /\ Len(SubSeq(q, 1, k)) = IF 1 <= k THEN k - 1 + 1 ELSE 0
        /\ \A i \in 1..(k - 1 + 1) : SubSeq(q, 1, k)[i] = q[1 + i - 1]
    BY <1>1, <2>1, SubSeqProperties
  <2>. QED BY <1>1, <2>2
<1>3. first \in Item /\ <<first>> \in Seq(Item) /\ Len(<<first>>) = 1 /\ <<first>>[1] = first
  BY RawReads
<1> HIDE DEF taken
<1>4. /\ all \in Seq(Item) /\ Len(all) = k + 1 /\ DOMAIN all = 1..(k + 1)
      /\ all[1] = first /\ \A i \in 1..k : all[i + 1] = q[i]
  <2>1. /\ all \in Seq(Item) /\ Len(all) = 1 + k
        /\ \A i \in 1..1 : all[i] = <<first>>[i]
        /\ \A i \in 2..(1 + k) : all[i] = taken[i - 1]
    <3>1. /\ all \in Seq(Item) /\ Len(all) = Len(<<first>>) + Len(taken)
          /\ \A i \in 1..Len(<<first>>) : all[i] = <<first>>[i]
          /\ \A i \in (Len(<<first>>) + 1)..(Len(<<first>>) + Len(taken)) :
                all[i] = taken[i - Len(<<first>>)]
      BY <1>2, <1>3, ConcatProperties
    <3> HIDE DEF all
    <3>. QED BY <1>1, <1>2, <1>3, <3>1
  <2> HIDE DEF all
  <2>2. \A i \in 1..k : i + 1 \in 2..(1 + k) /\ (i + 1) - 1 = i
    BY <1>1
  <2>. QED BY <1>1, <1>2, <1>3, <2>1, <2>2, LenProperties
<1> DEFINE num(i) == all[i].parts[1]
<1>5. \A i \in 1..(k + 1) : i = 1 \/ \E h \in 1..k : i = h + 1 /\ all[i] = q[h]
  <2> HIDE DEF all
  <2> SUFFICES ASSUME NEW i \in 1..(k + 1), i # 1
               PROVE  \E h \in 1..k : i = h + 1 /\ all[i] = q[h]
    OBVIOUS
  <2>1. i - 1 \in 1..k /\ i = (i - 1) + 1
    BY <1>1
  <2>2. all[i] = q[i - 1]
    BY <1>4, <2>1
  <2>. QED BY <2>1, <2>2
<1>6. \A i \in 1..(k + 1) : Raw(all[i])
  <2> HIDE DEF all
  <2> SUFFICES ASSUME NEW i \in 1..(k + 1) PROVE Raw(all[i])
    OBVIOUS
  <2>1. CASE i = 1
    BY <1>4, <2>1
  <2>2. CASE i # 1
    <3>1. PICK h \in 1..k : all[i] = q[h]
      BY <1>5, <2>2
    <3>2. h \in DOMAIN q
      BY <1>1
    <3>. QED BY <3>1, <3>2 DEF RawQueue
  <2>. QED BY <2>1, <2>2
<1>7. \A i \in 1..(k + 1) :
         /\ num(i) \in DOMAIN published /\ num(i) \in Nat /\ all[i].parts = <<num(i)>>
         /\ ToSet(all[i].parts) = {num(i)} /\ all[i].msg = published[num(i)]
  <2> HIDE DEF all
  <2>. QED BY <1>6, RawReads
<1> HIDE DEF all
<1>8. \A i, h \in 1..(k + 1) : i < h => num(i) < num(h)
  <2> SUFFICES ASSUME NEW i \in 1..(k + 1), NEW h \in 1..(k + 1), i < h
               PROVE  num(i) < num(h)
    OBVIOUS
  <2>1. h # 1
    BY <1>1
  <2>2. PICK h1 \in 1..k : h = h1 + 1 /\ all[h] = q[h1]
    BY <1>5, <2>1
  <2>3. CASE i = 1
    BY <1>1, <1>4, <2>2, <2>3
  <2>4. CASE i # 1
    <3>1. PICK i1 \in 1..k : i = i1 + 1 /\ all[i] = q[i1]
      BY <1>5, <2>4
    <3>2. i1 < h1 /\ i1 \in DOMAIN q /\ h1 \in DOMAIN q
      BY <1>1, <2>2, <3>1
    <3>. QED BY <2>2, <3>1, <3>2 DEF RawQueue
  <2>. QED BY <2>3, <2>4
<1>9. ps \in Seq(Seq(Nat)) /\ DOMAIN ps = 1..(k + 1)
  <2>1. \A i \in 1..(k + 1) : <<num(i)>> \in Seq(Nat)
    BY <1>7
  <2>2. \A i \in 1..(k + 1) : all[i].parts \in Seq(Nat)
    BY <1>7, <2>1
  <2>. QED BY <1>1, <1>4, <2>2, SeqDef
<1>10. \A i \in 1..(k + 1) : ps[i] = <<num(i)>> /\ ToSet(ps[i]) = {num(i)}
  BY <1>4, <1>7
<1>11. ps = [i \in DOMAIN all |-> all[i].parts]
  OBVIOUS
<1> HIDE DEF ps, num
<1>12. Rising(ps)
  <2>1. \A i \in 1..(k + 1) : Ascending(ps[i])
    BY <1>10 DEF Ascending
  <2>2. \A i, h \in 1..(k + 1) : i < h => Before(ToSet(ps[i]), ToSet(ps[h]))
    BY <1>8, <1>10 DEF Before
  <2>. QED BY <1>9, <2>1, <2>2 DEF Rising
<1>13. Members(ps) = {num(i) : i \in 1..(k + 1)}
  <2>1. Members(ps) = UNION {{num(i)} : i \in 1..(k + 1)}
    BY <1>9, <1>10 DEF Members
  <2>. QED BY <2>1
<1> DEFINE m == Merge(first, SubSeq(q, 1, k))
<1>14. m = [msg |-> [first.msg EXCEPT !.kind = Last(all).msg.kind],
            parts |-> FlattenSeq(ps)]
  BY <1>11 DEF Merge, all, taken
<1>15. Last(all) = all[k + 1] /\ k + 1 \in 1..(k + 1)
  BY <1>1, <1>4 DEF Last
<1>16. /\ m.parts \in Seq(Nat) /\ Ascending(m.parts)
       /\ ToSet(m.parts) = {num(i) : i \in 1..(k + 1)}
  BY <1>9, <1>12, <1>13, <1>14, FlattenRises
<1>17. m.parts # <<>>
  <2> HIDE DEF m
  <2>1. 1 \in 1..(k + 1)
    BY <1>1
  <2>2. num(1) \in ToSet(m.parts)
    BY <1>16, <2>1
  <2>3. ToSet(<<>>) = {}
    BY DEF ToSet
  <2>. QED BY <2>2, <2>3
<1>18. Last(m.parts) = num(k + 1)
  <2>1. \A i \in 1..(k + 1) : num(i) <= num(k + 1)
    <3> SUFFICES ASSUME NEW i \in 1..(k + 1) PROVE num(i) <= num(k + 1)
      OBVIOUS
    <3>1. i = k + 1 \/ i < k + 1
      BY <1>1
    <3>. QED BY <1>7, <1>8, <1>15, <3>1 DEF num
  <2>2. num(k + 1) \in ToSet(m.parts) /\ \A n \in ToSet(m.parts) : n <= num(k + 1)
    BY <1>15, <1>16, <2>1
  <2> HIDE DEF m
  <2>. QED BY <1>16, <1>17, <2>2, LastIsMost
<1>19. first.msg \in Letter /\ all[k + 1].msg \in Letter
  <2>1. all[k + 1] \in Item
    BY <1>4, <1>15, ElementOfSeq
  <2>2. \A e \in Item : e.msg \in Letter
    BY DEF Item
  <2>. QED BY <1>3, <2>1, <2>2
<1>20. /\ m.msg \in Letter /\ m.msg.kind = all[k + 1].msg.kind
       /\ m.msg.channel = first.msg.channel /\ m.msg.stream = first.msg.stream
       /\ m = [msg |-> m.msg, parts |-> m.parts]
  BY <1>14, <1>15, <1>19 DEF Letter
<1> HIDE DEF m
<1>21. \A i \in 1..(k + 1) :
          /\ published[num(i)].channel = first.msg.channel
          /\ published[num(i)].stream = first.msg.stream
          /\ published[num(i)].kind \in {"delta", "end"}
          /\ i # k + 1 => published[num(i)].kind = "delta"
  <2> SUFFICES ASSUME NEW i \in 1..(k + 1)
               PROVE  /\ all[i].msg.channel = first.msg.channel
                      /\ all[i].msg.stream = first.msg.stream
                      /\ all[i].msg.kind \in {"delta", "end"}
                      /\ i # k + 1 => all[i].msg.kind = "delta"
    BY <1>7 DEF num
  <2>1. CASE i = 1
    BY <1>4, <2>1
  <2>2. CASE i # 1
    <3>1. PICK h \in 1..k : i = h + 1 /\ all[i] = q[h]
      BY <1>5, <2>2
    <3>2. i # k + 1 => h \in 1..(k - 1)
      BY <1>1, <3>1
    <3>. QED BY <3>1, <3>2 DEF Joins
  <2>. QED BY <2>1, <2>2
<1>22. m.msg.kind = published[num(k + 1)].kind
  BY <1>7, <1>15, <1>20 DEF num
<1>23. Whole(m)
  <2>1. m \in Item
    BY <1>16, <1>20 DEF Item
  <2>2. \A n \in ToSet(m.parts) :
           /\ n \in DOMAIN published
           /\ published[n].channel = m.msg.channel
           /\ published[n].stream = m.msg.stream
           /\ published[n].kind \in {"end", "close"} => n = Last(m.parts)
           /\ published[n].kind \in {"delta", "end"}
    BY <1>7, <1>16, <1>18, <1>20, <1>21 DEF num
  <2>. QED BY <1>16, <1>17, <1>18, <1>22, <2>1, <2>2 DEF Whole
<1>24. ToSet(m.parts) = {first.parts[1]} \cup {q[i].parts[1] : i \in 1..k}
  <2>1. num(1) = first.parts[1] /\ \A i \in 1..k : num(i + 1) = q[i].parts[1]
    BY <1>4 DEF num
  <2>2. \A i \in 1..(k + 1) : i = 1 \/ \E h \in 1..k : i = h + 1
    BY <1>5
  <2>3. 1 \in 1..(k + 1) /\ \A h \in 1..k : h + 1 \in 1..(k + 1)
    BY <1>1
  <2>4. ASSUME NEW n \in ToSet(m.parts)
        PROVE  n \in {first.parts[1]} \cup {q[i].parts[1] : i \in 1..k}
    <3>1. PICK i \in 1..(k + 1) : n = num(i)
      BY <1>16
    <3>2. i = 1 \/ \E h \in 1..k : i = h + 1
      BY <2>2
    <3>. QED BY <2>1, <3>1, <3>2
  <2>5. ASSUME NEW n \in {first.parts[1]} \cup {q[i].parts[1] : i \in 1..k}
        PROVE  n \in {num(i) : i \in 1..(k + 1)}
    <3>1. CASE n = first.parts[1]
      BY <2>1, <2>3, <3>1
    <3>2. CASE \E h \in 1..k : n = q[h].parts[1]
      <4>1. PICK h \in 1..k : n = q[h].parts[1]
        BY <3>2
      <4>. QED BY <2>1, <2>3, <4>1
    <3>. QED BY <3>1, <3>2
  <2>. QED BY <1>16, <2>4, <2>5
<1>25. m.msg.kind \in {"delta", "end"}
  BY <1>15, <1>21, <1>22
<1>26. ToSet(m.parts) = {first.parts[1]} \cup Stretch(q, 1, k)
  BY <1>24 DEF Stretch
<1>. QED BY <1>23, <1>25, <1>26 DEF m

(* The message that stopped a merge waits apart from the queue behind it.   *)
LEMMA PartedIsRaw ==
    ASSUME published \in Seq(Message), NEW q, RawQueue(q), NEW k \in 0..Len(q),
           NEW p, NEW s,
           \/ p = <<>> /\ Left(q, k, s)
           \/ k + 1 \in 1..Len(q) /\ p = <<q[k + 1]>> /\ Left(q, k + 1, s)
    PROVE  /\ RawQueue(p) /\ Len(p) <= 1 /\ RawQueue(s)
           /\ Numbers(p) \cup Numbers(s) = {q[i].parts[1] : i \in (k + 1)..Len(q)}
           /\ Before(Numbers(p), Numbers(s))
<1>1. Len(q) \in Nat /\ DOMAIN q = 1..Len(q) /\ k \in Nat /\ q \in Seq(Item)
  BY LenProperties DEF RawQueue
<1>2. CASE p = <<>> /\ Left(q, k, s)
  <2>1. RawQueue(<<>>) /\ Len(<<>>) = 0 /\ Numbers(<<>>) = {}
    BY DEF RawQueue, Numbers
  <2>2. RawQueue(s) /\ Numbers(s) = {q[i].parts[1] : i \in (k + 1)..Len(q)}
    BY <1>2, LeftIsRaw
  <2>. QED BY <1>2, <2>1, <2>2 DEF Before
<1>3. CASE k + 1 \in 1..Len(q) /\ p = <<q[k + 1]>> /\ Left(q, k + 1, s)
  <2> DEFINE n == q[k + 1].parts[1]
  <2>1. Raw(q[k + 1]) /\ q[k + 1] \in Item /\ k + 1 \in DOMAIN q
    BY <1>1, <1>3, ElementOfSeq DEF RawQueue
  <2>2. /\ p \in Seq(Item) /\ Len(p) = 1 /\ DOMAIN p = {1} /\ p[1] = q[k + 1]
    BY <1>3, <2>1
  <2>3. RawQueue(p)
    BY <2>1, <2>2 DEF RawQueue
  <2>4. Numbers(p) = {n}
    <3>1. ToSet(p[1].parts) = {n}
      BY <2>1, <2>2, RawReads
    <3>. QED BY <2>2, <3>1 DEF Numbers
  <2>5. RawQueue(s) /\ Numbers(s) = {q[i].parts[1] : i \in ((k + 1) + 1)..Len(q)}
    BY <1>3, LeftIsRaw
  <2>6. Before(Numbers(p), Numbers(s))
    <3> SUFFICES ASSUME NEW i \in ((k + 1) + 1)..Len(q)
                 PROVE  n < q[i].parts[1]
      BY <2>4, <2>5 DEF Before
    <3>1. i \in DOMAIN q /\ k + 1 < i
      BY <1>1
    <3>. QED BY <2>1, <3>1 DEF RawQueue
  <2>7. (k + 1)..Len(q) = {k + 1} \cup ((k + 1) + 1)..Len(q)
    BY <1>1, <1>3
  <2>8. {q[i].parts[1] : i \in (k + 1)..Len(q)} = {n} \cup Numbers(s)
    BY <2>5, <2>7
  <2> HIDE DEF n
  <2>9. Numbers(p) \cup Numbers(s) = {n} \cup Numbers(s)
    BY <2>4
  <2>10. Numbers(p) \cup Numbers(s) = {q[i].parts[1] : i \in (k + 1)..Len(q)}
    BY <2>8, <2>9
  <2>. QED BY <2>2, <2>3, <2>5, <2>6, <2>10
<1>. QED BY <1>2, <1>3

(* A merge takes a stretch of the queue and leaves the rest in order        *)
(* (_coalesce_stream_deltas).                                               *)
LEMMA CoalescedKeepsOrder ==
    ASSUME published \in Seq(Message), NEW first, Raw(first), first.msg.kind = "delta",
           NEW q, RawQueue(q), \A i \in DOMAIN q : first.parts[1] < q[i].parts[1]
    PROVE  LET c == _coalesce_stream_deltas(first, q)
           IN  /\ Whole(c.merged)
               /\ RawQueue(c.pending) /\ Len(c.pending) <= 1 /\ RawQueue(c.queue)
               /\ ToSet(c.merged.parts) \cup (Numbers(c.pending) \cup Numbers(c.queue))
                    = {first.parts[1]} \cup Numbers(q)
               /\ Before(ToSet(c.merged.parts), Numbers(c.pending) \cup Numbers(c.queue))
               /\ Before(Numbers(c.pending), Numbers(c.queue))
<1> DEFINE k == Taken(first, q)
           rest == SubSeq(q, k + 1, Len(q))
           ended == k > 0 /\ q[k].msg.kind = "end"
           boundary == IF ended \/ rest = <<>> THEN <<>> ELSE <<Head(rest)>>
           queue == IF boundary = <<>> THEN rest ELSE Tail(rest)
           m == Merge(first, SubSeq(q, 1, k))
           c == _coalesce_stream_deltas(first, q)
<1>1. Len(q) \in Nat /\ DOMAIN q = 1..Len(q) /\ q \in Seq(Item)
  BY LenProperties DEF RawQueue
<1>2. /\ k \in 0..Len(q)
      /\ \A i \in 1..k : Joins(first, q[i])
      /\ \A i \in 1..(k - 1) : q[i].msg.kind = "delta"
  BY <1>1, TakenJoins
<1>3. c.merged = m /\ c.pending = boundary /\ c.queue = queue
  BY DEF _coalesce_stream_deltas
<1> HIDE DEF k, c, m
<1>4. Whole(m) /\ ToSet(m.parts) = {first.parts[1]} \cup {q[i].parts[1] : i \in 1..k}
  <2>1. /\ Whole(Merge(first, SubSeq(q, 1, k)))
        /\ ToSet(Merge(first, SubSeq(q, 1, k)).parts)
             = {first.parts[1]} \cup Stretch(q, 1, k)
    BY <1>2, MergedIsWhole
  <2>. QED BY <2>1 DEF m, Stretch
<1>5. Left(q, k, rest)
  <2>1. \A i \in (k + 1)..Len(q) : q[i] \in Item
    BY <1>1, <1>2, ElementOfSeq
  <2>2. k + 1 \in Int /\ Len(q) \in Int
    BY <1>1, <1>2
  <2>3. /\ rest \in Seq(Item)
        /\ Len(rest) = IF k + 1 <= Len(q) THEN Len(q) - (k + 1) + 1 ELSE 0
        /\ \A i \in 1..(Len(q) - (k + 1) + 1) : rest[i] = q[(k + 1) + i - 1]
    BY <2>1, <2>2, SubSeqProperties
  <2> HIDE DEF rest
  <2>4. Len(rest) = Len(q) - k
    <3>1. k \in Int /\ k <= Len(q) /\ Len(q) \in Int
      BY <1>1, <1>2
    <3>2. CASE k + 1 <= Len(q)
      BY <2>3, <3>1, <3>2
    <3>3. CASE ~(k + 1 <= Len(q))
      BY <2>3, <3>1, <3>3
    <3>. QED BY <3>2, <3>3
  <2>5. \A i \in 1..Len(rest) : i \in 1..(Len(q) - (k + 1) + 1) /\ (k + 1) + i - 1 = k + i
    BY <1>1, <1>2, <2>4
  <2>. QED BY <1>2, <2>3, <2>4, <2>5 DEF Left
<1> HIDE DEF rest, ended
<1>6. \/ boundary = <<>> /\ Left(q, k, queue)
      \/ k + 1 \in 1..Len(q) /\ boundary = <<q[k + 1]>> /\ Left(q, k + 1, queue)
  <2>1. CASE ended \/ rest = <<>>
    BY <1>5, <2>1
  <2>2. CASE ~(ended \/ rest = <<>>)
    <3>1. k + 1 \in 1..Len(q) /\ Head(rest) = q[k + 1] /\ Left(q, k + 1, Tail(rest))
      BY <1>1, <1>2, <1>5, <2>2, LeftOvers
    <3>2. boundary = <<Head(rest)>> /\ <<Head(rest)>> # <<>>
      BY <2>2
    <3>. QED BY <3>1, <3>2
  <2>. QED BY <2>1, <2>2
<1> HIDE DEF boundary, queue
<1> DEFINE later == {q[i].parts[1] : i \in (k + 1)..Len(q)}
<1>7. /\ RawQueue(boundary) /\ Len(boundary) <= 1 /\ RawQueue(queue)
      /\ Numbers(boundary) \cup Numbers(queue) = later
      /\ Before(Numbers(boundary), Numbers(queue))
  BY <1>2, <1>6, PartedIsRaw
<1>8. Before(ToSet(m.parts), later)
  <2>1. ASSUME NEW i \in (k + 1)..Len(q)
        PROVE  /\ first.parts[1] < q[i].parts[1]
               /\ \A h \in 1..k : q[h].parts[1] < q[i].parts[1]
    <3>1. i \in DOMAIN q /\ \A h \in 1..k : h \in DOMAIN q /\ h < i
      BY <1>1, <1>2
    <3>. QED BY <3>1 DEF RawQueue
  <2>. QED BY <1>4, <2>1 DEF Before
<1>9. ToSet(m.parts) \cup later = {first.parts[1]} \cup Numbers(q)
  <2>1. Numbers(q) = {q[i].parts[1] : i \in 1..Len(q)}
    BY <1>1, RawNumbers
  <2>2. 1..Len(q) = 1..k \cup (k + 1)..Len(q)
    BY <1>1, <1>2
  <2>. QED BY <1>4, <2>1, <2>2
<1>10. /\ Whole(m) /\ RawQueue(boundary) /\ Len(boundary) <= 1 /\ RawQueue(queue)
       /\ ToSet(m.parts) \cup (Numbers(boundary) \cup Numbers(queue))
            = {first.parts[1]} \cup Numbers(q)
       /\ Before(ToSet(m.parts), Numbers(boundary) \cup Numbers(queue))
       /\ Before(Numbers(boundary), Numbers(queue))
  BY <1>4, <1>7, <1>8, <1>9
<1>. QED BY <1>3, <1>10 DEF c

(* The dispatcher serves the boundary message first: it was published before*)
(* all that the queue holds (_dispatch_outbound).                           *)
LEMMA TakingIsFirst ==
    ASSUME DInv, pending # <<>> \/ outbound # <<>>
    PROVE  /\ Raw(Taking.first) /\ Taking.pending = <<>> /\ RawQueue(Taking.queue)
           /\ \A i \in DOMAIN Taking.queue :
                 Taking.first.parts[1] < Taking.queue[i].parts[1]
           /\ Waiting = {Taking.first.parts[1]} \cup Numbers(Taking.queue)
<1>1. /\ published \in Seq(Message) /\ RawQueue(outbound) /\ RawQueue(pending)
      /\ Len(pending) <= 1 /\ Before(Numbers(pending), Numbers(outbound))
      /\ pending \in Seq(Item) /\ outbound \in Seq(Item)
  BY DEF DInv, Placed, RawQueue
<1>2. CASE pending # <<>>
  <2>1. Len(pending) = 1 /\ DOMAIN pending = {1}
    <3>1. Len(pending) \in Nat /\ DOMAIN pending = 1..Len(pending)
      BY <1>1, LenProperties
    <3>2. Len(pending) # 0
      BY <1>1, <1>2, EmptySeq
    <3>. QED BY <1>1, <3>1, <3>2
  <2>2. Head(pending) = pending[1] /\ Tail(pending) = <<>>
    <3>1. Head(pending) = pending[1] /\ Tail(pending) \in Seq(Item) /\ Len(Tail(pending)) = 0
      BY <1>1, <1>2, <2>1, HeadTailProperties
    <3>. QED BY <3>1, EmptySeq
  <2>3. Taking.first = pending[1] /\ Taking.pending = <<>> /\ Taking.queue = outbound
    BY <1>2, <2>2 DEF Taking
  <2>4. Raw(pending[1]) /\ Numbers(pending) = {pending[1].parts[1]}
    <3>1. Numbers(pending) = {pending[i].parts[1] : i \in {1}}
      BY <1>1, <2>1, RawNumbers
    <3>. QED BY <1>1, <2>1, <3>1 DEF RawQueue
  <2>5. \A i \in DOMAIN outbound : outbound[i].parts[1] \in Numbers(outbound)
    BY <1>1, RawNumbers
  <2>6. \A i \in DOMAIN outbound : pending[1].parts[1] < outbound[i].parts[1]
    BY <1>1, <2>4, <2>5 DEF Before
  <2>. QED BY <1>1, <2>3, <2>4, <2>6 DEF Waiting
<1>3. CASE pending = <<>>
  <2>1. outbound # <<>> /\ Len(outbound) \in Nat /\ DOMAIN outbound = 1..Len(outbound)
    BY <1>1, <1>3, LenProperties
  <2>2. Left(outbound, 0, outbound)
    BY <1>1, <2>1 DEF Left
  <2>3. /\ 1 \in 1..Len(outbound) /\ Head(outbound) = outbound[1]
        /\ Left(outbound, 1, Tail(outbound))
    <3>1. 0 \in 0..Len(outbound) /\ 0 + 1 = 1
      BY <2>1
    <3>. QED BY <1>1, <2>1, <2>2, <3>1, LeftOvers
  <2>4. /\ RawQueue(Tail(outbound))
        /\ Numbers(Tail(outbound)) = {outbound[i].parts[1] : i \in 2..Len(outbound)}
    BY <1>1, <2>3, LeftIsRaw
  <2>5. /\ Taking.first = outbound[1] /\ Taking.pending = <<>>
        /\ Taking.queue = Tail(outbound)
    BY <1>3, <2>3 DEF Taking
  <2>6. Raw(outbound[1]) /\ \A i \in 2..Len(outbound) :
                               outbound[1].parts[1] < outbound[i].parts[1]
    BY <1>1, <2>1, <2>3 DEF RawQueue
  <2>7. \A i \in DOMAIN Tail(outbound) : Tail(outbound)[i].parts[1] \in Numbers(Tail(outbound))
    BY <1>1, <2>4, RawNumbers
  <2>8. \A i \in DOMAIN Tail(outbound) : outbound[1].parts[1] < Tail(outbound)[i].parts[1]
    BY <2>4, <2>6, <2>7
  <2>9. Waiting = {outbound[1].parts[1]} \cup Numbers(Tail(outbound))
    <3>1. Numbers(pending) = {}
      BY <1>3 DEF Numbers
    <3>2. Numbers(outbound) = {outbound[i].parts[1] : i \in 1..Len(outbound)}
      BY <1>1, <2>1, RawNumbers
    <3>3. 1..Len(outbound) = {1} \cup 2..Len(outbound)
      BY <2>1, <2>3
    <3>. QED BY <2>4, <3>1, <3>2, <3>3 DEF Waiting
  <2>. QED BY <2>4, <2>5, <2>6, <2>8, <2>9
<1>. QED BY <1>2, <1>3

\* What a turn of the dispatcher does with the item e.
Handled(e) ==
    \/ /\ Verdict(e.msg) = "send" /\ sending' = e /\ dropped' = dropped
       /\ fingerprints' = Remembered(e.msg)
    \/ /\ Verdict(e.msg) # "send" /\ sending' = Nothing
       /\ dropped' = Dropping(e, Verdict(e.msg)) /\ fingerprints' = fingerprints

LEMMA DispatchTakesTheFirst ==
    ASSUME DInv, _dispatch_outbound
    PROVE  \E e : /\ Whole(e) /\ Handled(e)
                  /\ RawQueue(pending') /\ Len(pending') <= 1 /\ RawQueue(outbound')
                  /\ ToSet(e.parts) \cup (Numbers(pending') \cup Numbers(outbound')) = Waiting
                  /\ Before(ToSet(e.parts), Numbers(pending') \cup Numbers(outbound'))
                  /\ Before(Numbers(pending'), Numbers(outbound'))
<1> DEFINE t == Taking
           c == IF t.first.msg.kind = "delta"
                THEN _coalesce_stream_deltas(t.first, t.queue)
                ELSE [merged |-> t.first, pending |-> <<>>, queue |-> t.queue]
<1>1. /\ published \in Seq(Message) /\ Raw(t.first) /\ t.pending = <<>>
      /\ RawQueue(t.queue)
      /\ \A i \in DOMAIN t.queue : t.first.parts[1] < t.queue[i].parts[1]
      /\ Waiting = {t.first.parts[1]} \cup Numbers(t.queue)
  <2>1. pending # <<>> \/ outbound # <<>>
    BY DEF _dispatch_outbound
  <2>. QED BY <2>1, TakingIsFirst DEF DInv
<1>2. /\ pending' = t.pending \o c.pending /\ outbound' = c.queue
      /\ Handled(c.merged)
  <2> DEFINE e == c.merged
             verdict == Verdict(e.msg)
  <2>1. /\ pending' = t.pending \o c.pending /\ outbound' = c.queue
        /\ sending' = IF verdict = "send" THEN e ELSE Nothing
        /\ dropped' = IF verdict = "send" THEN dropped ELSE Dropping(e, verdict)
        /\ fingerprints' = IF verdict = "send" THEN Remembered(e.msg) ELSE fingerprints
    BY DEF _dispatch_outbound
  <2>. QED BY <2>1 DEF Handled
<1> HIDE DEF t
<1> PICK first : first = t.first
  OBVIOUS
<1> PICK queue : queue = t.queue
  OBVIOUS
<1>3. /\ Whole(c.merged)
      /\ RawQueue(c.pending) /\ Len(c.pending) <= 1 /\ RawQueue(c.queue)
      /\ ToSet(c.merged.parts) \cup (Numbers(c.pending) \cup Numbers(c.queue)) = Waiting
      /\ Before(ToSet(c.merged.parts), Numbers(c.pending) \cup Numbers(c.queue))
      /\ Before(Numbers(c.pending), Numbers(c.queue))
  <2>1. CASE first.msg.kind = "delta"
    <3>1. c = _coalesce_stream_deltas(first, queue)
      BY <2>1
    <3> HIDE DEF c
    <3>. QED BY <1>1, <2>1, <3>1, CoalescedKeepsOrder
  <2>2. CASE first.msg.kind # "delta"
    <3>1. c = [merged |-> first, pending |-> <<>>, queue |-> queue]
      BY <2>2
    <3>2. c.merged = first /\ c.pending = <<>> /\ c.queue = queue
      BY <3>1
    <3> HIDE DEF c
    <3>3. RawQueue(<<>>) /\ Len(<<>>) <= 1 /\ Numbers(<<>>) = {}
      BY DEF RawQueue, Numbers
    <3>4. Whole(first) /\ ToSet(first.parts) = {first.parts[1]}
      BY <1>1, RawIsWhole, RawReads
    <3>5. Before({first.parts[1]}, Numbers(queue))
      BY <1>1, RawNumbers DEF Before
    <3>6. Before(Numbers(<<>>), Numbers(queue))
      BY <3>3 DEF Before
    <3>7. {} \cup Numbers(queue) = Numbers(queue)
      OBVIOUS
    <3>. QED BY <1>1, <3>2, <3>3, <3>4, <3>5, <3>6, <3>7
  <2>. QED BY <2>1, <2>2
<1>4. pending' = c.pending
  <2> HIDE DEF c
  <2>1. c.pending \in Seq(Item)
    BY <1>3 DEF RawQueue
  <2>2. <<>> \o c.pending = c.pending
    BY <2>1, ConcatEmptySeq
  <2>. QED BY <1>1, <1>2, <2>2
<1> HIDE DEF c
<1>. QED BY <1>2, <1>3, <1>4

(* A publication takes the next number (publish_outbound).                  *)
LEMMA PublicationGrows ==
    ASSUME published \in Seq(Message), NEW m \in Message, published' = Append(published, m)
    PROVE  LET n == Len(published) + 1
           IN  /\ n \in Nat /\ published' \in Seq(Message)
               /\ DOMAIN published = 1..Len(published)
               /\ DOMAIN published' = DOMAIN published \cup {n}
               /\ published'[n] = m
               /\ \A h \in DOMAIN published : published'[h] = published[h] /\ h < n
<1>1. /\ Len(published) \in Nat /\ DOMAIN published = 1..Len(published)
      /\ published' \in Seq(Message) /\ Len(published') = Len(published) + 1
      /\ \A i \in 1..Len(published) : published'[i] = published[i]
      /\ published'[Len(published) + 1] = m
  BY LenProperties, AppendProperties
<1>2. DOMAIN published' = 1..(Len(published) + 1)
  BY <1>1, LenProperties
<1>. QED BY <1>1, <1>2

LEMMA PublicationKeeps ==
    ASSUME published \in Seq(Message), NEW m \in Message, published' = Append(published, m)
    PROVE  /\ \A e : Raw(e) => Raw(e)'
           /\ \A e : Whole(e) => Whole(e)'
<1>1. /\ DOMAIN published \subseteq DOMAIN published'
      /\ \A h \in DOMAIN published : published'[h] = published[h]
  BY PublicationGrows
<1>2. ASSUME NEW e, Raw(e)
      PROVE  Raw(e)'
  BY <1>1, <1>2 DEF Raw
<1>3. ASSUME NEW e, Whole(e)
      PROVE  Whole(e)'
  <2>1. e.parts \in Seq(Nat) /\ e.parts # <<>> /\ Ascending(e.parts)
    <3>1. e \in Item
      BY <1>3 DEF Whole
    <3>. QED BY <1>3, <3>1 DEF Item, Whole
  <2>2. Last(e.parts) \in ToSet(e.parts)
    BY <2>1, LastIsMost
  <2>3. \A n \in ToSet(e.parts) : n \in DOMAIN published /\ published'[n] = published[n]
    BY <1>1, <1>3 DEF Whole
  <2>4. Raw(e) => Raw(e)'
    BY <1>2
  <2>. QED BY <1>1, <1>3, <2>2, <2>3, <2>4 DEF Whole
<1>. QED BY <1>2, <1>3

\* What DInv says of the places, read off its sets of numbers.
Places(S, G, P, Q, D, N) ==
    /\ Before(S, G) /\ Before(S \cup G \cup D, P \cup Q) /\ Before(P, Q)
    /\ (S \cup G \cup (P \cup Q)) \cap D = {}
    /\ (S \cup G \cup (P \cup Q)) \cup D = N

LEMMA PlacedReads ==
    Placed <=> Places(Numbers(sent), ToSet(sending.parts), Numbers(pending),
                      Numbers(outbound), DOMAIN dropped, DOMAIN published)
BY DEF Placed, Places

LEMMA DInvPublish ==
    ASSUME DInv, NEW m \in Published, publish_outbound(m)
    PROVE  DInv'
<1> DEFINE n == Len(published) + 1
<1>1. /\ published \in Seq(Message) /\ m \in Message /\ published' = Append(published, m)
      /\ outbound' = Append(outbound, Entry(m, n)) /\ outbound \in Seq(Item)
      /\ RawQueue(outbound) /\ RawQueue(pending)
      /\ pending' = pending /\ sending' = sending /\ sent' = sent /\ dropped' = dropped
  BY PublishedAssumption DEF DInv, publish_outbound, RawQueue
<1>2. /\ n \in Nat /\ published' \in Seq(Message)
      /\ DOMAIN published = 1..Len(published)
      /\ DOMAIN published' = DOMAIN published \cup {n}
      /\ published'[n] = m
      /\ \A h \in DOMAIN published : published'[h] = published[h] /\ h < n
  BY <1>1, PublicationGrows
<1>3. /\ \A e : Raw(e) => Raw(e)'
      /\ \A e : Whole(e) => Whole(e)'
  BY <1>1, PublicationKeeps
<1> HIDE DEF n
<1> PICK e : e = Entry(m, n)
  OBVIOUS
<1>4. Raw(e)'
  BY <1>2 DEF Raw
<1>5. e \in Item /\ e.parts = <<n>> /\ ToSet(e.parts) = {n} /\ e.parts[1] = n
  <2>1. m \in Letter
    BY <1>1 DEF Message, Letter, StreamKind
  <2>2. <<n>> \in Seq(Nat) /\ <<n>>[1] = n /\ ToSet(<<n>>) = {n}
    BY <1>2 DEF ToSet
  <2>3. e.msg = m /\ e.parts = <<n>> /\ e = [msg |-> m, parts |-> <<n>>]
    BY DEF Entry
  <2>. QED BY <2>1, <2>2, <2>3 DEF Item
<1>6. /\ outbound' \in Seq(Item) /\ Len(outbound) \in Nat
      /\ DOMAIN outbound = 1..Len(outbound)
      /\ DOMAIN outbound' = DOMAIN outbound \cup {Len(outbound) + 1}
      /\ \A i \in DOMAIN outbound : outbound'[i] = outbound[i]
      /\ outbound'[Len(outbound) + 1] = e
  <2>1. /\ Len(outbound) \in Nat /\ DOMAIN outbound = 1..Len(outbound)
        /\ outbound' \in Seq(Item) /\ Len(outbound') = Len(outbound) + 1
        /\ \A i \in 1..Len(outbound) : outbound'[i] = outbound[i]
        /\ outbound'[Len(outbound) + 1] = e
    BY <1>1, <1>5, LenProperties, AppendProperties
  <2>2. DOMAIN outbound' = 1..(Len(outbound) + 1)
    BY <2>1, LenProperties
  <2>. QED BY <2>1, <2>2
<1>7. \A i \in DOMAIN outbound : outbound[i].parts[1] < n
  <2>1. \A i \in DOMAIN outbound : outbound[i].parts[1] \in DOMAIN published
    BY <1>1, RawNumbers
  <2>. QED BY <1>2, <2>1
<1>8. RawQueue(outbound)'
  <2>1. \A i \in DOMAIN outbound' :
           \E h \in DOMAIN published' : outbound'[i] = Entry(published'[h], h)
    <3>1. \A i \in DOMAIN outbound : Raw(outbound[i])
      BY <1>1 DEF RawQueue
    <3>. QED BY <1>3, <1>4, <1>6, <3>1 DEF Raw
  <2>2. \A i, k \in DOMAIN outbound' :
           i < k => outbound'[i].parts[1] < outbound'[k].parts[1]
    <3> SUFFICES ASSUME NEW i \in DOMAIN outbound', NEW k \in DOMAIN outbound', i < k
                 PROVE  outbound'[i].parts[1] < outbound'[k].parts[1]
      OBVIOUS
    <3>1. i \in DOMAIN outbound
      BY <1>6
    <3>2. CASE k \in DOMAIN outbound
      BY <1>1, <1>6, <3>1, <3>2 DEF RawQueue
    <3>3. CASE k = Len(outbound) + 1
      BY <1>5, <1>6, <1>7, <3>1, <3>3
    <3>. QED BY <1>6, <3>2, <3>3
  <2>. QED BY <1>6, <2>1, <2>2 DEF RawQueue, Raw
<1>9. RawQueue(pending)' /\ Len(pending') <= 1
  BY <1>1, <1>3 DEF RawQueue, DInv
<1>10. sending' = Nothing \/ Whole(sending)'
  BY <1>1, <1>3 DEF DInv
<1>11. WholeOnes(sent)'
  BY <1>1, <1>3 DEF WholeOnes, DInv
<1>12. Numbers(outbound)' = Numbers(outbound) \cup {n}
  <2>1. Numbers(outbound)' = UNION {ToSet(outbound'[i].parts) : i \in DOMAIN outbound'}
    BY DEF Numbers
  <2>2. Numbers(outbound) = UNION {ToSet(outbound[i].parts) : i \in DOMAIN outbound}
    BY DEF Numbers
  <2>. QED BY <1>5, <1>6, <2>1, <2>2
<1>13. /\ Numbers(sent)' = Numbers(sent) /\ Numbers(pending)' = Numbers(pending)
       /\ ToSet(sending.parts)' = ToSet(sending.parts) /\ (DOMAIN dropped)' = DOMAIN dropped
  BY <1>1 DEF Numbers, ToSet
<1>14. Placed'
  <2>1. ASSUME NEW S, NEW G, NEW P, NEW Q, NEW D, NEW N,
               \A h \in N : h < n, n \notin N, Places(S, G, P, Q, D, N)
        PROVE  Places(S, G, P, Q \cup {n}, D, N \cup {n})
    <3>1. S \subseteq N /\ G \subseteq N /\ D \subseteq N /\ P \subseteq N
      BY <2>1 DEF Places
    <3>2. Before(S \cup G \cup D, P \cup (Q \cup {n})) /\ Before(P, Q \cup {n})
      BY <2>1, <3>1 DEF Places, Before
    <3>. QED BY <2>1, <3>1, <3>2 DEF Places
  <2>2. n \notin DOMAIN published
    BY <1>2
  <2>3. Places(Numbers(sent), ToSet(sending.parts), Numbers(pending), Numbers(outbound),
               DOMAIN dropped, DOMAIN published)
    BY PlacedReads DEF DInv
  <2>4. Places(Numbers(sent), ToSet(sending.parts), Numbers(pending),
               Numbers(outbound) \cup {n}, DOMAIN dropped, DOMAIN published \cup {n})
    BY <1>2, <2>1, <2>2, <2>3
  <2>5. Placed' <=> Places(Numbers(sent)', ToSet(sending.parts)', Numbers(pending)',
                           Numbers(outbound)', (DOMAIN dropped)', DOMAIN published')
    BY DEF Placed, Places
  <2>. QED BY <1>2, <1>12, <1>13, <2>4, <2>5
<1>. QED BY <1>2, <1>8, <1>9, <1>10, <1>11, <1>14 DEF DInv

LEMMA DInvDispatch ==
    ASSUME DInv, _dispatch_outbound
    PROVE  DInv'
<1>1. PICK e : /\ Whole(e) /\ Handled(e)
               /\ RawQueue(pending') /\ Len(pending') <= 1 /\ RawQueue(outbound')
               /\ ToSet(e.parts) \cup (Numbers(pending') \cup Numbers(outbound')) = Waiting
               /\ Before(ToSet(e.parts), Numbers(pending') \cup Numbers(outbound'))
               /\ Before(Numbers(pending'), Numbers(outbound'))
  BY DispatchTakesTheFirst
<1>2. /\ sending = Nothing /\ published' = published /\ sent' = sent
      /\ published \in Seq(Message) /\ WholeOnes(sent)
  BY DEF DInv, _dispatch_outbound
<1>3. /\ RawQueue(pending)' /\ RawQueue(outbound)' /\ WholeOnes(sent)'
  BY <1>1, <1>2 DEF RawQueue, Raw, WholeOnes, Whole
<1>4. /\ ToSet(Nothing.parts) = {}
      /\ Numbers(sent)' = Numbers(sent) /\ (DOMAIN published)' = DOMAIN published
      /\ Numbers(pending)' = Numbers(pending') /\ Numbers(outbound)' = Numbers(outbound')
  BY <1>2 DEF Nothing, Numbers, ToSet
<1>5. \A n \in DOMAIN published : ~(n < n)
  BY <1>2, LenProperties
<1>6. Places(Numbers(sent), {}, Numbers(pending), Numbers(outbound), DOMAIN dropped,
             DOMAIN published)
  BY <1>2, <1>4, PlacedReads DEF DInv
<1>7. ASSUME NEW S, NEW P, NEW Q, NEW D, NEW N, NEW E, NEW P1, NEW Q1,
             Places(S, {}, P, Q, D, N), \A n \in N : ~(n < n),
             E \cup (P1 \cup Q1) = P \cup Q, Before(E, P1 \cup Q1), Before(P1, Q1)
      PROVE  Places(S, E, P1, Q1, D, N) /\ Places(S, {}, P1, Q1, D \cup E, N)
  <2>1. S \cup D \cup (P \cup Q) = N
    BY <1>7 DEF Places
  <2>2. Before(S, E) /\ Before(S \cup E \cup D, P1 \cup Q1)
    BY <1>7 DEF Places, Before
  <2>3. E \cap (S \cup (P1 \cup Q1)) = {}
    <3> SUFFICES ASSUME NEW n \in E, n \in S \cup (P1 \cup Q1) PROVE FALSE
      OBVIOUS
    <3>1. n \in N
      BY <1>7, <2>1
    <3>2. n < n
      BY <1>7, <2>2 DEF Before
    <3>. QED BY <1>7, <3>1, <3>2
  <2>4. Places(S, E, P1, Q1, D, N)
    BY <1>7, <2>2 DEF Places
  <2>5. Places(S, {}, P1, Q1, D \cup E, N)
    <3>1. Before(S, {}) /\ Before(S \cup {} \cup (D \cup E), P1 \cup Q1)
      BY <2>2 DEF Before
    <3>. QED BY <1>7, <2>3, <3>1 DEF Places
  <2>. QED BY <2>4, <2>5
<1>8. /\ Places(Numbers(sent), ToSet(e.parts), Numbers(pending'), Numbers(outbound'),
                DOMAIN dropped, DOMAIN published)
      /\ Places(Numbers(sent), {}, Numbers(pending'), Numbers(outbound'),
                DOMAIN dropped \cup ToSet(e.parts), DOMAIN published)
  BY <1>1, <1>5, <1>6, <1>7 DEF Waiting
<1>9. /\ sending' = Nothing \/ Whole(sending)'
      /\ Places(Numbers(sent), ToSet(sending.parts)', Numbers(pending'), Numbers(outbound'),
                (DOMAIN dropped)', DOMAIN published)
  <2>1. CASE sending' = e /\ dropped' = dropped
    <3>1. Whole(sending)'
      BY <1>1, <1>2, <2>1 DEF Whole, Raw
    <3>. QED BY <1>8, <2>1, <3>1 DEF ToSet
  <2>2. CASE sending' = Nothing /\ dropped' = Dropping(e, Verdict(e.msg))
    <3>1. DOMAIN dropped' = DOMAIN dropped \cup ToSet(e.parts)
      BY <2>2 DEF Dropping
    <3>2. ToSet(sending.parts)' = {}
      BY <1>4, <2>2 DEF ToSet
    <3>. QED BY <1>8, <2>2, <3>1, <3>2
  <2>. QED BY <1>1, <2>1, <2>2 DEF Handled
<1>10. Placed'
  <2>1. Placed' <=> Places(Numbers(sent)', ToSet(sending.parts)', Numbers(pending)',
                           Numbers(outbound)', (DOMAIN dropped)', (DOMAIN published)')
    BY DEF Placed, Places
  <2>. QED BY <1>4, <1>9, <2>1
<1>. QED BY <1>1, <1>2, <1>3, <1>9, <1>10 DEF DInv

(* A message that is sent or given up is out of the way, and only it.       *)
LEMMA DInvSettles ==
    ASSUME DInv, sending # Nothing, sending' = Nothing,
           UNCHANGED <<outbound, pending, published>>,
           \/ sent' = Append(sent, sending) /\ dropped' = dropped
           \/ sent' = sent /\ \E why : dropped' = Dropping(sending, why)
    PROVE  DInv'
<1>1. /\ published' = published /\ outbound' = outbound /\ pending' = pending
      /\ published \in Seq(Message) /\ WholeOnes(sent) /\ Whole(sending)
      /\ RawQueue(pending) /\ RawQueue(outbound) /\ Len(pending) <= 1 /\ sent \in Seq(Item)
  BY DEF DInv, WholeOnes
<1>2. /\ RawQueue(pending)' /\ RawQueue(outbound)' /\ Len(pending') <= 1
      /\ published' \in Seq(Message)
  BY <1>1 DEF RawQueue, Raw
<1>3. /\ ToSet(sending.parts)' = {} /\ (DOMAIN published)' = DOMAIN published
      /\ Numbers(pending)' = Numbers(pending) /\ Numbers(outbound)' = Numbers(outbound)
  BY <1>1 DEF Nothing, Numbers, ToSet
<1> DEFINE G == ToSet(sending.parts)
<1>4. Places(Numbers(sent), G, Numbers(pending), Numbers(outbound), DOMAIN dropped,
             DOMAIN published)
  BY PlacedReads DEF DInv
<1>5. \A n \in DOMAIN published : ~(n < n)
  BY <1>1, LenProperties
<1>6. Placed' <=> Places(Numbers(sent)', {}, Numbers(pending),
                         Numbers(outbound), (DOMAIN dropped)', DOMAIN published)
  <2>1. Placed' <=> Places(Numbers(sent)', ToSet(sending.parts)', Numbers(pending)',
                           Numbers(outbound)', (DOMAIN dropped)', (DOMAIN published)')
    BY DEF Placed, Places
  <2>. QED BY <1>3, <2>1
<1>7. ASSUME NEW S, NEW H, NEW P, NEW Q, NEW D, NEW N,
             Places(S, H, P, Q, D, N), \A n \in N : ~(n < n)
      PROVE  Places(S \cup H, {}, P, Q, D, N) /\ Places(S, {}, P, Q, D \cup H, N)
  <2>1. \A n \in H : n \notin S /\ n \notin P \cup Q
    BY <1>7 DEF Places, Before
  <2>2. Before(S, {}) /\ Before(S \cup H, {})
    BY DEF Before
  <2>. QED BY <1>7, <2>1, <2>2 DEF Places, Before
<1>8. /\ Places(Numbers(sent) \cup G, {}, Numbers(pending), Numbers(outbound),
                 DOMAIN dropped, DOMAIN published)
       /\ Places(Numbers(sent), {}, Numbers(pending), Numbers(outbound),
                 DOMAIN dropped \cup G, DOMAIN published)
  <2> HIDE DEF G
  <2>. QED BY <1>4, <1>5, <1>7
<1>9. CASE sent' = Append(sent, sending) /\ dropped' = dropped
  <2>1. sending \in Item
    BY <1>1 DEF Whole
  <2>2. /\ sent' \in Seq(Item) /\ Len(sent) \in Nat
        /\ DOMAIN sent = 1..Len(sent)
        /\ DOMAIN sent' = DOMAIN sent \cup {Len(sent) + 1}
        /\ \A i \in DOMAIN sent : sent'[i] = sent[i]
        /\ sent'[Len(sent) + 1] = sending
    <3>1. /\ Len(sent) \in Nat /\ DOMAIN sent = 1..Len(sent)
          /\ sent' \in Seq(Item) /\ Len(sent') = Len(sent) + 1
          /\ \A i \in 1..Len(sent) : sent'[i] = sent[i]
          /\ sent'[Len(sent) + 1] = sending
      BY <1>1, <1>9, <2>1, LenProperties, AppendProperties
    <3>2. DOMAIN sent' = 1..(Len(sent) + 1)
      BY <3>1, LenProperties
    <3>. QED BY <3>1, <3>2
  <2>3. Numbers(sent)' = Numbers(sent) \cup G
    <3>1. Numbers(sent)' = UNION {ToSet(sent'[i].parts) : i \in DOMAIN sent'}
      BY DEF Numbers
    <3>2. Numbers(sent) = UNION {ToSet(sent[i].parts) : i \in DOMAIN sent}
      BY DEF Numbers
    <3>. QED BY <2>2, <3>1, <3>2
  <2>4. \A e : Whole(e)' <=> Whole(e)
    BY <1>1 DEF Whole, Raw
  <2>5. \A i \in DOMAIN sent' : Whole(sent'[i])
    BY <1>1, <2>2 DEF WholeOnes
  <2>6. \A i, k \in DOMAIN sent' :
           i < k => Before(ToSet(sent'[i].parts), ToSet(sent'[k].parts))
    <3> SUFFICES ASSUME NEW i \in DOMAIN sent', NEW k \in DOMAIN sent', i < k
                 PROVE  Before(ToSet(sent'[i].parts), ToSet(sent'[k].parts))
      OBVIOUS
    <3>1. i \in DOMAIN sent
      BY <2>2
    <3>2. CASE k \in DOMAIN sent
      BY <1>1, <2>2, <3>1, <3>2 DEF WholeOnes
    <3>3. CASE k = Len(sent) + 1
      <4>1. Before(Numbers(sent), G)
        BY <1>4 DEF Places
      <4>2. ToSet(sent[i].parts) \subseteq Numbers(sent)
        BY <3>1 DEF Numbers
      <4>3. Before(ToSet(sent[i].parts), G)
        BY <4>1, <4>2 DEF Before
      <4>. QED BY <2>2, <3>1, <3>3, <4>3
    <3>. QED BY <2>2, <3>2, <3>3
  <2>7. WholeOnes(sent)'
    <3>1. \A i \in DOMAIN sent' : Whole(sent[i])'
      BY <1>1, <2>5 DEF Whole, Raw
    <3>. QED BY <2>2, <2>6, <3>1 DEF WholeOnes
  <2>8. Placed'
    BY <1>6, <1>9, <1>8, <2>3
  <2>. QED BY <1>2, <2>7, <2>8 DEF DInv
<1>10. CASE sent' = sent /\ \E why : dropped' = Dropping(sending, why)
  <2>1. DOMAIN dropped' = DOMAIN dropped \cup G
    BY <1>10 DEF Dropping
  <2>2. WholeOnes(sent)' /\ Numbers(sent)' = Numbers(sent)
    BY <1>1, <1>10 DEF WholeOnes, Whole, Raw, Numbers
  <2>3. Placed'
    BY <1>6, <1>8, <2>1, <2>2
  <2>. QED BY <1>2, <2>2, <2>3 DEF DInv
<1>. QED BY <1>9, <1>10

LEMMA DInvInit == DispatchInit => DInv
<1> SUFFICES ASSUME DispatchInit PROVE DInv
  OBVIOUS
<1>1. /\ outbound = <<>> /\ pending = <<>> /\ sending = Nothing /\ published = <<>>
      /\ sent = <<>> /\ DOMAIN dropped = {}
  BY DEF DispatchInit
<1>2. /\ <<>> \in Seq(Message) /\ RawQueue(<<>>) /\ WholeOnes(<<>>) /\ Len(<<>>) <= 1
      /\ Numbers(<<>>) = {} /\ DOMAIN <<>> = {}
  BY DEF RawQueue, WholeOnes, Numbers
<1>3. ToSet(sending.parts) = {}
  BY <1>1 DEF Nothing, ToSet
<1>4. Placed
  BY <1>1, <1>2, <1>3 DEF Placed, Before
<1>. QED BY <1>1, <1>2, <1>4 DEF DInv

LEMMA DInvStep == DInv /\ [DispatchNext]_dvars => DInv'
<1> SUFFICES ASSUME DInv, [DispatchNext]_dvars PROVE DInv'
  OBVIOUS
<1>1. ASSUME NEW m \in Published, publish_outbound(m) PROVE DInv'
  BY <1>1, DInvPublish
<1>2. CASE _dispatch_outbound
  BY <1>2, DInvDispatch
<1>3. CASE SendSucceeds
  <2>1. \/ sent' = Append(sent, sending) /\ dropped' = dropped
        \/ sent' = sent /\ dropped' = Dropping(sending, "streamed")
    BY <1>3 DEF SendSucceeds
  <2>. QED BY <1>3, <2>1, DInvSettles DEF SendSucceeds
<1>4. CASE SendExhausted
  BY <1>4, DInvSettles DEF SendExhausted
<1>5. CASE UNCHANGED <<outbound, pending, sending, published, sent, dropped>>
  <2>1. /\ published' \in Seq(Message) /\ Len(pending') <= 1
        /\ RawQueue(outbound)' /\ RawQueue(pending)'
    BY <1>5 DEF DInv, RawQueue, Raw
  <2>2. sending' = Nothing \/ Whole(sending)'
    BY <1>5 DEF DInv, Whole, Raw
  <2>3. WholeOnes(sent)'
    BY <1>5 DEF DInv, WholeOnes, Whole, Raw
  <2>4. Placed'
    BY <1>5 DEF DInv, Placed, Numbers, ToSet
  <2>. QED BY <2>1, <2>2, <2>3, <2>4 DEF DInv
<1>6. SendFails \/ stop_all \/ (\E c \in Channel : apply_channel_feature_action(c))
         \/ UNCHANGED dvars
         => UNCHANGED <<outbound, pending, sending, published, sent, dropped>>
  BY DEF SendFails, stop_all, apply_channel_feature_action, dvars
<1>. QED BY <1>1, <1>2, <1>3, <1>4, <1>5, <1>6 DEF DispatchNext, Dispatcher

(* Every number stands where DInv says.                                     *)
THEOREM DispatchInvariant == DispatchSpec => []DInv
BY DInvInit, DInvStep, PTL DEF DispatchSpec

(* What is read off a queue.                                                *)
LEMMA PartsRise ==
    ASSUME NEW q \in Seq(Item), \A i \in DOMAIN q : Ascending(q[i].parts),
           \A i, k \in DOMAIN q : i < k => Before(ToSet(q[i].parts), ToSet(q[k].parts))
    PROVE  /\ PartsOf(q) \in Seq(Nat) /\ Ascending(PartsOf(q))
           /\ ToSet(PartsOf(q)) = Numbers(q)
<1> DEFINE ps == [i \in DOMAIN q |-> q[i].parts]
<1>1. Len(q) \in Nat /\ DOMAIN q = 1..Len(q) /\ \A i \in DOMAIN q : q[i].parts \in Seq(Nat)
  <2>1. Len(q) \in Nat /\ DOMAIN q = 1..Len(q) /\ \A i \in DOMAIN q : q[i] \in Item
    BY LenProperties, ElementOfSeq
  <2>2. \A e \in Item : e.parts \in Seq(Nat)
    BY DEF Item
  <2>. QED BY <2>1, <2>2
<1>2. ps \in Seq(Seq(Nat)) /\ DOMAIN ps = DOMAIN q /\ \A i \in DOMAIN q : ps[i] = q[i].parts
  BY <1>1, SeqDef
<1>3. PartsOf(q) = FlattenSeq(ps)
  BY DEF PartsOf
<1> HIDE DEF ps
<1>4. Rising(ps)
  BY <1>2 DEF Rising
<1>5. Members(ps) = Numbers(q)
  BY <1>2 DEF Members, Numbers
<1>. QED BY <1>2, <1>3, <1>4, <1>5, FlattenRises

(* A queue as it was published reads in the order of publication.           *)
LEMMA RawRises ==
    ASSUME published \in Seq(Message), NEW q, RawQueue(q)
    PROVE  /\ PartsOf(q) \in Seq(Nat) /\ Ascending(PartsOf(q))
           /\ ToSet(PartsOf(q)) = Numbers(q)
<1>1. q \in Seq(Item) /\ \A i \in DOMAIN q : Raw(q[i])
  BY DEF RawQueue
<1>2. \A i \in DOMAIN q : ToSet(q[i].parts) = {q[i].parts[1]} /\ Ascending(q[i].parts)
  BY <1>1, RawReads, RawIsWhole DEF Whole
<1>3. \A i, k \in DOMAIN q : i < k => Before(ToSet(q[i].parts), ToSet(q[k].parts))
  BY <1>2 DEF Before, RawQueue
<1>. QED BY <1>1, <1>2, <1>3, PartsRise

LEMMA OrderFollows == DInv => OrderIsKeptAndNothingVanishes
<1> SUFFICES ASSUME DInv PROVE OrderIsKeptAndNothingVanishes
  OBVIOUS
<1> DEFINE A == PartsOf(sent)
           B == sending.parts
           C == PartsOf(pending)
           D == PartsOf(outbound)
<1>1. /\ published \in Seq(Message) /\ RawQueue(outbound) /\ RawQueue(pending)
      /\ WholeOnes(sent)
      /\ Before(Numbers(sent), ToSet(B))
      /\ Before(Numbers(sent) \cup ToSet(B) \cup DOMAIN dropped,
                Numbers(pending) \cup Numbers(outbound))
      /\ Before(Numbers(pending), Numbers(outbound))
      /\ (Numbers(sent) \cup ToSet(B) \cup (Numbers(pending) \cup Numbers(outbound)))
           \cap DOMAIN dropped = {}
      /\ (Numbers(sent) \cup ToSet(B) \cup (Numbers(pending) \cup Numbers(outbound)))
           \cup DOMAIN dropped = DOMAIN published
  BY DEF DInv, Placed
<1>2. A \in Seq(Nat) /\ Ascending(A) /\ ToSet(A) = Numbers(sent)
  <2>1. /\ sent \in Seq(Item) /\ \A i \in DOMAIN sent : Ascending(sent[i].parts)
        /\ \A i, k \in DOMAIN sent :
              i < k => Before(ToSet(sent[i].parts), ToSet(sent[k].parts))
    BY <1>1 DEF WholeOnes, Whole
  <2>. QED BY <2>1, PartsRise
<1>3. /\ C \in Seq(Nat) /\ Ascending(C) /\ ToSet(C) = Numbers(pending)
      /\ D \in Seq(Nat) /\ Ascending(D) /\ ToSet(D) = Numbers(outbound)
  BY <1>1, RawRises
<1>4. B \in Seq(Nat) /\ Ascending(B)
  <2>1. CASE sending = Nothing
    <3>1. B = <<>>
      BY <2>1 DEF Nothing
    <3>. QED BY <3>1 DEF Ascending
  <2>2. CASE Whole(sending)
    BY <2>2 DEF Whole, Item
  <2>. QED BY <2>1, <2>2 DEF DInv
<1> DEFINE line == A \o B \o C \o D
<1>5. OrderIsKeptAndNothingVanishes
        <=> /\ Ascending(line)
            /\ ToSet(line) \cap DOMAIN dropped = {}
            /\ ToSet(line) \cup DOMAIN dropped = DOMAIN published
  BY DEF OrderIsKeptAndNothingVanishes, Ascending
<1> HIDE DEF A, B, C, D
<1>6. /\ A \o B \in Seq(Nat) /\ ToSet(A \o B) = ToSet(A) \cup ToSet(B)
      /\ Ascending(A \o B)
  BY <1>1, <1>2, <1>4, JoinedAscend
<1>7. Before(ToSet(A \o B), ToSet(C))
  BY <1>1, <1>2, <1>3, <1>6 DEF Before
<1>8. /\ A \o B \o C \in Seq(Nat) /\ Ascending(A \o B \o C)
      /\ ToSet(A \o B \o C) = ToSet(A) \cup ToSet(B) \cup ToSet(C)
  BY <1>3, <1>6, <1>7, JoinedAscend
<1>9. Before(ToSet(A \o B \o C), ToSet(D))
  BY <1>1, <1>2, <1>3, <1>8 DEF Before
<1>10. /\ Ascending(line)
       /\ ToSet(line) = ToSet(A) \cup ToSet(B) \cup ToSet(C) \cup ToSet(D)
  BY <1>3, <1>8, <1>9, JoinedAscend
<1>11. ToSet(line) = Numbers(sent) \cup ToSet(B) \cup (Numbers(pending) \cup Numbers(outbound))
  BY <1>2, <1>3, <1>10
<1>. QED BY <1>1, <1>5, <1>10, <1>11

(* Read in the order channel, send under way, pending, queue, the messages  *)
(* stand in the order they were published, none twice, and one that is      *)
(* missing was dropped for a reason (_dispatch_outbound and                 *)
(* _coalesce_stream_deltas).                                                *)
THEOREM OrderIsKept == DispatchSpec => []OrderIsKeptAndNothingVanishes
BY DispatchInvariant, OrderFollows, PTL

(* A merge never mixes two streams and never hides where a stream ends      *)
(* (_coalesce_stream_deltas).                                               *)
THEOREM EndsArrive == DispatchSpec => []EndsReachTheChannel
<1>1. DInv => EndsReachTheChannel
  <2> SUFFICES ASSUME DInv, NEW e \in ToSet(sent)
               PROVE  /\ \A n \in ToSet(e.parts) :
                           /\ published[n].channel = e.msg.channel
                           /\ published[n].stream = e.msg.stream
                           /\ published[n].kind \in {"end", "close"} => n = Last(e.parts)
                      /\ e.msg.kind = published[Last(e.parts)].kind
    BY DEF EndsReachTheChannel
  <2>1. PICK i \in DOMAIN sent : e = sent[i]
    BY DEF ToSet
  <2>2. Whole(e)
    BY <2>1 DEF DInv, WholeOnes
  <2>. QED BY <2>2 DEF Whole
<1>. QED BY <1>1, DispatchInvariant, PTL

LEMMA DroppingReads ==
    ASSUME NEW e, NEW why, dropped' = Dropping(e, why)
    PROVE  /\ DOMAIN dropped' = DOMAIN dropped \cup ToSet(e.parts)
           /\ \A n \in DOMAIN dropped : dropped'[n] = dropped[n]
           /\ \A n \in ToSet(e.parts) : n \in DOMAIN dropped \/ dropped'[n] = why
BY DEF Dropping

\* What no step undoes: a number leaves the queue for good, and its drop has
\* one reason.
Forward ==
    /\ \A h \in DOMAIN published : h \in DOMAIN published' /\ published'[h] = published[h]
    /\ Waiting' \cap DOMAIN published \subseteq Waiting
    /\ \A n \in DOMAIN dropped : n \in DOMAIN dropped' /\ dropped'[n] = dropped[n]
    /\ \A n \in DOMAIN dropped' \ DOMAIN dropped :
          \/ n \in Waiting
          \/ /\ sending # Nothing /\ n \in ToSet(sending.parts)
             /\ dropped'[n] = "exhausted" \/ sending.msg.kind = "streamed"

LEMMA StepsGoForward ==
    ASSUME DInv, [DispatchNext]_dvars
    PROVE  Forward
<1>1. ASSUME NEW m \in Published, publish_outbound(m) PROVE Forward
  <2>1. /\ published \in Seq(Message) /\ m \in Message /\ published' = Append(published, m)
        /\ pending' = pending /\ outbound' = Append(outbound, Entry(m, Len(published) + 1))
        /\ outbound \in Seq(Item) /\ dropped' = dropped
    BY <1>1, PublishedAssumption DEF DInv, RawQueue, publish_outbound
  <2>2. /\ \A h \in DOMAIN published : h \in DOMAIN published' /\ published'[h] = published[h]
        /\ Len(published) + 1 \notin DOMAIN published /\ Len(published) + 1 \in Nat
    BY <2>1, PublicationGrows
  <2>3. PICK e : e = Entry(m, Len(published) + 1)
    OBVIOUS
  <2>4. e \in Item /\ ToSet(e.parts) = {Len(published) + 1}
    <3>1. m \in Letter
      BY <2>1 DEF Message, Letter, StreamKind
    <3>2. <<Len(published) + 1>> \in Seq(Nat)
      BY <2>2
    <3>3. e.msg = m /\ e.parts = <<Len(published) + 1>> /\ e = [msg |-> e.msg, parts |-> e.parts]
      BY <2>3 DEF Entry
    <3>4. ToSet(<<Len(published) + 1>>) = {Len(published) + 1}
      BY DEF ToSet
    <3>. QED BY <3>1, <3>2, <3>3, <3>4 DEF Item
  <2>5. /\ DOMAIN outbound' = DOMAIN outbound \cup {Len(outbound) + 1}
        /\ \A i \in DOMAIN outbound : outbound'[i] = outbound[i]
        /\ outbound'[Len(outbound) + 1] = e
    <3>1. /\ Len(outbound) \in Nat /\ DOMAIN outbound = 1..Len(outbound)
          /\ outbound' \in Seq(Item) /\ Len(outbound') = Len(outbound) + 1
          /\ \A i \in 1..Len(outbound) : outbound'[i] = outbound[i]
          /\ outbound'[Len(outbound) + 1] = e
      BY <2>1, <2>3, <2>4, LenProperties, AppendProperties
    <3>2. DOMAIN outbound' = 1..(Len(outbound) + 1)
      BY <3>1, LenProperties
    <3>. QED BY <3>1, <3>2
  <2>6. Waiting' = Waiting \cup {Len(published) + 1}
    <3>1. Waiting' = Numbers(pending)' \cup Numbers(outbound)'
      BY DEF Waiting
    <3>2. Numbers(pending)' = Numbers(pending)
      BY <2>1 DEF Numbers
    <3>3. Numbers(outbound)' = UNION {ToSet(outbound'[i].parts) : i \in DOMAIN outbound'}
      BY DEF Numbers
    <3>4. Numbers(outbound) = UNION {ToSet(outbound[i].parts) : i \in DOMAIN outbound}
      BY DEF Numbers
    <3>5. Numbers(outbound)' = Numbers(outbound) \cup {Len(published) + 1}
      BY <2>4, <2>5, <3>3, <3>4
    <3>. QED BY <3>1, <3>2, <3>5 DEF Waiting
  <2>. QED BY <2>1, <2>2, <2>6 DEF Forward
<1>2. CASE _dispatch_outbound
  <2>1. PICK e : /\ Handled(e)
                 /\ ToSet(e.parts) \cup (Numbers(pending') \cup Numbers(outbound')) = Waiting
    BY <1>2, DispatchTakesTheFirst
  <2>2. published' = published
    BY <1>2 DEF _dispatch_outbound
  <2>3. Waiting' \subseteq Waiting /\ ToSet(e.parts) \subseteq Waiting
    BY <2>1 DEF Waiting, Numbers
  <2>4. CASE dropped' = dropped
    BY <2>2, <2>3, <2>4 DEF Forward
  <2>5. CASE dropped' = Dropping(e, Verdict(e.msg))
    BY <2>2, <2>3, <2>5, DroppingReads DEF Forward
  <2>. QED BY <2>1, <2>4, <2>5 DEF Handled
<1>3. CASE SendSucceeds
  <2>1. /\ UNCHANGED <<published, pending, outbound>> /\ sending # Nothing
        /\ \/ dropped' = dropped
           \/ sending.msg.kind = "streamed" /\ dropped' = Dropping(sending, "streamed")
    BY <1>3 DEF SendSucceeds
  <2>2. Waiting' = Waiting
    BY <2>1 DEF Waiting, Numbers
  <2>3. CASE dropped' = dropped
    BY <2>1, <2>2, <2>3 DEF Forward
  <2>4. CASE sending.msg.kind = "streamed" /\ dropped' = Dropping(sending, "streamed")
    BY <2>1, <2>2, <2>4, DroppingReads DEF Forward
  <2>. QED BY <2>1, <2>3, <2>4
<1>4. CASE SendExhausted
  <2>1. /\ UNCHANGED <<published, pending, outbound>> /\ sending # Nothing
        /\ dropped' = Dropping(sending, "exhausted")
    BY <1>4 DEF SendExhausted
  <2>2. Waiting' = Waiting
    BY <2>1 DEF Waiting, Numbers
  <2>3. /\ DOMAIN dropped' = DOMAIN dropped \cup ToSet(sending.parts)
        /\ \A n \in DOMAIN dropped : dropped'[n] = dropped[n]
        /\ \A n \in ToSet(sending.parts) : n \in DOMAIN dropped \/ dropped'[n] = "exhausted"
    BY <2>1, DroppingReads
  <2>. QED BY <2>1, <2>2, <2>3 DEF Forward
<1>5. CASE UNCHANGED <<outbound, pending, published, dropped>>
  BY <1>5 DEF Forward, Waiting, Numbers
<1>6. SendFails \/ stop_all \/ (\E c \in Channel : apply_channel_feature_action(c))
         \/ UNCHANGED dvars
         => UNCHANGED <<outbound, pending, published, dropped>>
  BY DEF SendFails, stop_all, apply_channel_feature_action, dvars
<1>. QED BY <1>1, <1>2, <1>3, <1>4, <1>5, <1>6 DEF DispatchNext, Dispatcher

(* What says more than part of a stream was never merged.                   *)
LEMMA UnmergedReads ==
    ASSUME published \in Seq(Message), NEW e, Whole(e), e.msg.kind \notin {"delta", "end"}
    PROVE  \E n \in DOMAIN published :
              e.msg = published[n] /\ ToSet(e.parts) = {n} /\ published[n] \in Message
<1>1. e \in Item /\ e.parts # <<>> /\ Ascending(e.parts)
      /\ e.msg.kind = published[Last(e.parts)].kind
      /\ (Raw(e) \/ \A n \in ToSet(e.parts) : published[n].kind \in {"delta", "end"})
  BY DEF Whole
<1>2. Last(e.parts) \in ToSet(e.parts)
  <2>1. e.parts \in Seq(Nat)
    BY <1>1 DEF Item
  <2>. QED BY <1>1, <2>1, LastIsMost
<1>3. Raw(e)
  BY <1>1, <1>2
<1>. QED BY <1>3, RawReads

(* An answer once accepted stays accepted.                                  *)
LEMMA AcceptedStays ==
    ASSUME DInv, [DispatchNext]_dvars, NEW k, Accepted(k)
    PROVE  /\ Accepted(k)'
           /\ \A c, o, t : Says(k, c, o, t) => Says(k, c, o, t)'
<1>1. Forward
  BY StepsGoForward
<1>2. /\ k \in DOMAIN published /\ k \notin Waiting
      /\ published[k].kind \in {"answer", "followup"}
      /\ k \in DOMAIN dropped => dropped[k] = "exhausted"
  BY DEF Accepted
<1>3. k \in DOMAIN published' /\ published'[k] = published[k] /\ k \notin Waiting'
  BY <1>1, <1>2 DEF Forward
<1>4. k \in DOMAIN dropped' => dropped'[k] = "exhausted"
  <2> SUFFICES ASSUME k \in DOMAIN dropped', k \notin DOMAIN dropped, dropped'[k] # "exhausted"
               PROVE  FALSE
    BY <1>1, <1>2 DEF Forward
  <2>1. sending # Nothing /\ k \in ToSet(sending.parts) /\ sending.msg.kind = "streamed"
    BY <1>1, <1>2 DEF Forward
  <2>2. PICK n \in DOMAIN published : sending.msg = published[n] /\ ToSet(sending.parts) = {n}
    BY <2>1, UnmergedReads DEF DInv
  <2>. QED BY <1>2, <2>1, <2>2
<1>. QED BY <1>2, <1>3, <1>4 DEF Accepted, Says

LEMMA RInvDispatch ==
    ASSUME DInv, RInv, _dispatch_outbound
    PROVE  RInv'
<1>1. PICK e : /\ Whole(e) /\ Handled(e)
               /\ ToSet(e.parts) \cup (Numbers(pending') \cup Numbers(outbound')) = Waiting
               /\ Before(ToSet(e.parts), Numbers(pending') \cup Numbers(outbound'))
  BY DispatchTakesTheFirst
<1>2. /\ published \in Seq(Message) /\ published' = published /\ sending = Nothing
      /\ \A n \in DOMAIN published : n \in Nat
  BY LenProperties DEF DInv, _dispatch_outbound
<1>3. /\ Waiting' = Numbers(pending') \cup Numbers(outbound')
      /\ Waiting \cap DOMAIN dropped = {} /\ Waiting \subseteq DOMAIN published
      /\ Before(DOMAIN published \ Waiting, Waiting)
  <2>1. Waiting' = Numbers(pending') \cup Numbers(outbound')
    BY DEF Waiting, Numbers
  <2>2. ToSet(sending.parts) = {}
    BY <1>2 DEF Nothing, ToSet
  <2>3. Placed
    BY DEF DInv
  <2>. QED BY <2>1, <2>2, <2>3 DEF Placed, Waiting, Before
<1>4. [DispatchNext]_dvars
  BY DEF DispatchNext, Dispatcher
<1>5. \A k : Accepted(k) => /\ Accepted(k)'
                            /\ \A c, o, t : Says(k, c, o, t) => Says(k, c, o, t)'
  BY <1>4, AcceptedStays
<1>6. e.msg.kind \in {"answer", "followup"}
      => \E n \in DOMAIN published :
            /\ e.msg = published[n] /\ ToSet(e.parts) = {n} /\ n \in Waiting /\ n \notin Waiting'
            /\ e.msg.channel \in Channel /\ e.msg.origin \in Origin /\ e.msg.text \in Text
            /\ published[n].kind \in {"answer", "followup"}
  <2> SUFFICES ASSUME e.msg.kind \in {"answer", "followup"}
               PROVE  \E n \in DOMAIN published :
                         /\ e.msg = published[n] /\ ToSet(e.parts) = {n}
                         /\ n \in Waiting /\ n \notin Waiting'
                         /\ e.msg.channel \in Channel /\ e.msg.origin \in Origin
                         /\ e.msg.text \in Text
                         /\ published[n].kind \in {"answer", "followup"}
    OBVIOUS
  <2>1. PICK n \in DOMAIN published :
           e.msg = published[n] /\ ToSet(e.parts) = {n} /\ published[n] \in Message
    BY <1>1, <1>2, UnmergedReads
  <2>2. \A m \in Message : m.kind \in {"answer", "followup"}
           => m.channel \in Channel /\ m.origin \in Origin /\ m.text \in Text
    BY DEF Message, StreamKind
  <2>3. n \in Waiting /\ ~(n < n)
    BY <1>1, <1>2, <2>1
  <2>4. n \notin Waiting'
    BY <1>1, <1>3, <2>1, <2>3 DEF Before
  <2>. QED BY <2>1, <2>2, <2>3, <2>4
<1>7. CASE /\ Verdict(e.msg) = "send" /\ dropped' = dropped
           /\ fingerprints' = Remembered(e.msg)
  <2>1. \A n \in DOMAIN dropped' : dropped'[n] = "repeated" =>
           \E k \in DOMAIN published' :
              /\ k < n /\ Accepted(k)'
              /\ Says(k, published[n].channel, published[n].origin, published[n].text)'
    BY <1>2, <1>5, <1>7 DEF RInv
  <2>2. CASE e.msg.kind \notin {"answer", "followup"}
    <3>1. fingerprints' = fingerprints
      BY <1>7, <2>2 DEF Remembered
    <3>. QED BY <1>2, <1>5, <2>1, <3>1 DEF RInv, Says
  <2>3. CASE e.msg.kind \in {"answer", "followup"}
    <3>1. PICK n \in DOMAIN published :
             /\ e.msg = published[n] /\ ToSet(e.parts) = {n} /\ n \in Waiting /\ n \notin Waiting'
             /\ e.msg.channel \in Channel /\ e.msg.origin \in Origin /\ e.msg.text \in Text
             /\ published[n].kind \in {"answer", "followup"}
      BY <1>6, <2>3
    <3>2. PICK p : p = <<e.msg.channel, e.msg.origin>>
      OBVIOUS
    <3>3. p \in Channel \X Origin
      BY <3>1, <3>2
    <3>4. fingerprints' = [fingerprints EXCEPT ![p] = e.msg.text]
      BY <1>7, <2>3, <3>2 DEF Remembered
    <3>5. /\ fingerprints' = [x \in Channel \X Origin |-> fingerprints'[x]]
          /\ fingerprints'[p] = e.msg.text
          /\ \A x \in Channel \X Origin : x # p => fingerprints'[x] = fingerprints[x]
      BY <3>3, <3>4 DEF RInv
    <3>6. Accepted(n)'
      <4>1. n \notin DOMAIN dropped'
        BY <1>3, <1>7, <3>1
      <4>. QED BY <1>2, <3>1, <4>1 DEF Accepted
    <3>7. ASSUME NEW c \in Channel, NEW o \in Origin, fingerprints'[<<c, o>>] # Nil
          PROVE  \E k \in DOMAIN published' :
                    Accepted(k)' /\ Says(k, c, o, fingerprints[<<c, o>>])'
      <4>1. CASE <<c, o>> = p
        <5>1. c = e.msg.channel /\ o = e.msg.origin
          BY <3>2, <4>1
        <5>2. Says(n, c, o, fingerprints[<<c, o>>])'
          BY <1>2, <3>1, <3>5, <4>1, <5>1 DEF Says
        <5>. QED BY <1>2, <3>1, <3>6, <5>2
      <4>2. CASE <<c, o>> # p
        <5>1. fingerprints'[<<c, o>>] = fingerprints[<<c, o>>]
          BY <3>5, <4>2
        <5>2. PICK k \in DOMAIN published :
                 Accepted(k) /\ Says(k, c, o, fingerprints[<<c, o>>])
          BY <3>7, <5>1 DEF RInv
        <5>. QED BY <1>2, <1>5, <5>1, <5>2 DEF Says
      <4>. QED BY <4>1, <4>2
    <3>. QED BY <2>1, <3>5, <3>7 DEF RInv
  <2>. QED BY <2>2, <2>3
<1>8. CASE /\ Verdict(e.msg) # "send" /\ dropped' = Dropping(e, Verdict(e.msg))
           /\ fingerprints' = fingerprints
  <2>1. \A c \in Channel, o \in Origin : fingerprints'[<<c, o>>] # Nil =>
           \E k \in DOMAIN published' :
              Accepted(k)' /\ Says(k, c, o, fingerprints[<<c, o>>])'
    BY <1>2, <1>5, <1>8 DEF RInv, Says
  <2>2. ASSUME NEW n \in DOMAIN dropped', dropped'[n] = "repeated"
        PROVE  \E k \in DOMAIN published' :
                  /\ k < n /\ Accepted(k)'
                  /\ Says(k, published[n].channel, published[n].origin, published[n].text)'
    <3>1. CASE n \in DOMAIN dropped
      <4>1. dropped[n] = "repeated"
        BY <1>8, <2>2, <3>1, DroppingReads
      <4>. QED BY <1>2, <1>5, <3>1, <4>1 DEF RInv
    <3>2. CASE n \notin DOMAIN dropped
      <4>1. n \in ToSet(e.parts) /\ Verdict(e.msg) = "repeated"
        BY <1>8, <2>2, <3>2, DroppingReads
      <4>2. /\ e.msg.kind = "followup"
            /\ fingerprints[<<e.msg.channel, e.msg.origin>>] = e.msg.text
        BY <4>1 DEF Verdict, _should_suppress_outbound
      <4>3. /\ e.msg = published[n] /\ n \in DOMAIN published /\ n \in Waiting
            /\ e.msg.channel \in Channel /\ e.msg.origin \in Origin /\ e.msg.text \in Text
        BY <1>6, <4>1, <4>2
      <4>4. PICK k \in DOMAIN published :
               Accepted(k) /\ Says(k, e.msg.channel, e.msg.origin, e.msg.text)
        BY <4>2, <4>3, NilAssumption DEF RInv
      <4>5. k < n
        BY <1>3, <4>3, <4>4 DEF Accepted, Before
      <4>. QED BY <1>2, <1>5, <4>3, <4>4, <4>5 DEF Says
    <3>. QED BY <3>1, <3>2
  <2>. QED BY <1>8, <2>1, <2>2 DEF RInv
<1>. QED BY <1>1, <1>7, <1>8 DEF Handled

LEMMA RInvStep ==
    ASSUME DInv, RInv, [DispatchNext]_dvars
    PROVE  RInv'
<1>1. \A k : Accepted(k) => /\ Accepted(k)'
                            /\ \A c, o, t : Says(k, c, o, t) => Says(k, c, o, t)'
  BY AcceptedStays
<1>2. Forward
  BY StepsGoForward
<1>3. CASE _dispatch_outbound
  BY <1>3, RInvDispatch
<1>4. CASE ~_dispatch_outbound
  <2>1. /\ fingerprints' = fingerprints
        /\ \/ dropped' = dropped
           \/ \E why \in {"streamed", "exhausted"} : dropped' = Dropping(sending, why)
    BY <1>4 DEF DispatchNext, Dispatcher, publish_outbound, SendSucceeds, SendFails,
                SendExhausted, apply_channel_feature_action, stop_all, dvars
  <2>2. \A n \in DOMAIN dropped' : dropped'[n] = "repeated"
           => n \in DOMAIN dropped /\ dropped[n] = "repeated"
    BY <2>1, DroppingReads
  <2>3. \A n \in DOMAIN dropped : n \in DOMAIN published
    BY DEF DInv, Placed
  <2>4. \A k \in DOMAIN published : k \in DOMAIN published' /\ published'[k] = published[k]
    BY <1>2 DEF Forward
  <2>5. \A n \in DOMAIN dropped' : dropped'[n] = "repeated" =>
           \E k \in DOMAIN published' :
              /\ k < n /\ Accepted(k)'
              /\ Says(k, published[n].channel, published[n].origin, published[n].text)'
    <3> SUFFICES ASSUME NEW n \in DOMAIN dropped', dropped'[n] = "repeated"
                 PROVE  \E k \in DOMAIN published' :
                           /\ k < n /\ Accepted(k)'
                           /\ Says(k, published[n].channel, published[n].origin,
                                   published[n].text)'
      OBVIOUS
    <3>1. PICK k \in DOMAIN published :
             /\ k < n /\ Accepted(k)
             /\ Says(k, published[n].channel, published[n].origin, published[n].text)
      BY <2>2 DEF RInv
    <3>2. published'[n] = published[n]
      BY <2>2, <2>3, <2>4
    <3>. QED BY <1>1, <2>4, <3>1, <3>2 DEF Says
  <2>6. \A c \in Channel, o \in Origin : fingerprints'[<<c, o>>] # Nil =>
           \E k \in DOMAIN published' :
              Accepted(k)' /\ Says(k, c, o, fingerprints[<<c, o>>])'
    <3> SUFFICES ASSUME NEW c \in Channel, NEW o \in Origin, fingerprints'[<<c, o>>] # Nil
                 PROVE  \E k \in DOMAIN published' :
                           Accepted(k)' /\ Says(k, c, o, fingerprints[<<c, o>>])'
      OBVIOUS
    <3>1. PICK k \in DOMAIN published : Accepted(k) /\ Says(k, c, o, fingerprints[<<c, o>>])
      BY <2>1 DEF RInv
    <3>. QED BY <1>1, <2>1, <2>4, <3>1 DEF Says
  <2>. QED BY <2>1, <2>5, <2>6 DEF RInv
<1>. QED BY <1>3, <1>4

LEMMA RInvInit == DispatchInit => RInv
<1> SUFFICES ASSUME DispatchInit PROVE RInv
  OBVIOUS
<1>1. DOMAIN dropped = {} /\ fingerprints = [p \in Channel \X Origin |-> Nil]
  BY DEF DispatchInit
<1>2. \A c \in Channel, o \in Origin : fingerprints[<<c, o>>] = Nil
  BY <1>1
<1>. QED BY <1>1, <1>2 DEF RInv

(* A message is suppressed only after one with its text, to its chat, for   *)
(* its source message, was accepted for sending                             *)
(* (_should_suppress_outbound).                                             *)
THEOREM RepeatsOnly == DispatchSpec => []SuppressedIsARepeat
<1>1. DInv /\ RInv => SuppressedIsARepeat
  <2> SUFFICES ASSUME DInv, RInv, NEW n \in DOMAIN dropped, dropped[n] = "repeated"
               PROVE  \E k \in 1..(n - 1) :
                         /\ published[k].channel = published[n].channel
                         /\ published[k].origin = published[n].origin
                         /\ published[k].text = published[n].text
                         /\ k \in DOMAIN dropped => dropped[k] = "exhausted"
    BY DEF SuppressedIsARepeat
  <2>1. PICK k \in DOMAIN published :
           /\ k < n /\ Accepted(k)
           /\ Says(k, published[n].channel, published[n].origin, published[n].text)
    BY DEF RInv
  <2>2. n \in DOMAIN published /\ published \in Seq(Message)
    BY DEF DInv, Placed
  <2>3. k \in 1..(n - 1)
    BY <2>1, <2>2, LenProperties
  <2>. QED BY <2>1, <2>3 DEF Accepted, Says
<1>2. DInv /\ RInv /\ [DispatchNext]_dvars => RInv'
  BY RInvStep
<1>. QED BY <1>1, <1>2, DispatchInvariant, RInvInit, PTL DEF DispatchSpec

=============================================================================
