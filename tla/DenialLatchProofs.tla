-------------------------- MODULE DenialLatchProofs --------------------------
(***************************************************************************)
(* Every latch that is younger than the retention is one the audit log     *)
(* would give back, whatever the executor appends in between, the gateway  *)
(* fails to append, a dying machine tears and a new day trims.  Hence no   *)
(* restart over a log that reads as healthy lifts one, and no further torn *)
(* line makes a healthy log unreadable.  And no session is ever latched    *)
(* for another's refusal.  All for any number of calls and sessions.       *)
(***************************************************************************)
EXTENDS DenialLatch, WellFoundedInduction, TLAPS

-----------------------------------------------------------------------------
(* Calls                                                                    *)

\* A call that was started has a session, and no verdict before its reply.
CallInv ==
    /\ call \in [Call -> CallRecord]
    /\ \A c \in Call : call[c].pc # "new" => call[c].session \in Session
    /\ \A c \in Call : call[c].pc \in {"new", "deciding", "waiting"}
                         => call[c].verdict = "none"

\* No step takes a verdict back, and a call keeps its record.
VerdictsStay ==
    /\ CallInv'
    /\ \A c \in Call : call[c].verdict # "none"
                         => /\ call'[c].verdict = call[c].verdict
                            /\ call'[c].session = call[c].session

Verdicts == {"ran", "refused", "not_terminal", "expired", "error"}

(* What a reply makes of the record of a call (server_execution.py).        *)
LEMMA RepliedCall ==
    ASSUME NEW rec \in CallRecord, NEW v \in Verdicts
    PROVE  /\ Replied(rec, v) \in CallRecord
           /\ Replied(rec, v).session = rec.session
           /\ Replied(rec, v).verdict = v
           /\ Replied(rec, v).pc \in {"replied", "done"}
<1>1. PICK pc : pc = IF rec.heard THEN "replied" ELSE "done"
  OBVIOUS
<1>0. PICK b \in BOOLEAN : b = TRUE
  OBVIOUS
<1>2. PICK r : r = [rec EXCEPT !.pc = pc, !.heard = b, !.verdict = v]
  OBVIOUS
<1>3. pc \in {"replied", "done"}
  BY <1>1
<1>4. r \in CallRecord /\ r.session = rec.session /\ r.verdict = v /\ r.pc = pc
  BY <1>2, <1>3 DEF CallRecord, Verdicts
<1>5. Replied(rec, v) = r
  BY <1>0, <1>1, <1>2, Zenon DEF Replied
<1>. QED BY <1>3, <1>4, <1>5

(* What becomes of a call whose tool was cancelled, or died.                *)
LEMMA DesertedCall ==
    ASSUME NEW rec, rec \in CallRecord
    PROVE  /\ Deserted(rec) \in CallRecord
           /\ Deserted(rec).session = rec.session
           /\ Deserted(rec).verdict = rec.verdict
           /\ \/ Deserted(rec).pc = rec.pc
              \/ rec.pc = "replied" /\ Deserted(rec).pc = "done"
<1>1. CASE rec.pc = "replied"
  <2>1. PICK r : r = [rec EXCEPT !.pc = "done"]
    OBVIOUS
  <2>2. r \in CallRecord /\ r.session = rec.session /\ r.verdict = rec.verdict /\ r.pc = "done"
    BY <2>1 DEF CallRecord
  <2>. QED BY <1>1, <2>1, <2>2 DEF Deserted
<1>2. CASE rec.pc \in {"deciding", "waiting"}
  <2>1. PICK r : r = [rec EXCEPT !.heard = FALSE]
    OBVIOUS
  <2>2. r \in CallRecord /\ r.session = rec.session /\ r.verdict = rec.verdict /\ r.pc = rec.pc
    BY <2>1 DEF CallRecord
  <2>3. rec.pc # "replied"
    BY <1>2
  <2>4. Deserted(rec) = [rec EXCEPT !.heard = FALSE]
    BY <1>2, <2>3, Zenon DEF Deserted
  <2>5. Deserted(rec) = r
    BY <2>1, <2>4, Zenon
  <2>. QED BY <2>2, <2>5
<1>3. CASE rec.pc \notin {"replied", "deciding", "waiting"}
  BY <1>3 DEF Deserted
<1>. QED BY <1>1, <1>2, <1>3

LEMMA CallChanges ==
    ASSUME CallInv, NEW c \in Call, NEW r \in CallRecord, r.session \in Session,
           call' = [call EXCEPT ![c] = r],
           r.pc \in {"new", "deciding", "waiting"} => r.verdict = "none",
           call[c].verdict # "none" => r.verdict = call[c].verdict /\ r.session = call[c].session
    PROVE  VerdictsStay
<1>1. call'[c] = r /\ \A x \in Call : x # c => call'[x] = call[x]
  BY DEF CallInv
<1>2. CallInv'
  <2>1. call' \in [Call -> CallRecord]
    BY DEF CallInv
  <2>. QED BY <1>1, <2>1 DEF CallInv
<1>. QED BY <1>1, <1>2 DEF VerdictsStay

LEMMA CallsChange ==
    ASSUME CallInv, DOMAIN call' = Call, call' = [c \in Call |-> call'[c]],
           \A c \in Call :
              /\ call'[c] \in CallRecord /\ call'[c].session = call[c].session
              /\ call'[c].pc # "new" => call[c].pc # "new"
              /\ call'[c].pc \in {"new", "deciding", "waiting"} => call'[c].verdict = "none"
              /\ call[c].verdict # "none" => call'[c].verdict = call[c].verdict
    PROVE  VerdictsStay
<1>1. call' \in [Call -> CallRecord]
  OBVIOUS
<1>. QED BY <1>1 DEF VerdictsStay, CallInv

(* Every handler keeps the calls in order.                                  *)
LEMMA CallStep ==
    ASSUME CallInv, [Next]_vars
    PROVE  VerdictsStay
<1>0. \A c \in Call : /\ call[c] \in CallRecord
                      /\ call[c].pc # "new" => call[c].session \in Session
  BY DEF CallInv
<1>1. ASSUME UNCHANGED call PROVE VerdictsStay
  BY <1>1 DEF VerdictsStay, CallInv
<1>2. ASSUME NEW c \in Call, NEW s \in Session, Start(c, s) \/ StartInventory(c, s)
      PROVE  VerdictsStay
  <2>1. PICK r : /\ call' = [call EXCEPT ![c] = r]
                 /\ \/ r = [NewCall EXCEPT !.pc = "deciding", !.session = s]
                    \/ \E v \in {"latched", "ran", "policy"} :
                          r = [NewCall EXCEPT !.pc = "done", !.session = s, !.verdict = v]
    <3>1. CASE Start(c, s)
      BY <3>1 DEF Start
    <3>2. CASE StartInventory(c, s)
      BY <3>2 DEF StartInventory
    <3>. QED BY <1>2, <3>1, <3>2
  <2>2. CASE r = [NewCall EXCEPT !.pc = "deciding", !.session = s]
    <3>1. r \in CallRecord /\ r.session = s /\ r.verdict = "none"
      BY <2>2 DEF NewCall, CallRecord
    <3>2. call[c].verdict = "none"
      BY <1>2 DEF Start, StartInventory, CallInv
    <3>. QED BY <2>1, <3>1, <3>2, CallChanges
  <2>3. CASE \E v \in {"latched", "ran", "policy"} :
                r = [NewCall EXCEPT !.pc = "done", !.session = s, !.verdict = v]
    <3>1. r \in CallRecord /\ r.session = s /\ r.pc = "done"
      BY <2>3 DEF NewCall, CallRecord
    <3>2. call[c].verdict = "none"
      BY <1>2 DEF Start, StartInventory, CallInv
    <3>. QED BY <2>1, <3>1, <3>2, CallChanges
  <2>. QED BY <2>1, <2>2, <2>3
<1>3. ASSUME NEW c \in Call, NEW v \in Verdicts, Reply(c, v),
             call[c].pc \in {"deciding", "waiting"}
      PROVE  VerdictsStay
  <2>1. call' = [call EXCEPT ![c] = Replied(call[c], v)] /\ call[c].verdict = "none"
    BY <1>3 DEF Reply, CallInv
  <2>2. PICK r : r = Replied(call[c], v)
    OBVIOUS
  <2>3. r \in CallRecord /\ r.session \in Session /\ r.pc \in {"replied", "done"}
    BY <1>0, <1>3, <2>2, RepliedCall
  <2>. QED BY <2>1, <2>2, <2>3, CallChanges
<1>4. ASSUME NEW c \in Call, Decide(c) PROVE VerdictsStay
  <2>1. CASE \E v \in Verdicts : Reply(c, v)
    BY <1>3, <1>4, <2>1 DEF Decide
  <2>2. CASE call' = [call EXCEPT ![c].pc = "waiting"]
    <3>1. PICK r : r = [call[c] EXCEPT !.pc = "waiting"]
      OBVIOUS
    <3>2. call[c].pc = "deciding" /\ call[c].verdict = "none"
      BY <1>4 DEF Decide, CallInv
    <3>3. r \in CallRecord /\ r.session \in Session /\ r.verdict = "none"
      BY <1>0, <3>1, <3>2 DEF CallRecord
    <3>4. call' = [call EXCEPT ![c] = r]
      BY <2>2, <3>1
    <3>. QED BY <3>2, <3>3, <3>4, CallChanges
  <2>. QED BY <1>4, <2>1, <2>2 DEF Decide, Verdicts
<1>5. ASSUME NEW c \in Call, Answer(c) PROVE VerdictsStay
  <2>1. \E v \in Verdicts : Reply(c, v)
    BY <1>5 DEF Answer, Verdicts
  <2>. QED BY <1>3, <1>5, <2>1 DEF Answer
<1>6. ASSUME NEW c \in Call, Handle(c) PROVE VerdictsStay
  <2>1. PICK r : r = [call[c] EXCEPT !.pc = "done"]
    OBVIOUS
  <2>2. /\ r \in CallRecord /\ r.session = call[c].session /\ r.verdict = call[c].verdict
        /\ r.pc = "done"
    BY <1>0, <2>1 DEF CallRecord
  <2>3. call' = [call EXCEPT ![c] = r] /\ r.session \in Session
    BY <1>0, <1>6, <2>1, <2>2 DEF Handle
  <2>. QED BY <2>2, <2>3, CallChanges
<1>7. \A c \in Call :
         /\ Deserted(call[c]) \in CallRecord
         /\ Deserted(call[c]).session = call[c].session
         /\ Deserted(call[c]).verdict = call[c].verdict
         /\ \/ Deserted(call[c]).pc = call[c].pc
            \/ call[c].pc = "replied" /\ Deserted(call[c]).pc = "done"
  BY <1>0, DesertedCall
<1>8. ASSUME NEW c \in Call, Stop(c) PROVE VerdictsStay
  <2>1. PICK r : r = Deserted(call[c])
    OBVIOUS
  <2>2. call' = [call EXCEPT ![c] = r]
    BY <1>8, <2>1 DEF Stop
  <2>3. r \in CallRecord /\ r.session \in Session /\ r.verdict = call[c].verdict
        /\ (r.pc \in {"new", "deciding", "waiting"} => r.verdict = "none")
    BY <1>0, <1>7, <1>8, <2>1 DEF Stop, CallInv
  <2>4. r.session = call[c].session
    BY <1>7, <2>1
  <2>. QED BY <2>2, <2>3, <2>4, CallChanges
<1>9. CASE Restart
  <2>1. DOMAIN call' = Call /\ call' = [c \in Call |-> call'[c]]
        /\ \A c \in Call : call'[c] = Deserted(call[c])
    BY <1>9 DEF Restart
  <2>. QED BY <1>7, <2>1, CallsChange DEF CallInv
<1>10. \A c \in Call : call[c].pc \in {"deciding", "waiting"} =>
          /\ Replied(call[c], "error") \in CallRecord
          /\ Replied(call[c], "error").session = call[c].session
          /\ Replied(call[c], "error").pc \in {"replied", "done"}
          /\ call[c].verdict = "none"
  BY <1>0, RepliedCall DEF Verdicts, CallInv
<1>11. CASE ExecutorDies
  <2>1. DOMAIN call' = Call /\ call' = [c \in Call |-> call'[c]]
        /\ \A c \in Call : call'[c] = IF call[c].pc \in {"deciding", "waiting"}
                                      THEN Replied(call[c], "error") ELSE call[c]
    BY <1>11 DEF ExecutorDies
  <2>. QED BY <1>0, <1>10, <2>1, CallsChange DEF CallInv
<1>12. CASE PowerLoss
  <2>1. DOMAIN call' = Call /\ call' = [c \in Call |-> call'[c]]
        /\ \A c \in Call : call'[c] = IF call[c].pc \in {"deciding", "waiting"}
                                      THEN Deserted(Replied(call[c], "error"))
                                      ELSE Deserted(call[c])
    BY <1>12 DEF PowerLoss
  <2>2. ASSUME NEW c \in Call, call[c].pc \in {"deciding", "waiting"}
        PROVE  /\ call'[c] \in CallRecord /\ call'[c].session = call[c].session
               /\ call'[c].pc \in {"replied", "done"} /\ call[c].verdict = "none"
    BY <1>10, <2>1, <2>2, DesertedCall
  <2>3. ASSUME NEW c \in Call, call[c].pc \notin {"deciding", "waiting"}
        PROVE  /\ call'[c] \in CallRecord /\ call'[c].session = call[c].session
               /\ call'[c].verdict = call[c].verdict
               /\ \/ call'[c].pc = call[c].pc
                  \/ call'[c].pc = "done" /\ call[c].pc # "new"
    BY <1>7, <2>1, <2>3
  <2>4. ASSUME NEW c \in Call
        PROVE  /\ call'[c] \in CallRecord /\ call'[c].session = call[c].session
               /\ call'[c].pc # "new" => call[c].pc # "new"
               /\ call'[c].pc \in {"new", "deciding", "waiting"} => call'[c].verdict = "none"
               /\ call[c].verdict # "none" => call'[c].verdict = call[c].verdict
    <3>1. CASE call[c].pc \in {"deciding", "waiting"}
      BY <2>2, <3>1
    <3>2. CASE call[c].pc \notin {"deciding", "waiting"}
      BY <2>3, <3>2 DEF CallInv
    <3>. QED BY <3>1, <3>2
  <2>. QED BY <2>1, <2>4, CallsChange
<1>13. ASSUME NEW p \in Pair, Clear(p) PROVE VerdictsStay
  BY <1>1, <1>13 DEF Clear
<1>14. CASE NewDay \/ UNCHANGED vars
  BY <1>1, <1>14 DEF NewDay, vars
<1>. QED BY <1>2, <1>4, <1>5, <1>6, <1>8, <1>9, <1>11, <1>12, <1>13, <1>14 DEF Next


-----------------------------------------------------------------------------
(* The log                                                                  *)

\* The log says that q was denied on that day or later, and not cleared since.
HasRecord(lines, q, day) ==
    \E i \in DOMAIN lines :
       /\ lines[i].decision = "denied" /\ lines[i].pair = q /\ day <= lines[i].day
       /\ \A j \in DOMAIN lines :
             lines[j].decision = "cleared" /\ lines[j].pair = q => j < i

NoStump(lines) == \A i \in DOMAIN lines : lines[i].decision # "torn"

\* The lines are in the order of their days, none of them yet to come.
Dated(lines) ==
    \A i \in DOMAIN lines :
       lines[i].day <= today /\ \A j \in DOMAIN lines : i <= j => lines[i].day <= lines[j].day

\* Written is lines without their first k, which are old, and one line more.
Trimmed(lines, written, k, l) ==
    /\ DOMAIN written = 1..(Len(lines) - k + 1)
    /\ \A i \in 1..(Len(lines) - k) : written[i] = lines[k + i]
    /\ written[Len(lines) - k + 1] = l
    /\ \A j \in 1..k : Old(lines[j])

LEMMA LineFields ==
    ASSUME today \in Nat, NEW d \in Decision, NEW p \in Pair \cup {"none"}
    PROVE  /\ Line(d, p) \in LogLine /\ Line(d, p).decision = d
           /\ Line(d, p).pair = p /\ Line(d, p).day = today
BY DEF Line, LogLine

(* Retention drops the first segments of the log and no line that is young  *)
(* enough, the new one among them (AuditStore.prune).                       *)
LEMMA PrunedLines ==
    ASSUME BoundsOK, today \in Nat, NEW lines \in Seq(LogLine), NEW l \in LogLine,
           l.day = today
    PROVE  /\ Prune(Append(lines, l)) \in Seq(LogLine)
           /\ \E k \in 0..Len(lines) : Trimmed(lines, Prune(Append(lines, l)), k, l)
<1> DEFINE more == Append(lines, l)
<1>1. Len(lines) \in Nat /\ DOMAIN lines = 1..Len(lines) /\ \A i \in DOMAIN lines : lines[i] \in LogLine
  OBVIOUS
<1>2. /\ more \in Seq(LogLine) /\ Len(more) = Len(lines) + 1
      /\ DOMAIN more = 1..(Len(lines) + 1)
      /\ \A i \in 1..Len(lines) : more[i] = lines[i]
      /\ more[Len(lines) + 1] = l
  BY <1>1
<1> HIDE DEF more
<1>3. CASE \E i \in DOMAIN more : Old(more[i])
  <2> DEFINE First(i) == ~Old(more[i]) /\ \A j \in 1..i-1 : Old(more[j])
             kept == CHOOSE i \in DOMAIN more : First(i)
  <2>1. \E i \in DOMAIN more : First(i)
    <3> DEFINE T == {i \in DOMAIN more : ~Old(more[i])}
    <3>1. ~Old(l)
      BY DEF Old, TooOld, BoundsOK
    <3>2. T # {} /\ T \subseteq Nat
      BY <1>1, <1>2, <3>1
    <3>3. PICK i \in T : \A j \in T : ~(<<j, i>> \in OpToRel(<, Nat))
      <4> HIDE DEF T
      <4>. QED BY <3>2, NatLessThanWellFounded, WFMin
    <3>4. \A j \in T : ~(j < i)
      BY <3>2, <3>3 DEF OpToRel
    <3>5. \A j \in 1..i-1 : j \in DOMAIN more /\ j < i
      <4>1. i \in 1..(Len(lines) + 1)
        BY <1>2, <3>3
      <4>. QED BY <1>1, <1>2, <4>1
    <3>. QED BY <3>3, <3>4, <3>5
  <2>2. kept \in DOMAIN more /\ \A j \in 1..kept-1 : Old(more[j])
    BY <2>1
  <2>3. Prune(more) = SubSeq(more, kept, Len(more))
    BY <1>3 DEF Prune
  <2> HIDE DEF kept
  <2>4. PICK k \in 0..Len(lines) : kept = k + 1
    <3>1. kept \in 1..(Len(lines) + 1) /\ kept - 1 \in 0..Len(lines)
      BY <1>1, <1>2, <2>2
    <3>. QED BY <3>1
  <2>5. /\ Prune(more) \in Seq(LogLine)
        /\ DOMAIN Prune(more) = 1..(Len(lines) - k + 1)
        /\ \A i \in 1..(Len(lines) - k + 1) : Prune(more)[i] = more[k + i]
    BY <1>1, <1>2, <2>2, <2>3, <2>4
  <2>6. Trimmed(lines, Prune(more), k, l)
    <3>1. \A i \in 1..(Len(lines) - k) : k + i \in 1..Len(lines) /\ i \in 1..(Len(lines) - k + 1)
      BY <1>1
    <3>2. \A i \in 1..(Len(lines) - k) : Prune(more)[i] = lines[k + i]
      BY <1>2, <2>5, <3>1
    <3>3. /\ Len(lines) - k + 1 \in 1..(Len(lines) - k + 1)
          /\ k + (Len(lines) - k + 1) = Len(lines) + 1
      BY <1>1
    <3>4. Prune(more)[Len(lines) - k + 1] = l
      BY <1>2, <2>5, <3>3
    <3>5. \A j \in 1..k : j \in 1..Len(lines) /\ j \in 1..kept-1
      BY <1>1, <2>4
    <3>6. \A j \in 1..k : Old(lines[j])
      BY <1>2, <2>2, <3>5
    <3>. QED BY <2>5, <3>2, <3>4, <3>6 DEF Trimmed
  <2>. QED BY <2>5, <2>6 DEF more
<1>4. CASE ~\E i \in DOMAIN more : Old(more[i])
  <2>1. Prune(more) = more
    BY <1>4 DEF Prune
  <2>2. Trimmed(lines, more, 0, l)
    BY <1>1, <1>2 DEF Trimmed
  <2>. QED BY <1>1, <1>2, <2>1, <2>2 DEF more
<1>. QED BY <1>3, <1>4

(* What an append makes of the lines (AuditStore._append): the new one      *)
(* joins a stump, is one that was already said, or follows what is kept.    *)
LEMMA WrittenShape ==
    ASSUME BoundsOK, today \in Nat, NEW lines \in Seq(LogLine),
           NEW d \in Decision, NEW p \in Pair \cup {"none"}
    PROVE  /\ Written(lines, d, p) \in Seq(LogLine)
           /\ \/ /\ Joins(lines) /\ Len(lines) \in DOMAIN lines
                 /\ DOMAIN Written(lines, d, p) = DOMAIN lines
                 /\ Len(Written(lines, d, p)) = Len(lines)
                 /\ Written(lines, d, p)[Len(lines)].decision = "corrupt"
                 /\ Written(lines, d, p)[Len(lines)].day = today
                 /\ \A i \in DOMAIN lines : i # Len(lines) => Written(lines, d, p)[i] = lines[i]
              \/ /\ ~Joins(lines) /\ Len(lines) \in DOMAIN lines
                 /\ lines[Len(lines)] = Line(d, p) /\ Written(lines, d, p) = lines
              \/ /\ ~Joins(lines)
                 /\ \E k \in 0..Len(lines) : Trimmed(lines, Written(lines, d, p), k, Line(d, p))
<1>1. Len(lines) \in Nat /\ DOMAIN lines = 1..Len(lines) /\ \A i \in DOMAIN lines : lines[i] \in LogLine
  OBVIOUS
<1>2. PICK l : l = Line(d, p)
  OBVIOUS
<1>3. l \in LogLine /\ l.decision = d /\ l.day = today
  BY <1>2, LineFields
<1>4. CASE Joins(lines)
  <2>1. Written(lines, d, p) = [lines EXCEPT ![Len(lines)].decision = "corrupt"]
    BY <1>4 DEF Written
  <2>2. Len(lines) \in DOMAIN lines
    BY <1>1, <1>4 DEF Joins
  <2>3. PICK c : c = [lines[Len(lines)] EXCEPT !.decision = "corrupt"]
    OBVIOUS
  <2>4. c \in LogLine /\ c.decision = "corrupt" /\ c.day = today
    BY <1>1, <1>4, <2>2, <2>3 DEF LogLine, Decision, Joins
  <2>5. Written(lines, d, p) = [lines EXCEPT ![Len(lines)] = c]
    BY <2>1, <2>3
  <2>6. /\ Written(lines, d, p) \in Seq(LogLine) /\ DOMAIN Written(lines, d, p) = DOMAIN lines
        /\ Len(Written(lines, d, p)) = Len(lines)
        /\ Written(lines, d, p)[Len(lines)] = c
        /\ \A i \in DOMAIN lines : i # Len(lines) => Written(lines, d, p)[i] = lines[i]
    BY <2>2, <2>4, <2>5
  <2>. QED BY <1>4, <2>2, <2>4, <2>6
<1>5. CASE ~Joins(lines) /\ FirstOfDay(lines)
  <2>1. Written(lines, d, p) = Prune(Append(lines, l))
    BY <1>2, <1>5 DEF Written
  <2>. QED BY <1>2, <1>3, <1>5, <2>1, PrunedLines
<1>6. CASE ~Joins(lines) /\ ~FirstOfDay(lines) /\ Repeats(lines, l)
  <2>1. Written(lines, d, p) = lines
    BY <1>2, <1>6 DEF Written
  <2>2. Len(lines) \in DOMAIN lines /\ lines[Len(lines)] = l
    BY <1>1, <1>6 DEF Repeats
  <2>. QED BY <1>2, <1>6, <2>1, <2>2
<1>7. CASE ~Joins(lines) /\ ~FirstOfDay(lines) /\ ~Repeats(lines, l)
  <2>1. Written(lines, d, p) = Append(lines, l)
    BY <1>2, <1>7 DEF Written
  <2>2. Append(lines, l) \in Seq(LogLine) /\ Trimmed(lines, Append(lines, l), 0, l)
    BY <1>1, <1>3 DEF Trimmed
  <2>3. \E k \in 0..Len(lines) : Trimmed(lines, Append(lines, l), k, l)
    BY <1>1, <2>2
  <2>. QED BY <1>2, <1>7, <2>1, <2>2, <2>3
<1>. QED BY <1>4, <1>5, <1>6, <1>7

(* At most the new line is added.                                           *)
LEMMA WrittenLines ==
    ASSUME BoundsOK, today \in Nat, NEW lines \in Seq(LogLine),
           NEW d \in Decision, NEW p \in Pair \cup {"none"}
    PROVE  \A i \in DOMAIN Written(lines, d, p) :
              \/ \E k \in DOMAIN lines : Written(lines, d, p)[i] = lines[k]
              \/ Written(lines, d, p)[i] = Line(d, p)
              \/ Written(lines, d, p)[i].decision = "corrupt"
<1>1. Len(lines) \in Nat /\ DOMAIN lines = 1..Len(lines)
  OBVIOUS
<1>2. PICK w : w = Written(lines, d, p)
  OBVIOUS
<1>3. ASSUME NEW k \in 0..Len(lines), Trimmed(lines, w, k, Line(d, p)), NEW i \in DOMAIN w
      PROVE  (\E m \in DOMAIN lines : w[i] = lines[m]) \/ w[i] = Line(d, p)
  <2>1. i \in 1..(Len(lines) - k) \/ i = Len(lines) - k + 1
    BY <1>1, <1>3 DEF Trimmed
  <2>2. CASE i \in 1..(Len(lines) - k)
    <3>1. k + i \in DOMAIN lines
      BY <1>1, <2>2
    <3>. QED BY <1>3, <2>2, <3>1 DEF Trimmed
  <2>. QED BY <1>3, <2>1, <2>2 DEF Trimmed
<1>. QED BY <1>2, <1>3, WrittenShape

LEMMA WrittenLeavesNoStump ==
    ASSUME BoundsOK, today \in Nat, NEW lines \in Seq(LogLine),
           NEW d \in Decision \ {"torn"}, NEW p \in Pair \cup {"none"}, NoStump(lines)
    PROVE  NoStump(Written(lines, d, p))
BY WrittenLines, LineFields DEF NoStump

LEMMA WrittenIsDated ==
    ASSUME BoundsOK, today \in Nat, NEW lines \in Seq(LogLine),
           NEW d \in Decision, NEW p \in Pair \cup {"none"}, Dated(lines)
    PROVE  Dated(Written(lines, d, p))
<1>0. Len(lines) \in Nat /\ DOMAIN lines = 1..Len(lines) /\ \A i \in DOMAIN lines : lines[i] \in LogLine
  OBVIOUS
<1>1. \A i \in DOMAIN lines : lines[i].day \in Nat
  BY <1>0 DEF LogLine
<1>2. PICK w : w = Written(lines, d, p)
  OBVIOUS
<1>3. PICK l : l = Line(d, p)
  OBVIOUS
<1>4. l.day = today
  BY <1>3, LineFields
<1>5. CASE /\ DOMAIN w = DOMAIN lines /\ w[Len(lines)].day = today
           /\ \A i \in DOMAIN lines : i # Len(lines) => w[i] = lines[i]
  <2>1. Dated(w)
    BY <1>0, <1>1, <1>5 DEF Dated
  <2>. QED BY <1>2, <2>1
<1>6. CASE \E k \in 0..Len(lines) : Trimmed(lines, w, k, l)
  <2>1. PICK k \in 0..Len(lines) : Trimmed(lines, w, k, l)
    BY <1>6
  <2>2. \A i \in DOMAIN w : \/ i \in 1..(Len(lines) - k) /\ k + i \in DOMAIN lines
                           \/ i = Len(lines) - k + 1
    BY <1>0, <2>1 DEF Trimmed
  <2>3. /\ \A i \in 1..(Len(lines) - k) : k + i \in DOMAIN lines => w[i].day = lines[k + i].day
        /\ w[Len(lines) - k + 1].day = today
    BY <1>4, <2>1 DEF Trimmed
  <2>4. \A i \in DOMAIN w : w[i].day <= today
    BY <1>0, <1>1, <2>2, <2>3 DEF Dated
  <2>5. ASSUME NEW i \in DOMAIN w, NEW j \in DOMAIN w, i <= j PROVE w[i].day <= w[j].day
    <3>1. CASE j = Len(lines) - k + 1
      BY <2>3, <2>4, <3>1
    <3>2. CASE j # Len(lines) - k + 1
      <4>1. /\ i \in 1..(Len(lines) - k) /\ j \in 1..(Len(lines) - k)
            /\ k + i \in DOMAIN lines /\ k + j \in DOMAIN lines /\ k + i <= k + j
        BY <1>0, <2>2, <2>5, <3>2
      <4>2. lines[k + i].day <= lines[k + j].day
        BY <4>1 DEF Dated
      <4>. QED BY <2>3, <4>1, <4>2
    <3>. QED BY <3>1, <3>2
  <2>. QED BY <1>2, <2>4, <2>5 DEF Dated
<1>7. CASE w = lines
  BY <1>2, <1>7
<1>. QED BY <1>2, <1>3, <1>5, <1>6, <1>7, WrittenShape

(* The next line does not cost the record of a latch, unless it clears it:  *)
(* neither by joining a stump nor by a trim, as long as the record is young *)
(* enough.                                                                  *)
LEMMA WrittenKeeps ==
    ASSUME BoundsOK, today \in Nat, NEW lines \in Seq(LogLine),
           NEW d \in Decision, NEW p \in Pair \cup {"none"},
           NEW q \in Pair, NEW day \in Nat, HasRecord(lines, q, day), ~TooOld(day),
           d # "cleared" \/ q # p
    PROVE  HasRecord(Written(lines, d, p), q, day)
<1>1. Len(lines) \in Nat /\ DOMAIN lines = 1..Len(lines) /\ \A i \in DOMAIN lines : lines[i] \in LogLine
  OBVIOUS
<1>2. PICK w : w = Written(lines, d, p)
  OBVIOUS
<1>3. PICK i \in DOMAIN lines :
         /\ lines[i].decision = "denied" /\ lines[i].pair = q /\ day <= lines[i].day
         /\ \A j \in DOMAIN lines : lines[j].decision = "cleared" /\ lines[j].pair = q => j < i
  BY DEF HasRecord
<1>4. CASE /\ Joins(lines) /\ DOMAIN w = DOMAIN lines
           /\ w[Len(lines)].decision = "corrupt"
           /\ \A j \in DOMAIN lines : j # Len(lines) => w[j] = lines[j]
  <2>1. i # Len(lines)
    BY <1>3, <1>4 DEF Joins
  <2>2. \A j \in DOMAIN w : w[j].decision = "cleared" => j # Len(lines)
    BY <1>4
  <2>3. HasRecord(w, q, day)
    BY <1>3, <1>4, <2>1, <2>2 DEF HasRecord
  <2>. QED BY <1>2, <2>3
<1>5. CASE \E k \in 0..Len(lines) : Trimmed(lines, w, k, Line(d, p))
  <2>1. PICK k \in 0..Len(lines) : Trimmed(lines, w, k, Line(d, p))
    BY <1>5
  <2>2. ~Old(lines[i])
    BY <1>1, <1>3 DEF Old, TooOld, LogLine, BoundsOK
  <2>3. i \notin 1..k
    BY <2>1, <2>2 DEF Trimmed
  <2>4. PICK m \in 1..(Len(lines) - k) : i = k + m
    <3>1. i - k \in 1..(Len(lines) - k)
      BY <1>1, <1>3, <2>3
    <3>. QED BY <1>1, <3>1
  <2>5. m \in DOMAIN w /\ w[m] = lines[i]
    BY <1>1, <2>1, <2>4 DEF Trimmed
  <2>6. ASSUME NEW j \in DOMAIN w, w[j].decision = "cleared", w[j].pair = q
        PROVE  j < m
    <3>1. j \in 1..(Len(lines) - k) \/ j = Len(lines) - k + 1
      BY <1>1, <2>1 DEF Trimmed
    <3>2. j # Len(lines) - k + 1
      BY <2>1, <2>6, LineFields DEF Trimmed
    <3>3. k + j \in DOMAIN lines /\ w[j] = lines[k + j]
      BY <1>1, <2>1, <3>1, <3>2 DEF Trimmed
    <3>4. k + j < i
      BY <1>3, <2>6, <3>3
    <3>. QED BY <1>1, <2>4, <3>1, <3>4
  <2>7. HasRecord(w, q, day)
    BY <1>3, <2>5, <2>6 DEF HasRecord
  <2>. QED BY <1>2, <2>7
<1>6. CASE w = lines
  BY <1>2, <1>6
<1>. QED BY <1>2, <1>4, <1>5, <1>6, WrittenShape

(* A denied line that joins no stump is a record (restore_latches).         *)
LEMMA WrittenSays ==
    ASSUME BoundsOK, today \in Nat, NEW lines \in Seq(LogLine), NEW p \in Pair, ~Joins(lines)
    PROVE  HasRecord(Written(lines, "denied", p), p, today)
<1>1. Len(lines) \in Nat /\ DOMAIN lines = 1..Len(lines)
  OBVIOUS
<1>2. PICK w : w = Written(lines, "denied", p)
  OBVIOUS
<1>3. PICK l : l = Line("denied", p)
  OBVIOUS
<1>4. l.decision = "denied" /\ l.pair = p /\ l.day = today
  BY <1>3, LineFields DEF Decision
<1>5. ASSUME NEW n \in Nat, n \in DOMAIN w, DOMAIN w = 1..n, w[n] = l
      PROVE  HasRecord(w, p, today)
  <2>1. \A j \in DOMAIN w : w[j].decision = "cleared" => j < n
    BY <1>4, <1>5
  <2>. QED BY <1>4, <1>5, <2>1 DEF HasRecord
<1>6. ASSUME w = lines, lines[Len(lines)] = l, Len(lines) \in DOMAIN lines
      PROVE  HasRecord(w, p, today)
  BY <1>1, <1>5, <1>6
<1>7. ASSUME NEW k \in 0..Len(lines), Trimmed(lines, w, k, l) PROVE HasRecord(w, p, today)
  <2>1. Len(lines) - k + 1 \in Nat /\ Len(lines) - k + 1 \in 1..(Len(lines) - k + 1)
    BY <1>1
  <2>. QED BY <1>5, <1>7, <2>1 DEF Trimmed
<1>8. HasRecord(w, p, today)
  BY <1>2, <1>3, <1>6, <1>7, WrittenShape DEF Decision
<1>. QED BY <1>2, <1>8

(* Of the two lines of a refusal at most the first joins the stump.         *)
LEMMA WrittenTwice ==
    ASSUME BoundsOK, today \in Nat, NEW lines \in Seq(LogLine), NEW p \in Pair
    PROVE  HasRecord(Written(Written(lines, "denied", p), "denied", p), p, today)
<1>1. PICK w : w = Written(lines, "denied", p)
  OBVIOUS
<1>2. w \in Seq(LogLine)
  BY <1>1, WrittenShape DEF Decision
<1>3. CASE Joins(lines)
  <2>1. w[Len(w)].decision = "corrupt"
    BY <1>1, <1>3, WrittenShape DEF Decision
  <2>2. ~Joins(w)
    BY <2>1 DEF Joins
  <2>. QED BY <1>1, <1>2, <2>2, WrittenSays
<1>4. CASE ~Joins(lines)
  <2>1. HasRecord(w, p, today)
    BY <1>1, <1>4, WrittenSays
  <2>2. ~TooOld(today)
    BY DEF TooOld, BoundsOK
  <2>. QED BY <1>1, <1>2, <2>1, <2>2, WrittenKeeps DEF Decision
<1>. QED BY <1>3, <1>4

-----------------------------------------------------------------------------
(* The record of a latch                                                    *)

\* Every latch that is young enough has a record, unless one line of its
\* refusal joined a stump and the other was lost.
Recorded == SomeRecordSurvives => \A p \in latched : Recent(p) => HasRecord(log, p, at[p])

LInv ==
    /\ CallInv
    /\ today \in Nat /\ tears \in Nat /\ losses \in Nat
    /\ log \in Seq(LogLine) /\ Dated(log)
    /\ tears = 0 => NoStump(log)
    /\ latched \subseteq Pair
    /\ at \in [Pair -> Nat]
    /\ Recorded

LEMMA RecordLatches ==
    ASSUME NEW p \in Pair, NEW day \in Nat, HasRecord(log, p, day)
    PROVE  LatchedOnRecord(p)
<1>1. PICK i \in DOMAIN log :
         /\ log[i].decision = "denied" /\ log[i].pair = p
         /\ \A j \in DOMAIN log : log[j].decision = "cleared" /\ log[j].pair = p => j < i
  BY DEF HasRecord
<1>. QED BY <1>1 DEF LatchedOnRecord, Lines

(* A step that writes at most one line, and latches nothing.                *)
LEMMA LineStep ==
    ASSUME BoundsOK, LInv, CallInv', NEW p \in Pair \cup {"none"},
           NEW d \in Decision \ {"torn"}, log' = log \/ log' = Written(log, d, p),
           latched' \subseteq latched, d # "cleared" \/ p \notin latched',
           at' \in [Pair -> Nat], \A q \in latched' : at'[q] = at[q],
           today' = today, tears' = tears, losses' \in Nat, losses <= losses'
    PROVE  LInv'
<1>1. log' \in Seq(LogLine) /\ Dated(log)' /\ (tears' = 0 => NoStump(log'))
  <2>1. CASE log' = log
    BY <2>1 DEF LInv, Dated
  <2>2. CASE log' = Written(log, d, p)
    <3>1. log' \in Seq(LogLine) /\ Dated(log')
      BY <2>2, WrittenShape, WrittenIsDated DEF LInv
    <3>2. tears' = 0 => NoStump(log')
      BY <2>2, WrittenLeavesNoStump DEF LInv
    <3>. QED BY <3>1, <3>2 DEF Dated
  <2>. QED BY <2>1, <2>2
<1>2. Recorded'
  <2> SUFFICES ASSUME SomeRecordSurvives', NEW q \in latched', Recent(q)'
               PROVE  HasRecord(log', q, at'[q])
    BY DEF Recorded, HasRecord
  <2>1. /\ SomeRecordSurvives /\ q \in latched /\ q \in Pair /\ at[q] \in Nat /\ at'[q] = at[q]
    BY DEF LInv, SomeRecordSurvives
  <2>2. ~TooOld(at[q]) /\ Recent(q)
    BY <2>1 DEF Recent, TooOld
  <2>3. HasRecord(log, q, at[q])
    BY <2>1, <2>2 DEF LInv, Recorded
  <2>4. ASSUME log' = Written(log, d, p) PROVE HasRecord(log', q, at[q])
    BY <2>1, <2>2, <2>3, <2>4, WrittenKeeps DEF LInv
  <2>. QED BY <2>1, <2>3, <2>4
<1>. QED BY <1>1, <1>2 DEF LInv

(* A terminal refusal latches its class and puts it on record, twice        *)
(* (GateRuntime.refuse_action, DenialLatch.deny).                           *)
LEMMA RefusalStep ==
    ASSUME BoundsOK, LInv, CallInv', NEW p \in Pair, RefuseAction(p),
           today' = today, tears' = tears
    PROVE  LInv'
<1>1. CASE Fails /\ UNCHANGED <<latched, refusals, at>>
  <2>1. losses' \in Nat /\ losses <= losses' /\ log' = log
    BY <1>1 DEF Fails, LInv
  <2>2. "other" \in Decision \ {"torn"} /\ at' \in [Pair -> Nat]
    BY <1>1 DEF Decision, LInv
  <2>. QED BY <1>1, <2>1, <2>2, LineStep
<1>2. CASE /\ Latch(p)
           /\ \/ /\ log' = Written(Written(log, "denied", p), "denied", p)
                 /\ losses' = losses
              \/ log' = Written(log, "denied", p) /\ losses' = losses + 1
  <2>1. "denied" \in Decision \ {"torn"} /\ p \in Pair \cup {"none"}
    BY DEF Decision
  <2>2. PICK w : w = Written(log, "denied", p)
    OBVIOUS
  <2>3. /\ w \in Seq(LogLine) /\ Dated(w) /\ (tears = 0 => NoStump(w))
    BY <2>1, <2>2, WrittenShape, WrittenIsDated, WrittenLeavesNoStump DEF LInv
  <2>4. log' = w \/ log' = Written(w, "denied", p)
    BY <1>2, <2>2
  <2>5. /\ log' \in Seq(LogLine) /\ Dated(log') /\ (tears = 0 => NoStump(log'))
    BY <2>1, <2>3, <2>4, WrittenShape, WrittenIsDated, WrittenLeavesNoStump DEF LInv
  <2>6. /\ at' \in [Pair -> Nat] /\ at'[p] = today
        /\ \A q \in Pair : q # p => at'[q] = at[q]
        /\ latched' = latched \cup {p}
    BY <1>2 DEF Latch, LInv
  <2>7. losses' \in Nat /\ losses <= losses'
    BY <1>2 DEF LInv
  <2>8. ASSUME SomeRecordSurvives' PROVE HasRecord(log', p, today)
    <3>1. CASE log' = Written(Written(log, "denied", p), "denied", p)
      BY <3>1, WrittenTwice DEF LInv
    <3>2. CASE log' = Written(log, "denied", p) /\ losses' = losses + 1
      <4>1. tears = 0
        BY <2>8, <3>2 DEF SomeRecordSurvives, LInv
      <4>2. ~Joins(log)
        BY <4>1 DEF Joins, LInv, NoStump
      <4>. QED BY <3>2, <4>2, WrittenSays DEF LInv
    <3>. QED BY <1>2, <3>1, <3>2
  <2>9. ASSUME SomeRecordSurvives', NEW q \in latched', q # p, Recent(q)'
        PROVE  HasRecord(log', q, at[q])
    <3>1. SomeRecordSurvives /\ q \in latched /\ q \in Pair /\ at[q] \in Nat /\ at'[q] = at[q]
      BY <2>6, <2>7, <2>9 DEF LInv, SomeRecordSurvives
    <3>2. ~TooOld(at[q]) /\ Recent(q)
      BY <2>9, <3>1 DEF Recent, TooOld
    <3>3. HasRecord(log, q, at[q])
      BY <3>1, <3>2 DEF LInv, Recorded
    <3>4. HasRecord(w, q, at[q])
      BY <2>1, <2>2, <3>1, <3>2, <3>3, WrittenKeeps DEF LInv
    <3>5. HasRecord(Written(w, "denied", p), q, at[q])
      BY <2>1, <2>3, <3>1, <3>2, <3>4, WrittenKeeps DEF LInv
    <3>. QED BY <2>4, <3>4, <3>5
  <2>10. Recorded'
    BY <2>6, <2>8, <2>9 DEF Recorded, HasRecord, LInv
  <2>11. Dated(log)'
    BY <2>5 DEF Dated
  <2>. QED BY <2>5, <2>6, <2>7, <2>10, <2>11 DEF LInv
<1>. QED BY <1>1, <1>2 DEF RefuseAction

LEMMA Greatest ==
    ASSUME NEW n \in Nat, NEW S, S \subseteq 1..n, S # {}
    PROVE  \E i \in S : \A j \in S : j <= i
<1> DEFINE U == {u \in Nat : \A j \in S : j <= u}
<1>0. \A u \in Nat : u \in U <=> \A j \in S : j <= u
  OBVIOUS
<1>9. U \subseteq Nat
  OBVIOUS
<1> HIDE DEF U
<1>1. n \in U
  BY <1>0
<1>2. PICK i \in U : \A u \in U : ~(<<u, i>> \in OpToRel(<, Nat))
  BY <1>1, <1>9, NatLessThanWellFounded, WFMin
<1>3. \A u \in U : ~(u < i)
  BY <1>2, <1>9 DEF OpToRel
<1>5. i \in Nat /\ i \in U /\ \A k \in S : k <= i
  <2>1. i \in U
    OBVIOUS
  <2>. QED BY ONLY <1>0, <1>9, <2>1
<1>4. i \in S
  <2> SUFFICES ASSUME i \notin S PROVE FALSE
    OBVIOUS
  <2>1. PICK j \in S : j \in 1..n
    OBVIOUS
  <2>4. i \in Nat /\ \A k \in S : k <= i /\ k \in Nat /\ k # i /\ k > 0
    BY <1>5
  <2>2. i - 1 \in Nat /\ \A k \in S : k <= i - 1
    BY <2>1, <2>4
  <2>3. i - 1 \in U /\ i - 1 < i
    BY <1>0, <2>2, <2>4
  <2>. QED BY <1>3, <2>3
<1>. QED BY <1>4, <1>5

(* A restored latch is as old as the latest denied line of its pair, which  *)
(* is its record (restore_latches, _seed).                                  *)
LEMMA RestoredStep ==
    ASSUME BoundsOK, LInv, CallInv', today' = today, Restored,
           log' \in Seq(LogLine), Dated(log'),
           tears' \in Nat, tears' = 0 => NoStump(log'), losses' \in Nat
    PROVE  LInv'
<1>1. /\ Len(log') \in Nat /\ DOMAIN log' = 1..Len(log')
      /\ \A i \in DOMAIN log' : log'[i].day \in Nat
  <2>1. \A i \in DOMAIN log' : log'[i] \in LogLine
    OBVIOUS
  <2>. QED BY <2>1 DEF LogLine
<1>2. latched' \subseteq Pair /\ \A p \in latched' : LatchedOnRecord(p)'
  BY DEF Restored
<1>3. ASSUME NEW p \in latched'
      PROVE  /\ LastDenied(p)' \in DOMAIN log'
             /\ HasRecord(log', p, log'[LastDenied(p)'].day)
  <2>1. PICK i \in Lines("denied", p)' : \A j \in Lines("cleared", p)' : j < i
    BY <1>2 DEF LatchedOnRecord
  <2>2. PICK S : S = Lines("denied", p)'
    OBVIOUS
  <2>3. S \subseteq 1..Len(log') /\ S # {}
    BY <1>1, <2>1, <2>2 DEF Lines
  <2>4. \E k \in S : \A j \in S : j <= k
    BY <1>1, <2>3, Greatest
  <2>5. LastDenied(p)' = CHOOSE k \in S : \A j \in S : j <= k
    BY <2>2 DEF LastDenied
  <2>6. PICK k : k = LastDenied(p)'
    OBVIOUS
  <2>7. k \in S /\ \A j \in S : j <= k
    BY <2>4, <2>5, <2>6
  <2>8. k \in DOMAIN log' /\ log'[k].decision = "denied" /\ log'[k].pair = p
    BY <2>2, <2>7 DEF Lines
  <2>9. ASSUME NEW j \in DOMAIN log', log'[j].decision = "cleared", log'[j].pair = p
        PROVE  j < k
    <3>1. j < i
      BY <2>1, <2>9 DEF Lines
    <3>2. i <= k
      BY <2>1, <2>2, <2>7
    <3>. QED BY <1>1, <2>3, <2>8, <3>1, <3>2, <2>1, <2>2
  <2>10. HasRecord(log', p, log'[k].day)
    BY <1>1, <2>8, <2>9 DEF HasRecord
  <2>. QED BY <2>6, <2>8, <2>10
<1>4. /\ at' \in [Pair -> Nat]
      /\ \A p \in latched' : at'[p] = log'[LastDenied(p)'].day
  BY <1>1, <1>2, <1>3 DEF Restored
<1>5. Recorded'
  BY <1>3, <1>4 DEF Recorded, HasRecord
<1>6. Dated(log)'
  BY DEF Dated
<1>. QED BY <1>2, <1>4, <1>5, <1>6 DEF LInv

(* The line a dying machine tears costs no record, and is of today.         *)
LEMMA TornLog ==
    ASSUME LInv, Restart \/ PowerLoss
    PROVE  /\ log' \in Seq(LogLine) /\ Dated(log')
           /\ \A p \in Pair, day \in Nat : HasRecord(log, p, day) => HasRecord(log', p, day)
           /\ \/ log' = log
              \/ /\ PowerLoss /\ ~Joins(log)
                 /\ DOMAIN log' = 1..(Len(log) + 1) /\ Len(log') = Len(log) + 1
                 /\ \A i \in 1..Len(log) : log'[i] = log[i]
                 /\ log'[Len(log) + 1].decision = "torn" /\ log'[Len(log) + 1].day = today
<1>1. CASE log' = log
  BY <1>1 DEF LInv
<1>2. CASE /\ PowerLoss /\ ~Joins(log)
           /\ log' = Append(log, [day |-> today, decision |-> "torn", pair |-> "none"])
  <2>1. PICK l : l = [day |-> today, decision |-> "torn", pair |-> "none"]
    OBVIOUS
  <2>2. l \in LogLine /\ l.decision = "torn" /\ l.day = today
    BY <2>1 DEF LInv, LogLine, Decision
  <2>3. /\ Len(log) \in Nat /\ DOMAIN log = 1..Len(log)
        /\ \A i \in DOMAIN log : log[i] \in LogLine
    BY DEF LInv
  <2>4. /\ log' \in Seq(LogLine) /\ DOMAIN log' = 1..(Len(log) + 1) /\ Len(log') = Len(log) + 1
        /\ \A i \in 1..Len(log) : log'[i] = log[i]
        /\ log'[Len(log) + 1] = l
    <3>1. log' = Append(log, l)
      BY <1>2, <2>1
    <3>2. log \in Seq(LogLine)
      BY DEF LInv
    <3>. QED BY ONLY <2>2, <2>3, <3>1, <3>2
  <2>5. \A i \in 1..Len(log) : log[i].day \in Nat
    BY <2>3 DEF LogLine
  <2>6. Dated(log')
    <3>1. \A i, j \in 1..Len(log) : log[i].day <= today /\ (i <= j => log[i].day <= log[j].day)
      BY <2>3 DEF LInv, Dated
    <3>2. today \in Nat
      BY DEF LInv
    <3>3. ASSUME NEW i \in DOMAIN log'
          PROVE  log'[i].day <= today
      <4>1. CASE i \in 1..Len(log)
        BY <2>4, <3>1, <4>1
      <4>2. CASE i = Len(log) + 1
        BY <2>2, <2>4, <3>2, <4>2
      <4>. QED BY <2>3, <2>4, <4>1, <4>2
    <3>4. ASSUME NEW i \in DOMAIN log', NEW j \in DOMAIN log', i <= j
          PROVE  log'[i].day <= log'[j].day
      <4>1. CASE j \in 1..Len(log)
        <5>1. i \in 1..Len(log)
          BY <2>3, <2>4, <3>4, <4>1
        <5>. QED BY <2>4, <3>1, <3>4, <4>1, <5>1
      <4>2. CASE j = Len(log) + 1
        BY <2>2, <2>4, <3>3, <4>2
      <4>. QED BY <2>3, <2>4, <4>1, <4>2
    <3>. QED BY <3>3, <3>4 DEF Dated
  <2>7. ASSUME NEW p \in Pair, NEW day \in Nat, HasRecord(log, p, day)
        PROVE  HasRecord(log', p, day)
    <3>1. \A j \in DOMAIN log' : log'[j].decision = "cleared" => j \in DOMAIN log /\ log'[j] = log[j]
      BY <2>2, <2>3, <2>4
    <3>. QED BY <2>3, <2>4, <2>7, <3>1 DEF HasRecord
  <2>. QED BY <1>2, <2>2, <2>4, <2>6, <2>7
<1>. QED BY <1>1, <1>2 DEF Restart, PowerLoss

-----------------------------------------------------------------------------

LEMMA PairsOfSessions ==
    \A s \in Session : /\ Remote(s) \in Pair /\ Inventory(s) \in Pair
                       /\ Remote(s)[1] = s /\ Remote(s)[2] # "mutate.inventory"
                       /\ Inventory(s)[1] = s /\ Inventory(s)[2] = "mutate.inventory"
BY DEF Remote, Inventory, Pair, Class

(* What the handlers do to the log and the latches.                         *)
Quiet(p, d) ==
    /\ log' = log \/ log' = Written(log, d, p)
    /\ latched' = latched /\ at' = at /\ today' = today /\ tears' = tears
    /\ losses' \in Nat /\ losses <= losses'

LEMMA HandlerSteps ==
    ASSUME losses \in Nat, CallInv, NEW c \in Call
    PROVE  /\ \A s \in Session : Start(c, s) => Quiet(Remote(s), "refused")
           /\ \A s \in Session : StartInventory(c, s) =>
                 \/ Quiet("none", "other")
                 \/ /\ RefuseAction(Inventory(s)) /\ today' = today /\ tears' = tears
                    /\ call'[c].session = s /\ call'[c].verdict = "policy"
           /\ Decide(c) \/ Answer(c) =>
                 \/ Quiet("none", "other")
                 \/ /\ Quiet(Remote(call[c].session), "denied")
                    /\ call[c].session \in Session /\ call'[c].session = call[c].session
                    /\ call'[c].verdict \in {"refused", "not_terminal"}
           /\ Handle(c) =>
                 \/ Quiet("none", "other")
                 \/ /\ RefuseAction(Remote(call[c].session)) /\ today' = today /\ tears' = tears
                    /\ call[c].session \in Session
                    /\ call[c].verdict \in Terminal
<1>1. c \in DOMAIN call /\ call[c] \in CallRecord
  BY DEF CallInv
<1>2. ASSUME NEW s \in Session, Start(c, s) PROVE Quiet(Remote(s), "refused")
  BY <1>2 DEF Start, MayLose, Writes, Fails, Quiet
<1>3. ASSUME NEW s \in Session, StartInventory(c, s)
      PROVE  \/ Quiet("none", "other")
             \/ /\ RefuseAction(Inventory(s)) /\ today' = today /\ tears' = tears
                /\ call'[c].session = s /\ call'[c].verdict = "policy"
  <2>1. CASE UNCHANGED <<latched, at, log, losses>>
    BY <1>3, <2>1 DEF StartInventory, Quiet
  <2>2. CASE /\ call' = [call EXCEPT ![c] = [NewCall EXCEPT !.pc = "done",
                            !.session = s, !.verdict = "policy"]]
             /\ RefuseAction(Inventory(s))
    <3>1. PICK r : r = [NewCall EXCEPT !.pc = "done", !.session = s, !.verdict = "policy"]
      OBVIOUS
    <3>2. r.session = s /\ r.verdict = "policy"
      BY <3>1 DEF NewCall
    <3>3. call'[c] = r
      BY <1>1, <2>2, <3>1
    <3>. QED BY <1>3, <2>2, <3>2, <3>3 DEF StartInventory
  <2>. QED BY <1>3, <2>1, <2>2 DEF StartInventory
<1>4. ASSUME NEW v \in Verdicts, Reply(c, v)
      PROVE  call'[c].session = call[c].session /\ call'[c].verdict = v
  <2>1. call'[c] = Replied(call[c], v)
    BY <1>1, <1>4 DEF Reply
  <2>. QED BY <1>1, <2>1, RepliedCall
<1>5. ASSUME Decide(c) \/ Answer(c)
      PROVE  \/ Quiet("none", "other")
             \/ /\ Quiet(Remote(call[c].session), "denied")
                /\ call[c].session \in Session /\ call'[c].session = call[c].session
                /\ call'[c].verdict \in {"refused", "not_terminal"}
  <2>1. UNCHANGED <<latched, at, today, tears, losses>> /\ call[c].session \in Session
    BY <1>5 DEF Decide, Answer, CallInv
  <2>2. CASE log' = log \/ WritesOther
    BY <2>1, <2>2 DEF WritesOther, Quiet
  <2>3. CASE \E v \in {"refused", "not_terminal"} :
                Reply(c, v) /\ log' = Written(log, "denied", Remote(call[c].session))
    BY <1>4, <2>1, <2>3 DEF Quiet, Verdicts
  <2>. QED BY <1>5, <2>2, <2>3 DEF Decide, Answer
<1>6. ASSUME Handle(c)
      PROVE  \/ Quiet("none", "other")
             \/ /\ RefuseAction(Remote(call[c].session)) /\ today' = today /\ tears' = tears
                /\ call[c].session \in Session
                /\ call[c].verdict \in Terminal
  <2>1. CASE call[c].verdict \in Terminal
    BY <1>6, <2>1 DEF Handle, CallInv
  <2>2. CASE call[c].verdict \notin Terminal
    BY <1>6, <2>2 DEF Handle, Quiet
  <2>. QED BY <2>1, <2>2
<1>. QED BY <1>2, <1>3, <1>5, <1>6

LEMMA QuietKeepsRecord ==
    ASSUME BoundsOK, LInv, CallInv', NEW p \in Pair \cup {"none"},
           NEW d \in Decision \ {"torn", "cleared"}, Quiet(p, d)
    PROVE  LInv'
<1>1. d \in Decision \ {"torn"} /\ d # "cleared" /\ at' \in [Pair -> Nat]
      /\ \A q \in latched' : at'[q] = at[q]
  BY DEF Quiet, LInv
<1>. QED BY <1>1, LineStep DEF Quiet

(* Every operation of the gateway, the executor and the operator, every     *)
(* crash and every new day keeps the record of the latches.                 *)
LEMMA LatchStep ==
    ASSUME BoundsOK, LInv, [Next]_vars
    PROVE  LInv'
<1>. USE PairsOfSessions
<1>1. CallInv' /\ CallInv /\ losses \in Nat
  BY CallStep DEF LInv, VerdictsStay
<1>2. {"refused", "other", "denied"} \subseteq Decision \ {"torn", "cleared"}
  BY DEF Decision
<1>3. ASSUME NEW c \in Call, NEW s \in Session, Start(c, s) \/ StartInventory(c, s)
      PROVE  LInv'
  <2>1. CASE Quiet(Remote(s), "refused")
    BY <1>1, <1>2, <2>1, QuietKeepsRecord
  <2>2. CASE Quiet("none", "other")
    BY <1>1, <1>2, <2>2, QuietKeepsRecord
  <2>3. CASE RefuseAction(Inventory(s)) /\ today' = today /\ tears' = tears
    BY <1>1, <2>3, RefusalStep
  <2>. QED BY <1>1, <1>3, <2>1, <2>2, <2>3, HandlerSteps
<1>4. ASSUME NEW c \in Call, Decide(c) \/ Answer(c) \/ Handle(c) PROVE LInv'
  <2>1. CASE Quiet("none", "other")
    BY <1>1, <1>2, <2>1, QuietKeepsRecord
  <2>2. CASE call[c].session \in Session /\ Quiet(Remote(call[c].session), "denied")
    BY <1>1, <1>2, <2>2, QuietKeepsRecord
  <2>3. CASE /\ call[c].session \in Session /\ RefuseAction(Remote(call[c].session))
             /\ today' = today /\ tears' = tears
    BY <1>1, <2>3, RefusalStep
  <2>. QED BY <1>1, <1>4, <2>1, <2>2, <2>3, HandlerSteps
<1>5. ASSUME NEW p \in Pair, Clear(p) PROVE LInv'
  <2>1. /\ log' = log \/ log' = Written(log, "cleared", p)
        /\ losses' \in Nat /\ losses <= losses'
        /\ latched' \subseteq latched /\ p \notin latched'
        /\ today' = today /\ tears' = tears
    BY <1>1, <1>5 DEF Clear, MayLose, Writes, Fails
  <2>2. at' \in [Pair -> Nat] /\ \A q \in latched' : at'[q] = at[q]
    BY <1>5 DEF Clear, LInv
  <2>3. "cleared" \in Decision \ {"torn"}
    BY DEF Decision
  <2>. QED BY <1>1, <2>1, <2>2, <2>3, LineStep
<1>6. CASE Restart \/ PowerLoss
  <2>1. /\ Restored /\ today' = today /\ losses' \in Nat
        /\ tears' \in Nat /\ (tears' = 0 => log' = log /\ tears = 0)
    BY <1>6 DEF Restart, PowerLoss, LInv
  <2>2. tears' = 0 => NoStump(log')
    BY <2>1 DEF LInv
  <2>3. log' \in Seq(LogLine) /\ Dated(log')
    BY <1>6, TornLog
  <2>. QED BY <1>1, <2>1, <2>2, <2>3, RestoredStep
<1>7. ASSUME UNCHANGED <<latched, at, log, today, tears, losses>> PROVE LInv'
  BY <1>1, <1>2, <1>7, QuietKeepsRecord DEF Quiet
<1>8. ASSUME NEW c \in Call, Stop(c) PROVE LInv'
  BY <1>7, <1>8 DEF Stop
<1>9. CASE ExecutorDies \/ UNCHANGED vars
  BY <1>7, <1>9 DEF ExecutorDies, vars
<1>10. CASE NewDay
  <2>1. /\ UNCHANGED <<latched, at, log, tears, losses>>
        /\ today \in Nat /\ today' = today + 1
    BY <1>10 DEF NewDay, LInv
  <2>2. Dated(log)'
    <3>1. \A i \in DOMAIN log : log[i] \in LogLine
      BY DEF LInv
    <3>2. \A i \in DOMAIN log : log[i].day \in Nat
      BY <3>1 DEF LogLine
    <3>. QED BY <2>1, <3>2 DEF LInv, Dated
  <2>3. Recorded'
    <3>1. ASSUME NEW p \in latched, Recent(p)' PROVE Recent(p)
      BY <2>1, <3>1 DEF Recent, TooOld, LInv, BoundsOK
    <3>. QED BY <2>1, <3>1 DEF LInv, Recorded, SomeRecordSurvives, HasRecord
  <2>. QED BY <1>1, <2>1, <2>2, <2>3 DEF LInv
<1>. QED BY <1>3, <1>4, <1>5, <1>6, <1>8, <1>9, <1>10 DEF Next

(* The calls, the log and the latches stay well formed, and every latch     *)
(* younger than the retention has its record (latch.py, audit.py).          *)
THEOREM LatchInvariance == Spec => []LInv
<1>1. Init => LInv
  <2> SUFFICES ASSUME Init PROVE LInv
    OBVIOUS
  <2>1. CallInv
    <3>1. NewCall \in CallRecord /\ NewCall.pc = "new" /\ NewCall.verdict = "none"
      BY DEF NewCall, CallRecord
    <3>. QED BY <3>1 DEF Init, CallInv
  <2>2. Dated(log) /\ NoStump(log) /\ log \in Seq(LogLine)
    BY DEF Init, Dated, NoStump
  <2>3. Recorded
    BY DEF Init, Recorded
  <2>. QED BY <2>1, <2>2, <2>3 DEF Init, LInv
<1>2. LInv /\ [Next]_vars => LInv'
  BY BoundsOK, LatchStep
<1>. QED BY <1>1, <1>2, PTL DEF Spec

(* Every latch younger than the retention is one a restart would enforce    *)
(* again (build_gate_runtime: "a restart does not clear a denial").         *)
THEOREM LatchesAreOnRecord == Spec => []LatchIsOnRecord
<1>1. LInv => LatchIsOnRecord
  <2> SUFFICES ASSUME LInv, SomeRecordSurvives, NEW p \in latched, Recent(p)
               PROVE  LatchedOnRecord(p)
    BY DEF LatchIsOnRecord
  <2>1. p \in Pair /\ at[p] \in Nat /\ HasRecord(log, p, at[p])
    BY DEF LInv, Recorded
  <2>. QED BY <2>1, RecordLatches
<1>. QED BY <1>1, LatchInvariance, PTL

(* What a restart over a readable log gives back.                           *)
LEMMA RestoredLatches ==
    ASSUME LInv, Restart \/ PowerLoss, SomeRecordSurvives, Healthy'
    PROVE  ~LiftsALatch
<1> SUFFICES ASSUME NEW p \in latched, Recent(p) PROVE p \in latched'
  BY DEF LiftsALatch
<1>1. p \in Pair /\ at[p] \in Nat /\ HasRecord(log, p, at[p])
  BY DEF LInv, Recorded
<1>2. HasRecord(log', p, at[p])
  BY <1>1, TornLog
<1>3. PICK i \in DOMAIN log' :
         /\ log'[i].decision = "denied" /\ log'[i].pair = p
         /\ \A j \in DOMAIN log' : log'[j].decision = "cleared" /\ log'[j].pair = p => j < i
  BY <1>2 DEF HasRecord
<1>4. LatchedOnRecord(p)'
  BY <1>3 DEF LatchedOnRecord, Lines
<1>. QED BY <1>1, <1>4 DEF Restart, PowerLoss, Restored

(* A restart, which the model can cause, lifts no latch younger than the    *)
(* retention, over any log that reads as healthy (latch.py:411-413).        *)
THEOREM RestartLiftsNothing == Spec => RestartKeepsLatches
<1>1. LInv => [LiftsALatch => ~((Restart \/ PowerLoss) /\ SomeRecordSurvives /\ Healthy')]_vars
  BY RestoredLatches
<1>. QED BY <1>1, LatchInvariance, PTL DEF RestartKeepsLatches

(* The line a machine failure tears is the last of its day, or joins the    *)
(* stump that is; both are lines the restore tolerates                      *)
(* (latch_restore.py:122-124), unless a record has joined the stump.        *)
THEOREM TearLiftsNothing == Spec => TearKeepsLatches
<1>1. ASSUME LInv, PowerLoss, SomeRecordSurvives, Healthy, ~StumpIsSwallowed
      PROVE  ~LiftsALatch
  <2>1. CASE log' = log
    <3>1. Healthy'
      BY <1>1, <2>1 DEF Healthy, Unreadable
    <3>. QED BY <1>1, <3>1, RestoredLatches
  <2>2. CASE /\ ~Joins(log)
             /\ DOMAIN log' = 1..(Len(log) + 1) /\ Len(log') = Len(log) + 1
             /\ \A i \in 1..Len(log) : log'[i] = log[i]
             /\ log'[Len(log) + 1].decision = "torn" /\ log'[Len(log) + 1].day = today
    <3>1. Len(log) \in Nat /\ DOMAIN log = 1..Len(log) /\ today \in Nat
          /\ \A i \in DOMAIN log : log[i] \in LogLine
      BY <1>1 DEF LInv
    <3>2. \A i \in DOMAIN log : log[i].day \in Nat
      BY <3>1 DEF LogLine
    <3>3. ASSUME NEW i \in DOMAIN log, Unreadable(i), log[i].day = today PROVE FALSE
      <4>1. Len(log) \in DOMAIN log /\ i <= Len(log) /\ log # <<>>
        BY <3>1
      <4>2. log[Len(log)].day = today
        BY <1>1, <3>1, <3>2, <3>3, <4>1 DEF LInv, Dated
      <4>3. i = Len(log)
        BY <1>1, <3>1, <3>3, <4>1, <4>2 DEF Healthy
      <4>. QED BY <1>1, <2>2, <3>3, <4>1, <4>3 DEF Unreadable, Joins, StumpIsSwallowed
    <3>4. Healthy'
      <4> SUFFICES ASSUME NEW i \in DOMAIN log', log'[i].decision \in {"torn", "corrupt"},
                          NEW j \in i+1..Len(log')
                   PROVE  log'[j].day # log'[i].day
        BY DEF Healthy, Unreadable
      <4>1. i \in DOMAIN log /\ log'[i] = log[i] /\ Unreadable(i)
        BY <2>2, <3>1 DEF Unreadable
      <4>2. CASE j \in i+1..Len(log)
        BY <1>1, <2>2, <3>1, <4>1, <4>2 DEF Healthy
      <4>3. CASE j = Len(log) + 1
        BY <2>2, <3>3, <4>1, <4>3
      <4>. QED BY <2>2, <3>1, <4>2, <4>3
    <3>. QED BY <1>1, <3>4, RestoredLatches
  <2>. QED BY <1>1, <2>1, <2>2, TornLog
<1>2. LInv => [LiftsALatch => ~(PowerLoss /\ SomeRecordSurvives /\ Healthy
                                     /\ ~StumpIsSwallowed)]_vars
  BY <1>1
<1>. QED BY <1>2, LatchInvariance, PTL DEF TearKeepsLatches

-----------------------------------------------------------------------------
(* Who a latch is the fault of, whatever is torn, trimmed or lost.          *)

\* The pairs a call of the session was refused for.
Blamed == {p \in Pair :
             RefusedCall(p, IF p[2] = "mutate.inventory" THEN {"policy"}
                                                         ELSE Terminal \cup {"not_terminal"})}

\* Every latch and every denied line of the log follows a refusal of a call of
\* its session.
CauseInv ==
    /\ CallInv
    /\ today \in Nat /\ losses \in Nat
    /\ log \in Seq(LogLine)
    /\ \A i \in DOMAIN log : log[i].decision = "denied" => log[i].pair \in Blamed
    /\ latched \subseteq Blamed

LEMMA BlameLasts ==
    ASSUME VerdictsStay
    PROVE  Blamed \subseteq Blamed'
<1> SUFFICES ASSUME NEW p \in Blamed PROVE p \in Blamed'
  OBVIOUS
<1> DEFINE verdicts == IF p[2] = "mutate.inventory" THEN {"policy"}
                       ELSE Terminal \cup {"not_terminal"}
<1>1. "none" \notin verdicts
  BY DEF Terminal
<1>2. PICK c \in Call : call[c].session = p[1] /\ call[c].verdict \in verdicts
  BY DEF Blamed, RefusedCall
<1>3. call'[c].session = p[1] /\ call'[c].verdict \in verdicts
  BY <1>1, <1>2 DEF VerdictsStay
<1>. QED BY <1>3 DEF Blamed, RefusedCall

(* A handler writes denied lines, and latches, only for a call to blame.    *)
LEMMA BlameStays ==
    ASSUME CauseInv, VerdictsStay, today' \in Nat, losses' \in Nat, log' \in Seq(LogLine),
           \A i \in DOMAIN log' : log'[i].decision = "denied" =>
              log'[i].pair \in Blamed' \/ \E k \in DOMAIN log : log'[i] = log[k],
           latched' \subseteq latched \cup Blamed'
    PROVE  CauseInv'
<1>1. Blamed \subseteq Blamed'
  BY BlameLasts
<1>2. \A i \in DOMAIN log' : log'[i].decision = "denied" => log'[i].pair \in Blamed'
  BY <1>1 DEF CauseInv
<1>. QED BY <1>1, <1>2 DEF CauseInv, VerdictsStay

LEMMA QuietIsBlamed ==
    ASSUME BoundsOK, CauseInv, VerdictsStay, NEW p \in Pair \cup {"none"}, NEW d \in Decision,
           log' = log \/ log' = Written(log, d, p), d = "denied" => p \in Blamed',
           latched' \subseteq latched, today' = today, losses' \in Nat
    PROVE  CauseInv'
<1>1. log' \in Seq(LogLine)
  BY WrittenShape DEF CauseInv
<1>2. \A i \in DOMAIN log' : log'[i].decision = "denied" =>
         log'[i].pair \in Blamed' \/ \E k \in DOMAIN log : log'[i] = log[k]
  <2>1. CASE log' = log
    BY <2>1
  <2>2. CASE log' = Written(log, d, p)
    BY <2>2, WrittenLines, LineFields DEF CauseInv
  <2>. QED BY <2>1, <2>2
<1>. QED BY <1>1, <1>2, BlameStays DEF CauseInv

LEMMA RefusalIsBlamed ==
    ASSUME BoundsOK, CauseInv, VerdictsStay, NEW p \in Pair, RefuseAction(p), p \in Blamed',
           today' = today
    PROVE  CauseInv'
<1>1. CASE Fails /\ UNCHANGED <<latched, refusals, at>>
  <2>1. losses' \in Nat /\ log' = log /\ latched' \subseteq latched
    BY <1>1 DEF Fails, CauseInv
  <2>2. "denied" \in Decision
    BY DEF Decision
  <2>. QED BY <2>1, <2>2, QuietIsBlamed
<1>2. CASE /\ Latch(p) /\ losses' \in {losses, losses + 1}
           /\ \/ log' = Written(log, "denied", p)
              \/ log' = Written(Written(log, "denied", p), "denied", p)
  <2>1. "denied" \in Decision /\ p \in Pair \cup {"none"} /\ today \in Nat
    BY DEF Decision, CauseInv
  <2>2. PICK w : w = Written(log, "denied", p)
    OBVIOUS
  <2>3. /\ w \in Seq(LogLine)
        /\ \A i \in DOMAIN w : w[i].decision = "denied" =>
              w[i].pair = p \/ \E k \in DOMAIN log : w[i] = log[k]
    BY <2>1, <2>2, WrittenShape, WrittenLines, LineFields DEF CauseInv
  <2>4. PICK ww : ww = Written(w, "denied", p)
    OBVIOUS
  <2>5. /\ ww \in Seq(LogLine)
        /\ \A i \in DOMAIN ww : ww[i].decision = "denied" =>
              ww[i].pair = p \/ \E k \in DOMAIN w : ww[i] = w[k]
    BY <2>1, <2>3, <2>4, WrittenShape, WrittenLines, LineFields
  <2>6. \A i \in DOMAIN ww : ww[i].decision = "denied" =>
           ww[i].pair = p \/ \E k \in DOMAIN log : ww[i] = log[k]
    BY <2>3, <2>5
  <2>7. log' = w \/ log' = ww
    BY <1>2, <2>2, <2>4
  <2>8. /\ log' \in Seq(LogLine)
        /\ \A i \in DOMAIN log' : log'[i].decision = "denied" =>
              log'[i].pair \in Blamed' \/ \E k \in DOMAIN log : log'[i] = log[k]
    BY <2>3, <2>5, <2>6, <2>7
  <2>9. latched' \subseteq latched \cup Blamed' /\ losses' \in Nat
    BY <1>2 DEF Latch, CauseInv
  <2>. QED BY <2>1, <2>8, <2>9, BlameStays
<1>. QED BY <1>1, <1>2 DEF RefuseAction

LEMMA CauseStep ==
    ASSUME BoundsOK, CauseInv, [Next]_vars
    PROVE  CauseInv'
<1>. USE PairsOfSessions
<1>1. VerdictsStay /\ CallInv /\ losses \in Nat
  BY CallStep DEF CauseInv
<1>2. ASSUME NEW c \in Call, NEW s \in Session, call'[c].session = s
      PROVE  /\ call'[c].verdict = "policy" => Inventory(s) \in Blamed'
             /\ call'[c].verdict \in Terminal \cup {"not_terminal"} => Remote(s) \in Blamed'
  BY <1>2 DEF Blamed, RefusedCall
<1>3. ASSUME NEW p \in Pair \cup {"none"}, NEW d \in {"refused", "other", "denied"},
             Quiet(p, d), d = "denied" => p \in Blamed'
      PROVE  CauseInv'
  <2>1. d \in Decision /\ latched' \subseteq latched
    BY <1>3 DEF Decision, Quiet
  <2>. QED BY <1>1, <1>3, <2>1, QuietIsBlamed DEF Quiet
<1>4. ASSUME NEW c \in Call, NEW s \in Session, Start(c, s) \/ StartInventory(c, s)
      PROVE  CauseInv'
  <2>1. CASE Quiet(Remote(s), "refused")
    BY <1>3, <2>1
  <2>2. CASE Quiet("none", "other")
    BY <1>3, <2>2
  <2>3. CASE /\ RefuseAction(Inventory(s)) /\ today' = today
             /\ call'[c].session = s /\ call'[c].verdict = "policy"
    BY <1>1, <1>2, <2>3, RefusalIsBlamed
  <2>. QED BY <1>1, <1>4, <2>1, <2>2, <2>3, HandlerSteps
<1>5. ASSUME NEW c \in Call, Decide(c) \/ Answer(c) PROVE CauseInv'
  <2>1. CASE Quiet("none", "other")
    BY <1>3, <2>1
  <2>2. CASE /\ Quiet(Remote(call[c].session), "denied")
             /\ call[c].session \in Session /\ call'[c].session = call[c].session
             /\ call'[c].verdict \in {"refused", "not_terminal"}
    <3>1. Remote(call[c].session) \in Blamed'
      BY <1>2, <2>2 DEF Terminal
    <3>. QED BY <1>3, <2>2, <3>1
  <2>. QED BY <1>1, <1>5, <2>1, <2>2, HandlerSteps
<1>6. ASSUME NEW c \in Call, Handle(c) PROVE CauseInv'
  <2>1. CASE Quiet("none", "other")
    BY <1>3, <2>1
  <2>2. CASE /\ RefuseAction(Remote(call[c].session)) /\ today' = today
             /\ call[c].session \in Session /\ call[c].verdict \in Terminal
    <3>1. call'[c].session = call[c].session /\ call'[c].verdict = call[c].verdict
      BY <1>1, <2>2 DEF VerdictsStay, Terminal
    <3>. QED BY <1>1, <1>2, <2>2, <3>1, RefusalIsBlamed
  <2>. QED BY <1>1, <1>6, <2>1, <2>2, HandlerSteps
<1>7. ASSUME NEW p \in Pair, Clear(p) PROVE CauseInv'
  <2>1. /\ log' = log \/ log' = Written(log, "cleared", p)
        /\ losses' \in Nat /\ latched' \subseteq latched /\ today' = today
    BY <1>1, <1>7 DEF Clear, MayLose, Writes, Fails
  <2>2. "cleared" \in Decision
    BY DEF Decision
  <2>. QED BY <1>1, <2>1, <2>2, QuietIsBlamed
<1>8. CASE Restart \/ PowerLoss
  <2>1. Restored /\ today' = today /\ losses' = losses /\ today' \in Nat
    BY <1>8 DEF Restart, PowerLoss, CauseInv
  <2>2. /\ log' \in Seq(LogLine)
        /\ \A i \in DOMAIN log' : log'[i].decision = "denied"
             => \E k \in DOMAIN log : log'[i] = log[k]
    <3>1. CASE log' = log
      BY <3>1 DEF CauseInv
    <3>2. CASE log' = Append(log, [day |-> today, decision |-> "torn", pair |-> "none"])
      <4>1. PICK l : l = [day |-> today, decision |-> "torn", pair |-> "none"]
        OBVIOUS
      <4>2. l \in LogLine /\ l.decision = "torn"
        BY <4>1 DEF CauseInv, LogLine, Decision
      <4>3. log \in Seq(LogLine) /\ log' = Append(log, l)
        BY <3>2, <4>1 DEF CauseInv
      <4>. QED BY <4>2, <4>3
    <3>. QED BY <1>8, <3>1, <3>2 DEF PowerLoss, Restart
  <2>3. latched' \subseteq Blamed'
    <3> SUFFICES ASSUME NEW q \in latched' PROVE q \in Blamed'
      OBVIOUS
    <3>1. LatchedOnRecord(q)'
      BY <2>1 DEF Restored
    <3>2. PICK i \in DOMAIN log' : log'[i].decision = "denied" /\ log'[i].pair = q
      BY <3>1 DEF LatchedOnRecord, Lines
    <3>3. q \in Blamed
      BY <2>2, <3>2 DEF CauseInv
    <3>. QED BY <1>1, <3>3, BlameLasts
  <2>. QED BY <1>1, <2>1, <2>2, <2>3, BlameStays
<1>9. ASSUME UNCHANGED <<latched, log, losses>>, today' \in Nat PROVE CauseInv'
  BY <1>1, <1>9, BlameStays DEF CauseInv
<1>10. ASSUME NEW c \in Call, Stop(c) PROVE CauseInv'
  BY <1>9, <1>10 DEF Stop, CauseInv
<1>11. CASE ExecutorDies \/ NewDay \/ UNCHANGED vars
  BY <1>9, <1>11 DEF ExecutorDies, NewDay, vars, CauseInv
<1>. QED BY <1>4, <1>5, <1>6, <1>7, <1>8, <1>10, <1>11 DEF Next

(* Nobody's latch is somebody else's: a session is latched for a class only *)
(* after a refusal of one of its own calls, across restarts, clears, torn   *)
(* lines and trimmed segments.                                              *)
THEOREM LatchesHaveACause == Spec => []LatchHasACause
<1>1. Init => CauseInv
  <2> SUFFICES ASSUME Init PROVE CauseInv
    OBVIOUS
  <2>1. CallInv
    <3>1. NewCall \in CallRecord /\ NewCall.pc = "new" /\ NewCall.verdict = "none"
      BY DEF NewCall, CallRecord
    <3>. QED BY <3>1 DEF Init, CallInv
  <2>. QED BY <2>1 DEF Init, CauseInv
<1>2. CauseInv /\ [Next]_vars => CauseInv'
  BY BoundsOK, CauseStep
<1>3. CauseInv => LatchHasACause
  BY DEF CauseInv, Blamed, LatchHasACause
<1>. QED BY <1>1, <1>2, <1>3, PTL DEF Spec

=============================================================================
