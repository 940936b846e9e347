------------------------- MODULE TriggerQueueProofs -------------------------
(***************************************************************************)
(* The trigger queue loses no delivery it acknowledged, begins no turn too *)
(* often and keeps no dead letter of a concluded delivery, for any number  *)
(* of triggers, deliveries, failures and crashes.                          *)
(*                                                                         *)
(* A delivery may have two files at once, when the gateway died between    *)
(* writing the one and removing the other.  The invariant says what the    *)
(* attempts in them are worth: a file in the inbox has counted every turn  *)
(* that was begun, a claimed one all but the last, and two files of one    *)
(* delivery agree on where the next recovery puts it.                      *)
(***************************************************************************)
EXTENDS TriggerQueue, SequenceTheorems, WellFoundedInduction, TLAPS

\* The turn of the current delivery has begun.
Begun == {"running", "answered", "published", "told"}
Begins(d) == IF pc \in Begun /\ batch # <<>> /\ d = Current THEN 1 ELSE 0

Increasing(s) == \A i, j \in DOMAIN s : i < j => s[i] < s[j]

BatchOK ==
    /\ Increasing(batch)
    /\ pc \in {"down", "recover"} => batch = <<>>
    /\ pc \in Busy => batch # <<>>

\* Nothing has happened to a delivery that was never made.
UnusedOK(d) ==
    of[d] = None => /\ inbox[d] = NoFile /\ processing[d] = NoFile
                    /\ failed[d] = NoFile /\ d \notin Moved(batch)
                    /\ d \notin acked /\ turns[d] = 0 /\ outcome[d] = None

InboxOK(d) ==
    inbox[d] # NoFile => /\ failed[d] = NoFile /\ outcome[d] = None
                         /\ inbox[d].attempts < MaxAttempts
                         /\ turns[d] <= inbox[d].attempts

ProcessingOK(d) ==
    processing[d] # NoFile =>
        /\ outcome[d] = None
        /\ processing[d].attempts < MaxAttempts
        /\ turns[d] <= processing[d].attempts + 1
        /\ inbox[d] # NoFile => processing[d].attempts + 1 < MaxAttempts
        /\ failed[d] # NoFile => processing[d].attempts + 1 >= MaxAttempts
        /\ d \in Moved(batch) => processing[d].attempts = attempts[d]

InHandOK(d) ==
    d \in Moved(batch) => /\ inbox[d] = NoFile /\ failed[d] = NoFile
                          /\ outcome[d] = None
                          /\ attempts[d] < MaxAttempts
                          /\ turns[d] <= attempts[d] + Begins(d)

FailedOK(d) == failed[d] # NoFile => outcome[d] = None

DeliveryOK(d) ==
    /\ UnusedOK(d) /\ InboxOK(d) /\ ProcessingOK(d) /\ InHandOK(d) /\ FailedOK(d)
    /\ turns[d] <= MaxAttempts

QInv ==
    /\ TypeOK /\ BatchOK
    /\ \A d \in Delivery : DeliveryOK(d)
    /\ AcknowledgedDeliveryIsKept

-----------------------------------------------------------------------------
(* Files and batches                                                        *)

(* A file that is there is not the absence of one, and a file a retry       *)
(* writes is a file (local_store.py:571-594).                               *)
LEMMA Files ==
    /\ NoFile \notin File
    /\ FreshFile \in File /\ FreshFile.attempts = 0
    /\ \A f \in File : f.attempts \in 0..MaxAttempts
    /\ \A n \in 0..MaxAttempts, w \in BOOLEAN : [attempts |-> n, waiting |-> w] \in File
BY AttemptsAssumption DEF File, NoFile, FreshFile

(* The current delivery is the first of the batch, and once it is taken off *)
(* the others are what they were (local_runner.py:64).                      *)
LEMMA TakenOff ==
    ASSUME NEW s \in Seq(Delivery), s # <<>>, Increasing(s)
    PROVE  /\ Head(s) \in Delivery /\ Head(s) \in Moved(s)
           /\ Tail(s) \in Seq(Delivery) /\ Increasing(Tail(s))
           /\ Moved(Tail(s)) = Moved(s) \ {Head(s)}
           /\ Moved(s) \subseteq Delivery
<1>1. /\ Len(s) \in Nat /\ Len(s) >= 1 /\ DOMAIN s = 1..Len(s)
      /\ Head(s) = s[1] /\ \A i \in 1..Len(s) : s[i] \in Delivery
  BY EmptySeq, LenProperties, ElementOfSeq
<1>2. /\ Tail(s) \in Seq(Delivery) /\ Len(Tail(s)) = Len(s) - 1
      /\ DOMAIN Tail(s) = 1..(Len(s) - 1)
      /\ \A i \in 1..(Len(s) - 1) : Tail(s)[i] = s[i + 1]
  BY <1>1, HeadTailProperties, LenProperties
<1>3. Increasing(Tail(s))
  BY <1>1, <1>2 DEF Increasing
<1>4. Moved(Tail(s)) \subseteq Moved(s) \ {Head(s)}
  <2>. SUFFICES ASSUME NEW i \in 1..(Len(s) - 1)
                PROVE  s[i + 1] \in Moved(s) /\ s[i + 1] # s[1]
    BY <1>1, <1>2 DEF Moved
  <2>1. i + 1 \in 1..Len(s) /\ 1 \in 1..Len(s) /\ 1 < i + 1
    BY <1>1
  <2>2. s[1] < s[i + 1] /\ s[1] \in Nat
    BY <1>1, <2>1, DeliveryAssumption DEF Increasing
  <2>. QED BY <1>1, <2>1, <2>2 DEF Moved
<1>5. Moved(s) \ {Head(s)} \subseteq Moved(Tail(s))
  <2>. SUFFICES ASSUME NEW i \in 1..Len(s), s[i] # s[1]
                PROVE  s[i] \in Moved(Tail(s))
    BY <1>1 DEF Moved
  <2>1. i - 1 \in 1..(Len(s) - 1) /\ s[i] = Tail(s)[i - 1]
    BY <1>1, <1>2
  <2>. QED BY <1>2, <2>1 DEF Moved
<1>6. Head(s) \in Moved(s) /\ Moved(s) \subseteq Delivery
  BY <1>1 DEF Moved
<1>. QED BY <1>1, <1>2, <1>3, <1>4, <1>5, <1>6

(* A batch is a sequence of claimable deliveries in the order of their file *)
(* names (local_store.py:337-353).                                          *)
LEMMA ABatch ==
    ASSUME NEW s \in Batches
    PROVE  /\ s \in Seq(Delivery) /\ s # <<>> /\ Increasing(s)
           /\ Moved(s) \subseteq Claimable /\ Moved(s) \subseteq Delivery
<1>1. PICK n \in 1..BatchSize : s \in [1..n -> Claimable]
  BY DEF Batches
<1>2. Claimable \subseteq Delivery
  BY DEF Claimable, In
<1>3. n \in Nat /\ n >= 1
  BY BatchAssumption
<1>4. s \in [1..n -> Delivery]
  BY <1>1, <1>2
<1>5. s \in Seq(Delivery)
  BY <1>3, <1>4, SeqDef
<1>6. DOMAIN s = 1..n /\ Len(s) = n
  BY <1>1, <1>3, <1>5, LenProperties
<1>7. s # <<>>
  BY <1>3, <1>6
<1>8. Increasing(s)
  BY DEF Batches, Increasing
<1>. QED BY <1>1, <1>2, <1>4, <1>5, <1>7, <1>8 DEF Moved

(* Part of a batch is in the batch.                                         *)
LEMMA PartOfABatch ==
    ASSUME NEW s \in Batches, NEW n \in 1..Len(s)
    PROVE  Moved(SubSeq(s, 1, n)) \subseteq Moved(s)
<1>1. s \in Seq(Delivery)
  BY ABatch
<1>2. /\ Len(s) \in Nat /\ DOMAIN s = 1..Len(s)
      /\ \A i \in 1..Len(s) : s[i] \in Delivery
  BY <1>1, LenProperties, ElementOfSeq
<1>3. /\ SubSeq(s, 1, n) \in Seq(Delivery) /\ Len(SubSeq(s, 1, n)) = n
      /\ \A i \in 1..n : SubSeq(s, 1, n)[i] = s[i]
  BY <1>1, <1>2, SubSeqProperties
<1>4. DOMAIN SubSeq(s, 1, n) = 1..n
  BY <1>2, <1>3, LenProperties
<1>. QED BY <1>2, <1>3, <1>4 DEF Moved

-----------------------------------------------------------------------------
(* Every step keeps the invariant                                           *)

LEMMA InitOK == Init => QInv
<1>. SUFFICES ASSUME Init PROVE QInv
  OBVIOUS
<1>1. Moved(batch) = {}
  BY DEF Init, Moved
<1>2. TypeOK
  BY Files, EmptySeq, AttemptsAssumption, BoundsAssumption DEF Init, TypeOK, Pcs
<1>3. BatchOK
  BY DEF Init, BatchOK, Increasing, Busy
<1>4. \A d \in Delivery : DeliveryOK(d)
  BY <1>1, AttemptsAssumption
     DEF Init, DeliveryOK, UnusedOK, InboxOK, ProcessingOK, InHandOK, FailedOK
<1>5. AcknowledgedDeliveryIsKept
  BY DEF Init, AcknowledgedDeliveryIsKept
<1>. QED BY <1>2, <1>3, <1>4, <1>5 DEF QInv

(* A new trigger, and a trigger switched on or off, change no delivery.     *)
LEMMA TriggersOK ==
    ASSUME QInv, NEW t \in Trigger, create(t) \/ enable(t)
    PROVE  QInv'
<1>. USE DEF create, enable, files, task, budget
<1>1. TypeOK'
  BY DEF QInv, TypeOK
<1>2. BatchOK'
  BY DEF QInv, BatchOK
<1>3. \A d \in Delivery : DeliveryOK(d)'
  BY DEF QInv, DeliveryOK, UnusedOK, InboxOK, ProcessingOK, InHandOK, FailedOK, Begins, Current
<1>4. AcknowledgedDeliveryIsKept'
  BY DEF QInv, TypeOK, AcknowledgedDeliveryIsKept, In, Forgotten
<1>. QED BY <1>1, <1>2, <1>3, <1>4 DEF QInv

(* Files that a deletion takes are of a trigger that is gone.               *)
LEMMA DeleteOK ==
    ASSUME QInv, NEW t \in Trigger, delete(t)
    PROVE  QInv'
<1>. PICK kept \in SUBSET {d \in Delivery : of[d] = t} :
         /\ inbox' = Cleared(inbox, t, kept)
         /\ processing' = Cleared(processing, t, kept)
         /\ failed' = Cleared(failed, t, kept)
         /\ IF kept = {} THEN UNCHANGED failures ELSE Failing
  BY DEF delete
<1>1. \A d \in Delivery : /\ inbox'[d] \in {inbox[d], NoFile}
                          /\ processing'[d] \in {processing[d], NoFile}
                          /\ failed'[d] \in {failed[d], NoFile}
                          /\ of[d] # t => /\ inbox'[d] = inbox[d] /\ failed'[d] = failed[d]
                                          /\ processing'[d] = processing[d]
  BY DEF Cleared
<1>2. TypeOK'
  <2>1. /\ inbox' \in [Delivery -> File \cup {NoFile}]
        /\ processing' \in [Delivery -> File \cup {NoFile}]
        /\ failed' \in [Delivery -> File \cup {NoFile}]
    BY DEF QInv, TypeOK, Cleared
  <2>2. failures' \in 0..MaxFailures
    BY BoundsAssumption DEF QInv, TypeOK, Failing
  <2>. QED BY <2>1, <2>2 DEF QInv, TypeOK, delete, task
<1>3. BatchOK'
  BY DEF QInv, BatchOK, delete, task
<1>4. \A d \in Delivery : DeliveryOK(d)'
  BY <1>1 DEF QInv, DeliveryOK, UnusedOK, InboxOK, ProcessingOK, InHandOK, FailedOK,
     Begins, Current, delete, task
<1>5. AcknowledgedDeliveryIsKept'
  <2>1. trig' = [trig EXCEPT ![t] = "gone"] /\ t # None
    BY NoneAssumption DEF delete
  <2>. QED BY <1>1, <2>1 DEF QInv, TypeOK, AcknowledgedDeliveryIsKept, In, Forgotten, delete, task
<1>. QED BY <1>2, <1>3, <1>4, <1>5 DEF QInv

(* A new delivery is unused until its file is there.                        *)
LEMMA DeliverOK ==
    ASSUME QInv, NEW e \in Delivery, NEW t \in Trigger, NEW a \in BOOLEAN,
           Deliver(e, t, a), UNCHANGED failures \/ Failing
    PROVE  QInv'
<1>. USE DEF Deliver, task, Unused
<1>1. /\ inbox'[e] = FreshFile /\ of'[e] = t /\ of[e] = None /\ t # None
      /\ \A d \in Delivery \ {e} : inbox'[d] = inbox[d] /\ of'[d] = of[d]
  BY NoneAssumption DEF QInv, TypeOK
<1>2. TypeOK'
  <2>1. inbox' \in [Delivery -> File \cup {NoFile}] /\ of' \in [Delivery -> Trigger \cup {None}]
    BY Files DEF QInv, TypeOK
  <2>2. failures' \in 0..MaxFailures
    BY BoundsAssumption DEF QInv, TypeOK, Failing
  <2>. QED BY <2>1, <2>2 DEF QInv, TypeOK
<1>3. BatchOK'
  BY DEF QInv, BatchOK
<1>4. \A d \in Delivery : DeliveryOK(d)'
  <2>. SUFFICES ASSUME NEW d \in Delivery PROVE DeliveryOK(d)'
    OBVIOUS
  <2>1. CASE d = e
    BY <1>1, <2>1, Files, AttemptsAssumption
       DEF QInv, DeliveryOK, UnusedOK, InboxOK, ProcessingOK, InHandOK, FailedOK
  <2>2. CASE d # e
    BY <1>1, <2>2
       DEF QInv, DeliveryOK, UnusedOK, InboxOK, ProcessingOK, InHandOK, FailedOK, Begins, Current
  <2>. QED BY <2>1, <2>2
<1>5. AcknowledgedDeliveryIsKept'
  <2>. SUFFICES ASSUME NEW d \in acked'
                PROVE  AcknowledgedDeliveryIsKept!(d)'
    BY DEF AcknowledgedDeliveryIsKept
  <2>1. CASE d = e
    BY <1>1, <2>1, Files DEF In
  <2>2. CASE d # e
    BY <1>1, <2>2 DEF QInv, TypeOK, AcknowledgedDeliveryIsKept, In, Forgotten
  <2>. QED BY <2>1, <2>2
<1>. QED BY <1>2, <1>3, <1>4, <1>5 DEF QInv

(* A step of the queue task that moves no file and begins no turn.          *)
LEMMA TaskMovesOK ==
    ASSUME QInv,
           \/ Start \/ Submit \/ Silence \/ RecordFingerprint \/ PublishAnswer
           \/ \E a \in Answer \cup {None} : TurnAnswers(a)
    PROVE  QInv'
<1>. DEFINE Same == /\ UNCHANGED <<of, inbox, processing, failed, batch, attempts,
                                   acked, turns, outcome, trig>>
                    /\ \/ pc = "down" /\ pc' = "recover"
                       \/ pc \in {"idle", "submitted"} /\ pc' = "submitted" /\ batch # <<>>
                       \/ pc \in Begun /\ pc' \in Begun
<1>1. Same
  BY DEF Start, Submit, Silence, RecordFingerprint, PublishAnswer, TurnAnswers,
         files, budget, Begun
<1>2. TypeOK'
  <2>1. /\ pc' \in Pcs
        /\ UNCHANGED <<policy, failures, crashes>>
    BY DEF Start, Submit, Silence, RecordFingerprint, PublishAnswer, TurnAnswers,
           budget, Pcs
  <2>2. answer' \in Answer \cup {None}
    BY DEF QInv, TypeOK, Start, Submit, Silence, RecordFingerprint, PublishAnswer, TurnAnswers
  <2>3. log' \in [Trigger -> Answer \cup {None}]
    BY DEF QInv, TypeOK, Start, Submit, Silence, RecordFingerprint, PublishAnswer, TurnAnswers
  <2>4. told' \in [Trigger -> Answer \cup {None, Sorry}]
    BY DEF QInv, TypeOK, Start, Submit, Silence, RecordFingerprint, PublishAnswer, TurnAnswers
  <2>. QED BY <1>1, <2>1, <2>2, <2>3, <2>4 DEF QInv, TypeOK
<1>3. BatchOK'
  BY <1>1 DEF QInv, BatchOK, Begun, Busy
<1>4. \A d \in Delivery : DeliveryOK(d)'
  BY <1>1 DEF QInv, DeliveryOK, UnusedOK, InboxOK, ProcessingOK, InHandOK, FailedOK,
              Begins, Current, Begun
<1>5. AcknowledgedDeliveryIsKept'
  BY <1>1 DEF QInv, AcknowledgedDeliveryIsKept, In, Forgotten
<1>. QED BY <1>2, <1>3, <1>4, <1>5 DEF QInv

(* The turn that begins is counted: it is the one the attempts leave room   *)
(* for.                                                                     *)
LEMMA TurnStartsOK ==
    ASSUME QInv, TurnStarts
    PROVE  QInv'
<1>. USE DEF TurnStarts, files, budget
<1>1. batch \in Seq(Delivery) /\ batch # <<>> /\ Current \in Delivery /\ Current \in Moved(batch)
  BY TakenOff DEF QInv, TypeOK, BatchOK, Busy, Current
<1>2. TypeOK'
  BY <1>1 DEF QInv, TypeOK, Pcs
<1>3. BatchOK'
  BY DEF QInv, BatchOK, Busy
<1>4. \A d \in Delivery : DeliveryOK(d)'
  <2>. SUFFICES ASSUME NEW d \in Delivery PROVE DeliveryOK(d)'
    OBVIOUS
  <2>1. CASE d = Current
    <3>1. turns'[d] = turns[d] + 1 /\ turns[d] \in Nat /\ attempts[d] \in Nat
      BY <2>1 DEF QInv, TypeOK
    <3>2. Begins(d)' = 1 /\ Begins(d) = 0
      BY <1>1, <2>1 DEF Begins, Begun, Current
    <3>3. turns[d] <= attempts[d] /\ attempts[d] < MaxAttempts
      BY <1>1, <2>1, <3>1, <3>2 DEF QInv, DeliveryOK, InHandOK
    <3>. QED BY <1>1, <2>1, <3>1, <3>2, <3>3, AttemptsAssumption
             DEF QInv, DeliveryOK, UnusedOK, InboxOK, ProcessingOK, InHandOK, FailedOK
  <2>2. CASE d # Current
    BY <1>1, <2>2 DEF QInv, TypeOK, DeliveryOK, UnusedOK, InboxOK, ProcessingOK, InHandOK,
       FailedOK, Begins, Current, Begun
  <2>. QED BY <2>1, <2>2
<1>5. AcknowledgedDeliveryIsKept'
  BY DEF QInv, AcknowledgedDeliveryIsKept, In, Forgotten
<1>. QED BY <1>2, <1>3, <1>4, <1>5 DEF QInv

(* Claiming moves files from the inbox to processing, the whole batch or,   *)
(* when the gateway dies in between, part of it.                            *)
LEMMA MoveKeepsAcknowledged ==
    ASSUME QInv, NEW D \in SUBSET Claimable, MoveToProcessing(D),
           UNCHANGED <<trig, of, failed, acked, outcome>>
    PROVE  AcknowledgedDeliveryIsKept'
BY DEF QInv, AcknowledgedDeliveryIsKept, MoveToProcessing, In, Forgotten, Claimable

LEMMA ClaimOK ==
    ASSUME QInv, claim_deliveries
    PROVE  QInv'
<1>. PICK s \in Batches :
       /\ batch' = s
       /\ MoveToProcessing(Moved(s))
       /\ attempts' = [d \in Delivery |-> IF d \in Moved(s) THEN inbox[d].attempts ELSE 0]
  BY DEF claim_deliveries
<1>. USE DEF claim_deliveries, budget
<1>1. /\ s \in Seq(Delivery) /\ s # <<>> /\ Increasing(s)
      /\ Moved(s) \subseteq Claimable /\ Moved(s) \subseteq Delivery
  BY ABatch
<1>2. \A d \in Moved(s) : inbox[d] # NoFile /\ inbox[d] \in File
  BY <1>1 DEF Claimable, In, QInv, TypeOK
<1>3. /\ \A d \in Moved(s) : /\ inbox'[d] = NoFile /\ processing'[d] = inbox[d]
                              /\ attempts'[d] = inbox[d].attempts
      /\ \A d \in Delivery \ Moved(s) : inbox'[d] = inbox[d] /\ processing'[d] = processing[d]
  BY <1>1 DEF MoveToProcessing
<1>4. TypeOK'
  <2>1. /\ inbox' \in [Delivery -> File \cup {NoFile}]
        /\ processing' \in [Delivery -> File \cup {NoFile}]
    BY DEF QInv, TypeOK, MoveToProcessing
  <2>2. attempts' \in [Delivery -> 0..MaxAttempts]
    BY <1>2, Files, AttemptsAssumption
  <2>. QED BY <1>1, <2>1, <2>2 DEF QInv, TypeOK
<1>5. BatchOK'
  BY <1>1 DEF QInv, BatchOK
<1>6. \A d \in Delivery : DeliveryOK(d)'
  <2>. SUFFICES ASSUME NEW d \in Delivery PROVE DeliveryOK(d)'
    OBVIOUS
  <2>1. CASE d \in Moved(s)
    <3>1. inbox[d].attempts \in 0..MaxAttempts /\ turns[d] \in Nat /\ Begins(d)' = 0
      BY <1>2, <2>1, Files DEF QInv, TypeOK, Begins, Begun
    <3>2. /\ inbox'[d] = NoFile /\ processing'[d] = inbox[d]
          /\ attempts'[d] = inbox[d].attempts /\ inbox[d] # NoFile
      BY <1>2, <1>3, <2>1
    <3>3. /\ failed[d] = NoFile /\ outcome[d] = None /\ of[d] # None
          /\ inbox[d].attempts < MaxAttempts /\ turns[d] <= inbox[d].attempts
          /\ turns[d] <= MaxAttempts
      BY <3>2 DEF QInv, DeliveryOK, InboxOK, UnusedOK
    <3>. QED BY <3>1, <3>2, <3>3
         DEF DeliveryOK, UnusedOK, InboxOK, ProcessingOK, InHandOK, FailedOK
  <2>2. CASE d \notin Moved(s)
    <3>1. Moved(batch) = {}
      BY DEF Moved
    <3>. QED BY <1>3, <2>2, <3>1
         DEF QInv, DeliveryOK, UnusedOK, InboxOK, ProcessingOK, InHandOK, FailedOK
  <2>. QED BY <2>1, <2>2
<1>7. AcknowledgedDeliveryIsKept'
  BY <1>1, MoveKeepsAcknowledged
<1>. QED BY <1>4, <1>5, <1>6, <1>7 DEF QInv

LEMMA ClaimTornOK ==
    ASSUME QInv, ClaimTorn
    PROVE  QInv'
<1>. PICK s \in Batches : \E n \in 1..Len(s) : MoveToProcessing(Moved(SubSeq(s, 1, n)))
  BY DEF ClaimTorn
<1>. PICK n \in 1..Len(s) : MoveToProcessing(Moved(SubSeq(s, 1, n)))
  OBVIOUS
<1>. DEFINE D == Moved(SubSeq(s, 1, n))
<1>. USE DEF ClaimTorn
<1>1. D \in SUBSET Claimable /\ D \in SUBSET Delivery
  BY ABatch, PartOfABatch
<1>. HIDE DEF D
<1>2. \A d \in D : inbox[d] # NoFile /\ inbox[d] \in File
  BY <1>1 DEF Claimable, In, QInv, TypeOK
<1>3. /\ \A d \in D : inbox'[d] = NoFile /\ processing'[d] = inbox[d]
      /\ \A d \in Delivery \ D : inbox'[d] = inbox[d] /\ processing'[d] = processing[d]
  BY <1>1 DEF MoveToProcessing, D
<1>4. TypeOK'
  <2>1. /\ inbox' \in [Delivery -> File \cup {NoFile}]
        /\ processing' \in [Delivery -> File \cup {NoFile}]
    BY DEF QInv, TypeOK, MoveToProcessing
  <2>2. /\ attempts' \in [Delivery -> 0..MaxAttempts] /\ batch' \in Seq(Delivery)
        /\ crashes' \in 0..MaxCrashes /\ pc' \in Pcs
    BY AttemptsAssumption, EmptySeq, BoundsAssumption DEF QInv, TypeOK, Stopped, Dying, Pcs
  <2>. QED BY <2>1, <2>2 DEF QInv, TypeOK, Stopped
<1>5. BatchOK'
  BY DEF Stopped, BatchOK, Increasing, Busy
<1>6. \A d \in Delivery : DeliveryOK(d)'
  <2>. SUFFICES ASSUME NEW d \in Delivery PROVE DeliveryOK(d)'
    OBVIOUS
  <2>0. Moved(batch)' = {}
    BY DEF Stopped, Moved
  <2>1. CASE d \in D
    <3>1. inbox[d].attempts \in 0..MaxAttempts /\ turns[d] \in Nat
      BY <1>2, <2>1, Files DEF QInv, TypeOK
    <3>. QED BY <1>2, <1>3, <2>0, <2>1, <3>1
         DEF QInv, DeliveryOK, UnusedOK, InboxOK, ProcessingOK, InHandOK, FailedOK
  <2>2. CASE d \notin D
    BY <1>3, <2>0, <2>2
       DEF QInv, DeliveryOK, UnusedOK, InboxOK, ProcessingOK, InHandOK, FailedOK, Moved
  <2>. QED BY <2>1, <2>2
<1>7. AcknowledgedDeliveryIsKept'
  BY <1>1, MoveKeepsAcknowledged DEF D
<1>. QED BY <1>4, <1>5, <1>6, <1>7 DEF QInv

(* There is a least file name among the ones in processing                  *)
(* (local_store.py:412).                                                    *)
LEMMA LeastName ==
    ASSUME NEW S, S \subseteq Delivery, S # {}
    PROVE  Minimum(S) \in S
<1>1. S \subseteq Nat
  BY DeliveryAssumption
<1>2. PICK d \in S : \A e \in S : ~(<<e, d>> \in OpToRel(<, Nat))
  BY <1>1, NatLessThanWellFounded, WFMin
<1>3. \A e \in S : d <= e
  <2>. SUFFICES ASSUME NEW e \in S PROVE ~(e < d)
    BY <1>1
  <2>. QED BY <1>1, <1>2 DEF OpToRel
<1>. QED BY <1>3 DEF Minimum

(* A file a retry writes goes where its attempts put it, and no other       *)
(* delivery's file is touched (local_store.py:571-594).                     *)
LEMMA RetriedFiles ==
    ASSUME QInv, NEW d \in Delivery, NEW n \in 0..MaxAttempts, n < MaxAttempts,
           NEW w \in BOOLEAN, Retried(d, n, w)
    PROVE  /\ inbox' \in [Delivery -> File \cup {NoFile}]
           /\ failed' \in [Delivery -> File \cup {NoFile}]
           /\ \A e \in Delivery \ {d} : inbox'[e] = inbox[e] /\ failed'[e] = failed[e]
           /\ n + 1 < MaxAttempts => /\ inbox'[d] # NoFile /\ inbox'[d].attempts = n + 1
                                    /\ failed'[d] = failed[d]
           /\ n + 1 >= MaxAttempts => /\ failed'[d] # NoFile /\ inbox'[d] = inbox[d]
<1>1. n + 1 \in 0..MaxAttempts
  BY AttemptsAssumption
<1>2. \A v \in BOOLEAN : /\ [attempts |-> n + 1, waiting |-> v] \in File
                          /\ [attempts |-> n + 1, waiting |-> v] # NoFile
  BY <1>1, Files
<1>3. CASE n + 1 < MaxAttempts
  <2>1. ~(n + 1 >= MaxAttempts)
    BY <1>1, <1>3, AttemptsAssumption
  <2>2. /\ inbox' = [inbox EXCEPT ![d] = [attempts |-> n + 1, waiting |-> w]]
        /\ failed' = failed
    BY <2>1 DEF Retried
  <2>. QED BY <1>2, <2>1, <2>2 DEF QInv, TypeOK
<1>4. CASE n + 1 >= MaxAttempts
  <2>1. ~(n + 1 < MaxAttempts)
    BY <1>1, <1>4, AttemptsAssumption
  <2>2. [attempts |-> n + 1, waiting |-> FALSE] \in File \ {NoFile}
    BY <1>2
  <2>3. /\ failed' = [failed EXCEPT ![d] = [attempts |-> n + 1, waiting |-> FALSE]]
        /\ inbox' = inbox
    BY <1>4 DEF Retried
  <2>. QED BY <2>1, <2>2, <2>3 DEF QInv, TypeOK
<1>5. n + 1 < MaxAttempts \/ n + 1 >= MaxAttempts
  BY <1>1, AttemptsAssumption
<1>. QED BY <1>3, <1>4, <1>5

(* A requeued delivery is nobody's current one any more, and its turn, if   *)
(* one had begun, has been counted.  The old file may have stayed           *)
(* (local_store.py:594).                                                    *)
LEMMA RequeuedOK ==
    ASSUME QInv, NEW d \in Delivery, NEW n \in 0..MaxAttempts, n < MaxAttempts,
           NEW w \in BOOLEAN, Retried(d, n, w),
           processing' \in {processing, [processing EXCEPT ![d] = NoFile]},
           of[d] # None, outcome[d] = None, turns[d] <= n + 1,
           n + 1 < MaxAttempts => failed[d] = NoFile,
           n + 1 >= MaxAttempts => inbox[d] = NoFile,
           processing[d] # NoFile => processing[d].attempts = n,
           UNCHANGED <<trig, policy, of, log, acked, turns, outcome, told>>,
           batch' \in Seq(Delivery), Increasing(batch'),
           Moved(batch') \subseteq Moved(batch) \ {d},
           \A e \in Delivery : e \in Moved(batch') => attempts'[e] = attempts[e]
                                                     /\ Begins(e) = 0,
           pc' \in {"down", "recover", "idle"},
           pc' \in {"down", "recover"} => batch' = <<>>
    PROVE  /\ BatchOK'
           /\ \A e \in Delivery : DeliveryOK(e)'
           /\ AcknowledgedDeliveryIsKept'
           /\ inbox' \in [Delivery -> File \cup {NoFile}]
           /\ processing' \in [Delivery -> File \cup {NoFile}]
           /\ failed' \in [Delivery -> File \cup {NoFile}]
<1>1. /\ inbox' \in [Delivery -> File \cup {NoFile}]
      /\ failed' \in [Delivery -> File \cup {NoFile}]
      /\ \A e \in Delivery \ {d} : inbox'[e] = inbox[e] /\ failed'[e] = failed[e]
      /\ n + 1 < MaxAttempts => /\ inbox'[d] # NoFile /\ inbox'[d].attempts = n + 1
                               /\ failed'[d] = failed[d]
      /\ n + 1 >= MaxAttempts => /\ failed'[d] # NoFile /\ inbox'[d] = inbox[d]
  BY RetriedFiles
<1>2. /\ processing' \in [Delivery -> File \cup {NoFile}]
      /\ processing'[d] \in {processing[d], NoFile}
      /\ \A e \in Delivery \ {d} : processing'[e] = processing[e]
  BY DEF QInv, TypeOK
<1>3. BatchOK'
  BY DEF BatchOK, Busy
<1>4. Moved(batch)' = Moved(batch') /\ \A e \in Delivery : Begins(e)' = 0
  BY DEF Moved, Begins, Begun
<1>5. n \in Nat /\ turns[d] \in Nat /\ MaxAttempts \in Nat
  BY AttemptsAssumption DEF QInv, TypeOK
<1>6. DeliveryOK(d)'
  <2>1. turns'[d] = turns[d] /\ of'[d] # None /\ outcome'[d] = None /\ d \notin Moved(batch)'
    BY <1>4
  <2>2. CASE n + 1 < MaxAttempts
    BY <1>1, <1>2, <1>5, <2>1, <2>2
       DEF QInv, DeliveryOK, UnusedOK, InboxOK, ProcessingOK, InHandOK, FailedOK
  <2>3. CASE n + 1 >= MaxAttempts
    BY <1>1, <1>2, <1>5, <2>1, <2>3
       DEF QInv, DeliveryOK, UnusedOK, InboxOK, ProcessingOK, InHandOK, FailedOK
  <2>. QED BY <1>5, <2>2, <2>3
<1>7. ASSUME NEW e \in Delivery, e # d PROVE DeliveryOK(e)'
  <2>1. /\ inbox'[e] = inbox[e] /\ failed'[e] = failed[e] /\ processing'[e] = processing[e]
        /\ of'[e] = of[e] /\ outcome'[e] = outcome[e] /\ turns'[e] = turns[e]
        /\ e \in acked' => e \in acked
    BY <1>1, <1>2, <1>7
  <2>2. e \in Moved(batch)' => /\ e \in Moved(batch) /\ attempts'[e] = attempts[e]
                               /\ Begins(e) = 0 /\ Begins(e)' = 0
    BY <1>4
  <2>. QED BY <2>1, <2>2
       DEF QInv, DeliveryOK, UnusedOK, InboxOK, ProcessingOK, InHandOK, FailedOK
<1>8. AcknowledgedDeliveryIsKept'
  <2>. SUFFICES ASSUME NEW e \in acked, e \in Delivery
                PROVE  \/ e \in In(inbox') \cup In(processing') \cup In(failed')
                       \/ outcome[e] # None \/ Forgotten(e)
    BY DEF QInv, TypeOK, AcknowledgedDeliveryIsKept, In, Forgotten
  <2>1. CASE e = d
    BY <1>1, <1>5, <2>1 DEF In
  <2>2. CASE e # d
    BY <1>1, <1>2, <2>2 DEF QInv, AcknowledgedDeliveryIsKept, In
  <2>. QED BY <2>1, <2>2
<1>. QED BY <1>1, <1>2, <1>3, <1>6, <1>7, <1>8

(* What recovery finds in processing, and the current delivery, may be      *)
(* requeued with the attempts they carry (local_store.py:412-416,           *)
(* local_runner.py:73-90).                                                  *)
LEMMA RecoveryMayRequeue ==
    ASSUME QInv, pc = "recover", In(processing) # {},
           NEW d, d = Minimum(In(processing))
    PROVE  /\ d \in Delivery /\ processing[d] # NoFile /\ batch = <<>>
           /\ processing[d].attempts \in 0..MaxAttempts
           /\ processing[d].attempts < MaxAttempts
           /\ of[d] # None /\ outcome[d] = None
           /\ turns[d] <= processing[d].attempts + 1
           /\ processing[d].attempts + 1 < MaxAttempts => failed[d] = NoFile
           /\ processing[d].attempts + 1 >= MaxAttempts => inbox[d] = NoFile
<1>1. d \in In(processing)
  BY LeastName DEF In
<1>2. d \in Delivery /\ processing[d] # NoFile /\ processing[d] \in File
  BY <1>1 DEF In, QInv, TypeOK
<1>3. processing[d].attempts \in 0..MaxAttempts /\ MaxAttempts \in Nat
  BY <1>2, Files, AttemptsAssumption
<1>. QED BY <1>2, <1>3 DEF QInv, BatchOK, DeliveryOK, UnusedOK, ProcessingOK

LEMMA CurrentMayRequeue ==
    ASSUME QInv, batch # <<>>
    PROVE  /\ Current \in Delivery /\ Current \in Moved(batch)
           /\ attempts[Current] \in 0..MaxAttempts /\ attempts[Current] < MaxAttempts
           /\ of[Current] # None /\ outcome[Current] = None
           /\ turns[Current] <= attempts[Current] + 1
           /\ failed[Current] = NoFile /\ inbox[Current] = NoFile
           /\ processing[Current] # NoFile => processing[Current].attempts = attempts[Current]
           /\ Tail(batch) \in Seq(Delivery) /\ Increasing(Tail(batch))
           /\ Moved(Tail(batch)) = Moved(batch) \ {Current}
           /\ \A e \in Delivery \ {Current} : Begins(e) = 0
<1>1. batch \in Seq(Delivery) /\ Increasing(batch)
  BY DEF QInv, TypeOK, BatchOK
<1>2. /\ Current \in Delivery /\ Current \in Moved(batch)
      /\ Tail(batch) \in Seq(Delivery) /\ Increasing(Tail(batch))
      /\ Moved(Tail(batch)) = Moved(batch) \ {Current}
  BY <1>1, TakenOff DEF Current
<1>3. /\ attempts[Current] \in 0..MaxAttempts /\ turns[Current] \in Nat
      /\ MaxAttempts \in Nat /\ Begins(Current) \in {0, 1}
  BY <1>2, AttemptsAssumption DEF QInv, TypeOK, Begins
<1>4. DeliveryOK(Current)
  BY <1>2 DEF QInv
<1>5. attempts[Current] < MaxAttempts /\ turns[Current] <= attempts[Current] + 1
  BY <1>2, <1>3, <1>4 DEF DeliveryOK, InHandOK
<1>6. \A e \in Delivery \ {Current} : Begins(e) = 0
  BY DEF Begins
<1>. QED BY <1>2, <1>3, <1>4, <1>5, <1>6 DEF DeliveryOK, UnusedOK, InHandOK, ProcessingOK

-----------------------------------------------------------------------------
(* Recovery, and the ways a claimed delivery ends                           *)

(* A recovery that dies between the new file and the removal of the old one *)
(* leaves both (local_store.py:594).                                        *)
LEMMA RecoverOK ==
    ASSUME QInv, recover_processing_deliveries \/ RecoverTorn
    PROVE  QInv'
<1>. USE DEF recover_processing_deliveries, RecoverTorn, budget
<1>1. CASE In(processing) = {}
  <2>1. pc = "recover" /\ pc' = "idle" /\ UNCHANGED files /\ batch' = batch /\ attempts' = attempts
    BY <1>1
  <2>2. TypeOK'
    BY <1>1, <2>1 DEF QInv, TypeOK, files, Pcs
  <2>3. BatchOK'
    BY <2>1 DEF QInv, BatchOK, Busy
  <2>4. \A d \in Delivery : DeliveryOK(d)'
    BY <1>1, <2>1 DEF QInv, DeliveryOK, UnusedOK, InboxOK, ProcessingOK, InHandOK, FailedOK,
       files, Begins, Begun, Current
  <2>5. AcknowledgedDeliveryIsKept'
    BY <1>1, <2>1 DEF QInv, AcknowledgedDeliveryIsKept, In, Forgotten, files
  <2>. QED BY <2>2, <2>3, <2>4, <2>5 DEF QInv
<1>2. CASE In(processing) # {}
  <2>. PICK d : d = Minimum(In(processing))
    OBVIOUS
  <2>. PICK n : n = processing[d].attempts
    OBVIOUS
  <2>1. PICK w \in BOOLEAN :
          /\ Retried(d, n, w)
          /\ processing' \in {processing, [processing EXCEPT ![d] = NoFile]}
    BY <1>2 DEF _retry_delivery_unlocked, RetryTorn
  <2>2. pc = "recover"
    OBVIOUS
  <2>3. /\ d \in Delivery /\ batch = <<>>
        /\ n \in 0..MaxAttempts /\ n < MaxAttempts
        /\ of[d] # None /\ outcome[d] = None
        /\ turns[d] <= n + 1
        /\ n + 1 < MaxAttempts => failed[d] = NoFile
        /\ n + 1 >= MaxAttempts => inbox[d] = NoFile
    BY <1>2, <2>2, RecoveryMayRequeue
  <2>4. batch' = <<>> /\ pc' \in {"down", "recover"}
    BY <1>2, <2>3 DEF Stopped
  <2>5. batch' \in Seq(Delivery) /\ Increasing(batch') /\ Moved(batch') = {}
    BY <2>4, EmptySeq DEF Increasing, Moved
  <2>6. UNCHANGED <<trig, policy, of, log, acked, turns, outcome, told>>
    OBVIOUS
  <2>7. /\ BatchOK' /\ AcknowledgedDeliveryIsKept'
        /\ \A e \in Delivery : DeliveryOK(e)'
        /\ inbox' \in [Delivery -> File \cup {NoFile}]
        /\ processing' \in [Delivery -> File \cup {NoFile}]
        /\ failed' \in [Delivery -> File \cup {NoFile}]
    BY <2>1, <2>3, <2>4, <2>5, <2>6, RequeuedOK
  <2>8. /\ attempts' \in [Delivery -> 0..MaxAttempts] /\ answer' \in Answer \cup {None}
        /\ failures' \in 0..MaxFailures /\ crashes' \in 0..MaxCrashes /\ pc' \in Pcs
    BY <1>2, AttemptsAssumption, BoundsAssumption DEF QInv, TypeOK, Stopped, Dying, Pcs
  <2>9. TypeOK'
    BY <2>5, <2>6, <2>7, <2>8 DEF QInv, TypeOK
  <2>. QED BY <2>7, <2>9 DEF QInv
<1>. QED BY <1>1, <1>2

(* The current delivery goes back with one attempt more, after any other    *)
(* exception or because the gateway stops (local_runner.py:73-90).          *)
LEMMA RequeueOK ==
    ASSUME QInv, retry_delivery \/ Cancelled \/ RequeueTorn
    PROVE  QInv'
<1>. USE DEF retry_delivery, Cancelled, RequeueTorn
<1>. PICK d : d = Current
  OBVIOUS
<1>. PICK n : n = attempts[d]
  OBVIOUS
<1>1. batch # <<>>
  BY DEF QInv, BatchOK, Busy
<1>2. PICK w \in BOOLEAN :
        /\ Retried(d, n, w)
        /\ processing' \in {processing, [processing EXCEPT ![d] = NoFile]}
  BY DEF _retry_delivery_unlocked, RetryTorn
<1>3. /\ d \in Delivery /\ d \in Moved(batch)
      /\ n \in 0..MaxAttempts /\ n < MaxAttempts
      /\ of[d] # None /\ outcome[d] = None /\ turns[d] <= n + 1
      /\ failed[d] = NoFile /\ inbox[d] = NoFile
      /\ processing[d] # NoFile => processing[d].attempts = n
      /\ Tail(batch) \in Seq(Delivery) /\ Increasing(Tail(batch))
      /\ Moved(Tail(batch)) = Moved(batch) \ {d}
      /\ \A e \in Delivery \ {d} : Begins(e) = 0
  BY <1>1, CurrentMayRequeue
<1>4. \/ /\ pc' = "idle" /\ batch' = Tail(batch)
         /\ attempts' = [attempts EXCEPT ![d] = 0]
      \/ /\ pc' = "down" /\ batch' = <<>>
         /\ attempts' = [e \in Delivery |-> 0]
  BY DEF Stopped
<1>5. Moved(<<>>) = {} /\ <<>> \in Seq(Delivery) /\ Increasing(<<>>)
  BY EmptySeq DEF Moved, Increasing
<1>6. /\ batch' \in Seq(Delivery) /\ Increasing(batch')
      /\ Moved(batch') \subseteq Moved(batch) \ {d}
      /\ pc' \in {"down", "recover", "idle"}
      /\ pc' \in {"down", "recover"} => batch' = <<>>
  BY <1>3, <1>4, <1>5
<1>7. \A e \in Delivery : e \in Moved(batch') => attempts'[e] = attempts[e] /\ Begins(e) = 0
  BY <1>3, <1>4, <1>5 DEF QInv, TypeOK
<1>8. UNCHANGED <<trig, policy, of, log, acked, turns, outcome, told>>
  OBVIOUS
<1>9. /\ BatchOK' /\ AcknowledgedDeliveryIsKept'
      /\ \A e \in Delivery : DeliveryOK(e)'
      /\ inbox' \in [Delivery -> File \cup {NoFile}]
      /\ processing' \in [Delivery -> File \cup {NoFile}]
      /\ failed' \in [Delivery -> File \cup {NoFile}]
  BY <1>2, <1>3, <1>6, <1>7, <1>8, RequeuedOK
<1>10. attempts' \in [Delivery -> 0..MaxAttempts]
  BY <1>4, AttemptsAssumption DEF QInv, TypeOK
<1>11. /\ answer' \in Answer \cup {None} /\ pc' \in Pcs
       /\ failures' \in 0..MaxFailures /\ crashes' \in 0..MaxCrashes
  BY BoundsAssumption DEF QInv, TypeOK, Stopped, Dying, Failing, Pcs
<1>12. TypeOK'
  BY <1>6, <1>8, <1>9, <1>10, <1>11 DEF QInv, TypeOK
<1>. QED BY <1>9, <1>12 DEF QInv

(* A delivery that is concluded has no file but the one in processing,      *)
(* which goes, and an outcome, which stays (local_store.py:447).            *)
LEMMA ConcludedOK ==
    ASSUME QInv, Drop \/ TurnStopped \/ TurnRaises \/ Conclude
    PROVE  QInv'
<1>. USE DEF Drop, TurnStopped, TurnRaises, Conclude, budget
<1>. PICK d : d = Current
  OBVIOUS
<1>1. batch # <<>>
  BY DEF QInv, BatchOK, Busy
<1>2. PICK how \in {"ok", "error", "dropped"} :
        /\ processing' = [processing EXCEPT ![d] = NoFile]
        /\ outcome' = [outcome EXCEPT ![d] = how]
        /\ attempts' = [attempts EXCEPT ![d] = 0]
        /\ batch' = Tail(batch) /\ pc' = "idle" /\ answer' = None
  BY DEF complete_delivery
<1>3. /\ d \in Delivery /\ d \in Moved(batch) /\ of[d] # None
      /\ failed[d] = NoFile /\ inbox[d] = NoFile
      /\ Tail(batch) \in Seq(Delivery) /\ Increasing(Tail(batch))
      /\ Moved(Tail(batch)) = Moved(batch) \ {d}
      /\ \A e \in Delivery \ {d} : Begins(e) = 0
  BY <1>1, CurrentMayRequeue
<1>4. UNCHANGED <<trig, policy, of, inbox, failed, log, failures, crashes, acked, turns>>
  OBVIOUS
<1>5. how # None
  BY NoneAssumption
<1>6. TypeOK'
  <2>1. told' \in [Trigger -> Answer \cup {None, Sorry}]
    BY <1>3 DEF QInv, TypeOK
  <2>2. /\ processing' \in [Delivery -> File \cup {NoFile}]
        /\ outcome' \in [Delivery -> {None, "ok", "error", "dropped"}]
        /\ attempts' \in [Delivery -> 0..MaxAttempts]
    <3>1. 0 \in 0..MaxAttempts
      BY AttemptsAssumption
    <3>. QED BY <1>2, <3>1 DEF QInv, TypeOK
  <2>. QED BY <1>2, <1>3, <1>4, <2>1, <2>2 DEF QInv, TypeOK, Pcs
<1>7. BatchOK'
  BY <1>2, <1>3 DEF BatchOK, Busy
<1>8. Moved(batch)' = Moved(batch) \ {d} /\ \A e \in Delivery : Begins(e)' = 0
  BY <1>2, <1>3 DEF Moved, Begins, Begun
<1>9. DeliveryOK(d)'
  BY <1>2, <1>3, <1>4, <1>8
     DEF QInv, TypeOK, DeliveryOK, UnusedOK, InboxOK, ProcessingOK, InHandOK, FailedOK
<1>10. ASSUME NEW e \in Delivery, e # d PROVE DeliveryOK(e)'
  <2>1. /\ inbox'[e] = inbox[e] /\ failed'[e] = failed[e] /\ processing'[e] = processing[e]
        /\ of'[e] = of[e] /\ outcome'[e] = outcome[e] /\ turns'[e] = turns[e]
        /\ attempts'[e] = attempts[e] /\ (e \in Moved(batch)' => e \in Moved(batch))
        /\ Begins(e) = 0 /\ Begins(e)' = 0 /\ (e \in acked' <=> e \in acked)
    BY <1>2, <1>3, <1>4, <1>8, <1>10 DEF QInv, TypeOK
  <2>. QED BY <2>1
       DEF QInv, DeliveryOK, UnusedOK, InboxOK, ProcessingOK, InHandOK, FailedOK
<1>11. AcknowledgedDeliveryIsKept'
  <2>. SUFFICES ASSUME NEW e \in acked, e \in Delivery
                PROVE  \/ e \in In(inbox') \cup In(processing') \cup In(failed')
                       \/ outcome'[e] # None \/ Forgotten(e)
    BY <1>4 DEF QInv, TypeOK, AcknowledgedDeliveryIsKept, In, Forgotten
  <2>1. CASE e = d
    BY <1>2, <1>3, <1>5, <2>1 DEF QInv, TypeOK
  <2>2. CASE e # d
    BY <1>2, <1>3, <1>4, <2>2 DEF QInv, TypeOK, AcknowledgedDeliveryIsKept, In
  <2>. QED BY <2>1, <2>2
<1>. QED BY <1>6, <1>7, <1>9, <1>10, <1>11 DEF QInv

(* The gateway dies with its claims in processing.                          *)
LEMMA CrashOK ==
    ASSUME QInv, Crash
    PROVE  QInv'
<1>. USE DEF Crash, Stopped, files
<1>1. batch' = <<>> /\ Moved(batch') = {} /\ pc' = "down" /\ Moved(batch)' = {}
  BY DEF Moved
<1>2. UNCHANGED <<trig, policy, of, inbox, processing, failed, log, failures, acked, turns,
                  outcome, told>>
  OBVIOUS
<1>3. TypeOK'
  BY EmptySeq, AttemptsAssumption, BoundsAssumption DEF QInv, TypeOK, Dying, Pcs
<1>4. BatchOK'
  BY <1>1 DEF BatchOK, Increasing, Busy
<1>5. \A d \in Delivery : DeliveryOK(d)'
  BY <1>1, <1>2
     DEF QInv, DeliveryOK, UnusedOK, InboxOK, ProcessingOK, InHandOK, FailedOK
<1>6. AcknowledgedDeliveryIsKept'
  BY <1>2 DEF QInv, AcknowledgedDeliveryIsKept, In, Forgotten
<1>. QED BY <1>3, <1>4, <1>5, <1>6 DEF QInv

(* The end of a backoff changes nothing but the wait.                       *)
LEMMA BackoffOK ==
    ASSUME QInv, NEW c \in Delivery, BackoffElapses(c)
    PROVE  QInv'
<1>. USE DEF BackoffElapses, task, budget
<1>1. inbox[c] \in File /\ inbox[c] # NoFile
  BY DEF QInv, TypeOK
<1>2. /\ [inbox[c] EXCEPT !.waiting = FALSE] \in File
      /\ [inbox[c] EXCEPT !.waiting = FALSE].attempts = inbox[c].attempts
  BY <1>1 DEF File
<1>3. [inbox[c] EXCEPT !.waiting = FALSE] # NoFile
  BY <1>2, Files
<1>4. /\ inbox' = [inbox EXCEPT ![c] = [inbox[c] EXCEPT !.waiting = FALSE]]
      /\ inbox \in [Delivery -> File \cup {NoFile}]
  BY DEF QInv, TypeOK
<1>5. /\ inbox' \in [Delivery -> File \cup {NoFile}]
      /\ inbox'[c] # NoFile /\ inbox'[c].attempts = inbox[c].attempts
      /\ \A d \in Delivery \ {c} : inbox'[d] = inbox[d]
  BY <1>2, <1>3, <1>4
<1>6. UNCHANGED <<trig, policy, of, processing, failed, pc, batch, attempts, answer, log,
                  failures, crashes, acked, turns, outcome, told>>
  OBVIOUS
<1>. HIDE DEF BackoffElapses
<1>7. \A d \in Delivery : (inbox'[d] # NoFile <=> inbox[d] # NoFile)
                          /\ (inbox[d] # NoFile => inbox'[d].attempts = inbox[d].attempts)
  BY <1>1, <1>5
<1>8. TypeOK'
  BY <1>5, <1>6 DEF QInv, TypeOK
<1>9. BatchOK'
  BY <1>6 DEF QInv, BatchOK
<1>10. \A d \in Delivery : DeliveryOK(d)'
  BY <1>6, <1>7
     DEF QInv, DeliveryOK, UnusedOK, InboxOK, ProcessingOK, InHandOK, FailedOK, Begins, Current
<1>11. AcknowledgedDeliveryIsKept'
  BY <1>6, <1>7 DEF QInv, AcknowledgedDeliveryIsKept, In, Forgotten
<1>. QED BY <1>8, <1>9, <1>10, <1>11 DEF QInv

(* Deliveries are put into the inbox by the CLI and the WebUI, and by a     *)
(* replay, whose trigger is the one of the dead letter.                     *)
LEMMA EnqueuedOK ==
    ASSUME QInv, NEW d \in Delivery,
           \/ \E t \in Trigger : enqueue(d, t) \/ EnqueueTorn(d, t)
           \/ \E o \in Delivery : replay_failed_delivery(o, d)
    PROVE  QInv'
<1>1. ASSUME NEW t \in Trigger, enqueue(d, t) PROVE QInv'
  BY <1>1, DeliverOK DEF enqueue
<1>2. ASSUME NEW t \in Trigger, EnqueueTorn(d, t) PROVE QInv'
  BY <1>2, DeliverOK DEF EnqueueTorn
<1>3. ASSUME NEW o \in Delivery, replay_failed_delivery(o, d) PROVE QInv'
  <2>1. failed[o] # NoFile
    BY <1>3 DEF replay_failed_delivery
  <2>2. of[o] \in Trigger
    BY <2>1 DEF QInv, TypeOK, DeliveryOK, UnusedOK
  <2>. QED BY <1>3, <2>2, DeliverOK DEF replay_failed_delivery
<1>. QED BY <1>1, <1>2, <1>3

LEMMA StepOK == QInv /\ [Next]_vars => QInv'
<1>. SUFFICES ASSUME QInv, [Next]_vars PROVE QInv'
  OBVIOUS
<1>1. CASE Store
  BY <1>1, TriggersOK, DeleteOK, EnqueuedOK DEF Store
<1>2. CASE QueueTask
  BY <1>2, TaskMovesOK, RecoverOK, ClaimOK, ConcludedOK DEF QueueTask
<1>3. CASE Turn
  BY <1>3, TaskMovesOK, TurnStartsOK, ConcludedOK DEF Turn
<1>4. CASE Fault
  BY <1>4, RecoverOK, ClaimTornOK, RequeueOK, CrashOK DEF Fault
<1>5. CASE \E d \in Delivery : BackoffElapses(d)
  BY <1>5, BackoffOK
<1>6. CASE UNCHANGED vars
  <2>. USE <1>6 DEF vars, files, task, budget
  <2>1. TypeOK'
    BY DEF QInv, TypeOK
  <2>2. BatchOK'
    BY DEF QInv, BatchOK
  <2>3. \A d \in Delivery : DeliveryOK(d)'
    BY DEF QInv, DeliveryOK, UnusedOK, InboxOK, ProcessingOK, InHandOK, FailedOK, Begins, Current
  <2>4. AcknowledgedDeliveryIsKept'
    BY DEF QInv, AcknowledgedDeliveryIsKept, In, Forgotten
  <2>. QED BY <2>1, <2>2, <2>3, <2>4 DEF QInv
<1>. QED BY <1>1, <1>2, <1>3, <1>4, <1>5, <1>6 DEF Next

-----------------------------------------------------------------------------
(* Theorems                                                                 *)

(* The invariant of the queue: what the files of every delivery say of the  *)
(* turns it had, in every state of every run.                               *)
THEOREM QueueInvariant == Spec => []QInv
BY InitOK, StepOK, PTL DEF Spec

(* The state of the store, of the queue task and of the delivery log is     *)
(* what the code keeps (local_store.py, local_runner.py).                   *)
THEOREM QueueTypeCorrect == Spec => []TypeOK
<1>1. QInv => TypeOK
  BY DEF QInv
<1>. QED BY <1>1, QueueInvariant, PTL

(* No delivery whose enqueue or replay returned is lost, wherever the       *)
(* gateway dies or a write fails (local_store.py:571-594).                  *)
THEOREM NoAcknowledgedDeliveryIsLost == Spec => []AcknowledgedDeliveryIsKept
<1>1. QInv => AcknowledgedDeliveryIsKept
  BY DEF QInv
<1>. QED BY <1>1, QueueInvariant, PTL

(* No delivery runs more often than it has attempts, however often the      *)
(* gateway dies on it (local_store.py: _MAX_DELIVERY_ATTEMPTS).             *)
THEOREM NoDeliveryRunsForEver == Spec => []RunsAreBounded
<1>1. QInv => RunsAreBounded
  BY DEF QInv, DeliveryOK, RunsAreBounded
<1>. QED BY <1>1, QueueInvariant, PTL

(* What a replay queues again was never concluded (local_store.py:482).     *)
THEOREM NoConcludedDeadLetter == Spec => []DeadLettersAreUnconcluded
<1>1. QInv => DeadLettersAreUnconcluded
  BY DEF QInv, DeliveryOK, FailedOK, DeadLettersAreUnconcluded, In
<1>. QED BY <1>1, QueueInvariant, PTL

-----------------------------------------------------------------------------
(* The queue keeps its promise                                              *)

View == [d \in Delivery |-> StatusOf(d)]
Waiting(d) == outcome[d] = None /\ d \in Held

(* Only a delivery that is waiting is queued or running, and only the       *)
(* current one is running.                                                  *)
LEMMA Status ==
    ASSUME QInv, NEW d \in Delivery
    PROVE  /\ Waiting(d) => StatusOf(d) = IF pc \in Begun /\ d = Current
                                         THEN "running" ELSE "queued"
           /\ ~Waiting(d) => StatusOf(d) \in {"done", "dead", "none", "deleted"}
           /\ d \in Moved(batch) => Waiting(d) /\ StatusOf(d) \in {"queued", "running"}
<1>1. pc \in Busy \ {"submitted"} <=> pc \in Begun
  BY DEF Busy, Begun
<1>2. Waiting(d) => StatusOf(d) = IF pc \in Begun /\ d = Current THEN "running" ELSE "queued"
  BY <1>1 DEF Waiting, StatusOf
<1>3. ~Waiting(d) => StatusOf(d) \in {"done", "dead", "none", "deleted"}
  BY DEF Waiting, StatusOf
<1>4. d \in Moved(batch) => Waiting(d)
  BY DEF QInv, DeliveryOK, InHandOK, Waiting, Held
<1>. QED BY <1>2, <1>3, <1>4

(* A step that changes what the promise says of one delivery, and of none.  *)
LEMMA OneChanges ==
    ASSUME NEW c \in Delivery, NEW s, StatusOf(c)' = s,
           \A d \in Delivery \ {c} : StatusOf(d)' = StatusOf(d)
    PROVE  View' = [View EXCEPT ![c] = s]
BY DEF View

LEMMA NoneChanges ==
    ASSUME \A d \in Delivery : StatusOf(d)' = StatusOf(d), UNCHANGED turns
    PROVE  UNCHANGED <<View, turns>>
BY DEF View

(* The status of a delivery is read off its own files and the hand that     *)
(* holds it.                                                                *)
LEMMA SameStatus ==
    ASSUME NEW d \in Delivery,
           outcome'[d] = outcome[d], of'[d] = of[d], failed'[d] = failed[d],
           d \in Held' <=> d \in Held,
           (pc' \in Begun /\ d = Current') <=> (pc \in Begun /\ d = Current)
    PROVE  StatusOf(d)' = StatusOf(d)
BY DEF StatusOf, Begun, Busy

(* The gateway stops: whatever was waiting is queued, dead or forgotten.    *)
LEMMA Interrupted ==
    ASSUME UNCHANGED turns,
           \A d \in Delivery :
              IF StatusOf(d) \in {"queued", "running"}
              THEN StatusOf(d)' \in {"queued", "dead", "deleted"}
              ELSE StatusOf(d)' = StatusOf(d)
    PROVE  Promise!Next
<1>. DEFINE S == {d \in Delivery : /\ StatusOf(d) \in {"queued", "running"}
                                   /\ StatusOf(d)' = "deleted"}
            B == {d \in Delivery : /\ StatusOf(d) \in {"queued", "running"}
                                   /\ StatusOf(d)' = "dead"}
<1>1. S \in SUBSET Delivery /\ B \in SUBSET Delivery
  OBVIOUS
<1>2. \A d \in S \cup B : View[d] \in {"queued", "running"}
  BY DEF View
<1>3. \A d \in Delivery : View[d] = StatusOf(d)
  BY DEF View
<1>4. \A d \in Delivery : StatusOf(d)' = IF d \in B THEN "dead"
                                        ELSE IF d \in S THEN "deleted"
                                        ELSE IF View[d] = "running" THEN "queued" ELSE View[d]
  BY <1>3
<1>. HIDE DEF S, B
<1>5. View' = [d \in Delivery |-> IF d \in B THEN "dead"
                                 ELSE IF d \in S THEN "deleted"
                                 ELSE IF View[d] = "running" THEN "queued" ELSE View[d]]
  BY <1>4 DEF View
<1>6. Promise!Interrupt(S, B)
  BY <1>2, <1>5 DEF Promise!Interrupt, Promise!Pending, View
<1>. QED BY <1>1, <1>6 DEF Promise!Next

(* Every step of the queue is a step of the promise, or none the promise    *)
(* sees.                                                                    *)
LEMMA StuttersKeepPromise ==
    ASSUME QInv, UNCHANGED <<of, outcome, failed, batch, turns>>,
           \A d \in Delivery : (inbox'[d] # NoFile \/ processing'[d] # NoFile)
                           <=> (inbox[d] # NoFile \/ processing[d] # NoFile),
           pc' \in Begun <=> pc \in Begun
    PROVE  UNCHANGED <<View, turns>>
<1>1. \A d \in Delivery : d \in Held' <=> d \in Held
  BY DEF Held, In, Moved
<1>2. \A d \in Delivery : StatusOf(d)' = StatusOf(d)
  BY <1>1, SameStatus DEF Current
<1>. QED BY <1>2, NoneChanges

LEMMA AcceptKeepsPromise ==
    ASSUME QInv, NEW e \in Delivery, NEW t \in Trigger, NEW a \in BOOLEAN, Deliver(e, t, a)
    PROVE  Promise!Next
<1>. USE DEF Deliver, task, Unused
<1>1. /\ inbox'[e] # NoFile /\ of[e] = None
      /\ \A d \in Delivery \ {e} : inbox'[d] = inbox[d] /\ of'[d] = of[d]
  BY Files DEF QInv, TypeOK
<1>2. /\ inbox[e] = NoFile /\ processing[e] = NoFile /\ failed[e] = NoFile
      /\ e \notin Moved(batch) /\ outcome[e] = None
  BY <1>1 DEF QInv, DeliveryOK, UnusedOK
<1>3. StatusOf(e) = "none"
  BY <1>1, <1>2 DEF StatusOf, Held, In
<1>4. e \in Held' /\ outcome'[e] = None
  BY <1>1, <1>2 DEF Held, In
<1>5. ~(pc \in Begun /\ e = Current)
  BY <1>2, TakenOff DEF QInv, TypeOK, BatchOK, Begun, Busy, Current
<1>6. StatusOf(e)' = "queued"
  BY <1>4, <1>5 DEF StatusOf, Begun, Busy, Current
<1>7. \A d \in Delivery \ {e} : StatusOf(d)' = StatusOf(d)
  <2>. SUFFICES ASSUME NEW d \in Delivery \ {e} PROVE StatusOf(d)' = StatusOf(d)
    OBVIOUS
  <2>1. d \in Held' <=> d \in Held
    BY <1>1 DEF Held, In, Moved
  <2>. QED BY <1>1, <2>1, SameStatus DEF Current
<1>8. View' = [View EXCEPT ![e] = "queued"]
  BY <1>6, <1>7, OneChanges
<1>9. Promise!Accept(e)
  BY <1>3, <1>8 DEF Promise!Accept, Promise!Becomes, View
<1>. QED BY <1>9 DEF Promise!Next

(* A deletion forgets what was waiting or buried, and never the turn that   *)
(* is running.                                                              *)
LEMMA DeleteKeepsPromise ==
    ASSUME QInv, NEW t \in Trigger, delete(t)
    PROVE  Promise!Next
<1>. PICK kept \in SUBSET {d \in Delivery : of[d] = t} :
         /\ inbox' = Cleared(inbox, t, kept)
         /\ processing' = Cleared(processing, t, kept)
         /\ failed' = Cleared(failed, t, kept)
  BY DEF delete
<1>. DEFINE Gone(d) == of[d] = t /\ d \notin kept
<1>1. \A d \in Delivery :
        IF Gone(d) THEN inbox'[d] = NoFile /\ processing'[d] = NoFile /\ failed'[d] = NoFile
        ELSE inbox'[d] = inbox[d] /\ processing'[d] = processing[d] /\ failed'[d] = failed[d]
  BY DEF Cleared
<1>2. t # None
  BY NoneAssumption
<1>3. UNCHANGED <<of, pc, batch, outcome, turns>>
  BY DEF delete, task
<1>4. \A d \in Delivery : \/ StatusOf(d)' = StatusOf(d)
                          \/ StatusOf(d) \in {"queued", "dead"} /\ StatusOf(d)' = "deleted"
  <2>. SUFFICES ASSUME NEW d \in Delivery
                PROVE  \/ StatusOf(d)' = StatusOf(d)
                       \/ StatusOf(d) \in {"queued", "dead"} /\ StatusOf(d)' = "deleted"
    OBVIOUS
  <2>1. CASE ~Gone(d)
    <3>1. d \in Held' <=> d \in Held
      BY <1>1, <1>3, <2>1 DEF Held, In, Moved
    <3>. QED BY <1>1, <1>3, <2>1, <3>1, SameStatus DEF Current
  <2>2. CASE Gone(d) /\ outcome[d] # None
    BY <1>3, <2>2 DEF StatusOf
  <2>3. CASE Gone(d) /\ outcome[d] = None /\ d \in Moved(batch)
    <3>1. d \in Held /\ d \in Held'
      BY <1>3, <2>3 DEF Held, Moved
    <3>. QED BY <1>3, <2>3, <3>1 DEF StatusOf, Current, Busy
  <2>4. CASE Gone(d) /\ outcome[d] = None /\ d \notin Moved(batch)
    <3>1. d \notin Held' /\ failed'[d] = NoFile /\ of'[d] # None /\ outcome'[d] = None
      BY <1>1, <1>2, <1>3, <2>4 DEF Held, In, Moved
    <3>2. StatusOf(d)' = "deleted"
      BY <3>1 DEF StatusOf
    <3>3. ~(pc \in Busy /\ d = Current)
      BY <2>4, TakenOff DEF QInv, TypeOK, BatchOK, Current
    <3>4. StatusOf(d) \in {"queued", "dead", "deleted"}
      BY <1>2, <2>4, <3>3 DEF StatusOf
    <3>. QED BY <3>2, <3>4
  <2>. QED BY <2>1, <2>2, <2>3, <2>4
<1>. DEFINE S == {d \in Delivery : /\ StatusOf(d) \in {"queued", "dead"}
                                   /\ StatusOf(d)' = "deleted"}
<1>5. \A d \in Delivery : StatusOf(d)' = IF d \in S THEN "deleted" ELSE View[d]
  BY <1>4 DEF View
<1>6. \A d \in S : View[d] \in {"queued", "dead"}
  BY DEF View
<1>7. S \in SUBSET Delivery
  OBVIOUS
<1>. HIDE DEF S
<1>8. View' = [d \in Delivery |-> IF d \in S THEN "deleted" ELSE View[d]]
  BY <1>5 DEF View
<1>9. Promise!Forget(S)
  BY <1>3, <1>6, <1>8 DEF Promise!Forget, View
<1>. QED BY <1>7, <1>9 DEF Promise!Next

(* The turn that begins was queued, and may begin.                          *)
LEMMA BeginKeepsPromise ==
    ASSUME QInv, TurnStarts
    PROVE  Promise!Next
<1>. USE DEF TurnStarts, files
<1>1. batch # <<>>
  BY DEF QInv, BatchOK, Busy
<1>. PICK c : c = Current
  OBVIOUS
<1>2. c \in Delivery /\ c \in Moved(batch)
  BY <1>1, CurrentMayRequeue
<1>3. turns[c] < MaxAttempts
  <2>1. Begins(c) = 0
    BY DEF Begins, Begun
  <2>2. turns[c] <= attempts[c] /\ attempts[c] < MaxAttempts
    BY <1>2, <2>1 DEF QInv, TypeOK, DeliveryOK, InHandOK
  <2>3. turns[c] \in Nat /\ attempts[c] \in Nat /\ MaxAttempts \in Nat
    BY <1>2, AttemptsAssumption DEF QInv, TypeOK
  <2>. QED BY <2>2, <2>3
<1>4. StatusOf(c) = "queued" /\ Waiting(c)
  BY <1>2, Status DEF Begun
<1>5. \A d \in Delivery : d \in Held' <=> d \in Held
  BY DEF Held, In, Moved
<1>6. StatusOf(c)' = "running"
  BY <1>2, <1>4, <1>5 DEF StatusOf, Waiting, Busy, Current
<1>7. \A d \in Delivery \ {c} : StatusOf(d)' = StatusOf(d)
  BY <1>5, SameStatus DEF Current
<1>8. View' = [View EXCEPT ![c] = "running"]
  BY <1>2, <1>6, <1>7, OneChanges
<1>9. Promise!Begin(c)
  BY <1>2, <1>3, <1>4, <1>8 DEF Promise!Begin, Promise!Becomes, View
<1>. QED BY <1>2, <1>9 DEF Promise!Next

LEMMA FinishKeepsPromise ==
    ASSUME QInv, Drop \/ TurnStopped \/ TurnRaises \/ Conclude
    PROVE  Promise!Next
<1>. USE DEF Drop, TurnStopped, TurnRaises, Conclude
<1>. PICK c : c = Current
  OBVIOUS
<1>1. batch # <<>>
  BY DEF QInv, BatchOK, Busy
<1>2. PICK how \in {"ok", "error", "dropped"} :
        /\ processing' = [processing EXCEPT ![c] = NoFile]
        /\ outcome' = [outcome EXCEPT ![c] = how]
        /\ batch' = Tail(batch) /\ pc' = "idle"
  BY DEF complete_delivery
<1>3. UNCHANGED <<of, inbox, failed, turns>>
  OBVIOUS
<1>4. /\ c \in Delivery /\ c \in Moved(batch)
      /\ Moved(Tail(batch)) = Moved(batch) \ {c}
  BY <1>1, CurrentMayRequeue
<1>5. StatusOf(c) \in {"queued", "running"}
  BY <1>4, Status
<1>6. outcome'[c] # None
  BY <1>2, <1>4, NoneAssumption DEF QInv, TypeOK
<1>7. StatusOf(c)' = "done"
  BY <1>6 DEF StatusOf
<1>8. \A d \in Delivery \ {c} : StatusOf(d)' = StatusOf(d)
  <2>. SUFFICES ASSUME NEW d \in Delivery, d # c PROVE StatusOf(d)' = StatusOf(d)
    OBVIOUS
  <2>0. /\ processing'[d] = processing[d] /\ inbox'[d] = inbox[d]
        /\ d \in Moved(batch') <=> d \in Moved(batch)
    BY <1>2, <1>3, <1>4 DEF QInv, TypeOK
  <2>1. d \in Held' <=> d \in Held
    BY <2>0 DEF Held, In, Moved
  <2>2. outcome'[d] = outcome[d] /\ pc' \notin Begun
    BY <1>2 DEF QInv, TypeOK, Begun
  <2>. QED BY <1>3, <2>1, <2>2, SameStatus
<1>9. View' = [View EXCEPT ![c] = "done"]
  BY <1>4, <1>7, <1>8, OneChanges
<1>10. Promise!Finish(c)
  BY <1>3, <1>4, <1>5, <1>9 DEF Promise!Finish, Promise!Pending, Promise!Becomes, View
<1>. QED BY <1>4, <1>10 DEF Promise!Next

(* A requeued delivery waits again or is a dead letter, and the others stay *)
(* what they were as long as the task does not end.                         *)
LEMMA RequeueKeepsPromise ==
    ASSUME QInv, retry_delivery
    PROVE  Promise!Next \/ UNCHANGED <<View, turns>>
<1>. USE DEF retry_delivery
<1>. PICK c : c = Current
  OBVIOUS
<1>. PICK n : n = attempts[c]
  OBVIOUS
<1>1. PICK w \in BOOLEAN : Retried(c, n, w) /\ processing' = [processing EXCEPT ![c] = NoFile]
  BY DEF _retry_delivery_unlocked
<1>2. /\ c \in Delivery /\ c \in Moved(batch) /\ of[c] # None /\ outcome[c] = None
      /\ n \in 0..MaxAttempts /\ n < MaxAttempts
      /\ failed[c] = NoFile /\ inbox[c] = NoFile
      /\ Moved(Tail(batch)) = Moved(batch) \ {c}
  BY CurrentMayRequeue
<1>3. /\ \A e \in Delivery \ {c} : inbox'[e] = inbox[e] /\ failed'[e] = failed[e]
      /\ n + 1 < MaxAttempts => /\ inbox'[c] # NoFile /\ inbox'[c].attempts = n + 1
                               /\ failed'[c] = failed[c]
      /\ n + 1 >= MaxAttempts => /\ failed'[c] # NoFile /\ inbox'[c] = inbox[c]
  BY <1>1, <1>2, RetriedFiles
<1>4. /\ processing'[c] = NoFile
      /\ \A e \in Delivery \ {c} : processing'[e] = processing[e]
  BY <1>1, <1>2 DEF QInv, TypeOK
<1>5. StatusOf(c) \in {"queued", "running"}
  BY <1>2, Status
<1>6. \A d \in Delivery \ {c} : StatusOf(d)' = StatusOf(d)
  <2>. SUFFICES ASSUME NEW d \in Delivery, d # c PROVE StatusOf(d)' = StatusOf(d)
    OBVIOUS
  <2>1. d \in Moved(batch') <=> d \in Moved(batch)
    BY <1>2
  <2>2. d \in Held' <=> d \in Held
    BY <1>3, <1>4, <2>1 DEF Held, In, Moved
  <2>3. pc' \notin Begun
    BY DEF Begun
  <2>. QED BY <1>3, <2>2, <2>3, SameStatus
<1>7. c \notin Moved(batch') /\ Moved(batch)' = Moved(batch') /\ pc' = "idle"
  BY <1>2 DEF Moved
<1>8. CASE n + 1 < MaxAttempts
  <2>1. c \in Held'
    BY <1>2, <1>3, <1>8 DEF Held, In
  <2>2. StatusOf(c)' = "queued"
    BY <1>2, <2>1 DEF StatusOf, Busy
  <2>3. CASE StatusOf(c) = "queued"
    <3>1. \A d \in Delivery : StatusOf(d)' = StatusOf(d)
      BY <1>6, <2>2, <2>3
    <3>. QED BY <3>1, NoneChanges
  <2>4. CASE StatusOf(c) = "running"
    <3>1. View' = [View EXCEPT ![c] = "queued"]
      BY <1>2, <1>6, <2>2, OneChanges
    <3>2. Promise!Requeue(c)
      BY <1>2, <2>4, <3>1 DEF Promise!Requeue, Promise!Becomes, View
    <3>. QED BY <1>2, <3>2 DEF Promise!Next
  <2>. QED BY <1>5, <2>3, <2>4
<1>9. CASE n + 1 >= MaxAttempts
  <2>1. c \notin Held'
    BY <1>2, <1>3, <1>4, <1>7, <1>9 DEF Held, In
  <2>2. StatusOf(c)' = "dead"
    BY <1>2, <1>3, <1>9, <2>1 DEF StatusOf
  <2>3. View' = [View EXCEPT ![c] = "dead"]
    BY <1>2, <1>6, <2>2, OneChanges
  <2>4. Promise!Bury(c)
    BY <1>2, <1>5, <2>3 DEF Promise!Bury, Promise!Pending, Promise!Becomes, View
  <2>. QED BY <1>2, <2>4 DEF Promise!Next
<1>. QED BY <1>2, <1>8, <1>9, AttemptsAssumption

(* Recovery queues again what the last gateway held, or buries it.          *)
LEMMA RecoverKeepsPromise ==
    ASSUME QInv, recover_processing_deliveries
    PROVE  Promise!Next \/ UNCHANGED <<View, turns>>
<1>. USE DEF recover_processing_deliveries
<1>1. CASE In(processing) = {}
  <2>1. UNCHANGED <<of, outcome, failed, batch, turns, inbox, processing>>
        /\ pc = "recover" /\ pc' = "idle"
    BY <1>1 DEF files
  <2>. QED BY <2>1, StuttersKeepPromise DEF Begun
<1>2. CASE In(processing) # {}
  <2>. PICK c : c = Minimum(In(processing))
    OBVIOUS
  <2>. PICK n : n = processing[c].attempts
    OBVIOUS
  <2>1. PICK w \in BOOLEAN : Retried(c, n, w) /\ processing' = [processing EXCEPT ![c] = NoFile]
    BY <1>2 DEF _retry_delivery_unlocked
  <2>2. /\ c \in Delivery /\ processing[c] # NoFile /\ batch = <<>>
        /\ n \in 0..MaxAttempts /\ n < MaxAttempts
        /\ of[c] # None /\ outcome[c] = None
        /\ n + 1 < MaxAttempts => failed[c] = NoFile
        /\ n + 1 >= MaxAttempts => inbox[c] = NoFile
    BY <1>2, RecoveryMayRequeue
  <2>3. /\ \A e \in Delivery \ {c} : inbox'[e] = inbox[e] /\ failed'[e] = failed[e]
        /\ n + 1 < MaxAttempts => inbox'[c] # NoFile /\ failed'[c] = failed[c]
        /\ n + 1 >= MaxAttempts => failed'[c] # NoFile /\ inbox'[c] = inbox[c]
    BY <2>1, <2>2, RetriedFiles
  <2>4. /\ processing'[c] = NoFile
        /\ \A e \in Delivery \ {c} : processing'[e] = processing[e]
    BY <2>1, <2>2 DEF QInv, TypeOK
  <2>5. /\ UNCHANGED <<of, outcome, turns>> /\ pc' = "recover" /\ pc = "recover"
        /\ batch' = <<>> /\ Moved(batch) = {} /\ Moved(batch)' = {}
    BY <1>2, <2>2 DEF Moved
  <2>6. \A d \in Delivery \ {c} : StatusOf(d)' = StatusOf(d)
    <3>. SUFFICES ASSUME NEW d \in Delivery, d # c PROVE StatusOf(d)' = StatusOf(d)
      OBVIOUS
    <3>1. d \in Held' <=> d \in Held
      BY <2>3, <2>4, <2>5 DEF Held, In
    <3>. QED BY <2>3, <2>5, <3>1, SameStatus DEF Begun
  <2>7. StatusOf(c) = "queued"
    BY <2>2, <2>5, Status DEF Waiting, Held, In, Begun
  <2>8. CASE n + 1 < MaxAttempts
    <3>1. c \in Held' /\ outcome'[c] = None
      BY <2>2, <2>3, <2>5, <2>8 DEF Held, In
    <3>2. StatusOf(c)' = "queued"
      BY <2>5, <3>1 DEF StatusOf, Busy
    <3>3. \A d \in Delivery : StatusOf(d)' = StatusOf(d)
      BY <2>6, <2>7, <3>2
    <3>. QED BY <2>5, <3>3, NoneChanges
  <2>9. CASE n + 1 >= MaxAttempts
    <3>1. c \notin Held' /\ outcome'[c] = None /\ failed'[c] # NoFile
      BY <2>2, <2>3, <2>4, <2>5, <2>9 DEF Held, In
    <3>2. StatusOf(c)' = "dead"
      BY <3>1 DEF StatusOf
    <3>3. View' = [View EXCEPT ![c] = "dead"]
      BY <2>2, <2>6, <3>2, OneChanges
    <3>4. Promise!Bury(c)
      BY <2>2, <2>5, <2>7, <3>3 DEF Promise!Bury, Promise!Pending, Promise!Becomes, View
    <3>. QED BY <2>2, <3>4 DEF Promise!Next
  <2>. QED BY <2>2, <2>8, <2>9, AttemptsAssumption
<1>. QED BY <1>1, <1>2

(* When the task ends, in whatever it was doing, what it held is in         *)
(* processing still, has been requeued, or its trigger was deleted.         *)
LEMMA StoppedKeepsPromise ==
    ASSUME QInv, UNCHANGED <<of, outcome, turns>>, pc' = "down", batch' = <<>>,
           \A d \in Delivery : d \notin Moved(batch) =>
              /\ inbox'[d] = inbox[d] /\ processing'[d] = processing[d]
              /\ failed'[d] = failed[d]
    PROVE  Promise!Next
<1>1. Moved(batch)' = {} /\ pc' \notin Busy
  BY DEF Moved, Busy
<1>2. \A d \in Delivery :
        IF StatusOf(d) \in {"queued", "running"}
        THEN StatusOf(d)' \in {"queued", "dead", "deleted"}
        ELSE StatusOf(d)' = StatusOf(d)
  <2>. SUFFICES ASSUME NEW d \in Delivery
                PROVE  IF StatusOf(d) \in {"queued", "running"}
                       THEN StatusOf(d)' \in {"queued", "dead", "deleted"}
                       ELSE StatusOf(d)' = StatusOf(d)
    OBVIOUS
  <2>1. CASE d \in Moved(batch)
    <3>1. /\ StatusOf(d) \in {"queued", "running"} /\ outcome'[d] = None /\ of'[d] # None
      BY <2>1, Status DEF Waiting, QInv, DeliveryOK, UnusedOK
    <3>2. StatusOf(d)' \in {"queued", "dead", "deleted"}
      BY <1>1, <3>1 DEF StatusOf
    <3>. QED BY <3>1, <3>2
  <2>2. CASE d \notin Moved(batch)
    <3>1. ~(pc \in Begun /\ d = Current)
      BY <2>2, CurrentMayRequeue DEF QInv, BatchOK, Begun, Busy
    <3>2. d \in Held' <=> d \in Held
      BY <1>1, <2>2 DEF Held, In
    <3>3. StatusOf(d)' = StatusOf(d)
      BY <1>1, <2>2, <3>1, <3>2, SameStatus DEF Begun, Busy
    <3>4. StatusOf(d) # "running"
      BY <3>1, Status
    <3>. QED BY <3>3, <3>4
  <2>. QED BY <2>1, <2>2
<1>. QED BY <1>2, Interrupted

LEMMA FaultKeepsPromise ==
    ASSUME QInv, Cancelled \/ RequeueTorn \/ Crash
    PROVE  Promise!Next
<1>. USE DEF Cancelled, RequeueTorn, Crash, Stopped
<1>1. /\ UNCHANGED <<of, outcome, turns>> /\ pc' = "down" /\ batch' = <<>>
  OBVIOUS
<1>2. ASSUME NEW d \in Delivery, d \notin Moved(batch)
      PROVE  /\ inbox'[d] = inbox[d] /\ processing'[d] = processing[d]
             /\ failed'[d] = failed[d]
  <2>1. CASE Crash
    BY <2>1 DEF files
  <2>2. CASE Cancelled \/ RequeueTorn
    <3>1. batch # <<>>
      BY <2>2 DEF QInv, BatchOK, Busy
    <3>. PICK c : c = Current
      OBVIOUS
    <3>. PICK n : n = attempts[c]
      OBVIOUS
    <3>2. PICK w \in BOOLEAN :
            /\ Retried(c, n, w)
            /\ processing' \in {processing, [processing EXCEPT ![c] = NoFile]}
      BY <2>2 DEF _retry_delivery_unlocked, RetryTorn
    <3>3. /\ c \in Delivery /\ c \in Moved(batch)
          /\ n \in 0..MaxAttempts /\ n < MaxAttempts
      BY <3>1, CurrentMayRequeue
    <3>4. inbox'[d] = inbox[d] /\ failed'[d] = failed[d]
      BY <1>2, <3>2, <3>3, RetriedFiles
    <3>5. processing'[d] = processing[d]
      BY <1>2, <3>2, <3>3 DEF QInv, TypeOK
    <3>. QED BY <3>4, <3>5
  <2>. QED BY <2>1, <2>2
<1>. QED BY <1>1, <1>2, StoppedKeepsPromise

LEMMA RecoverTornKeepsPromise ==
    ASSUME QInv, RecoverTorn
    PROVE  UNCHANGED <<View, turns>>
<1>. USE DEF RecoverTorn, Stopped
<1>. PICK c : c = Minimum(In(processing))
  OBVIOUS
<1>. PICK n : n = processing[c].attempts
  OBVIOUS
<1>1. PICK w \in BOOLEAN : Retried(c, n, w) /\ processing' = processing
  BY DEF RetryTorn
<1>2. /\ c \in Delivery /\ processing[c] # NoFile /\ batch = <<>>
      /\ n \in 0..MaxAttempts /\ n < MaxAttempts /\ outcome[c] = None
  BY RecoveryMayRequeue
<1>3. \A e \in Delivery \ {c} : inbox'[e] = inbox[e] /\ failed'[e] = failed[e]
  BY <1>1, <1>2, RetriedFiles
<1>4. /\ UNCHANGED <<of, outcome, turns>> /\ pc' = "down" /\ pc = "recover"
      /\ Moved(batch) = {} /\ Moved(batch)' = {}
  BY <1>2 DEF Moved
<1>5. StatusOf(c)' = StatusOf(c)
  <2>1. c \in Held /\ c \in Held'
    BY <1>1, <1>2 DEF Held, In
  <2>. QED BY <1>2, <1>4, <2>1 DEF StatusOf, Busy
<1>6. \A d \in Delivery \ {c} : StatusOf(d)' = StatusOf(d)
  <2>. SUFFICES ASSUME NEW d \in Delivery, d # c PROVE StatusOf(d)' = StatusOf(d)
    OBVIOUS
  <2>1. d \in Held' <=> d \in Held
    BY <1>1, <1>3, <1>4 DEF Held, In
  <2>. QED BY <1>3, <1>4, <2>1, SameStatus DEF Begun
<1>7. \A d \in Delivery : StatusOf(d)' = StatusOf(d)
  BY <1>5, <1>6
<1>. QED BY <1>4, <1>7, NoneChanges

(* What is claimed, in part or as a whole, waits as before.                 *)
LEMMA ClaimKeepsPromise ==
    ASSUME QInv, NEW D \in SUBSET Claimable, MoveToProcessing(D),
           batch = <<>>, Moved(batch') \subseteq D,
           pc \notin Begun, pc' \notin Begun, UNCHANGED <<of, failed, outcome, turns>>
    PROVE  UNCHANGED <<View, turns>>
<1>1. /\ D \subseteq Delivery
      /\ \A d \in D : inbox[d] # NoFile /\ inbox'[d] = NoFile /\ processing'[d] = inbox[d]
      /\ \A d \in Delivery \ D : inbox'[d] = inbox[d] /\ processing'[d] = processing[d]
  BY DEF Claimable, In, MoveToProcessing
<1>2. Moved(batch) = {} /\ Moved(batch)' = Moved(batch')
  BY DEF Moved
<1>3. \A d \in Delivery : StatusOf(d)' = StatusOf(d)
  <2>. SUFFICES ASSUME NEW d \in Delivery PROVE StatusOf(d)' = StatusOf(d)
    OBVIOUS
  <2>1. d \in Held' <=> d \in Held
    BY <1>1, <1>2 DEF Held, In
  <2>. QED BY <2>1, SameStatus
<1>. QED BY <1>3, NoneChanges

LEMMA StepKeepsPromise ==
    ASSUME QInv, [Next]_vars
    PROVE  Promise!Next \/ UNCHANGED <<View, turns>>
<1>1. CASE \E t \in Trigger : create(t) \/ enable(t)
  BY <1>1, StuttersKeepPromise DEF create, enable, files, task
<1>2. CASE \E t \in Trigger : delete(t)
  BY <1>2, DeleteKeepsPromise
<1>3. CASE \E d \in Delivery, t \in Trigger : enqueue(d, t) \/ EnqueueTorn(d, t)
  BY <1>3, AcceptKeepsPromise DEF enqueue, EnqueueTorn
<1>4. CASE \E o, d \in Delivery : replay_failed_delivery(o, d)
  <2>. PICK o \in Delivery, d \in Delivery : replay_failed_delivery(o, d)
    BY <1>4
  <2>1. failed[o] # NoFile /\ Deliver(d, of[o], TRUE)
    BY DEF replay_failed_delivery
  <2>2. of[o] \in Trigger
    BY <2>1 DEF QInv, TypeOK, DeliveryOK, UnusedOK
  <2>. QED BY <2>1, <2>2, AcceptKeepsPromise
<1>5. CASE \/ Start \/ Submit \/ PublishAnswer \/ Silence \/ RecordFingerprint
           \/ \E a \in Answer \cup {None} : TurnAnswers(a)
  BY <1>5, StuttersKeepPromise
     DEF Start, Submit, PublishAnswer, Silence, RecordFingerprint, TurnAnswers, files, Begun
<1>6. CASE recover_processing_deliveries
  BY <1>6, RecoverKeepsPromise
<1>7. CASE claim_deliveries
  <2>. PICK s \in Batches : batch' = s /\ MoveToProcessing(Moved(s))
    BY <1>7 DEF claim_deliveries
  <2>1. Moved(s) \in SUBSET Claimable
    BY ABatch
  <2>2. /\ batch = <<>> /\ Moved(batch') \subseteq Moved(s) /\ pc \notin Begun /\ pc' \notin Begun
        /\ UNCHANGED <<of, failed, outcome, turns>>
    BY <1>7 DEF claim_deliveries, Begun
  <2>. QED BY <2>1, <2>2, ClaimKeepsPromise
<1>8. CASE ClaimTorn
  <2>. PICK s \in Batches : \E n \in 1..Len(s) : MoveToProcessing(Moved(SubSeq(s, 1, n)))
    BY <1>8 DEF ClaimTorn
  <2>. PICK n \in 1..Len(s) : MoveToProcessing(Moved(SubSeq(s, 1, n)))
    OBVIOUS
  <2>1. Moved(SubSeq(s, 1, n)) \in SUBSET Claimable
    BY ABatch, PartOfABatch
  <2>2. /\ batch = <<>> /\ batch' = <<>> /\ pc \notin Begun /\ pc' \notin Begun
        /\ UNCHANGED <<of, failed, outcome, turns>>
    BY <1>8 DEF ClaimTorn, Stopped, Begun
  <2>3. Moved(batch') = {}
    BY <2>2 DEF Moved
  <2>. QED BY <2>1, <2>2, <2>3, ClaimKeepsPromise
<1>9. CASE Drop \/ TurnStopped \/ TurnRaises \/ Conclude
  BY <1>9, FinishKeepsPromise
<1>10. CASE TurnStarts
  BY <1>10, BeginKeepsPromise
<1>11. CASE RecoverTorn
  BY <1>11, RecoverTornKeepsPromise
<1>12. CASE retry_delivery
  BY <1>12, RequeueKeepsPromise
<1>13. CASE Cancelled \/ RequeueTorn \/ Crash
  BY <1>13, FaultKeepsPromise
<1>14. CASE \E d \in Delivery : BackoffElapses(d)
  <2>. PICK c \in Delivery : BackoffElapses(c)
    BY <1>14
  <2>1. inbox[c] # NoFile /\ inbox[c] \in File /\ inbox \in [Delivery -> File \cup {NoFile}]
    BY DEF BackoffElapses, QInv, TypeOK
  <2>2. [inbox[c] EXCEPT !.waiting = FALSE] \in File
    BY <2>1 DEF File
  <2>3. inbox' = [inbox EXCEPT ![c] = [inbox[c] EXCEPT !.waiting = FALSE]]
    BY DEF BackoffElapses
  <2>4. \A d \in Delivery : inbox'[d] # NoFile <=> inbox[d] # NoFile
    BY <2>1, <2>2, <2>3, Files
  <2>5. UNCHANGED <<of, outcome, failed, batch, turns, processing, pc>>
    BY DEF BackoffElapses, task
  <2>. QED BY <2>4, <2>5, StuttersKeepPromise
<1>15. CASE UNCHANGED vars
  BY <1>15, StuttersKeepPromise DEF vars, files, task
<1>. QED
  BY <1>1, <1>2, <1>3, <1>4, <1>5, <1>6, <1>7, <1>8, <1>9, <1>10, <1>11, <1>12, <1>13,
     <1>14, <1>15 DEF Next, Store, QueueTask, Turn, Fault

LEMMA InitKeepsPromise == Init => Promise!Init
<1>. SUFFICES ASSUME Init PROVE Promise!Init
  OBVIOUS
<1>1. Moved(batch) = {}
  BY DEF Init, Moved
<1>2. \A d \in Delivery : StatusOf(d) = "none"
  BY <1>1 DEF Init, StatusOf, Held, In
<1>. QED BY <1>2 DEF Init, Promise!Init

(* The queue implements its promise: files written before files removed,    *)
(* recovery and dead letters are one delivery that is queued, begun at most *)
(* so often, and ends in one way (local_store.py, local_runner.py).         *)
THEOREM QueueKeepsItsPromise == Spec => ImplementsPromise
<1>1. QInv /\ [Next]_vars => [Promise!Next]_<<[d \in Delivery |-> StatusOf(d)], turns>>
  BY StepKeepsPromise DEF View
<1>. QED BY <1>1, InitKeepsPromise, QueueInvariant, PTL
         DEF Spec, Promise!Spec, ImplementsPromise

=============================================================================
