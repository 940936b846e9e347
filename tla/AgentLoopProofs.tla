-------------------------- MODULE AgentLoopProofs --------------------------
(***************************************************************************)
(* No message is lost or handled twice, no automation turn is mixed into a *)
(* live one, and a pending or deferred queue always has its task: for any  *)
(* messages, sessions and sizes of the queues and of the gate.             *)
(***************************************************************************)
EXTENDS AgentLoop, SequenceTheorems, TLAPS

Running == {"new", "waiting", "turn", "clearing"}
Leaving == {"draining", "publishing"}

InPending(m) == SessionOf[m] \in DOMAIN pending /\ m \in Elements(pending[SessionOf[m]])
InDeferred(m) == m \in Elements(deferred[SessionOf[m]])
InLeft(m) == \E t \in Msg : m \in Elements(left[t])
Placed(m) == \/ m \in Elements(inbound) \/ InDeferred(m) \/ InPending(m) \/ InLeft(m)
             \/ m = consumer \/ task[m] \in Running

\* Each queue holds a message once, and only messages it is for.
QueuesOK ==
    /\ OnceAtMost(inbound)
    /\ \A s \in Session : /\ OnceAtMost(deferred[s])
                          /\ \A m \in Elements(deferred[s]) :
                                SessionOf[m] = s /\ KindOf[m] = "auto"
    /\ \A s \in DOMAIN pending : /\ OnceAtMost(pending[s])
                                 /\ \A m \in Elements(pending[s]) :
                                       SessionOf[m] = s /\ KindOf[m] # "auto"
    /\ \A t \in Msg : /\ OnceAtMost(left[t])
                      /\ \A m \in Elements(left[t]) : SessionOf[m] = SessionOf[t]

\* No message is in two places.
Apart ==
    /\ \A m \in Elements(inbound) : ~InDeferred(m) /\ ~InPending(m) /\ ~InLeft(m)
    /\ \A m \in Msg : /\ InDeferred(m) => ~InPending(m) /\ ~InLeft(m)
                      /\ InPending(m) => ~InLeft(m)
    /\ \A t, u \in Msg : t # u => Elements(left[t]) \cap Elements(left[u]) = {}
    /\ \A m \in Msg : task[m] # "none" \/ m = consumer =>
          m \notin Elements(inbound) /\ ~InDeferred(m) /\ ~InPending(m) /\ ~InLeft(m)
    /\ consumer # NoMsg => task[consumer] = "none"

\* A message is somewhere exactly as long as its fate is open.
FatesOK ==
    /\ \A m \in Msg : Placed(m) <=> m \in sent /\ fate[m] = "none"
    /\ \A m \in Msg : task[m] # "none" \/ fate[m] # "none" => m \in sent
    /\ \A m \in Msg : KindOf[m] = "auto" => fate[m] # "injected"

\* The tasks of a session, in the order of its lock.
LinesOK ==
    /\ \A s \in Session :
          /\ OnceAtMost(line[s])
          /\ \A i \in DOMAIN line[s] :
                /\ SessionOf[line[s][i]] = s
                /\ task[line[s][i]] \in Running \cup Leaving
                /\ i > 1 => task[line[s][i]] \in {"new", "waiting"}
    /\ \A t \in Msg : task[t] \in Running \cup {"draining"} => t \in Elements(line[SessionOf[t]])
    /\ \A t \in Msg : left[t] # <<>> => task[t] \in Leaving

\* Who may still be cancelled, and who waits for whom.
CancellationOK ==
    /\ active \cap doomed = {}
    /\ \A t \in active \cup doomed : task[t] \notin {"none", "ended", "clearing"}
    /\ \A t \in doomed : SessionOf[t] \in stopped
    /\ \A t \in Msg : task[t] \in {"new", "waiting", "turn"} => t \in active \cup doomed
    /\ \A t \in doomed : task[t] = "turn" => consumer # NoMsg /\ t \in awaits[consumer]
    /\ consumer # NoMsg => \A t \in active : SessionOf[t] # SessionOf[consumer]

LoopInv ==
    /\ TypeOK /\ QueuesOK /\ Apart /\ FatesOK /\ LinesOK /\ CancellationOK
    /\ PendingQueueHasItsTurn
    /\ DeferredTurnIsPublished

-----------------------------------------------------------------------------
(* Queues                                                                   *)

(* Joining two queues.                                                      *)
LEMMA Joined ==
    ASSUME NEW S, NEW a \in Seq(S), NEW b \in Seq(S)
    PROVE  /\ a \o b \in Seq(S) /\ Len(a \o b) = Len(a) + Len(b)
           /\ Elements(a \o b) = Elements(a) \cup Elements(b)
           /\ OnceAtMost(a) /\ OnceAtMost(b) /\ Elements(a) \cap Elements(b) = {}
                 => OnceAtMost(a \o b)
<1>1. /\ a \o b \in Seq(S) /\ Len(a \o b) = Len(a) + Len(b)
      /\ \A i \in 1..(Len(a) + Len(b)) :
            (a \o b)[i] = IF i <= Len(a) THEN a[i] ELSE b[i - Len(a)]
  BY ConcatProperties
<1>2. /\ Len(a) \in Nat /\ DOMAIN a = 1..Len(a)
      /\ Len(b) \in Nat /\ DOMAIN b = 1..Len(b)
      /\ DOMAIN (a \o b) = 1..(Len(a) + Len(b))
  BY <1>1, LenProperties
<1> DEFINE c == a \o b
<1> HIDE DEF c
<1>3. /\ DOMAIN c = 1..(Len(a) + Len(b))
      /\ \A i \in 1..(Len(a) + Len(b)) : c[i] = IF i <= Len(a) THEN a[i] ELSE b[i - Len(a)]
  BY <1>1, <1>2 DEF c
<1>4. Elements(c) = Elements(a) \cup Elements(b)
  <2>1. ASSUME NEW x \in Elements(a)
        PROVE  x \in Elements(c)
    <3>1. PICK i \in 1..Len(a) : x = a[i]
      BY <2>1, <1>2 DEF Elements
    <3>2. i \in 1..(Len(a) + Len(b)) /\ c[i] = x
      BY <3>1, <1>2, <1>3
    <3> QED BY <3>2, <1>3 DEF Elements
  <2>2. ASSUME NEW x \in Elements(b)
        PROVE  x \in Elements(c)
    <3>1. PICK i \in 1..Len(b) : x = b[i]
      BY <2>2, <1>2 DEF Elements
    <3> DEFINE k == i + Len(a)
    <3>2. k \in 1..(Len(a) + Len(b)) /\ ~(k <= Len(a)) /\ k - Len(a) = i
      BY <3>1, <1>2
    <3> HIDE DEF k
    <3>3. c[k] = x
      BY <3>1, <3>2, <1>3
    <3> QED BY <3>2, <3>3, <1>3 DEF Elements
  <2>3. ASSUME NEW x \in Elements(c)
        PROVE  x \in Elements(a) \cup Elements(b)
    <3>1. PICK i \in 1..(Len(a) + Len(b)) : x = c[i]
      BY <2>3, <1>3 DEF Elements
    <3>2. CASE i <= Len(a)
      <4>1. i \in 1..Len(a) /\ x = a[i]
        BY <3>1, <3>2, <1>2, <1>3
      <4> QED BY <4>1, <1>2 DEF Elements
    <3>3. CASE ~(i <= Len(a))
      <4>1. i - Len(a) \in 1..Len(b) /\ x = b[i - Len(a)]
        BY <3>1, <3>3, <1>2, <1>3
      <4> QED BY <4>1, <1>2 DEF Elements
    <3> QED BY <3>2, <3>3
  <2> QED BY <2>1, <2>2, <2>3
<1>5. ASSUME OnceAtMost(a), OnceAtMost(b), Elements(a) \cap Elements(b) = {}
      PROVE  OnceAtMost(c)
  <2> SUFFICES ASSUME NEW i \in 1..(Len(a) + Len(b)), NEW j \in 1..(Len(a) + Len(b)),
                      c[i] = c[j]
               PROVE  i = j
    BY <1>3 DEF OnceAtMost
  <2>1. \A k \in 1..Len(a) : a[k] \in Elements(a)
    BY <1>2 DEF Elements
  <2>2. \A k \in 1..Len(b) : b[k] \in Elements(b)
    BY <1>2 DEF Elements
  <2>3. CASE i <= Len(a) /\ j <= Len(a)
    BY <2>3, <1>2, <1>3, <1>5 DEF OnceAtMost
  <2>4. CASE ~(i <= Len(a)) /\ ~(j <= Len(a))
    <3>1. /\ i - Len(a) \in 1..Len(b) /\ j - Len(a) \in 1..Len(b)
          /\ b[i - Len(a)] = b[j - Len(a)]
      BY <2>4, <1>2, <1>3
    <3>2. i - Len(a) = j - Len(a)
      BY <3>1, <1>2, <1>5 DEF OnceAtMost
    <3> QED BY <3>2, <1>2
  <2>5. CASE i <= Len(a) /\ ~(j <= Len(a))
    <3>1. i \in 1..Len(a) /\ j - Len(a) \in 1..Len(b) /\ a[i] = b[j - Len(a)]
      BY <2>5, <1>2, <1>3
    <3> QED BY <3>1, <2>1, <2>2, <1>5
  <2>6. CASE ~(i <= Len(a)) /\ j <= Len(a)
    <3>1. j \in 1..Len(a) /\ i - Len(a) \in 1..Len(b) /\ a[j] = b[i - Len(a)]
      BY <2>6, <1>2, <1>3
    <3> QED BY <3>1, <2>1, <2>2, <1>5
  <2> QED BY <2>3, <2>4, <2>5, <2>6
<1> QED BY <1>1, <1>4, <1>5 DEF c

(* Cutting a queue in two: what is published and what waits for room.       *)
LEMMA Cut ==
    ASSUME NEW S, NEW q \in Seq(S), NEW n \in 0..Len(q)
    PROVE  /\ SubSeq(q, 1, n) \in Seq(S) /\ Len(SubSeq(q, 1, n)) = n
           /\ SubSeq(q, n + 1, Len(q)) \in Seq(S)
           /\ Len(SubSeq(q, n + 1, Len(q))) = Len(q) - n
           /\ \A i \in 1..n : SubSeq(q, 1, n)[i] = q[i]
           /\ \A i \in 1..(Len(q) - n) : SubSeq(q, n + 1, Len(q))[i] = q[n + i]
           /\ Elements(SubSeq(q, 1, n)) \cup Elements(SubSeq(q, n + 1, Len(q))) = Elements(q)
           /\ OnceAtMost(q) =>
                 /\ OnceAtMost(SubSeq(q, 1, n)) /\ OnceAtMost(SubSeq(q, n + 1, Len(q)))
                 /\ Elements(SubSeq(q, 1, n)) \cap Elements(SubSeq(q, n + 1, Len(q))) = {}
<1>1. Len(q) \in Nat /\ DOMAIN q = 1..Len(q) /\ n \in Nat /\ n <= Len(q)
  BY LenProperties
<1> DEFINE a == SubSeq(q, 1, n)
           b == SubSeq(q, n + 1, Len(q))
<1>2. /\ a \in Seq(S) /\ Len(a) = n
      /\ \A i \in 1..n : a[i] = q[i]
  BY <1>1, SubSeqProperties
<1>3. /\ b \in Seq(S) /\ Len(b) = Len(q) - n
      /\ \A i \in 1..(Len(q) - n) : b[i] = q[n + i]
  <2>1. n + 1 \in Int /\ Len(q) \in Int /\ \A i \in (n + 1)..Len(q) : q[i] \in S
    BY <1>1, ElementOfSeq
  <2> DEFINE l == Len(q)
  <2>2. /\ b \in Seq(S) /\ Len(b) = IF n + 1 <= l THEN l - (n + 1) + 1 ELSE 0
        /\ \A i \in 1..(l - (n + 1) + 1) : b[i] = q[(n + 1) + i - 1]
    BY <2>1, SubSeqProperties
  <2>3. l \in Nat /\ n \in Nat /\ n <= l
    BY <1>1
  <2> HIDE DEF b, l
  <2>4. Len(b) = l - n
    <3>1. (IF n + 1 <= l THEN l - (n + 1) + 1 ELSE 0) = l - n
      BY <2>3
    <3> QED BY <3>1, <2>2
  <2>5. ASSUME NEW i \in 1..(l - n)
        PROVE  b[i] = q[n + i]
    <3>1. i \in 1..(l - (n + 1) + 1) /\ (n + 1) + i - 1 = n + i
      BY <2>3
    <3> QED BY <3>1, <2>2
  <2> QED BY <2>2, <2>4, <2>5 DEF l
<1>4. DOMAIN a = 1..n /\ DOMAIN b = 1..(Len(q) - n)
  BY <1>2, <1>3, LenProperties
<1> HIDE DEF a, b
<1>5. ASSUME NEW x \in Elements(q)
      PROVE  x \in Elements(a) \cup Elements(b)
  <2>1. PICK i \in 1..Len(q) : x = q[i]
    BY <1>1 DEF Elements
  <2>2. CASE i <= n
    <3>1. i \in 1..n /\ x = a[i]
      BY <2>1, <2>2, <1>1, <1>2
    <3> QED BY <3>1, <1>4 DEF Elements
  <2>3. CASE ~(i <= n)
    <3>1. i - n \in 1..(Len(q) - n) /\ x = b[i - n]
      BY <2>1, <2>3, <1>1, <1>3
    <3> QED BY <3>1, <1>4 DEF Elements
  <2> QED BY <2>2, <2>3
<1>6. \A x \in Elements(a) : \E i \in 1..n : x = q[i]
  BY <1>2, <1>4 DEF Elements
<1>7. \A x \in Elements(b) : \E i \in (n + 1)..Len(q) : x = q[i]
  <2> TAKE x \in Elements(b)
  <2>1. PICK j \in 1..(Len(q) - n) : x = b[j]
    BY <1>4 DEF Elements
  <2>2. n + j \in (n + 1)..Len(q) /\ x = q[n + j]
    BY <2>1, <1>1, <1>3
  <2> QED BY <2>2
<1>8. Elements(a) \cup Elements(b) = Elements(q)
  <2>1. \A i \in 1..n : i \in 1..Len(q)
    BY <1>1
  <2>2. \A i \in (n + 1)..Len(q) : i \in 1..Len(q)
    BY <1>1
  <2>3. \A i \in 1..Len(q) : q[i] \in Elements(q)
    BY <1>1 DEF Elements
  <2> QED BY <1>5, <1>6, <1>7, <2>1, <2>2, <2>3
<1>9. ASSUME OnceAtMost(q)
      PROVE  OnceAtMost(a) /\ OnceAtMost(b) /\ Elements(a) \cap Elements(b) = {}
  <2>1. OnceAtMost(a)
    BY <1>1, <1>2, <1>4, <1>9 DEF OnceAtMost
  <2>2. OnceAtMost(b)
    <3> SUFFICES ASSUME NEW i \in 1..(Len(q) - n), NEW j \in 1..(Len(q) - n), b[i] = b[j]
                 PROVE  i = j
      BY <1>4 DEF OnceAtMost
    <3>1. q[n + i] = q[n + j] /\ n + i \in 1..Len(q) /\ n + j \in 1..Len(q)
      BY <1>1, <1>3
    <3>2. n + i = n + j
      BY <3>1, <1>1, <1>9 DEF OnceAtMost
    <3> QED BY <3>2, <1>1
  <2>3. ASSUME NEW x \in Elements(a), x \in Elements(b)
        PROVE  FALSE
    <3>1. PICK i \in 1..n : x = q[i]
      BY <1>6
    <3>2. PICK j \in (n + 1)..Len(q) : x = q[j]
      BY <1>7, <2>3
    <3>3. i \in 1..Len(q) /\ j \in 1..Len(q) /\ i # j
      BY <3>1, <3>2, <1>1
    <3> QED BY <3>1, <3>2, <3>3, <1>1, <1>9 DEF OnceAtMost
  <2> QED BY <2>1, <2>2, <2>3
<1> QED BY <1>2, <1>3, <1>8, <1>9 DEF a, b

(* Taking a task out of the queue of a lock: the others keep their order,   *)
(* and only the one behind the head can become the head.                    *)
LEMMA Removed ==
    ASSUME NEW S, NEW q \in Seq(S), NEW m, OnceAtMost(q)
    PROVE  LET w == Without(q, m) IN
           /\ w \in Seq(S) /\ Elements(w) = Elements(q) \ {m} /\ OnceAtMost(w)
           /\ \A i \in DOMAIN w : \E j \in DOMAIN q : w[i] = q[j] /\ (i > 1 => j > 1)
           /\ q[1] = m => \A i \in DOMAIN w : \E j \in DOMAIN q : w[i] = q[j] /\ j > 1
           /\ q[1] # m /\ q # <<>> => w # <<>> /\ w[1] = q[1]
<1> DEFINE w == Without(q, m)
           l == Len(q)
<1>1. l \in Nat /\ DOMAIN q = 1..l
  BY LenProperties
<1>2. q # <<>> => l # 0
  BY EmptySeq
<1>3. CASE m \notin Elements(q)
  <2>1. w = q
    BY <1>3 DEF Without
  <2>2. ASSUME NEW i \in DOMAIN q
        PROVE  q[1] # m
    <3>1. 1 \in DOMAIN q
      BY <1>1
    <3> QED BY <3>1, <1>3 DEF Elements
  <2> QED BY <2>1, <2>2, <1>3
<1>4. CASE m \in Elements(q)
  <2> DEFINE k == CHOOSE i \in DOMAIN q : q[i] = m
             a == SubSeq(q, 1, k - 1)
             b == SubSeq(q, k + 1, l)
  <2>1. k \in 1..l /\ q[k] = m
    BY <1>4, <1>1 DEF Elements
  <2>2. w = a \o b
    BY <1>4 DEF Without
  <2> HIDE DEF k, l, w
  <2>3. a \in Seq(S) /\ Len(a) = k - 1 /\ \A i \in 1..(k - 1) : a[i] = q[i]
    <3>1. k - 1 \in 0..l
      BY <2>1, <1>1
    <3> QED BY <3>1, Cut DEF l
  <2>4. b \in Seq(S) /\ Len(b) = l - k /\ \A i \in 1..(l - k) : b[i] = q[k + i]
    <3>1. k \in 0..l
      BY <2>1, <1>1
    <3> QED BY <3>1, Cut DEF l
  <2> HIDE DEF a, b
  <2>5. /\ w \in Seq(S) /\ Len(w) = l - 1
        /\ \A i \in 1..(l - 1) : w[i] = IF i < k THEN q[i] ELSE q[i + 1]
    <3>1. /\ w \in Seq(S) /\ Len(w) = (k - 1) + (l - k)
          /\ \A i \in 1..((k - 1) + (l - k)) :
                w[i] = IF i <= k - 1 THEN a[i] ELSE b[i - (k - 1)]
      BY <2>2, <2>3, <2>4, ConcatProperties
    <3>2. (k - 1) + (l - k) = l - 1
      BY <2>1, <1>1
    <3>3. ASSUME NEW i \in 1..(l - 1)
          PROVE  w[i] = IF i < k THEN q[i] ELSE q[i + 1]
      <4>1. CASE i < k
        BY <4>1, <3>1, <3>2, <2>3, <2>1, <1>1
      <4>2. CASE ~(i < k)
        <5>1. w[i] = b[i - (k - 1)]
          BY <4>2, <3>1, <3>2, <2>1, <1>1
        <5>2. i - (k - 1) \in 1..(l - k) /\ k + (i - (k - 1)) = i + 1
          BY <4>2, <2>1, <1>1
        <5> QED BY <5>1, <5>2, <2>4, <4>2
      <4> QED BY <4>1, <4>2
    <3> QED BY <3>1, <3>2, <3>3
  <2>6. DOMAIN w = 1..(l - 1)
    BY <2>5, LenProperties
  <2> DEFINE at(i) == IF i < k THEN i ELSE i + 1
  <2>7. \A i \in 1..(l - 1) : /\ at(i) \in 1..l /\ at(i) # k /\ w[i] = q[at(i)]
                              /\ (i > 1 => at(i) > 1) /\ (k = 1 => at(i) > 1)
    BY <2>5, <2>1, <1>1
  <2>8. \A i, j \in 1..(l - 1) : at(i) = at(j) => i = j
    BY <2>1, <1>1
  <2>9. ASSUME NEW j \in 1..l, j # k
        PROVE  \E i \in 1..(l - 1) : at(i) = j
    <3>1. CASE j < k
      <4>1. j \in 1..(l - 1) /\ at(j) = j
        BY <3>1, <2>1, <1>1
      <4> QED BY <4>1
    <3>2. CASE ~(j < k)
      <4>1. j - 1 \in 1..(l - 1) /\ at(j - 1) = j
        BY <3>2, <2>9, <2>1, <1>1
      <4> QED BY <4>1
    <3> QED BY <3>1, <3>2
  <2> HIDE DEF at
  <2>10. OnceAtMost(w)
    BY <2>6, <2>7, <2>8, <1>1 DEF OnceAtMost
  <2>11. Elements(w) = Elements(q) \ {m}
    <3>1. ASSUME NEW x \in Elements(w)
          PROVE  x \in Elements(q) /\ x # m
      <4>1. PICK i \in 1..(l - 1) : x = w[i]
        BY <2>6 DEF Elements
      <4>2. x = q[at(i)] /\ at(i) \in 1..l /\ at(i) # k
        BY <4>1, <2>7
      <4> QED BY <4>2, <2>1, <1>1 DEF Elements, OnceAtMost
    <3>2. ASSUME NEW x \in Elements(q), x # m
          PROVE  x \in Elements(w)
      <4>1. PICK j \in 1..l : x = q[j]
        BY <1>1 DEF Elements
      <4>2. PICK i \in 1..(l - 1) : at(i) = j
        BY <4>1, <3>2, <2>1, <2>9
      <4> QED BY <4>1, <4>2, <2>6, <2>7 DEF Elements
    <3> QED BY <3>1, <3>2
  <2>12. \A i \in DOMAIN w : \E j \in DOMAIN q : w[i] = q[j] /\ (i > 1 => j > 1)
    BY <2>6, <2>7, <1>1
  <2>13. ASSUME q[1] = m
         PROVE  \A i \in DOMAIN w : \E j \in DOMAIN q : w[i] = q[j] /\ j > 1
    <3>1. k = 1
      <4>1. 1 \in 1..l
        BY <2>1, <1>1
      <4> QED BY <4>1, <2>13, <2>1, <1>1 DEF OnceAtMost
    <3> QED BY <3>1, <2>6, <2>7, <1>1
  <2>14. ASSUME q[1] # m
         PROVE  w # <<>> /\ w[1] = q[1]
    <3>1. 1 < k /\ 1 \in 1..(l - 1)
      BY <2>14, <2>1, <1>1
    <3>2. w[1] = q[1]
      BY <3>1, <2>5
    <3>3. w # <<>>
      BY <3>1, <2>5, EmptySeq
    <3> QED BY <3>2, <3>3
  <2> QED BY <2>5, <2>10, <2>11, <2>12, <2>13, <2>14 DEF w
<1> QED BY <1>3, <1>4

(* The put and the get of a queue.                                          *)
LEMMA Put ==
    ASSUME NEW S, NEW q \in Seq(S), NEW m \in S
    PROVE  LET w == Append(q, m) IN
           /\ w \in Seq(S) /\ Len(w) = Len(q) + 1 /\ w # <<>>
           /\ Elements(w) = Elements(q) \cup {m}
           /\ OnceAtMost(q) /\ m \notin Elements(q) => OnceAtMost(w)
           /\ \A i \in DOMAIN w : \/ i \in DOMAIN q /\ w[i] = q[i]
                                  \/ w[i] = m /\ (i > 1 <=> q # <<>>)
           /\ q # <<>> => w[1] = q[1]
           /\ q = <<>> => w[1] = m
<1> DEFINE w == Append(q, m)
           l == Len(q)
<1>1. l \in Nat /\ DOMAIN q = 1..l
  BY LenProperties
<1>2. q # <<>> <=> l # 0
  BY EmptySeq
<1>3. /\ w \in Seq(S) /\ Len(w) = l + 1 /\ w # <<>>
      /\ \A i \in 1..l : w[i] = q[i]
      /\ w[l + 1] = m
  BY AppendProperties
<1>4. DOMAIN w = 1..(l + 1)
  BY <1>3, LenProperties
<1> HIDE DEF w, l
<1>5. \A i \in 1..(l + 1) : i \in 1..l \/ i = l + 1
  BY <1>1
<1>6. \A i \in 1..l : i \in 1..(l + 1)
  BY <1>1
<1>7. l + 1 \in 1..(l + 1)
  BY <1>1
<1>8. Elements(w) = Elements(q) \cup {m}
  BY <1>1, <1>3, <1>4, <1>5, <1>6, <1>7 DEF Elements
<1>9. OnceAtMost(q) /\ m \notin Elements(q) => OnceAtMost(w)
  BY <1>1, <1>3, <1>4, <1>5 DEF Elements, OnceAtMost
<1>10. l # 0 => 1 \in 1..l
  BY <1>1
<1>11. \A i \in DOMAIN w : \/ i \in DOMAIN q /\ w[i] = q[i]
                           \/ w[i] = m /\ (i > 1 <=> q # <<>>)
  <2>1. l + 1 > 1 <=> q # <<>>
    BY <1>1, <1>2
  <2> QED BY <2>1, <1>1, <1>3, <1>4, <1>5
<1>12. (q # <<>> => w[1] = q[1]) /\ (q = <<>> => w[1] = m)
  BY <1>1, <1>2, <1>3, <1>10
<1> QED BY <1>3, <1>8, <1>9, <1>11, <1>12 DEF w, l

(* What the consumer gets from a queue, and what stays there.               *)
LEMMA Get ==
    ASSUME NEW S, NEW q \in Seq(S), q # <<>>
    PROVE  /\ Head(q) \in S /\ Tail(q) \in Seq(S) /\ Len(Tail(q)) = Len(q) - 1
           /\ Head(q) = q[1] /\ Head(q) \in Elements(q)
           /\ Elements(q) = Elements(Tail(q)) \cup {Head(q)}
           /\ OnceAtMost(q) => OnceAtMost(Tail(q)) /\ Head(q) \notin Elements(Tail(q))
<1> DEFINE w == Tail(q)
           l == Len(q)
<1>1. l \in Nat /\ DOMAIN q = 1..l
  BY LenProperties
<1>2. l # 0
  BY EmptySeq
<1>3. /\ Head(q) \in S /\ w \in Seq(S) /\ Len(w) = l - 1
      /\ \A i \in 1..Len(w) : w[i] = q[i + 1]
  BY HeadTailProperties
<1>4. DOMAIN w = 1..(l - 1) /\ \A i \in 1..(l - 1) : w[i] = q[i + 1]
  BY <1>3, LenProperties
<1>5. Head(q) = q[1]
  BY <1>1, <1>2
<1> HIDE DEF w, l
<1>6. 1 \in 1..l
  BY <1>1, <1>2
<1>7. \A i \in 1..(l - 1) : i + 1 \in 1..l /\ i + 1 # 1
  BY <1>1
<1>8. \A i \in 1..l : i = 1 \/ (i - 1 \in 1..(l - 1) /\ (i - 1) + 1 = i)
  BY <1>1
<1>9. Elements(q) = Elements(w) \cup {Head(q)}
  <2>1. ASSUME NEW x \in Elements(q)
        PROVE  x \in Elements(w) \/ x = Head(q)
    <3>1. PICK i \in 1..l : x = q[i]
      BY <1>1 DEF Elements
    <3> QED BY <3>1, <1>4, <1>5, <1>8 DEF Elements
  <2>2. ASSUME NEW x \in Elements(w)
        PROVE  x \in Elements(q)
    BY <2>2, <1>1, <1>4, <1>7 DEF Elements
  <2> QED BY <2>1, <2>2, <1>1, <1>5, <1>6 DEF Elements
<1>10. ASSUME OnceAtMost(q)
       PROVE  OnceAtMost(w) /\ Head(q) \notin Elements(w)
  <2>1. ASSUME NEW i \in 1..(l - 1), NEW j \in 1..(l - 1), w[i] = w[j]
        PROVE  i = j
    <3>1. i + 1 = j + 1
      BY <2>1, <1>1, <1>4, <1>7, <1>10 DEF OnceAtMost
    <3> QED BY <3>1
  <2>2. ASSUME NEW i \in 1..(l - 1)
        PROVE  w[i] # q[1]
    BY <1>1, <1>4, <1>6, <1>7, <1>10 DEF OnceAtMost
  <2> QED BY <2>1, <2>2, <1>4, <1>5 DEF OnceAtMost, Elements
<1> QED BY <1>3, <1>5, <1>6, <1>9, <1>10, <1>1 DEF w, l, Elements

-----------------------------------------------------------------------------
\* What it published and what it still has, and where that leaves the task.
Published(t, s, queue) ==
    /\ inbound' \in Seq(Msg) /\ Len(inbound') <= Cap
    /\ left' \in [Msg -> Seq(Msg)] /\ \A u \in Msg : u # t => left'[u] = left[u]
    /\ deferred' \in [Session -> Seq(Msg)]
    /\ \A r \in Session : r # s => deferred'[r] = deferred[r]
    /\ OnceAtMost(inbound') /\ OnceAtMost(left'[t]) /\ OnceAtMost(deferred'[s])
    /\ Elements(inbound) \subseteq Elements(inbound')
    /\ Elements(deferred'[s]) \subseteq Elements(deferred[s])
    /\ Elements(inbound') \cup Elements(left'[t]) \cup Elements(deferred'[s])
         = Elements(inbound) \cup Elements(queue) \cup Elements(deferred[s])
    /\ Elements(inbound') \cap Elements(left'[t]) = {}
    /\ Elements(inbound') \cap Elements(deferred'[s]) = {}
    /\ Elements(left'[t]) \cap Elements(deferred'[s]) = {}
    /\ deferred'[s] # <<>> => deferred[s] # <<>>
HandedOver(t, s, queue, takes) ==
    \E p \in {"ended", "draining", "publishing"} :
       /\ task' = [task EXCEPT ![t] = p]
       /\ p = "ended" <=> left'[t] = <<>>
       /\ p = "draining" => takes /\ queue # <<>>
       /\ takes /\ deferred[s] # <<>> /\ p # "draining" =>
             \E m \in Elements(deferred[s]) :
                m \in Elements(inbound') \cup Elements(left'[t])
       /\ line' = IF p = "ended" \/ task[t] = "waiting"
                  THEN [line EXCEPT ![s] = Without(line[s], t)] ELSE line
       /\ active' = IF p = "ended" THEN active \ {t} ELSE active

(* The end of _dispatch: what the task had is published or stays with it,   *)
(* nothing is doubled, and if there is a deferred turn it is on its way     *)
(* unless the task has leftovers to publish first.                          *)
LEMMA LeaveFacts ==
    ASSUME TypeOK, NEW t \in Msg, NEW s \in Session, s = SessionOf[t],
           NEW queue \in Seq(Msg), NEW takes \in BOOLEAN, Leave(t, queue, takes),
           OnceAtMost(inbound), OnceAtMost(queue), OnceAtMost(deferred[s]),
           Elements(inbound) \cap Elements(queue) = {},
           Elements(inbound) \cap Elements(deferred[s]) = {},
           Elements(queue) \cap Elements(deferred[s]) = {}
    PROVE  Published(t, s, queue) /\ HandedOver(t, s, queue, takes)
<1> DEFINE old == deferred[s]
           room == Cap - Len(inbound)
           next == IF takes /\ Len(queue) <= room /\ old # <<>> THEN <<Head(old)>> ELSE <<>>
           rest == IF next = <<>> THEN old ELSE Tail(old)
           out == queue \o next
           n == IF Len(out) <= room THEN Len(out) ELSE room
           now == SubSeq(out, 1, n)
           later == SubSeq(out, n + 1, Len(out))
           p == IF n = Len(out) THEN "ended"
                ELSE IF takes /\ next = <<>> THEN "draining" ELSE "publishing"
<1>1. /\ inbound' = inbound \o now
      /\ left' = [left EXCEPT ![t] = later]
      /\ deferred' = [deferred EXCEPT ![s] = rest]
      /\ task' = [task EXCEPT ![t] = p]
      /\ line' = IF n = Len(out) \/ task[t] = "waiting"
                 THEN [line EXCEPT ![s] = Without(line[s], t)] ELSE line
      /\ active' = IF n = Len(out) THEN active \ {t} ELSE active
  BY DEF Leave, Room
<1>2. /\ inbound \in Seq(Msg) /\ old \in Seq(Msg) /\ room \in Nat
      /\ Len(inbound) \in Nat /\ Len(queue) \in Nat
      /\ left \in [Msg -> Seq(Msg)] /\ deferred \in [Session -> Seq(Msg)]
  BY LoopConstantsOK, LenProperties DEF TypeOK
<1>3. /\ next \in Seq(Msg) /\ rest \in Seq(Msg) /\ OnceAtMost(next) /\ OnceAtMost(rest)
      /\ Elements(next) \cup Elements(rest) = Elements(old)
      /\ Elements(next) \cap Elements(rest) = {}
      /\ rest # <<>> => old # <<>>
      /\ next # <<>> => Len(next) = 1 /\ takes /\ Len(queue) <= room
      /\ takes /\ old # <<>> /\ Len(queue) <= room =>
            next # <<>> /\ Head(old) \in Elements(next)
  <2>1. CASE takes /\ Len(queue) <= room /\ old # <<>>
    <3>1. /\ Head(old) \in Msg /\ Tail(old) \in Seq(Msg)
          /\ Elements(old) = Elements(Tail(old)) \cup {Head(old)}
          /\ OnceAtMost(Tail(old)) /\ Head(old) \notin Elements(Tail(old))
      BY <2>1, <1>2, Get
    <3>2. next = <<Head(old)>>
      BY <2>1
    <3>3. /\ <<Head(old)>> \in Seq(Msg) /\ <<Head(old)>> # <<>> /\ Len(<<Head(old)>>) = 1
          /\ Elements(<<Head(old)>>) = {Head(old)} /\ OnceAtMost(<<Head(old)>>)
      BY <3>1 DEF Elements, OnceAtMost
    <3>4. rest = Tail(old)
      BY <3>2, <3>3
    <3> HIDE DEF next, rest, old, room
    <3> QED BY <2>1, <3>1, <3>2, <3>3, <3>4
  <2>2. CASE ~(takes /\ Len(queue) <= room /\ old # <<>>)
    <3>1. next = <<>> /\ rest = old
      BY <2>2
    <3>2. Elements(<<>>) = {} /\ OnceAtMost(<<>>) /\ <<>> \in Seq(Msg)
      BY DEF Elements, OnceAtMost
    <3>3. old \in Seq(Msg) /\ OnceAtMost(old)
      BY <1>2
    <3> HIDE DEF next, rest, old, room
    <3>4. /\ Elements(next) \cup Elements(rest) = Elements(old)
          /\ Elements(next) \cap Elements(rest) = {}
      BY <3>1, <3>2
    <3> QED BY <3>1, <3>2, <3>3, <3>4, <2>2
  <2> QED BY <2>1, <2>2
<1> HIDE DEF next, rest
<1>4. /\ out \in Seq(Msg) /\ Len(out) = Len(queue) + Len(next)
      /\ Elements(out) = Elements(queue) \cup Elements(next) /\ OnceAtMost(out)
  BY <1>3, Joined
<1> HIDE DEF out
<1>5. n \in 0..Len(out) /\ n <= room /\ Len(out) \in Nat
  BY <1>2, <1>4, LenProperties
<1> HIDE DEF n
<1>6. /\ now \in Seq(Msg) /\ Len(now) = n /\ later \in Seq(Msg)
      /\ Len(later) = Len(out) - n
      /\ Elements(now) \cup Elements(later) = Elements(out)
      /\ OnceAtMost(now) /\ OnceAtMost(later) /\ Elements(now) \cap Elements(later) = {}
  <2>1. out \in Seq(Msg) /\ OnceAtMost(out) /\ n \in 0..Len(out)
    BY <1>4, <1>5
  <2>2. OnceAtMost(out) =>
            OnceAtMost(now) /\ OnceAtMost(later) /\ Elements(now) \cap Elements(later) = {}
    BY <2>1, Cut
  <2>3. /\ now \in Seq(Msg) /\ Len(now) = n /\ later \in Seq(Msg)
        /\ Len(later) = Len(out) - n
    BY <2>1, Cut
  <2>4. Elements(now) \cup Elements(later) = Elements(out)
    BY <2>1, Cut
  <2> QED BY <2>1, <2>2, <2>3, <2>4
<1> HIDE DEF now, later
<1>7. /\ inbound \o now \in Seq(Msg) /\ Len(inbound \o now) = Len(inbound) + n
      /\ Elements(inbound \o now) = Elements(inbound) \cup Elements(now)
      /\ OnceAtMost(inbound \o now)
  <2>1. Elements(inbound) \cap Elements(now) = {}
    BY <1>3, <1>4, <1>6 DEF old
  <2>2. inbound \in Seq(Msg) /\ now \in Seq(Msg) /\ OnceAtMost(inbound) /\ OnceAtMost(now)
    BY <1>2, <1>6
  <2> HIDE DEF old, room
  <2>3. /\ inbound \o now \in Seq(Msg) /\ Len(inbound \o now) = Len(inbound) + Len(now)
        /\ Elements(inbound \o now) = Elements(inbound) \cup Elements(now)
    BY <2>2, Joined
  <2>4. OnceAtMost(inbound \o now)
    BY <2>1, <2>2, Joined
  <2> QED BY <2>3, <2>4, <1>6
<1>8. later = <<>> <=> n = Len(out)
  BY <1>5, <1>6, EmptySeq
<1>9. Len(inbound) + n <= Cap
  BY <1>2, <1>5, LoopConstantsOK
<1>10. inbound' = inbound \o now /\ left'[t] = later /\ deferred'[s] = rest
  BY <1>1, <1>2
<1>11. /\ left' \in [Msg -> Seq(Msg)] /\ \A u \in Msg : u # t => left'[u] = left[u]
       /\ deferred' \in [Session -> Seq(Msg)]
       /\ \A r \in Session : r # s => deferred'[r] = deferred[r]
  BY <1>1, <1>2, <1>3, <1>6
<1>12. p = "draining" => takes /\ queue # <<>>
  <2> SUFFICES ASSUME p = "draining" PROVE takes /\ queue # <<>>
    OBVIOUS
  <2>1. takes /\ next = <<>> /\ n # Len(out)
    BY DEF p
  <2>2. Len(next) = 0
    BY <2>1
  <2>3. queue = <<>> => Len(out) = 0
    BY <2>2, <1>4
  <2>4. Len(out) # 0
    BY <2>1, <1>5
  <2> QED BY <2>1, <2>3, <2>4
<1>13. ASSUME takes, old # <<>>, p # "draining"
       PROVE  Head(old) \in Elements(old) /\ Head(old) \in Elements(now) \cup Elements(later)
  <2>1. Len(queue) <= room
    <3> SUFFICES ASSUME ~(Len(queue) <= room) PROVE FALSE
      OBVIOUS
    <3>1. next = <<>> /\ Len(next) = 0
      BY <1>3
    <3>2. n = room /\ n # Len(out)
      BY <3>1, <1>2, <1>4 DEF n
    <3> QED BY <3>1, <3>2, <1>13
  <2> QED BY <2>1, <1>13, <1>3, <1>4, <1>6
<1>14. /\ p \in {"ended", "draining", "publishing"}
       /\ p = "ended" <=> n = Len(out)
  OBVIOUS
<1> HIDE DEF p, old, room
<1>15. HandedOver(t, s, queue, takes)
  <2>1. takes /\ deferred[s] # <<>> /\ p # "draining" =>
            \E m \in Elements(deferred[s]) :
               m \in Elements(inbound') \cup Elements(left'[t])
    BY <1>7, <1>10, <1>13 DEF old
  <2>2. p = "ended" <=> left'[t] = <<>>
    BY <1>8, <1>10, <1>14
  <2> QED BY <1>1, <1>12, <1>14, <2>1, <2>2 DEF HandedOver
<1>16. deferred[s] = old
  BY DEF old
<1>17. Published(t, s, queue)
  BY <1>3, <1>4, <1>6, <1>7, <1>9, <1>10, <1>11, <1>16 DEF Published
<1> QED BY <1>15, <1>17

-----------------------------------------------------------------------------
(* The steps.                                                               *)

(* The queues of a loop that has just been built are empty.                 *)
LEMMA Initially == Init => LoopInv
<1> SUFFICES ASSUME Init PROVE LoopInv
  OBVIOUS
<1>1. Elements(<<>>) = {} /\ OnceAtMost(<<>>) /\ <<>> \in Seq(Msg) /\ Len(<<>>) = 0
  BY DEF Elements, OnceAtMost
<1>2. TypeOK
  BY <1>1, LoopConstantsOK DEF Init, TypeOK, Places, Fates
<1>3. /\ Elements(inbound) = {} /\ \A t \in Msg : Elements(left[t]) = {}
      /\ \A s \in Session : Elements(deferred[s]) = {} /\ Elements(line[s]) = {}
      /\ DOMAIN pending = {}
  BY <1>1 DEF Init
<1>4. QueuesOK
  BY <1>1, <1>3 DEF Init, QueuesOK
<1>5. Apart
  BY <1>3, LoopConstantsOK DEF Init, Apart, InDeferred, InPending, InLeft
<1>6. FatesOK
  BY <1>3, LoopConstantsOK DEF Init, FatesOK, Placed, InDeferred, InPending, InLeft, Running
<1>7. LinesOK
  BY <1>1 DEF Init, LinesOK, Running, Elements
<1>8. CancellationOK
  BY DEF Init, CancellationOK
<1>9. PendingQueueHasItsTurn /\ DeferredTurnIsPublished
  BY <1>3 DEF Init, PendingQueueHasItsTurn, DeferredTurnIsPublished
<1> QED BY <1>2, <1>4, <1>5, <1>6, <1>7, <1>8, <1>9 DEF LoopInv

(* The queues hold messages.                                                *)
LEMMA Members ==
    ASSUME TypeOK
    PROVE  /\ \A m \in Msg : SessionOf[m] \in Session
           /\ active \subseteq Msg /\ doomed \subseteq Msg
           /\ Elements(inbound) \subseteq Msg
           /\ \A t \in Msg : Elements(left[t]) \subseteq Msg
           /\ \A s \in DOMAIN pending : s \in Session /\ Elements(pending[s]) \subseteq Msg
           /\ \A s \in Session :
                 /\ Elements(deferred[s]) \subseteq Msg /\ Elements(line[s]) \subseteq Msg
                 /\ \A i \in DOMAIN line[s] : line[s][i] \in Elements(line[s])
                 /\ \A t \in Elements(line[s]) : \E i \in DOMAIN line[s] : t = line[s][i]
                 /\ \A i \in DOMAIN line[s] : i \in Nat /\ (i = 1 \/ i > 1)
                 /\ line[s] # <<>> => 1 \in DOMAIN line[s] /\ Head(line[s]) = line[s][1]
                 /\ line[s] = <<>> => Elements(line[s]) = {}
<1>1. \A q \in Seq(Msg) :
          /\ Elements(q) \subseteq Msg
          /\ \A i \in DOMAIN q : q[i] \in Elements(q) /\ i \in Nat /\ (i = 1 \/ i > 1)
          /\ \A t \in Elements(q) : \E i \in DOMAIN q : t = q[i]
          /\ q # <<>> => 1 \in DOMAIN q /\ Head(q) = q[1]
          /\ q = <<>> => Elements(q) = {}
  <2> TAKE q \in Seq(Msg)
  <2>1. DOMAIN q = 1..Len(q) /\ Len(q) \in Nat /\ (q # <<>> => Len(q) # 0)
    BY LenProperties, EmptySeq
  <2>2. \A i \in DOMAIN q : q[i] \in Msg
    BY <2>1, ElementOfSeq
  <2>3. \A i \in 1..Len(q) : i \in Nat /\ (i = 1 \/ i > 1)
    BY <2>1
  <2>4. q # <<>> => Head(q) = q[1] /\ 1 \in 1..Len(q)
    BY <2>1, Get
  <2> QED BY <2>1, <2>2, <2>3, <2>4 DEF Elements
<1>2. /\ inbound \in Seq(Msg) /\ \A t \in Msg : left[t] \in Seq(Msg)
      /\ \A s \in DOMAIN pending : s \in Session /\ pending[s] \in Seq(Msg)
      /\ \A s \in Session : deferred[s] \in Seq(Msg) /\ line[s] \in Seq(Msg)
      /\ active \subseteq Msg /\ doomed \subseteq Msg
      /\ \A m \in Msg : SessionOf[m] \in Session
  BY LoopConstantsOK DEF TypeOK
<1> QED BY <1>1, <1>2

(* A message that was not sent is nowhere.                                  *)
LEMMA Unsent ==
    ASSUME LoopInv, NEW m \in Msg, m \notin sent
    PROVE  /\ m \notin Elements(inbound) /\ ~InDeferred(m) /\ ~InPending(m) /\ ~InLeft(m)
           /\ m # consumer /\ task[m] = "none" /\ fate[m] = "none"
BY DEF LoopInv, FatesOK, Placed

(* publish_inbound and publish_inbound_nowait: a message enters once.       *)
LEMMA PublishKeeps ==
    ASSUME LoopInv, NEW m \in Msg, Publish(m) \/ Announce(m)
    PROVE  LoopInv'
<1> USE DEF LoopInv
<1>1. /\ m \notin sent /\ sent' = sent \cup {m}
      /\ UNCHANGED <<mode, pending, deferred, tasks, consumer, stopped>>
      /\ waiter' \in [Msg -> {"none", "waiting", "done"}]
  BY DEF Publish, Announce, TypeOK
<1>2. /\ m \notin Elements(inbound) /\ ~InDeferred(m) /\ ~InPending(m) /\ ~InLeft(m)
      /\ m # consumer /\ task[m] = "none" /\ fate[m] = "none"
  BY <1>1, Unsent
<1>3. CASE inbound' = inbound /\ fate' = Fated({m}, "refused") /\ KindOf[m] = "subagent"
  <2>1. /\ fate' \in [Msg -> Fates] /\ fate'[m] = "refused"
        /\ \A k \in Msg : k # m => fate'[k] = fate[k]
    BY <1>3 DEF Fated, TypeOK, Fates
  <2>2. TypeOK'
    BY <1>1, <1>3, <2>1 DEF TypeOK, tasks
  <2>3. QueuesOK' /\ Apart' /\ LinesOK' /\ CancellationOK' /\ PendingQueueHasItsTurn'
    BY <1>1, <1>3 DEF QueuesOK, Apart, LinesOK, CancellationOK, PendingQueueHasItsTurn, tasks,
       InDeferred, InPending, InLeft
  <2>4. FatesOK'
    BY <1>1, <1>2, <1>3, <2>1 DEF FatesOK, Placed, tasks, InDeferred, InPending, InLeft, Running
  <2>5. DeferredTurnIsPublished'
    BY <1>1, <1>3 DEF DeferredTurnIsPublished, OnItsWay, tasks
  <2> QED BY <2>2, <2>3, <2>4, <2>5
<1>4. CASE inbound' = Append(inbound, m) /\ Room > 0 /\ fate' = fate
  <2>1. /\ inbound' \in Seq(Msg) /\ Len(inbound') = Len(inbound) + 1
        /\ Elements(inbound') = Elements(inbound) \cup {m} /\ OnceAtMost(inbound')
    BY <1>2, <1>4, Put DEF TypeOK, QueuesOK
  <2>2. Len(inbound') <= Cap
    BY <1>4, <2>1, LoopConstantsOK, LenProperties DEF Room, TypeOK
  <2>3. TypeOK'
    BY <1>1, <1>4, <2>1, <2>2 DEF TypeOK, tasks
  <2>4. QueuesOK'
    BY <1>1, <2>1 DEF QueuesOK, tasks
  <2>5. Apart'
    BY <1>1, <1>2, <2>1 DEF Apart, tasks, InDeferred, InPending, InLeft
  <2>6. FatesOK'
    BY <1>1, <1>2, <1>4, <2>1 DEF FatesOK, Placed, tasks, InDeferred, InPending, InLeft, Running
  <2>7. LinesOK' /\ CancellationOK' /\ PendingQueueHasItsTurn'
    BY <1>1, <1>4 DEF LinesOK, CancellationOK, PendingQueueHasItsTurn, tasks
  <2>8. DeferredTurnIsPublished'
    BY <1>1, <2>1 DEF DeferredTurnIsPublished, OnItsWay, tasks
  <2> QED BY <2>3, <2>4, <2>5, <2>6, <2>7, <2>8
<1> QED BY <1>3, <1>4 DEF Publish, Announce

(* _dispatch up to the lock: a task that starts moves no message.           *)
LEMMA StartKeeps ==
    ASSUME LoopInv, NEW t \in Msg, Start(t)
    PROVE  LoopInv'
<1> USE DEF LoopInv
<1>1. /\ task[t] = "new" /\ task' \in [Msg -> Places] /\ task'[t] = "waiting"
      /\ \A m \in Msg : m # t => task'[m] = task[m]
      /\ UNCHANGED <<mode, queues, line, active, left, doomed, awaits, consumer, waiter, history>>
  BY DEF Start, TypeOK, Places
<1>2. TypeOK'
  BY <1>1 DEF TypeOK, queues, history
<1>3. QueuesOK' /\ Apart'
  <2>1. QueuesOK'
    BY <1>1 DEF QueuesOK, queues
  <2>2. Apart'
    BY <1>1, Members DEF Apart, queues, InDeferred, InPending, InLeft, TypeOK
  <2> QED BY <2>1, <2>2
<1>4. FatesOK'
  BY <1>1 DEF FatesOK, Placed, queues, history, InDeferred, InPending, InLeft, Running
<1>5. LinesOK'
  BY <1>1, Members DEF LinesOK, Running, Leaving
<1>6. CancellationOK'
  BY <1>1, Members DEF CancellationOK, history
<1>7. PendingQueueHasItsTurn'
  <2>1. \A s \in Session : line[s] # <<>> => Head(line[s]) \in Msg
    BY Get DEF TypeOK
  <2> QED BY <1>1, <2>1 DEF PendingQueueHasItsTurn, queues
<1>8. DeferredTurnIsPublished'
  BY <1>1, Members DEF DeferredTurnIsPublished, OnItsWay, queues, history
<1> QED BY <1>2, <1>3, <1>4, <1>5, <1>6, <1>7, <1>8

(* The task that holds the lock of a session is the head of its line.       *)
LEMMA Holder ==
    ASSUME LoopInv, NEW t \in Msg, task[t] \in {"turn", "clearing", "draining"}
    PROVE  LET s == SessionOf[t] IN
           /\ s \in Session /\ line[s] \in Seq(Msg) /\ line[s] # <<>>
           /\ Head(line[s]) = t /\ line[s][1] = t
<1> DEFINE s == SessionOf[t]
<1>1. s \in Session /\ line[s] \in Seq(Msg) /\ t \in Elements(line[s])
  BY LoopConstantsOK DEF LoopInv, TypeOK, LinesOK, Running
<1> HIDE DEF s
<1>2. PICK i \in DOMAIN line[s] : line[s][i] = t
  BY <1>1 DEF Elements
<1>3. ~(i > 1)
  BY <1>1, <1>2 DEF LoopInv, LinesOK
<1>4. i = 1 /\ line[s] # <<>>
  BY <1>1, <1>2, <1>3, LenProperties
<1> QED BY <1>1, <1>2, <1>4, Get DEF s

(* The lock and the gate: the turn opens an empty queue of its own.         *)
LEMMA BeginTurnKeeps ==
    ASSUME LoopInv, NEW t \in Msg, BeginTurn(t)
    PROVE  LoopInv'
<1> USE DEF LoopInv
<1> DEFINE r == SessionOf[t]
<1>1. /\ task[t] = "waiting" /\ t \notin doomed /\ t = Head(line[r])
      /\ task' \in [Msg -> Places] /\ task'[t] = "turn"
      /\ \A m \in Msg : m # t => task'[m] = task[m]
      /\ UNCHANGED <<mode, inbound, deferred, line, active, left, doomed, awaits, consumer, waiter,
                     history>>
  BY DEF BeginTurn, TypeOK, Places
<1>2. /\ r \in Session /\ line[r] \in Seq(Msg) /\ t \in Elements(line[r]) /\ line[r] # <<>>
      /\ line[r][1] = t
  <2>1. r \in Session /\ line[r] \in Seq(Msg) /\ t \in Elements(line[r])
    BY <1>1, LoopConstantsOK DEF TypeOK, LinesOK, Running
  <2>2. line[r] # <<>>
    BY <2>1 DEF Elements
  <2> QED BY <2>1, <2>2, <1>1, Get
<1>3. r \notin DOMAIN pending
  BY <1>1, <1>2 DEF PendingQueueHasItsTurn
<1>4. /\ DOMAIN pending' = DOMAIN pending \cup {r}
      /\ pending'[r] = <<>> /\ Elements(pending'[r]) = {} /\ OnceAtMost(pending'[r])
      /\ pending'[r] \in Seq(Msg) /\ Len(pending'[r]) <= PendingCap
      /\ \A s \in DOMAIN pending : pending'[s] = pending[s]
      /\ pending' \in [DOMAIN pending' -> Seq(Msg)]
  <2>1. /\ Elements(<<>>) = {} /\ OnceAtMost(<<>>) /\ <<>> \in Seq(Msg) /\ Len(<<>>) = 0
        /\ PendingCap \in Nat
    BY LoopConstantsOK DEF Elements, OnceAtMost
  <2>2. pending' = [s \in DOMAIN pending \cup {r} |-> IF s = r THEN <<>> ELSE pending[s]]
    BY DEF BeginTurn
  <2> HIDE DEF r
  <2> QED BY <2>1, <2>2, <1>3 DEF TypeOK
<1>5. \A m \in Msg : InPending(m)' <=> InPending(m)
  BY <1>3, <1>4 DEF InPending
<1> HIDE DEF r
<1>6. TypeOK'
  BY <1>1, <1>2, <1>4 DEF TypeOK, history
<1>7. QueuesOK'
  BY <1>1, <1>3, <1>4 DEF QueuesOK
<1>8. Apart'
  BY <1>1, <1>5, Members DEF Apart, InDeferred, InLeft, TypeOK
<1>9. FatesOK'
  BY <1>1, <1>5 DEF FatesOK, Placed, history, InDeferred, InLeft, Running
<1>10. LinesOK'
  <2>1. \A s \in Session : \A i \in DOMAIN line[s] : line[s][i] = t => ~(i > 1)
    <3> SUFFICES ASSUME NEW s \in Session, NEW i \in DOMAIN line[s], line[s][i] = t
                 PROVE  ~(i > 1)
      OBVIOUS
    <3>1. s = r
      BY DEF LinesOK, r
    <3>2. DOMAIN line[r] = 1..Len(line[r]) /\ Len(line[r]) \in Nat /\ Len(line[r]) # 0
      BY <1>2, LenProperties, EmptySeq
    <3>3. 1 \in DOMAIN line[r] /\ i = 1
      BY <3>1, <3>2, <1>2 DEF LinesOK, OnceAtMost
    <3> QED BY <3>3
  <2> QED BY <1>1, <2>1, Members DEF LinesOK, Running, Leaving
<1>11. CancellationOK'
  BY <1>1, Members DEF CancellationOK, history
<1>12. PendingQueueHasItsTurn'
  <2>1. \A s \in Session : line[s] # <<>> =>
            Head(line[s]) \in Msg /\ (s # r => Head(line[s]) # t)
    <3> SUFFICES ASSUME NEW s \in Session, line[s] # <<>>
                 PROVE  Head(line[s]) \in Msg /\ (s # r => Head(line[s]) # t)
      OBVIOUS
    <3>1. Head(line[s]) \in Msg /\ Head(line[s]) \in Elements(line[s])
      BY Get DEF TypeOK
    <3> QED BY <3>1 DEF LinesOK, Elements, r
  <2> QED BY <1>1, <1>2, <1>4, <2>1 DEF PendingQueueHasItsTurn
<1>13. DeferredTurnIsPublished'
  BY <1>1, Members DEF DeferredTurnIsPublished, OnItsWay, history
<1> QED BY <1>6, <1>7, <1>8, <1>9, <1>10, <1>11, <1>12, <1>13

(* The head of a line is a task of that session, and no two tasks of a      *)
(* session are in a turn.                                                   *)
LEMMA Heads ==
    ASSUME LoopInv
    PROVE  /\ \A s \in Session : line[s] # <<>> =>
                 /\ Head(line[s]) \in Msg /\ SessionOf[Head(line[s])] = s
                 /\ Head(line[s]) \in Elements(line[s])
           /\ \A s \in Session : \A t \in Elements(line[s]) :
                 t \in Msg /\ SessionOf[t] = s /\ task[t] \in Running \cup Leaving
           /\ \A t, u \in Msg : /\ SessionOf[t] = SessionOf[u]
                                /\ task[t] \in {"turn", "clearing", "draining"}
                                /\ task[u] \in {"turn", "clearing", "draining"}
                                => t = u
<1>1. \A s \in Session : line[s] # <<>> =>
          /\ Head(line[s]) \in Msg /\ SessionOf[Head(line[s])] = s
          /\ Head(line[s]) \in Elements(line[s])
  BY Members DEF LoopInv, LinesOK
<1>2. ASSUME NEW s \in Session, NEW t \in Elements(line[s])
      PROVE  t \in Msg /\ SessionOf[t] = s /\ task[t] \in Running \cup Leaving
  <2>1. PICK i \in DOMAIN line[s] : t = line[s][i]
    BY DEF Elements
  <2> QED BY <2>1, Members DEF LoopInv, LinesOK
<1> QED BY <1>1, <1>2, Holder

(* _drain_pending: what the turn takes in is decided.                       *)
LEMMA InjectKeeps ==
    ASSUME LoopInv, NEW t \in Msg, Inject(t)
    PROVE  LoopInv'
<1> USE DEF LoopInv
<1> DEFINE r == SessionOf[t]
           h == Head(pending[r])
<1>1. /\ r \in DOMAIN pending /\ pending[r] # <<>>
      /\ pending' = [pending EXCEPT ![r] = Tail(pending[r])]
      /\ fate' = Fated({h}, "injected")
      /\ UNCHANGED <<mode, inbound, deferred, tasks, consumer, waiter, sent, stopped>>
  BY DEF Inject
<1>2. /\ h \in Msg /\ Tail(pending[r]) \in Seq(Msg)
      /\ Len(Tail(pending[r])) = Len(pending[r]) - 1
      /\ h \in Elements(pending[r])
      /\ Elements(pending[r]) = Elements(Tail(pending[r])) \cup {h}
      /\ OnceAtMost(Tail(pending[r])) /\ h \notin Elements(Tail(pending[r]))
  BY <1>1, Get DEF TypeOK, QueuesOK
<1> HIDE DEF r, h
<1>3. /\ DOMAIN pending' = DOMAIN pending /\ pending'[r] = Tail(pending[r])
      /\ \A s \in DOMAIN pending : s # r => pending'[s] = pending[s]
      /\ pending' \in [DOMAIN pending' -> Seq(Msg)]
  BY <1>1, <1>2 DEF TypeOK
<1>4. /\ fate' \in [Msg -> Fates] /\ fate'[h] = "injected"
      /\ \A m \in Msg : m # h => fate'[m] = fate[m]
  BY <1>1, <1>2 DEF Fated, TypeOK, Fates
<1>5. SessionOf[h] = r /\ KindOf[h] # "auto" /\ InPending(h)
  BY <1>1, <1>2 DEF QueuesOK, InPending
<1>6. \A m \in Msg : InPending(m)' <=> InPending(m) /\ m # h
  BY <1>1, <1>2, <1>3, <1>5 DEF InPending
<1>7. Len(pending'[r]) <= PendingCap
  BY <1>1, <1>2, <1>3, LoopConstantsOK, LenProperties DEF TypeOK
<1>8. TypeOK'
  BY <1>1, <1>3, <1>4, <1>7 DEF TypeOK, tasks
<1>9. QueuesOK'
  BY <1>1, <1>2, <1>3 DEF QueuesOK, tasks
<1>10. Apart'
  BY <1>1, <1>6, Members DEF Apart, InDeferred, InLeft, tasks
<1>11. FatesOK'
  <2>1. /\ h \notin Elements(inbound) /\ ~InDeferred(h) /\ ~InLeft(h) /\ h # consumer
        /\ task[h] = "none"
    BY <1>2, <1>5 DEF Apart
  <2>2. \A m \in Msg : Placed(m)' <=> Placed(m) /\ m # h
    BY <1>1, <1>6, <2>1 DEF Placed, InDeferred, InLeft, Running, tasks
  <2>3. Placed(h)
    BY <1>5 DEF Placed
  <2> QED BY <1>1, <1>2, <1>4, <1>5, <2>2, <2>3 DEF FatesOK, tasks
<1>12. LinesOK' /\ CancellationOK'
  BY <1>1 DEF LinesOK, CancellationOK, tasks
<1>13. PendingQueueHasItsTurn'
  BY <1>1, <1>3 DEF PendingQueueHasItsTurn, tasks
<1>14. DeferredTurnIsPublished'
  BY <1>1 DEF DeferredTurnIsPublished, OnItsWay, tasks
<1> QED BY <1>8, <1>9, <1>10, <1>11, <1>12, <1>13, <1>14

(* /new in its own turn: it dooms every task of the session but itself.     *)
LEMMA ClearKeeps ==
    ASSUME LoopInv, NEW t \in Msg, Clear(t)
    PROVE  LoopInv'
<1> USE DEF LoopInv
<1> DEFINE r == SessionOf[t]
           found == {u \in active : SessionOf[u] = r}
<1>1. /\ task[t] = "turn" /\ t \notin doomed
      /\ task' \in [Msg -> Places] /\ task'[t] = "clearing"
      /\ \A m \in Msg : m # t => task'[m] = task[m]
      /\ active' = active \ found /\ doomed' = doomed \cup (found \ {t})
      /\ awaits' = [awaits EXCEPT ![t] = found \ {t}]
      /\ stopped' = stopped \cup {r}
      /\ UNCHANGED <<mode, inbound, pending, deferred, line, left, consumer, waiter, sent, fate>>
  BY DEF Clear, CancelSession, TypeOK, Places, queues
<1>2. found \subseteq active /\ t \in found /\ \A u \in found : u \in Msg /\ SessionOf[u] = r
  BY <1>1 DEF TypeOK, CancellationOK
<1>3. r \in Session /\ \A u \in Msg : u # consumer => awaits'[u] \in SUBSET Msg
  BY <1>1, <1>2, LoopConstantsOK DEF TypeOK
<1>4. /\ awaits' \in [Msg -> SUBSET Msg]
      /\ \A u \in Msg : u # t => awaits'[u] = awaits[u]
  BY <1>1, <1>2 DEF TypeOK
<1> HIDE DEF r, found
<1>5. TypeOK'
  BY <1>1, <1>2, <1>3, <1>4 DEF TypeOK
<1>6. QueuesOK'
  BY <1>1 DEF QueuesOK
<1>7. Apart'
  BY <1>1, Members DEF Apart, InDeferred, InPending, InLeft, TypeOK
<1>8. FatesOK'
  BY <1>1 DEF FatesOK, Placed, InDeferred, InPending, InLeft, Running
<1>9. LinesOK'
  <2>1. \A s \in Session : \A i \in DOMAIN line[s] : i > 1 => line[s][i] # t
    BY <1>1, Members DEF LinesOK
  <2> QED BY <1>1, <2>1, Members DEF LinesOK, Running, Leaving
<1>10. CancellationOK'
  <2>1. consumer # t
    BY <1>1, LoopConstantsOK DEF Apart
  <2>2. \A u \in found : u # t => task[u] # "turn"
    BY <1>1, <1>2, Heads DEF r
  <2>3. active' \cap doomed' = {}
    BY <1>1 DEF CancellationOK
  <2>4. \A u \in active' \cup doomed' : u # t /\ u \in active \cup doomed /\ u \in Msg
    BY <1>1, <1>2, Members
  <2>5. \A u \in active' \cup doomed' : task'[u] \notin {"none", "ended", "clearing"}
    BY <1>1, <2>4 DEF CancellationOK
  <2>6. \A u \in doomed' : SessionOf[u] \in stopped'
    BY <1>1, <1>2 DEF CancellationOK
  <2>7. \A u \in Msg : task'[u] \in {"new", "waiting", "turn"} => u \in active' \cup doomed'
    BY <1>1 DEF CancellationOK
  <2>8. \A u \in doomed' : task'[u] = "turn" => consumer' # NoMsg /\ u \in awaits'[consumer']
    BY <1>1, <1>2, <1>4, <2>1, <2>2, <2>4 DEF CancellationOK, TypeOK
  <2>9. consumer' # NoMsg => \A u \in active' : SessionOf[u] # SessionOf[consumer']
    BY <1>1 DEF CancellationOK
  <2> QED BY <2>3, <2>5, <2>6, <2>7, <2>8, <2>9 DEF CancellationOK
<1>11. PendingQueueHasItsTurn'
  BY <1>1, Heads, Holder DEF PendingQueueHasItsTurn
<1>12. DeferredTurnIsPublished'
  BY <1>1, Members DEF DeferredTurnIsPublished, OnItsWay
<1> QED BY <1>5, <1>6, <1>7, <1>8, <1>9, <1>10, <1>11, <1>12

(* /stop and /new inline: the turn is over when its queue is taken away.    *)
LEMMA CommandEndsKeeps ==
    ASSUME LoopInv, CommandEnds
    PROVE  LoopInv'
<1> USE DEF LoopInv
<1> DEFINE r == SessionOf[consumer]
           stops == KindOf[consumer] = "stop"
           dropped == IF stops /\ r \in DOMAIN pending THEN Elements(pending[r]) ELSE {}
<1>1. /\ consumer \in Msg /\ r \in Session /\ consumer' = NoMsg /\ consumer' # consumer
      /\ \A u \in awaits[consumer] : task[u] = "ended"
      /\ fate' = [Fated(dropped, "dropped") EXCEPT ![consumer] = "answered"]
      /\ pending' = IF stops THEN Closed(r) ELSE pending
      /\ UNCHANGED <<mode, inbound, deferred, tasks, waiter, sent, stopped>>
  BY LoopConstantsOK DEF CommandEnds, Awaited, TypeOK
<1>2. /\ dropped \subseteq Msg /\ \A m \in dropped : InPending(m) /\ SessionOf[m] = r /\ stops
      /\ \A m \in Msg : InPending(m) /\ SessionOf[m] = r /\ stops => m \in dropped
  BY Members DEF InPending, QueuesOK
<1> HIDE DEF dropped, stops
<1>3. /\ fate' \in [Msg -> Fates] /\ fate'[consumer] = "answered"
      /\ \A m \in dropped : m # consumer => fate'[m] = "dropped"
      /\ \A m \in Msg : m # consumer /\ m \notin dropped => fate'[m] = fate[m]
  BY <1>1, <1>2 DEF Fated, TypeOK, Fates
<1> HIDE DEF r
<1>4. /\ DOMAIN pending' = IF stops THEN DOMAIN pending \ {r} ELSE DOMAIN pending
      /\ \A s \in DOMAIN pending' : pending'[s] = pending[s]
      /\ pending' \in [DOMAIN pending' -> Seq(Msg)]
  BY <1>1 DEF Closed, TypeOK
<1>5. \A m \in Msg : InPending(m)' <=> InPending(m) /\ m \notin dropped
  BY <1>2, <1>4 DEF InPending
<1>6. /\ task[consumer] = "none" /\ ~InPending(consumer) /\ ~InDeferred(consumer)
      /\ ~InLeft(consumer) /\ consumer \notin Elements(inbound)
  BY <1>1 DEF Apart
<1>7. TypeOK'
  BY <1>1, <1>3, <1>4 DEF TypeOK, tasks
<1>8. QueuesOK'
  BY <1>1, <1>4 DEF QueuesOK, tasks
<1>9. Apart'
  BY <1>1, <1>5, Members, LoopConstantsOK DEF Apart, InDeferred, InLeft, tasks
<1>10. FatesOK'
  <2>1. \A m \in Msg : Placed(m)' <=> Placed(m) /\ m # consumer /\ m \notin dropped
    BY <1>1, <1>2, <1>5, <1>6, LoopConstantsOK DEF Placed, Apart, InDeferred, InLeft, Running, tasks
  <2>2. \A m \in dropped : Placed(m)
    BY <1>2 DEF Placed
  <2>3. Placed(consumer)
    BY DEF Placed
  <2> QED BY <1>1, <1>2, <1>3, <2>1, <2>2, <2>3 DEF FatesOK, tasks
<1>11. LinesOK'
  BY <1>1 DEF LinesOK, tasks
<1>12. \A u \in doomed : task[u] # "turn"
  BY <1>1 DEF CancellationOK
<1>13. CancellationOK'
  BY <1>1, <1>12 DEF CancellationOK, tasks
<1>14. PendingQueueHasItsTurn'
  <2>1. \A u \in Msg : task[u] = "turn" => SessionOf[u] # r
    BY <1>1, <1>12 DEF CancellationOK, r
  <2> QED BY <1>1, <1>4, <2>1, Heads DEF PendingQueueHasItsTurn, tasks
<1>15. DeferredTurnIsPublished'
  BY <1>1 DEF DeferredTurnIsPublished, OnItsWay, tasks
<1> QED BY <1>7, <1>8, <1>9, <1>10, <1>11, <1>13, <1>14, <1>15

(* What the consumer takes from the queue is open and nowhere else.         *)
LEMMA Taken ==
    ASSUME LoopInv, Consume
    PROVE  \E m \in Msg :
             /\ consumer = NoMsg /\ mode' = mode
             /\ inbound' \in Seq(Msg) /\ Len(inbound') <= Cap /\ OnceAtMost(inbound')
             /\ Elements(inbound) = Elements(inbound') \cup {m} /\ m \notin Elements(inbound')
             /\ m \in sent /\ fate[m] = "none" /\ task[m] = "none" /\ SessionOf[m] \in Session
             /\ m \notin active /\ m \notin doomed
             /\ ~InDeferred(m) /\ ~InPending(m) /\ ~InLeft(m)
             /\ \/ Inline(m) /\ KindOf[m] # "auto"
                \/ Deferred(m) /\ SessionOf[m] \in DOMAIN pending /\ KindOf[m] = "auto"
                \/ /\ Injected(m) /\ SessionOf[m] \in DOMAIN pending /\ KindOf[m] # "auto"
                   /\ Len(pending[SessionOf[m]]) < PendingCap
                \/ Dispatched(m)
<1> USE DEF LoopInv
<1>1. inbound \in Seq(Msg) /\ inbound # <<>> /\ inbound' = Tail(inbound)
      /\ consumer = NoMsg /\ mode' = mode
  BY DEF Consume, TypeOK
<1> DEFINE m == Head(inbound)
<1>2. /\ m \in Msg /\ inbound' \in Seq(Msg) /\ Len(inbound') = Len(inbound) - 1
      /\ m \in Elements(inbound) /\ Elements(inbound) = Elements(inbound') \cup {m}
      /\ OnceAtMost(inbound') /\ m \notin Elements(inbound')
  BY <1>1, Get DEF QueuesOK
<1>3. Len(inbound') <= Cap
  BY <1>1, <1>2, LoopConstantsOK, LenProperties DEF TypeOK
<1>4. \/ Inline(m) /\ KindOf[m] # "auto"
      \/ Deferred(m) /\ SessionOf[m] \in DOMAIN pending /\ KindOf[m] = "auto"
      \/ /\ Injected(m) /\ SessionOf[m] \in DOMAIN pending /\ KindOf[m] # "auto"
         /\ Len(pending[SessionOf[m]]) < PendingCap
      \/ Dispatched(m)
  BY DEF Consume
<1> HIDE DEF m
<1>5. ~InDeferred(m) /\ ~InPending(m) /\ ~InLeft(m) /\ task[m] = "none"
  BY <1>2 DEF Apart
<1>6. m \in sent /\ fate[m] = "none"
  BY <1>2 DEF FatesOK, Placed
<1>7. m \notin active /\ m \notin doomed
  BY <1>5 DEF CancellationOK
<1>8. SessionOf[m] \in Session
  BY <1>2, LoopConstantsOK
<1> QED BY <1>1, <1>2, <1>3, <1>4, <1>5, <1>6, <1>7, <1>8

(* run(): a message goes to one of four places, and only there.             *)
LEMMA ConsumeKeeps ==
    ASSUME LoopInv, Consume
    PROVE  LoopInv'
<1> USE DEF LoopInv
<1>1. PICK m \in Msg :
             /\ consumer = NoMsg /\ mode' = mode
             /\ inbound' \in Seq(Msg) /\ Len(inbound') <= Cap /\ OnceAtMost(inbound')
             /\ Elements(inbound) = Elements(inbound') \cup {m} /\ m \notin Elements(inbound')
             /\ m \in sent /\ fate[m] = "none" /\ task[m] = "none" /\ SessionOf[m] \in Session
             /\ m \notin active /\ m \notin doomed
             /\ ~InDeferred(m) /\ ~InPending(m) /\ ~InLeft(m)
             /\ \/ Inline(m) /\ KindOf[m] # "auto"
                \/ Deferred(m) /\ SessionOf[m] \in DOMAIN pending /\ KindOf[m] = "auto"
                \/ /\ Injected(m) /\ SessionOf[m] \in DOMAIN pending /\ KindOf[m] # "auto"
                   /\ Len(pending[SessionOf[m]]) < PendingCap
                \/ Dispatched(m)
  BY Taken
<1> DEFINE r == SessionOf[m]
<1>2. m # NoMsg
  BY LoopConstantsOK
<1>3. r \in DOMAIN pending =>
          \E t \in Elements(line[r]) : task[t] \in {"turn", "clearing"}
  BY <1>1, Heads DEF PendingQueueHasItsTurn
<1>4. CASE Inline(m) /\ KindOf[m] # "auto"
  <2> DEFINE found == {u \in active : SessionOf[u] = r}
  <2>1. /\ active' = active \ found /\ doomed' = doomed \cup (found \ {m})
        /\ awaits' = [awaits EXCEPT ![m] = found \ {m}]
        /\ stopped' = stopped \cup {r} /\ consumer' = m
        /\ UNCHANGED <<pending, deferred, task, line, left, waiter, sent, fate>>
    BY <1>4 DEF Inline, CancelSession
  <2>2. found \subseteq active /\ \A u \in found : u \in Msg /\ SessionOf[u] = r
    BY Members
  <2>3. m \notin found
    BY <1>1
  <2>4. /\ \A u \in active : SessionOf[u] = r => u \in found
        /\ awaits' \in [Msg -> SUBSET Msg] /\ awaits'[m] = found
    BY <2>1, <2>2, <2>3 DEF TypeOK
  <2> HIDE DEF found
  <2>5. TypeOK'
    BY <1>1, <2>1, <2>2, <2>4 DEF TypeOK
  <2>6. QueuesOK'
    BY <1>1, <2>1 DEF QueuesOK
  <2>7. Apart'
    BY <1>1, <2>1, Members DEF Apart, InDeferred, InPending, InLeft
  <2>8. FatesOK'
    <3>1. \A k \in Msg : Placed(k)' <=> Placed(k)
      BY <1>1, <1>2, <2>1, LoopConstantsOK DEF Placed, InDeferred, InPending, InLeft
    <3> QED BY <2>1, <3>1 DEF FatesOK
  <2>9. LinesOK'
    BY <2>1 DEF LinesOK
  <2>10. CancellationOK'
    <3>1. \A u \in active' \cup doomed' : u \in active \cup doomed /\ u \in Msg
      BY <2>1, <2>2, Members
    <3>2. \A u \in active' \cup doomed' : task'[u] \notin {"none", "ended", "clearing"}
      BY <2>1, <3>1 DEF CancellationOK
    <3>3. \A u \in doomed' : SessionOf[u] \in stopped'
      BY <2>1, <2>2 DEF CancellationOK
    <3>4. \A u \in doomed' : task'[u] = "turn" => consumer' # NoMsg /\ u \in awaits'[consumer']
      BY <1>1, <1>2, <2>1, <2>4 DEF CancellationOK
    <3>5. active' \cap doomed' = {}
      BY <2>1 DEF CancellationOK
    <3>6. \A u \in Msg : task'[u] \in {"new", "waiting", "turn"} => u \in active' \cup doomed'
      BY <2>1, <2>3 DEF CancellationOK
    <3>7. \A u \in active' : SessionOf[u] # r
      BY <2>1, <2>4
    <3> QED BY <2>1, <3>2, <3>3, <3>4, <3>5, <3>6, <3>7 DEF CancellationOK
  <2>11. PendingQueueHasItsTurn'
    BY <2>1 DEF PendingQueueHasItsTurn
  <2>12. DeferredTurnIsPublished'
    BY <1>1, <1>4, <2>1 DEF DeferredTurnIsPublished, OnItsWay
  <2> QED BY <2>5, <2>6, <2>7, <2>8, <2>9, <2>10, <2>11, <2>12
<1>5. CASE Deferred(m) /\ r \in DOMAIN pending /\ KindOf[m] = "auto"
  <2>1. /\ deferred' = [deferred EXCEPT ![r] = Append(deferred[r], m)]
        /\ UNCHANGED <<pending, tasks, consumer, waiter, history>>
    BY <1>5 DEF Deferred
  <2> HIDE DEF r
  <2>2. r \in Session /\ deferred[r] \in Seq(Msg) /\ m \notin Elements(deferred[r])
    BY <1>1 DEF r, InDeferred, TypeOK
  <2>3. /\ deferred' \in [Session -> Seq(Msg)] /\ OnceAtMost(deferred'[r])
        /\ Elements(deferred'[r]) = Elements(deferred[r]) \cup {m}
        /\ \A s \in Session : s # r => deferred'[s] = deferred[s]
    BY <2>1, <2>2, Put DEF TypeOK, QueuesOK
  <2>4. \A k \in Msg : InDeferred(k)' <=> InDeferred(k) \/ k = m
    BY <2>2, <2>3, Members DEF InDeferred, r
  <2>5. TypeOK'
    BY <1>1, <2>1, <2>3 DEF TypeOK, tasks, history
  <2>6. QueuesOK'
    BY <1>1, <1>5, <2>1, <2>3 DEF QueuesOK, tasks, r
  <2>7. Apart'
    BY <1>1, <1>2, <2>1, <2>4, Members DEF Apart, InPending, InLeft, tasks
  <2>8. FatesOK'
    <3>1. \A k \in Msg : Placed(k)' <=> Placed(k)
      BY <1>1, <2>1, <2>4 DEF Placed, InPending, InLeft, tasks
    <3> QED BY <2>1, <3>1 DEF FatesOK, tasks, history
  <2>9. LinesOK' /\ CancellationOK'
    BY <2>1 DEF LinesOK, CancellationOK, tasks, history
  <2>10. PendingQueueHasItsTurn'
    BY <2>1 DEF PendingQueueHasItsTurn, tasks
  <2>11. DeferredTurnIsPublished'
    BY <1>1, <1>3, <1>5, <2>1, <2>3 DEF DeferredTurnIsPublished, OnItsWay, tasks, history, r
  <2> QED BY <2>5, <2>6, <2>7, <2>8, <2>9, <2>10, <2>11
<1>6. CASE /\ Injected(m) /\ r \in DOMAIN pending /\ KindOf[m] # "auto"
           /\ Len(pending[r]) < PendingCap
  <2>1. /\ pending' = [pending EXCEPT ![r] = Append(pending[r], m)]
        /\ UNCHANGED <<deferred, tasks, consumer, waiter, history>>
    BY <1>6 DEF Injected
  <2> HIDE DEF r
  <2>2. pending[r] \in Seq(Msg) /\ m \notin Elements(pending[r])
    BY <1>1, <1>6 DEF r, InPending, TypeOK
  <2>3. /\ DOMAIN pending' = DOMAIN pending /\ pending' \in [DOMAIN pending' -> Seq(Msg)]
        /\ OnceAtMost(pending'[r]) /\ Len(pending'[r]) = Len(pending[r]) + 1
        /\ Elements(pending'[r]) = Elements(pending[r]) \cup {m}
        /\ \A s \in DOMAIN pending : s # r => pending'[s] = pending[s]
    BY <1>6, <2>1, <2>2, Put DEF TypeOK, QueuesOK
  <2>4. \A k \in Msg : InPending(k)' <=> InPending(k) \/ k = m
    BY <1>6, <2>2, <2>3, Members DEF InPending, r
  <2>5. Len(pending'[r]) <= PendingCap
    BY <1>6, <2>2, <2>3, LoopConstantsOK, LenProperties
  <2>6. TypeOK'
    BY <1>1, <2>1, <2>3, <2>5 DEF TypeOK, tasks, history
  <2>7. QueuesOK'
    BY <1>1, <1>6, <2>1, <2>3 DEF QueuesOK, tasks, r
  <2>8. Apart'
    BY <1>1, <1>2, <2>1, <2>4, Members DEF Apart, InDeferred, InLeft, tasks
  <2>9. FatesOK'
    <3>1. \A k \in Msg : Placed(k)' <=> Placed(k)
      BY <1>1, <2>1, <2>4 DEF Placed, InDeferred, InLeft, tasks
    <3> QED BY <2>1, <3>1 DEF FatesOK, tasks, history
  <2>10. LinesOK' /\ CancellationOK'
    BY <2>1 DEF LinesOK, CancellationOK, tasks, history
  <2>11. PendingQueueHasItsTurn'
    BY <2>1, <2>3 DEF PendingQueueHasItsTurn, tasks
  <2>12. DeferredTurnIsPublished'
    BY <1>1, <1>6, <2>1 DEF DeferredTurnIsPublished, OnItsWay, tasks, history
  <2> QED BY <2>6, <2>7, <2>8, <2>9, <2>10, <2>11, <2>12
<1>7. CASE Dispatched(m)
  <2>1. /\ task' \in [Msg -> Places] /\ task'[m] = "new"
        /\ \A k \in Msg : k # m => task'[k] = task[k]
        /\ line' = [line EXCEPT ![r] = Append(line[r], m)]
        /\ active' = active \cup {m}
        /\ UNCHANGED <<pending, deferred, left, doomed, awaits, consumer, waiter, history>>
    BY <1>7 DEF Dispatched, TypeOK, Places
  <2>2. r \in Session /\ line[r] \in Seq(Msg)
    BY <1>1 DEF TypeOK
  <2>3. m \notin Elements(line[r])
    BY <1>1, <2>2, Heads DEF Running, Leaving
  <2> HIDE DEF r
  <2>4. /\ Append(line[r], m) \in Seq(Msg) /\ OnceAtMost(Append(line[r], m))
        /\ Elements(Append(line[r], m)) = Elements(line[r]) \cup {m}
        /\ \A i \in DOMAIN Append(line[r], m) :
              \/ i \in DOMAIN line[r] /\ Append(line[r], m)[i] = line[r][i]
              \/ Append(line[r], m)[i] = m
        /\ line[r] # <<>> => Append(line[r], m)[1] = line[r][1]
        /\ line[r] = <<>> => Append(line[r], m)[1] = m
        /\ Append(line[r], m) # <<>> /\ Head(Append(line[r], m)) = Append(line[r], m)[1]
    BY <2>2, <2>3, Put, Get DEF LinesOK
  <2>5. /\ line' \in [Session -> Seq(Msg)] /\ line'[r] = Append(line[r], m)
        /\ \A s \in Session : s # r => line'[s] = line[s]
    BY <2>1, <2>2, <2>4 DEF TypeOK
  <2>6. TypeOK'
    BY <1>1, <2>1, <2>5 DEF TypeOK, history
  <2>7. QueuesOK'
    BY <1>1, <2>1 DEF QueuesOK
  <2>8. Apart'
    BY <1>1, <1>2, <2>1, Members DEF Apart, InDeferred, InPending, InLeft
  <2>9. FatesOK'
    <3>1. \A k \in Msg : Placed(k)' <=> Placed(k)
      BY <1>1, <2>1 DEF Placed, InDeferred, InPending, InLeft, Running
    <3> QED BY <1>1, <2>1, <3>1 DEF FatesOK, history
  <2>10. LinesOK'
    <3>1. \A s \in Session :
              /\ OnceAtMost(line'[s])
              /\ \A i \in DOMAIN line'[s] :
                    /\ SessionOf[line'[s][i]] = s
                    /\ task'[line'[s][i]] \in Running \cup Leaving
                    /\ i > 1 => task'[line'[s][i]] \in {"new", "waiting"}
      <4> TAKE s \in Session
      <4>1. CASE s = r
        BY <4>1, <2>1, <2>2, <2>3, <2>4, <2>5, Members DEF LinesOK, Running, r
      <4>2. CASE s # r
        <5>1. line'[s] = line[s] /\ m \notin Elements(line[s])
          BY <4>2, <2>5, Heads DEF r
        <5> QED BY <5>1, <2>1, Members DEF LinesOK
      <4> QED BY <4>1, <4>2
    <3>2. \A t \in Msg : task'[t] \in Running \cup {"draining"} =>
              t \in Elements(line'[SessionOf[t]])
      BY <2>1, <2>4, <2>5, Members DEF LinesOK, r
    <3>3. \A t \in Msg : left'[t] # <<>> => task'[t] \in Leaving
      BY <1>1, <2>1 DEF LinesOK, Leaving
    <3> QED BY <3>1, <3>2, <3>3 DEF LinesOK
  <2>11. CancellationOK'
    BY <1>1, <2>1, Members DEF CancellationOK, history
  <2>12. PendingQueueHasItsTurn'
    <3> SUFFICES ASSUME NEW s \in Session
                 PROVE  /\ s \in DOMAIN pending =>
                              line'[s] # <<>> /\ task'[Head(line'[s])] \in {"turn", "clearing"}
                        /\ line'[s] # <<>> /\ task'[Head(line'[s])] = "turn" =>
                              s \in DOMAIN pending
      BY <2>1 DEF PendingQueueHasItsTurn
    <3>1. line[s] # <<>> => Head(line[s]) \in Msg /\ Head(line[s]) = line[s][1]
      BY Heads, Members
    <3>2. /\ s \in DOMAIN pending =>
                line[s] # <<>> /\ task[Head(line[s])] \in {"turn", "clearing"}
          /\ line[s] # <<>> /\ task[Head(line[s])] = "turn" => s \in DOMAIN pending
      BY DEF PendingQueueHasItsTurn
    <3>3. line[s] # <<>> => line'[s] # <<>> /\ Head(line'[s]) = Head(line[s])
      BY <2>4, <2>5, <3>1
    <3>4. line[s] = <<>> => line'[s] = <<>> \/ Head(line'[s]) = m
      BY <2>4, <2>5
    <3> QED BY <1>1, <2>1, <3>1, <3>2, <3>3, <3>4
  <2>13. DeferredTurnIsPublished'
    <3> SUFFICES ASSUME NEW s \in Session \ stopped, deferred[s] # <<>>
                 PROVE  \/ \E t \in Elements(line'[s]) : task'[t] # "publishing"
                        \/ \E k \in OnItsWay' : KindOf[k] = "auto" /\ SessionOf[k] = s
      BY <2>1 DEF DeferredTurnIsPublished, history
    <3>1. CASE s = r
      BY <3>1, <2>1, <2>4, <2>5
    <3>2. CASE s # r
      <4>1. line'[s] = line[s] /\ \A t \in Elements(line[s]) : t # m /\ t \in Msg
        BY <3>2, <2>5, Heads DEF r
      <4>2. \A k \in OnItsWay : k # m => k \in OnItsWay'
        BY <1>1, <2>1 DEF OnItsWay
      <4> QED BY <3>2, <4>1, <4>2, <2>1 DEF DeferredTurnIsPublished, r
    <3> QED BY <3>1, <3>2
  <2> QED BY <2>6, <2>7, <2>8, <2>9, <2>10, <2>11, <2>12, <2>13
<1> QED BY <1>1, <1>4, <1>5, <1>6, <1>7

-----------------------------------------------------------------------------
(* Leaving.                                                                 *)

\* What EndTurn, Resume and a delivered cancellation have in common: the task
\* leaves with nothing, with the queue of its turn, or with what it still had.
Departs(t, queue, takes) ==
    LET s == SessionOf[t] IN
    /\ queue \in Seq(Msg) /\ takes \in BOOLEAN /\ Leave(t, queue, takes)
    /\ \/ task[t] = "waiting" /\ queue = <<>> /\ takes /\ pending' = pending
       \/ task[t] \in {"turn", "clearing"} /\ queue = OwnQueue(s) /\ takes /\ pending' = Closed(s)
       \/ /\ task[t] \in Leaving /\ queue = left[t] /\ takes = (task[t] = "draining")
          /\ pending' = pending
    /\ fate' \in [Msg -> Fates]
    /\ \A m \in Msg : m # t => fate'[m] = fate[m]
    /\ IF task[t] \in Leaving THEN fate' = fate ELSE fate'[t] \in {"answered", "cancelled"}
    /\ doomed' = doomed \ {t} /\ waiter' \in [Msg -> {"none", "waiting", "done"}]
    /\ UNCHANGED <<mode, awaits, consumer, sent, stopped>>

(* The messages of a task that leaves are its session's, each is there once *)
(* and nowhere else.                                                        *)
LEMMA OwnMessages ==
    ASSUME LoopInv, NEW t \in Msg, NEW queue, NEW takes, Departs(t, queue, takes),
           NEW s, s = SessionOf[t]
    PROVE  /\ s \in Session /\ queue \in Seq(Msg) /\ takes \in BOOLEAN
           /\ OnceAtMost(inbound) /\ OnceAtMost(queue) /\ OnceAtMost(deferred[s])
           /\ Elements(inbound) \cap Elements(queue) = {}
           /\ Elements(inbound) \cap Elements(deferred[s]) = {}
           /\ Elements(queue) \cap Elements(deferred[s]) = {}
           /\ Elements(left[t]) \subseteq Elements(queue)
           /\ \A m \in Elements(queue) :
                 /\ m \in Msg /\ SessionOf[m] = s /\ task[m] = "none" /\ m # consumer
                 /\ InPending(m) \/ m \in Elements(left[t])
           /\ \A m \in Elements(queue) \cup Elements(deferred[s]) \cup Elements(inbound) :
                 /\ ~InPending(m)' /\ \A u \in Msg : u # t => m \notin Elements(left[u])
           /\ \A m \in Msg : m \notin Elements(queue) => (InPending(m)' <=> InPending(m))
<1> USE DEF LoopInv
<1>1. s \in Session /\ queue \in Seq(Msg) /\ takes \in BOOLEAN /\ Elements(queue) \subseteq Msg
  <2>1. s \in Session /\ queue \in Seq(Msg) /\ takes \in BOOLEAN
    BY LoopConstantsOK DEF Departs
  <2>2. \A i \in DOMAIN queue : queue[i] \in Msg
    BY <2>1, LenProperties, ElementOfSeq
  <2> QED BY <2>1, <2>2 DEF Elements
<1>2. /\ OnceAtMost(inbound) /\ OnceAtMost(deferred[s])
      /\ \A m \in Elements(deferred[s]) : SessionOf[m] = s /\ m \in Msg
      /\ Elements(inbound) \cap Elements(deferred[s]) = {}
  BY <1>1, Members DEF QueuesOK, Apart, InDeferred
<1>3. Elements(<<>>) = {} /\ OnceAtMost(<<>>)
  BY DEF Elements, OnceAtMost
<1>4. /\ OnceAtMost(queue) /\ Elements(left[t]) \subseteq Elements(queue)
      /\ \A m \in Elements(queue) :
            SessionOf[m] = s /\ (InPending(m) \/ m \in Elements(left[t]))
      /\ \A m \in Elements(queue) : ~InPending(m)'
      /\ \A m \in Msg : InPending(m)' => InPending(m)
      /\ \A m \in Msg : m \notin Elements(queue) => (InPending(m)' <=> InPending(m))
      /\ \A m \in Elements(queue) : InPending(m) => task[t] \in {"turn", "clearing"}
  <2>1. CASE task[t] = "waiting" /\ queue = <<>> /\ pending' = pending
    <3>1. left[t] = <<>>
      BY <2>1 DEF LinesOK, Leaving
    <3> QED BY <2>1, <3>1, <1>3 DEF InPending
  <2>2. CASE task[t] \in {"turn", "clearing"} /\ queue = OwnQueue(s) /\ pending' = Closed(s)
    <3>1. left[t] = <<>>
      BY <2>2 DEF LinesOK, Leaving
    <3>2. /\ DOMAIN pending' = DOMAIN pending \ {s}
          /\ \A r \in DOMAIN pending' : pending'[r] = pending[r]
      BY <2>2 DEF Closed
    <3>3. CASE s \in DOMAIN pending
      <4>1. queue = pending[s]
        BY <2>2, <3>3 DEF OwnQueue
      <4>2. \A m \in Elements(queue) : SessionOf[m] = s /\ InPending(m)
        BY <4>1, <3>3 DEF QueuesOK, InPending
      <4>3. \A m \in Msg : InPending(m)' <=> InPending(m) /\ SessionOf[m] # s
        BY <3>2 DEF InPending
      <4>4. \A m \in Msg : InPending(m) /\ SessionOf[m] = s => m \in Elements(queue)
        BY <4>1 DEF InPending
      <4>5. OnceAtMost(queue)
        BY <4>1, <3>3 DEF QueuesOK
      <4> QED BY <1>1, <1>3, <2>2, <3>1, <4>2, <4>3, <4>4, <4>5
    <3>4. CASE s \notin DOMAIN pending
      <4>1. queue = <<>>
        BY <2>2, <3>4 DEF OwnQueue
      <4>2. \A m \in Msg : InPending(m)' <=> InPending(m)
        BY <3>2, <3>4 DEF InPending
      <4> QED BY <4>1, <4>2, <1>3, <3>1
    <3> QED BY <3>3, <3>4
  <2>3. CASE task[t] \in Leaving /\ queue = left[t] /\ pending' = pending
    <3>1. \A m \in Msg : InPending(m)' <=> InPending(m)
      BY <2>3 DEF InPending
    <3>2. \A m \in Elements(queue) : SessionOf[m] = s /\ ~InPending(m)
      BY <1>1, <2>3 DEF QueuesOK, Apart, InLeft
    <3>3. OnceAtMost(queue)
      BY <2>3 DEF QueuesOK
    <3> QED BY <1>1, <2>3, <3>1, <3>2, <3>3
  <2> QED BY <2>1, <2>2, <2>3 DEF Departs
<1>5. \A m \in Elements(queue) :
          /\ m \notin Elements(inbound) /\ ~InDeferred(m) /\ task[m] = "none" /\ m # consumer
          /\ \A u \in Msg : u # t => m \notin Elements(left[u])
  <2> TAKE m \in Elements(queue)
  <2>1. m \in Msg /\ (InPending(m) \/ m \in Elements(left[t]))
    BY <1>1, <1>4
  <2>2. CASE InPending(m)
    BY <2>1, <2>2 DEF Apart, InLeft
  <2>3. CASE m \in Elements(left[t])
    <3>1. InLeft(m)
      BY <2>3 DEF InLeft
    <3> QED BY <2>1, <2>3, <3>1 DEF Apart
  <2> QED BY <2>1, <2>2, <2>3
<1>6. /\ Elements(inbound) \cap Elements(queue) = {}
      /\ Elements(queue) \cap Elements(deferred[s]) = {}
  BY <1>4, <1>5 DEF InDeferred
<1>7. \A m \in Elements(deferred[s]) \cup Elements(inbound) :
          ~InPending(m)' /\ \A u \in Msg : m \notin Elements(left[u])
  BY <1>2, <1>4, Members DEF Apart, InDeferred, InLeft
<1> QED BY <1>1, <1>2, <1>4, <1>5, <1>6, <1>7

(* Leaving moves messages and keeps them apart.                             *)
LEMMA DepartureOfMessages ==
    ASSUME LoopInv, NEW t \in Msg, NEW queue, NEW takes, Departs(t, queue, takes)
    PROVE  TypeOK' /\ QueuesOK' /\ Apart' /\ FatesOK'
<1> USE DEF LoopInv
<1> DEFINE s == SessionOf[t]
           moved == Elements(inbound) \cup Elements(queue) \cup Elements(deferred[s])
<1>0. s = SessionOf[t]
  OBVIOUS
<1> HIDE DEF s
<1>1. /\ s \in Session /\ queue \in Seq(Msg) /\ takes \in BOOLEAN
      /\ OnceAtMost(inbound) /\ OnceAtMost(queue) /\ OnceAtMost(deferred[s])
      /\ Elements(inbound) \cap Elements(queue) = {}
      /\ Elements(inbound) \cap Elements(deferred[s]) = {}
      /\ Elements(queue) \cap Elements(deferred[s]) = {}
      /\ Elements(left[t]) \subseteq Elements(queue)
      /\ \A m \in Elements(queue) :
            /\ m \in Msg /\ SessionOf[m] = s /\ task[m] = "none" /\ m # consumer
            /\ InPending(m) \/ m \in Elements(left[t])
  <2> HIDE DEF LoopInv
  <2> QED BY <1>0, OwnMessages
<1>15. /\ \A m \in moved : ~InPending(m)'
       /\ \A m \in moved : \A u \in Msg : u # t => m \notin Elements(left[u])
       /\ \A m \in Msg : m \notin Elements(queue) => (InPending(m)' <=> InPending(m))
  <2> HIDE DEF LoopInv
  <2> QED BY <1>0, OwnMessages
<1>2. Published(t, s, queue) /\ HandedOver(t, s, queue, takes)
  <2>1. TypeOK /\ Leave(t, queue, takes)
    BY DEF Departs
  <2> HIDE DEF LoopInv, moved
  <2> QED BY <1>0, <1>1, <2>1, LeaveFacts
<1>3. /\ inbound' \in Seq(Msg) /\ Len(inbound') <= Cap
      /\ left' \in [Msg -> Seq(Msg)] /\ \A u \in Msg : u # t => left'[u] = left[u]
      /\ deferred' \in [Session -> Seq(Msg)]
      /\ \A r \in Session : r # s => deferred'[r] = deferred[r]
      /\ OnceAtMost(inbound') /\ OnceAtMost(left'[t]) /\ OnceAtMost(deferred'[s])
      /\ Elements(inbound) \subseteq Elements(inbound')
      /\ Elements(deferred'[s]) \subseteq Elements(deferred[s])
      /\ Elements(inbound') \cup Elements(left'[t]) \cup Elements(deferred'[s]) = moved
      /\ Elements(inbound') \cap Elements(left'[t]) = {}
      /\ Elements(inbound') \cap Elements(deferred'[s]) = {}
      /\ Elements(left'[t]) \cap Elements(deferred'[s]) = {}
  BY <1>2 DEF Published
<1>4. /\ moved \subseteq Msg /\ \A m \in moved : m \notin Elements(inbound) => SessionOf[m] = s
      /\ \A m \in moved : task[m] = "none" /\ m # consumer /\ Placed(m)
  <2>1. \A m \in Elements(inbound) : m \in Msg /\ task[m] = "none" /\ m # consumer /\ Placed(m)
    BY Members DEF Apart, Placed
  <2>2. \A m \in Elements(deferred[s]) : m \in Msg /\ SessionOf[m] = s /\ InDeferred(m)
    BY <1>1, Members DEF QueuesOK, InDeferred
  <2>3. \A m \in Elements(deferred[s]) : task[m] = "none" /\ m # consumer /\ Placed(m)
    BY <2>2 DEF Apart, Placed
  <2>4. \A m \in Elements(queue) : Placed(m)
    BY <1>1 DEF Placed, InLeft
  <2> QED BY <1>1, <2>1, <2>2, <2>3, <2>4
<1>5. /\ task[t] \in {"waiting", "turn", "clearing", "draining", "publishing"}
      /\ fate' \in [Msg -> Fates] /\ \A m \in Msg : m # t => fate'[m] = fate[m]
      /\ IF task[t] \in Leaving THEN fate' = fate ELSE fate'[t] \in {"answered", "cancelled"}
      /\ doomed' = doomed \ {t} /\ waiter' \in [Msg -> {"none", "waiting", "done"}]
      /\ DOMAIN pending' \subseteq DOMAIN pending
      /\ \A r \in DOMAIN pending' : pending'[r] = pending[r]
      /\ pending' \in [DOMAIN pending' -> Seq(Msg)]
      /\ UNCHANGED <<mode, awaits, consumer, sent, stopped>>
  BY DEF Departs, Leaving, Closed, TypeOK
<1>6. t \notin moved
  BY <1>4, <1>5
<1>7. /\ task' \in [Msg -> Places] /\ line' \in [Session -> Seq(Msg)] /\ active' \subseteq Msg
      /\ task'[t] \notin Running \cup {"none"} /\ \A m \in Msg : m # t => task'[m] = task[m]
  <2>1. Without(line[s], t) \in Seq(Msg)
    BY <1>1, Removed DEF LinesOK, TypeOK
  <2>2. PICK p \in {"ended", "draining", "publishing"} :
            /\ task' = [task EXCEPT ![t] = p]
            /\ line' = IF p = "ended" \/ task[t] = "waiting"
                       THEN [line EXCEPT ![s] = Without(line[s], t)] ELSE line
            /\ active' = IF p = "ended" THEN active \ {t} ELSE active
    BY <1>2 DEF HandedOver
  <2> QED BY <1>1, <2>1, <2>2 DEF TypeOK, Places, Running
<1> HIDE DEF moved
<1>8. \A m \in moved : /\ InDeferred(m)' <=> m \in Elements(deferred'[s])
                       /\ InLeft(m)' <=> m \in Elements(left'[t])
  <2> TAKE m \in moved
  <2>1. InLeft(m)' <=> m \in Elements(left'[t])
    BY <1>3, <1>15 DEF InLeft, moved
  <2>2. CASE m \in Elements(inbound)
    <3>1. ~InDeferred(m)
      BY <2>2 DEF Apart
    <3>2. SessionOf[m] \in Session
      BY <1>4, Members
    <3> QED BY <1>3, <2>1, <2>2, <3>1, <3>2, <1>1 DEF InDeferred
  <2>3. CASE m \notin Elements(inbound)
    BY <1>4, <2>1, <2>3 DEF InDeferred
  <2> QED BY <2>2, <2>3
<1>9. \A m \in Msg : m \notin moved =>
          /\ m \notin Elements(inbound') /\ m \notin Elements(inbound)
          /\ InDeferred(m)' <=> InDeferred(m)
          /\ InLeft(m)' <=> InLeft(m)
          /\ InPending(m)' <=> InPending(m)
          /\ m \notin Elements(left'[t]) /\ m \notin Elements(left[t])
  <2>1. \A m \in Msg : m \notin moved =>
            /\ m \notin Elements(inbound') /\ m \notin Elements(inbound)
            /\ m \notin Elements(queue) /\ m \notin Elements(deferred[s])
            /\ m \notin Elements(deferred'[s])
            /\ m \notin Elements(left'[t]) /\ m \notin Elements(left[t])
    BY <1>1, <1>3 DEF moved
  <2>2. \A m \in Msg : m \notin moved => (InDeferred(m)' <=> InDeferred(m))
    BY <1>3, <2>1, Members DEF InDeferred
  <2>3. \A m \in Msg : m \notin moved => (InLeft(m)' <=> InLeft(m))
    BY <1>3, <2>1 DEF InLeft
  <2> QED BY <1>15, <2>1, <2>2, <2>3
<1>10. \A m \in moved : ~InPending(m)' /\ \A u \in Msg : u # t => m \notin Elements(left'[u])
  BY <1>3, <1>15
<1>11. TypeOK'
  BY <1>3, <1>5, <1>7 DEF TypeOK
<1>12. QueuesOK'
  <2>1. \A m \in Elements(left'[t]) : SessionOf[m] = s
    BY <1>3, <1>4 DEF moved
  <2>2. \A r \in Session : /\ OnceAtMost(deferred'[r])
                             /\ \A m \in Elements(deferred'[r]) :
                                   SessionOf[m] = r /\ KindOf[m] = "auto"
    <3> TAKE r \in Session
    <3>1. /\ OnceAtMost(deferred[r])
          /\ \A m \in Elements(deferred[r]) : SessionOf[m] = r /\ KindOf[m] = "auto"
      BY DEF QueuesOK
    <3>2. CASE r = s
      BY <1>3, <3>1, <3>2
    <3>3. CASE r # s
      BY <1>3, <3>1, <3>3
    <3> QED BY <3>2, <3>3
  <2>3. \A u \in Msg : /\ OnceAtMost(left'[u])
                         /\ \A m \in Elements(left'[u]) : SessionOf[m] = SessionOf[u]
    BY <1>0, <1>3, <2>1 DEF QueuesOK
  <2>4. \A r \in DOMAIN pending' :
            /\ OnceAtMost(pending'[r])
            /\ \A m \in Elements(pending'[r]) : SessionOf[m] = r /\ KindOf[m] # "auto"
    BY <1>5 DEF QueuesOK
  <2> QED BY <1>3, <2>2, <2>3, <2>4 DEF QueuesOK
<1>13. Apart'
  <2>1. \A m \in Elements(inbound') : ~InDeferred(m)' /\ ~InPending(m)' /\ ~InLeft(m)'
    BY <1>3, <1>8, <1>10 DEF moved
  <2>2. \A m \in Msg : /\ InDeferred(m)' => ~InPending(m)' /\ ~InLeft(m)'
                       /\ InPending(m)' => ~InLeft(m)'
    BY <1>3, <1>8, <1>9, <1>10 DEF Apart
  <2>3. \A u, v \in Msg : u # v => Elements(left'[u]) \cap Elements(left'[v]) = {}
    <3>1. Elements(left'[t]) \subseteq moved
      BY <1>3 DEF moved
    <3> QED BY <1>3, <1>10, <3>1 DEF Apart
  <2>4. \A m \in moved : task'[m] = "none" /\ m # consumer' /\ m # t
    BY <1>4, <1>5, <1>6, <1>7
  <2>5. \A m \in Msg : task'[m] # "none" \/ m = consumer' =>
            m \notin Elements(inbound') /\ ~InDeferred(m)' /\ ~InPending(m)' /\ ~InLeft(m)'
    <3> TAKE m \in Msg
    <3>1. CASE m \in moved
      BY <2>4, <3>1
    <3>2. CASE m \notin moved
      BY <1>5, <1>7, <1>9, <3>2 DEF Apart
    <3> QED BY <3>1, <3>2
  <2>6. consumer' # NoMsg => task'[consumer'] = "none"
    BY <1>5, <1>7 DEF Apart, TypeOK
  <2> QED BY <2>1, <2>2, <2>3, <2>5, <2>6 DEF Apart
<1>14. FatesOK'
  <2>1. \A m \in moved : Placed(m)'
    BY <1>3, <1>8 DEF Placed, moved
  <2>2. \A m \in Msg : m # t => (Placed(m)' <=> Placed(m))
    <3> TAKE m \in Msg
    <3>1. CASE m \in moved
      BY <1>4, <2>1, <3>1
    <3>2. CASE m \notin moved /\ m # t
      BY <1>5, <1>7, <1>9, <3>2 DEF Placed
    <3> QED BY <3>1, <3>2
  <2>3. t \in Msg /\ t # consumer /\ ~InDeferred(t) /\ ~InPending(t) /\ ~InLeft(t)
    BY <1>5, LoopConstantsOK DEF Apart
  <2>4. ~Placed(t)'
    BY <1>5, <1>6, <1>7, <1>9, <2>3 DEF Placed
  <2>5. t \in sent /\ (task[t] \in Leaving => fate[t] # "none")
    BY <1>5, <1>7, <2>3 DEF FatesOK, Placed, Running, Leaving, Apart
  <2>6. fate'[t] # "none" /\ (KindOf[t] = "auto" => fate'[t] # "injected")
    BY <1>5, <2>5 DEF FatesOK
  <2> QED BY <1>5, <1>7, <2>2, <2>4, <2>5, <2>6 DEF FatesOK
<1> QED BY <1>11, <1>12, <1>13, <1>14

(* Leaving frees the lock, and a deferred turn is not stranded.             *)
LEMMA DepartureOfTasks ==
    ASSUME LoopInv, NEW t \in Msg, NEW queue, NEW takes, Departs(t, queue, takes)
    PROVE  LinesOK' /\ CancellationOK' /\ PendingQueueHasItsTurn' /\ DeferredTurnIsPublished'
<1> DEFINE s == SessionOf[t]
           w == line'[s]
<1>1. s = SessionOf[t] /\ s \in Session
  BY LoopConstantsOK
<1> HIDE DEF s
<1>2. /\ queue \in Seq(Msg) /\ takes \in BOOLEAN
      /\ OnceAtMost(inbound) /\ OnceAtMost(queue) /\ OnceAtMost(deferred[s])
      /\ Elements(inbound) \cap Elements(queue) = {}
      /\ Elements(inbound) \cap Elements(deferred[s]) = {}
      /\ Elements(queue) \cap Elements(deferred[s]) = {}
      /\ Elements(left[t]) \subseteq Elements(queue)
  BY <1>1, OwnMessages
<1>3. Published(t, s, queue) /\ HandedOver(t, s, queue, takes)
  <2>1. TypeOK /\ Leave(t, queue, takes)
    BY DEF Departs, LoopInv
  <2> QED BY <1>1, <1>2, <2>1, LeaveFacts
<1> USE DEF LoopInv
<1>4. PICK p \in {"ended", "draining", "publishing"} :
       /\ task' = [task EXCEPT ![t] = p]
       /\ p = "ended" <=> left'[t] = <<>>
       /\ p = "draining" => takes /\ queue # <<>>
       /\ takes /\ deferred[s] # <<>> /\ p # "draining" =>
             \E m \in Elements(deferred[s]) :
                m \in Elements(inbound') \cup Elements(left'[t])
       /\ line' = IF p = "ended" \/ task[t] = "waiting"
                  THEN [line EXCEPT ![s] = Without(line[s], t)] ELSE line
       /\ active' = IF p = "ended" THEN active \ {t} ELSE active
  BY <1>3 DEF HandedOver
<1>5. /\ task[t] \in {"waiting", "turn", "clearing"} \cup Leaving
      /\ doomed' = doomed \ {t} /\ UNCHANGED <<awaits, consumer, stopped>>
      /\ task[t] = "waiting" => queue = <<>>
      /\ task[t] \in {"turn", "clearing"} => pending' = Closed(s)
      /\ task[t] \notin {"turn", "clearing"} => pending' = pending
      /\ ~takes => task[t] = "publishing"
  BY <1>1 DEF Departs, Leaving
<1>6. task'[t] = p /\ \A u \in Msg : u # t => task'[u] = task[u]
  BY <1>4 DEF TypeOK
<1>7. line[s] \in Seq(Msg) /\ OnceAtMost(line[s])
  BY <1>1 DEF TypeOK, LinesOK
<1>8. \A r \in Session : r # s => line'[r] = line[r] /\ t \notin Elements(line[r])
  BY <1>1, <1>4, Heads DEF TypeOK
<1>9. \/ /\ w = Without(line[s], t) /\ (p = "ended" \/ task[t] = "waiting")
      \/ w = line[s] /\ p # "ended" /\ task[t] # "waiting"
  BY <1>1, <1>4 DEF TypeOK
<1>10. task[t] \in {"turn", "clearing", "draining"} => line[s] # <<>> /\ line[s][1] = t
  BY <1>1, Holder
<1> HIDE DEF w
\* What is left of the line.
<1>11. /\ w \in Seq(Msg) /\ OnceAtMost(w)
       /\ \A u \in Elements(line[s]) : u # t => u \in Elements(w)
       /\ line[s] # <<>> /\ line[s][1] # t => w # <<>> /\ w[1] = line[s][1]
       /\ \A i \in DOMAIN w :
             \/ w[i] = t /\ w = line[s] /\ ~(i > 1)
             \/ /\ w[i] # t /\ w[i] \in Elements(line[s])
                /\ i > 1 \/ line[s][1] = t => task[w[i]] \in {"new", "waiting"}
  <2>1. CASE w = Without(line[s], t)
    <3>1. /\ w \in Seq(Msg) /\ OnceAtMost(w) /\ Elements(w) = Elements(line[s]) \ {t}
          /\ \A i \in DOMAIN w : \E j \in DOMAIN line[s] : w[i] = line[s][j] /\ (i > 1 => j > 1)
          /\ line[s][1] = t =>
                \A i \in DOMAIN w : \E j \in DOMAIN line[s] : w[i] = line[s][j] /\ j > 1
          /\ line[s][1] # t /\ line[s] # <<>> => w # <<>> /\ w[1] = line[s][1]
      BY <1>7, <2>1, Removed
    <3>2. \A i \in DOMAIN w : w[i] \in Elements(w)
      BY DEF Elements
    <3>3. \A j \in DOMAIN line[s] : j > 1 => task[line[s][j]] \in {"new", "waiting"}
      BY <1>1 DEF LinesOK
    <3> QED BY <3>1, <3>2, <3>3
  <2>2. CASE w = line[s] /\ p # "ended" /\ task[t] # "waiting"
    <3>1. \A i \in DOMAIN w : /\ w[i] \in Elements(line[s])
                              /\ i > 1 => task[w[i]] \in {"new", "waiting"}
                              /\ i = 1 \/ i > 1
      BY <1>1, <2>2, Members DEF LinesOK
    <3>2. task[t] \notin {"new", "waiting"}
      BY <1>5, <2>2 DEF Leaving
    <3>3. \A i \in DOMAIN w : i = 1 /\ line[s][1] = t => w[i] = t
      BY <2>2
    <3> QED BY <1>7, <2>2, <3>1, <3>2, <3>3
  <2> QED BY <1>9, <2>1, <2>2
<1>12. /\ \A m \in OnItsWay : m \in OnItsWay'
       /\ \A m \in Elements(inbound') \cup Elements(left'[t]) : m \in OnItsWay'
       /\ deferred'[s] # <<>> => deferred[s] # <<>>
       /\ \A r \in Session : r # s => deferred'[r] = deferred[r]
  <2>1. Elements(queue) \subseteq Elements(inbound') \cup Elements(left'[t])
    BY <1>2, <1>3 DEF Published
  <2> QED BY <1>2, <1>3, <2>1 DEF Published, OnItsWay
<1>13. LinesOK'
  <2>1. \A r \in Session :
            /\ OnceAtMost(line'[r])
            /\ \A i \in DOMAIN line'[r] :
                  /\ SessionOf[line'[r][i]] = r
                  /\ task'[line'[r][i]] \in Running \cup Leaving
                  /\ i > 1 => task'[line'[r][i]] \in {"new", "waiting"}
    <3> TAKE r \in Session
    <3>1. CASE r = s
      <4>1. line'[r] = w /\ OnceAtMost(w)
        BY <1>11, <3>1 DEF w
      <4>2. ASSUME NEW i \in DOMAIN w
            PROVE  /\ SessionOf[w[i]] = s /\ task'[w[i]] \in Running \cup Leaving
                   /\ i > 1 => task'[w[i]] \in {"new", "waiting"}
        <5>1. CASE w[i] = t /\ w = line[s] /\ ~(i > 1)
          <6>1. p # "ended"
            <7>1. t \in Elements(line[s])
              BY <5>1 DEF Elements
            <7>2. CASE w = Without(line[s], t)
              <8>1. Elements(w) = Elements(line[s]) \ {t}
                BY <1>7, <7>2, Removed
              <8> QED BY <5>1, <7>1, <8>1
            <7> QED BY <1>9, <7>2
          <6> QED BY <1>1, <1>4, <1>6, <5>1, <6>1 DEF Leaving
        <5>2. CASE /\ w[i] # t /\ w[i] \in Elements(line[s])
                   /\ i > 1 \/ line[s][1] = t => task[w[i]] \in {"new", "waiting"}
          BY <1>1, <1>6, <5>2, Heads
        <5> QED BY <1>11, <5>1, <5>2
      <4> QED BY <3>1, <4>1, <4>2
    <3>2. CASE r # s
      <4>1. \A i \in DOMAIN line[r] : line[r][i] # t /\ line[r][i] \in Msg
        BY <1>8, <3>2, Members
      <4> QED BY <1>6, <1>8, <3>2, <4>1 DEF LinesOK
    <3> QED BY <3>1, <3>2
  <2>2. \A u \in Msg : task'[u] \in Running \cup {"draining"} => u \in Elements(line'[SessionOf[u]])
    <3> SUFFICES ASSUME NEW u \in Msg, task'[u] \in Running \cup {"draining"}
                 PROVE  u \in Elements(line'[SessionOf[u]])
      OBVIOUS
    <3>1. CASE u = t
      <4>1. p = "draining"
        BY <1>4, <1>6, <3>1 DEF Running
      <4>2. takes /\ queue # <<>>
        BY <1>4, <4>1
      <4>3. task[t] # "waiting"
        BY <1>5, <4>2
      <4>4. task[t] # "publishing"
        BY <4>2 DEF Departs, Leaving
      <4>5. w = line[s] /\ t \in Elements(line[s])
        BY <1>1, <1>5, <1>9, <4>1, <4>3, <4>4 DEF LinesOK, Running, Leaving
      <4> QED BY <1>1, <3>1, <4>5 DEF w
    <3>2. CASE u # t
      <4>1. u \in Elements(line[SessionOf[u]]) /\ SessionOf[u] \in Session
        BY <1>6, <3>2, Members DEF LinesOK
      <4> QED BY <1>8, <1>11, <3>2, <4>1 DEF w
    <3> QED BY <3>1, <3>2
  <2>3. \A u \in Msg : left'[u] # <<>> => task'[u] \in Leaving
    BY <1>3, <1>4, <1>6 DEF Published, LinesOK, Leaving
  <2> QED BY <2>1, <2>2, <2>3 DEF LinesOK
<1>14. CancellationOK'
  <2>1. \A u \in active' \cup doomed' : u \in active \cup doomed /\ u \in Msg
    BY <1>4, <1>5, Members
  <2>2. \A u \in active' \cup doomed' : task'[u] \notin {"none", "ended", "clearing"}
    BY <1>4, <1>5, <1>6, <2>1 DEF CancellationOK
  <2>3. \A u \in Msg : task'[u] \in {"new", "waiting", "turn"} => u \in active' \cup doomed'
    BY <1>4, <1>5, <1>6 DEF CancellationOK
  <2>4. \A u \in doomed' : task'[u] = "turn" => consumer' # NoMsg /\ u \in awaits'[consumer']
    BY <1>5, <1>6, <2>1 DEF CancellationOK
  <2> QED BY <1>4, <1>5, <2>2, <2>3, <2>4 DEF CancellationOK
<1>15. PendingQueueHasItsTurn'
  <2>1. \A r \in DOMAIN pending' : r \in DOMAIN pending
    BY <1>5 DEF Closed
  <2>2. ASSUME NEW r \in Session, r # s
        PROVE  /\ r \in DOMAIN pending' =>
                     line'[r] # <<>> /\ task'[Head(line'[r])] \in {"turn", "clearing"}
               /\ line'[r] # <<>> /\ task'[Head(line'[r])] = "turn" => r \in DOMAIN pending'
    <3>1. r \in DOMAIN pending => r \in DOMAIN pending'
      BY <1>5, <2>2 DEF Closed
    <3>2. line[r] # <<>> => Head(line[r]) # t /\ Head(line[r]) \in Msg
      BY <1>8, <2>2, Heads
    <3> QED BY <1>6, <1>8, <2>1, <2>2, <3>1, <3>2 DEF PendingQueueHasItsTurn
  <2>3. /\ s \in DOMAIN pending' => w # <<>> /\ task'[Head(w)] \in {"turn", "clearing"}
        /\ w # <<>> /\ task'[Head(w)] = "turn" => s \in DOMAIN pending'
    <3>1. /\ s \in DOMAIN pending =>
                line[s] # <<>> /\ task[Head(line[s])] \in {"turn", "clearing"}
          /\ line[s] # <<>> /\ task[Head(line[s])] = "turn" => s \in DOMAIN pending
          /\ line[s] # <<>> => Head(line[s]) = line[s][1] /\ Head(line[s]) \in Msg
      BY <1>1, Heads, Members DEF PendingQueueHasItsTurn
    <3>2. w # <<>> => Head(w) = w[1] /\ 1 \in DOMAIN w
      BY <1>11, Get, LenProperties, EmptySeq
    <3>3. CASE line[s] # <<>> /\ line[s][1] # t
      <4>1. w # <<>> /\ Head(w) = Head(line[s]) /\ task'[Head(w)] = task[Head(line[s])]
        BY <1>6, <1>11, <3>1, <3>2, <3>3
      <4>2. DOMAIN pending' = DOMAIN pending
        BY <1>5, <1>10, <3>3 DEF Leaving
      <4> QED BY <3>1, <3>3, <4>1, <4>2
    <3>4. CASE line[s] = <<>> \/ line[s][1] = t
      <4>1. s \notin DOMAIN pending'
        BY <1>5, <3>1, <3>4 DEF Closed
      <4>2. w # <<>> => task'[w[1]] # "turn"
        <5> SUFFICES ASSUME w # <<>> PROVE task'[w[1]] # "turn"
          OBVIOUS
        <5>1. CASE w[1] = t
          BY <1>4, <1>6, <5>1
        <5>2. CASE w[1] # t /\ w[1] \in Elements(line[s])
          <6>1. line[s][1] = t
            BY <1>1, <3>4, <5>2, Members
          <6>2. task[w[1]] \in {"new", "waiting"} /\ w[1] \in Msg
            BY <1>1, <1>11, <3>2, <5>2, <6>1, Members
          <6> QED BY <1>6, <5>2, <6>2
        <5> QED BY <1>11, <3>2, <5>1, <5>2
      <4> QED BY <3>2, <4>1, <4>2
    <3> QED BY <3>3, <3>4
  <2> QED BY <2>2, <2>3 DEF PendingQueueHasItsTurn, w
<1>16. DeferredTurnIsPublished'
  <2> SUFFICES ASSUME NEW r \in Session \ stopped, deferred'[r] # <<>>
               PROVE  \/ \E u \in Elements(line'[r]) : task'[u] # "publishing"
                      \/ \E m \in OnItsWay' : KindOf[m] = "auto" /\ SessionOf[m] = r
    BY <1>5 DEF DeferredTurnIsPublished
  <2>1. deferred[r] # <<>>
    BY <1>12
  <2>2. \/ \E u \in Elements(line[r]) : task[u] # "publishing"
        \/ \E m \in OnItsWay : KindOf[m] = "auto" /\ SessionOf[m] = r
    BY <2>1 DEF DeferredTurnIsPublished
  <2>3. CASE r # s
    BY <1>6, <1>8, <1>12, <2>2, <2>3, Heads
  <2>4. CASE r = s /\ ~takes
    <3>1. \A u \in Elements(line[s]) : task[u] # "publishing" =>
              u \in Elements(w) /\ task'[u] # "publishing"
      BY <1>1, <1>5, <1>6, <1>11, <2>4, Heads
    <3> QED BY <1>12, <2>2, <2>4, <3>1 DEF w
  <2>5. CASE r = s /\ takes /\ p # "draining"
    <3>1. PICK m \in Elements(deferred[s]) : m \in Elements(inbound') \cup Elements(left'[t])
      BY <1>4, <2>1, <2>5
    <3>2. KindOf[m] = "auto" /\ SessionOf[m] = s
      BY <1>1 DEF QueuesOK
    <3> QED BY <1>12, <2>5, <3>1, <3>2
  <2>6. CASE r = s /\ p = "draining"
    <3>1. task'[t] = "draining"
      BY <1>6, <2>6
    <3>2. t \in Elements(line'[s])
      BY <1>1, <1>13, <3>1 DEF LinesOK
    <3> QED BY <2>6, <3>1, <3>2
  <2> QED BY <1>2, <2>3, <2>4, <2>5, <2>6
<1> QED BY <1>13, <1>14, <1>15, <1>16

(* Leaving keeps the invariant.                                             *)
LEMMA DepartsKeeps ==
    ASSUME LoopInv, NEW t \in Msg, NEW queue, NEW takes, Departs(t, queue, takes)
    PROVE  LoopInv'
BY DepartureOfMessages, DepartureOfTasks DEF LoopInv

(* The finally of _dispatch after the turn.                                 *)
LEMMA EndTurnKeeps ==
    ASSUME LoopInv, NEW t \in Msg, EndTurn(t)
    PROVE  LoopInv'
<1> USE DEF LoopInv
<1>1. OwnQueue(SessionOf[t]) \in Seq(Msg)
  BY DEF OwnQueue, TypeOK
<1>2. PICK queue \in Seq(Msg) : queue = OwnQueue(SessionOf[t])
  BY <1>1
<1>3. /\ fate' \in [Msg -> Fates] /\ fate'[t] = "answered"
      /\ \A m \in Msg : m # t => fate'[m] = fate[m]
  BY DEF EndTurn, Fated, TypeOK, Fates
<1>4. waiter' \in [Msg -> {"none", "waiting", "done"}]
  BY DEF EndTurn, TypeOK
<1>5. /\ Leave(t, queue, TRUE) /\ task[t] \in {"turn", "clearing"} /\ task[t] \notin Leaving
      /\ pending' = Closed(SessionOf[t]) /\ doomed' = doomed \ {t}
      /\ UNCHANGED <<mode, awaits, consumer, sent, stopped>>
  BY <1>2 DEF EndTurn, Leaving
<1>6. Departs(t, queue, TRUE)
  BY <1>2, <1>3, <1>4, <1>5 DEF Departs
<1> QED BY <1>6, DepartsKeeps

(* The finally of _dispatch after a put that waited.                        *)
LEMMA ResumeKeeps ==
    ASSUME LoopInv, NEW t \in Msg, Resume(t)
    PROVE  LoopInv'
<1> USE DEF LoopInv
<1>1. PICK queue \in Seq(Msg) : queue = left[t]
  BY DEF TypeOK
<1>2. PICK takes \in BOOLEAN : takes = (task[t] = "draining")
  OBVIOUS
<1>3. Leave(t, queue, takes) /\ task[t] \in Leaving
  BY <1>1, <1>2 DEF Resume, Leaving
<1>4. Departs(t, queue, takes)
  BY <1>1, <1>2, <1>3 DEF Departs, Resume, history, TypeOK
<1> QED BY <1>4, DepartsKeeps

(* A task is taken out of the line of its session and ends.                 *)
LEMMA Removal ==
    ASSUME LoopInv, NEW t \in Msg, NEW s, s = SessionOf[t],
           task[t] \in {"new", "draining", "publishing"},
           line' = [line EXCEPT ![s] = Without(line[s], t)],
           task' = [task EXCEPT ![t] = "ended"], pending' = pending,
           left'[t] = <<>>, \A u \in Msg : u # t => left'[u] = left[u]
    PROVE  LinesOK' /\ PendingQueueHasItsTurn' /\ line' \in [Session -> Seq(Msg)]
<1> USE DEF LoopInv
<1> DEFINE w == Without(line[s], t)
<1>1. s \in Session /\ line[s] \in Seq(Msg) /\ OnceAtMost(line[s])
  <2>1. s \in Session
    BY LoopConstantsOK
  <2> QED BY <2>1 DEF TypeOK, LinesOK
<1>2. /\ w \in Seq(Msg) /\ Elements(w) = Elements(line[s]) \ {t} /\ OnceAtMost(w)
      /\ \A i \in DOMAIN w : \E j \in DOMAIN line[s] : w[i] = line[s][j] /\ (i > 1 => j > 1)
      /\ line[s][1] = t =>
            \A i \in DOMAIN w : \E j \in DOMAIN line[s] : w[i] = line[s][j] /\ j > 1
      /\ line[s][1] # t /\ line[s] # <<>> => w # <<>> /\ w[1] = line[s][1]
  BY <1>1, Removed
<1> HIDE DEF w
<1>3. /\ line' \in [Session -> Seq(Msg)] /\ line'[s] = w
      /\ \A r \in Session : r # s => line'[r] = line[r] /\ t \notin Elements(line[r])
  BY <1>1, <1>2, Heads DEF TypeOK, w
<1>4. task'[t] = "ended" /\ \A u \in Msg : u # t => task'[u] = task[u]
  BY DEF TypeOK
<1>5. \A i \in DOMAIN w : /\ w[i] \in Elements(line[s]) /\ w[i] # t /\ w[i] \in Msg
                          /\ i > 1 \/ line[s][1] = t => task[w[i]] \in {"new", "waiting"}
  <2>1. \A i \in DOMAIN w : w[i] \in Elements(w)
    BY DEF Elements
  <2>2. \A j \in DOMAIN line[s] : j > 1 => task[line[s][j]] \in {"new", "waiting"}
    BY <1>1 DEF LinesOK
  <2> QED BY <1>1, <1>2, <2>1, <2>2, Heads
<1>6. LinesOK'
  <2>1. \A r \in Session :
            /\ OnceAtMost(line'[r])
            /\ \A i \in DOMAIN line'[r] :
                  /\ SessionOf[line'[r][i]] = r
                  /\ task'[line'[r][i]] \in Running \cup Leaving
                  /\ i > 1 => task'[line'[r][i]] \in {"new", "waiting"}
    <3> TAKE r \in Session
    <3>1. CASE r = s
      <4>1. \A i \in DOMAIN w : /\ SessionOf[w[i]] = s /\ task'[w[i]] \in Running \cup Leaving
                                /\ i > 1 => task'[w[i]] \in {"new", "waiting"}
        BY <1>1, <1>4, <1>5, Heads
      <4> QED BY <1>2, <1>3, <3>1, <4>1
    <3>2. CASE r # s
      <4>1. \A i \in DOMAIN line[r] : line[r][i] # t /\ line[r][i] \in Msg
        BY <1>3, <3>2, Members
      <4> QED BY <1>3, <1>4, <3>2, <4>1 DEF LinesOK
    <3> QED BY <3>1, <3>2
  <2>2. \A u \in Msg : task'[u] \in Running \cup {"draining"} => u \in Elements(line'[SessionOf[u]])
    <3> SUFFICES ASSUME NEW u \in Msg, task'[u] \in Running \cup {"draining"}
                 PROVE  u \in Elements(line'[SessionOf[u]])
      OBVIOUS
    <3>1. u # t /\ u \in Elements(line[SessionOf[u]]) /\ SessionOf[u] \in Session
      BY <1>4, Members DEF LinesOK, Running
    <3> QED BY <1>2, <1>3, <3>1
  <2>3. \A u \in Msg : left'[u] # <<>> => task'[u] \in Leaving
    BY <1>4 DEF LinesOK
  <2> QED BY <2>1, <2>2, <2>3 DEF LinesOK
<1>7. PendingQueueHasItsTurn'
  <2>1. ASSUME NEW r \in Session, r # s
        PROVE  /\ r \in DOMAIN pending =>
                     line'[r] # <<>> /\ task'[Head(line'[r])] \in {"turn", "clearing"}
               /\ line'[r] # <<>> /\ task'[Head(line'[r])] = "turn" => r \in DOMAIN pending
    BY <1>3, <1>4, <2>1, Heads DEF PendingQueueHasItsTurn
  <2>2. /\ s \in DOMAIN pending => w # <<>> /\ task'[Head(w)] \in {"turn", "clearing"}
        /\ w # <<>> /\ task'[Head(w)] = "turn" => s \in DOMAIN pending
    <3>1. /\ s \in DOMAIN pending =>
                line[s] # <<>> /\ task[Head(line[s])] \in {"turn", "clearing"}
          /\ line[s] # <<>> /\ task[Head(line[s])] = "turn" => s \in DOMAIN pending
          /\ line[s] # <<>> => Head(line[s]) = line[s][1] /\ Head(line[s]) \in Msg
      BY <1>1, Heads, Members DEF PendingQueueHasItsTurn
    <3>2. w # <<>> => Head(w) = w[1] /\ 1 \in DOMAIN w
      BY <1>2, Get, LenProperties, EmptySeq
    <3>3. CASE line[s] # <<>> /\ line[s][1] # t
      <4>1. w # <<>> /\ Head(w) = Head(line[s]) /\ task'[Head(w)] = task[Head(line[s])]
        BY <1>2, <1>4, <3>1, <3>2, <3>3
      <4> QED BY <3>1, <3>3, <4>1
    <3>4. CASE line[s] = <<>> \/ line[s][1] = t
      <4>1. s \notin DOMAIN pending
        BY <3>1, <3>4
      <4>2. w # <<>> => task'[w[1]] # "turn"
        <5> SUFFICES ASSUME w # <<>> PROVE task'[w[1]] # "turn"
          OBVIOUS
        <5>1. line[s] # <<>>
          BY <1>1, <1>5, <3>2, Members
        <5> QED BY <1>4, <1>5, <3>2, <3>4, <5>1
      <4> QED BY <3>2, <4>1, <4>2
    <3> QED BY <3>3, <3>4
  <2> QED BY <1>3, <2>1, <2>2 DEF PendingQueueHasItsTurn
<1> QED BY <1>3, <1>6, <1>7

(* A cancellation that is delivered, at each await it may reach.            *)
LEMMA CancelledKeeps ==
    ASSUME LoopInv, NEW t \in Msg, Cancelled(t)
    PROVE  LoopInv'
<1> USE DEF LoopInv
<1> DEFINE s == SessionOf[t]
<1>1. /\ t \in doomed /\ doomed' = doomed \ {t}
      /\ UNCHANGED <<mode, awaits, consumer, sent, stopped>>
  BY DEF Cancelled
<1>2. s \in Session /\ s \in stopped /\ task[t] \in {"new", "waiting", "turn"} \cup Leaving
  BY <1>1, LoopConstantsOK DEF CancellationOK, TypeOK, Places, Leaving
<1>3. CASE task[t] = "new"
  <2>1. /\ task' = [task EXCEPT ![t] = "ended"]
        /\ line' = [line EXCEPT ![s] = Without(line[s], t)]
        /\ fate' = Fated({t}, "cancelled")
        /\ UNCHANGED <<queues, active, left, waiter>>
    BY <1>3 DEF Cancelled
  <2>2. left[t] = <<>>
    BY <1>3 DEF LinesOK, Leaving
  <2>3. LinesOK' /\ PendingQueueHasItsTurn' /\ line' \in [Session -> Seq(Msg)]
    BY <1>3, <2>1, <2>2, Removal DEF queues
  <2>4. /\ fate' \in [Msg -> Fates] /\ fate'[t] = "cancelled"
        /\ \A m \in Msg : m # t => fate'[m] = fate[m]
    BY <2>1 DEF Fated, TypeOK, Fates
  <2>5. /\ task' \in [Msg -> Places] /\ task'[t] = "ended"
        /\ \A m \in Msg : m # t => task'[m] = task[m]
    BY <2>1 DEF TypeOK, Places
  <2>6. TypeOK'
    BY <1>1, <2>1, <2>3, <2>4, <2>5 DEF TypeOK, queues
  <2>7. QueuesOK'
    BY <2>1 DEF QueuesOK, queues
  <2>8. Apart'
    BY <1>1, <1>3, <2>1, <2>5, Members DEF Apart, InDeferred, InPending, InLeft, queues, TypeOK
  <2>9. FatesOK'
    <3>1. \A m \in Msg : m # t => (Placed(m)' <=> Placed(m))
      BY <1>1, <2>1, <2>5 DEF Placed, InDeferred, InPending, InLeft, queues
    <3>2. /\ t \notin Elements(inbound) /\ ~InDeferred(t) /\ ~InPending(t) /\ ~InLeft(t)
          /\ t # consumer
      BY <1>3, LoopConstantsOK DEF Apart
    <3>3. ~Placed(t)'
      BY <1>1, <2>1, <2>5, <3>2 DEF Placed, InDeferred, InPending, InLeft, queues, Running
    <3> QED BY <1>1, <1>3, <2>4, <2>5, <3>1, <3>3 DEF FatesOK
  <2>10. CancellationOK'
    BY <1>1, <2>1, <2>5, Members DEF CancellationOK
  <2>11. DeferredTurnIsPublished'
    <3>1. \A r \in Session \ stopped : line'[r] = line[r]
      BY <1>2, <2>1 DEF TypeOK
    <3>2. \A r \in Session \ stopped : \A u \in Elements(line[r]) : u \in Msg /\ u # t
      BY <1>2, Heads
    <3> QED BY <1>1, <2>1, <2>5, <3>1, <3>2 DEF DeferredTurnIsPublished, OnItsWay, queues
  <2> QED BY <2>3, <2>6, <2>7, <2>8, <2>9, <2>10, <2>11
<1>4. CASE task[t] = "waiting"
  <2>1. PICK queue \in Seq(Msg) : queue = <<>>
    BY EmptySeq
  <2>2. /\ fate' \in [Msg -> Fates] /\ fate'[t] = "cancelled"
        /\ \A m \in Msg : m # t => fate'[m] = fate[m]
    BY <1>4 DEF Cancelled, Fated, TypeOK, Fates
  <2>3. Leave(t, queue, TRUE) /\ pending' = pending /\ waiter' = waiter
    BY <1>4, <2>1 DEF Cancelled
  <2>4. Departs(t, queue, TRUE)
    BY <1>1, <1>4, <2>1, <2>2, <2>3 DEF Departs, Leaving, TypeOK
  <2> QED BY <2>4, DepartsKeeps
<1>5. CASE task[t] = "turn"
  <2>1. OwnQueue(s) \in Seq(Msg)
    BY DEF OwnQueue, TypeOK
  <2>2. PICK queue \in Seq(Msg) : queue = OwnQueue(s)
    BY <2>1
  <2>3. /\ fate' \in [Msg -> Fates] /\ fate'[t] = "cancelled"
        /\ \A m \in Msg : m # t => fate'[m] = fate[m]
    BY <1>5 DEF Cancelled, Fated, TypeOK, Fates
  <2>4. Leave(t, queue, TRUE) /\ pending' = Closed(s)
    BY <1>5, <2>2 DEF Cancelled
  <2>5. waiter' \in [Msg -> {"none", "waiting", "done"}]
    BY <1>5 DEF Cancelled, TypeOK
  <2>6. Departs(t, queue, TRUE)
    BY <1>1, <1>5, <2>2, <2>3, <2>4, <2>5 DEF Departs, Leaving
  <2> QED BY <2>6, DepartsKeeps
<1>6. CASE task[t] \in Leaving
  <2>1. /\ task' = [task EXCEPT ![t] = "ended"]
        /\ line' = [line EXCEPT ![s] = Without(line[s], t)]
        /\ left' = [left EXCEPT ![t] = <<>>]
        /\ fate' = Fated(Elements(left[t]), "lost")
        /\ UNCHANGED <<queues, active, waiter>>
    BY <1>6 DEF Cancelled, Leaving
  <2>2. /\ left' \in [Msg -> Seq(Msg)] /\ left'[t] = <<>>
        /\ \A u \in Msg : u # t => left'[u] = left[u]
    BY <2>1, EmptySeq DEF TypeOK
  <2>3. LinesOK' /\ PendingQueueHasItsTurn' /\ line' \in [Session -> Seq(Msg)]
    BY <1>6, <2>1, <2>2, Removal DEF queues, Leaving
  <2>4. Elements(left'[t]) = {} /\ OnceAtMost(left'[t])
    BY <2>2 DEF Elements, OnceAtMost
  <2>5. /\ fate' \in [Msg -> Fates] /\ \A m \in Elements(left[t]) : m \in Msg /\ fate'[m] = "lost"
        /\ \A m \in Msg : m \notin Elements(left[t]) => fate'[m] = fate[m]
    BY <2>1, Members DEF Fated, TypeOK, Fates
  <2>6. /\ task' \in [Msg -> Places] /\ task'[t] = "ended"
        /\ \A m \in Msg : m # t => task'[m] = task[m]
    BY <2>1 DEF TypeOK, Places
  <2>7. \A m \in Msg : InLeft(m)' <=> InLeft(m) /\ m \notin Elements(left[t])
    BY <2>2, <2>4 DEF InLeft, Apart
  <2>8. TypeOK'
    BY <1>1, <2>1, <2>2, <2>3, <2>5, <2>6 DEF TypeOK, queues
  <2>9. QueuesOK'
    BY <2>1, <2>2, <2>4 DEF QueuesOK, queues
  <2>10. Apart'
    <3>1. \A u, v \in Msg : u # v => Elements(left'[u]) \cap Elements(left'[v]) = {}
      BY <2>2, <2>4 DEF Apart
    <3>2. t \in Msg /\ task[t] # "none"
      BY <1>6 DEF Leaving
    <3>3. \A m \in Msg : task'[m] # "none" => task[m] # "none"
      BY <2>6, <3>2
    <3>4. consumer' # NoMsg => task'[consumer'] = "none"
      BY <1>1, <2>6, <3>2 DEF Apart, TypeOK
    <3>5. \A m \in Msg : (InDeferred(m)' <=> InDeferred(m)) /\ (InPending(m)' <=> InPending(m))
      BY <2>1 DEF InDeferred, InPending, queues
    <3>6. inbound' = inbound /\ Elements(inbound) \subseteq Msg
      BY <2>1, Members DEF queues
    <3> QED BY <1>1, <2>7, <3>1, <3>3, <3>4, <3>5, <3>6 DEF Apart
  <2>11. FatesOK'
    <3>1. \A m \in Elements(left[t]) : InLeft(m)
      BY DEF InLeft
    <3>2. \A m \in Elements(left[t]) :
              /\ Placed(m) /\ m \in Msg /\ task[m] = "none" /\ m # consumer
              /\ m \notin Elements(inbound) /\ ~InDeferred(m) /\ ~InPending(m)
      BY <3>1, Members DEF Placed, Apart
    <3>3. \A m \in Elements(left[t]) : ~Placed(m)' /\ m # t
      BY <1>1, <1>6, <2>1, <2>6, <2>7, <3>2
         DEF Placed, InDeferred, InPending, queues, Running, Leaving
    <3>4. \A m \in Msg : m \notin Elements(left[t]) => (Placed(m)' <=> Placed(m))
      BY <1>1, <1>6, <2>1, <2>6, <2>7 DEF Placed, InDeferred, InPending, queues, Running, Leaving
    <3> QED BY <1>1, <1>6, <2>5, <2>6, <3>2, <3>3, <3>4 DEF FatesOK, Leaving
  <2>12. CancellationOK'
    BY <1>1, <2>1, <2>6, Members DEF CancellationOK
  <2>13. DeferredTurnIsPublished'
    <3>1. \A r \in Session \ stopped : line'[r] = line[r]
      BY <1>2, <2>1 DEF TypeOK
    <3>2. \A r \in Session \ stopped : \A u \in Elements(line[r]) : u \in Msg /\ u # t
      BY <1>2, Heads
    <3>3. \A m \in OnItsWay : SessionOf[m] \notin stopped => m \in OnItsWay'
      BY <1>2, <2>1, <2>2 DEF OnItsWay, QueuesOK, queues
    <3> QED BY <1>1, <2>1, <2>6, <3>1, <3>2, <3>3 DEF DeferredTurnIsPublished, queues
  <2> QED BY <2>3, <2>8, <2>9, <2>10, <2>11, <2>12, <2>13
<1> QED BY <1>2, <1>3, <1>4, <1>5, <1>6

-----------------------------------------------------------------------------
(* The theorems.                                                            *)

(* Every step of the loop keeps the invariant.                              *)
LEMMA StepKeeps ==
    ASSUME LoopInv, [Next]_vars
    PROVE  LoopInv'
<1>1. ASSUME NEW m \in Msg, Publish(m) \/ Announce(m)
      PROVE  LoopInv'
  BY <1>1, PublishKeeps
<1>2. ASSUME NEW m \in Msg, Inject(m)
      PROVE  LoopInv'
  BY <1>2, InjectKeeps
<1>3. ASSUME NEW t \in Msg, TaskStep(t)
      PROVE  LoopInv'
  BY <1>3, StartKeeps, BeginTurnKeeps, ClearKeeps, EndTurnKeeps, ResumeKeeps, CancelledKeeps
     DEF TaskStep
<1>4. CASE Consume
  BY <1>4, ConsumeKeeps
<1>5. CASE CommandEnds
  BY <1>5, CommandEndsKeeps
<1>6. CASE UNCHANGED vars
  <2> USE <1>6 DEF vars, queues, tasks, history
  <2>1. TypeOK' /\ QueuesOK'
    BY DEF LoopInv, TypeOK, QueuesOK
  <2>2. Apart'
    BY DEF LoopInv, Apart, InPending, InDeferred, InLeft
  <2>3. FatesOK'
    BY DEF LoopInv, FatesOK, Placed, InPending, InDeferred, InLeft
  <2>4. LinesOK' /\ CancellationOK'
    BY DEF LoopInv, LinesOK, CancellationOK
  <2>5. PendingQueueHasItsTurn' /\ DeferredTurnIsPublished'
    BY DEF LoopInv, PendingQueueHasItsTurn, DeferredTurnIsPublished, OnItsWay
  <2> QED BY <2>1, <2>2, <2>3, <2>4, <2>5 DEF LoopInv
<1> QED BY <1>1, <1>2, <1>3, <1>4, <1>5, <1>6 DEF Next

(* Every reachable state of the message loop satisfies the invariant.       *)
THEOREM LoopInvariant == Spec => []LoopInv
<1>1. Init => LoopInv
  BY Initially
<1>2. LoopInv /\ [Next]_vars => LoopInv'
  BY StepKeeps
<1> QED BY <1>1, <1>2, PTL DEF Spec

(* The queues of the bus and of the loop keep their bounds and their types. *)
THEOREM LoopTypeCorrect == Spec => []TypeOK
<1>1. LoopInv => TypeOK
  BY DEF LoopInv
<1> QED BY <1>1, LoopInvariant, PTL

(* _pending_queues: a session has a pending queue exactly while the task    *)
(* that holds its lock is in a turn (or clearing one, until a /stop).       *)
THEOREM PendingQueueBelongsToTheTurn == Spec => []PendingQueueHasItsTurn
<1>1. LoopInv => PendingQueueHasItsTurn
  BY DEF LoopInv
<1> QED BY <1>1, LoopInvariant, PTL

(* run(): a message of a schedule is never injected into a live turn.       *)
THEOREM AutomationKeepsItsOwnTurn == Spec => []AutomationIsNotInjected
<1>1. LoopInv => AutomationIsNotInjected
  BY LoopConstantsOK DEF LoopInv, FatesOK, QueuesOK, AutomationIsNotInjected
<1> QED BY <1>1, LoopInvariant, PTL

(* _publish_next_deferred_automation_turn: a turn that was put off has      *)
(* somebody who will publish it, unless its session was stopped.            *)
THEOREM DeferredTurnsArePublished == Spec => []DeferredTurnIsPublished
<1>1. LoopInv => DeferredTurnIsPublished
  BY DEF LoopInv
<1> QED BY <1>1, LoopInvariant, PTL

(* run() and _dispatch: a published message is in exactly one place until   *)
(* its fate is decided, and in none afterwards.                             *)
THEOREM NoMessageIsLostOrDoubled == Spec => []EachMessageIsInOnePlace
<1>1. ASSUME LoopInv
      PROVE  EachMessageIsInOnePlace
  <2> USE <1>1 DEF LoopInv
  <2>1. ASSUME NEW m \in Msg
        PROVE  /\ OwnPlaces(m) \subseteq {"inbound", "deferred", "pending", "held"}
               /\ "inbound" \in OwnPlaces(m) <=> m \in Elements(inbound)
               /\ "deferred" \in OwnPlaces(m) <=> InDeferred(m)
               /\ "pending" \in OwnPlaces(m) <=> InPending(m)
               /\ "held" \in OwnPlaces(m) <=> m = consumer \/ task[m] \in Running
    BY DEF OwnPlaces, InDeferred, InPending, Running
  <2>2. ASSUME NEW m \in Msg
        PROVE  /\ \A x, y \in OwnPlaces(m) : x = y
               /\ \A x \in OwnPlaces(m) : ~InLeft(m)
    <3>1. \A x \in OwnPlaces(m) : x \in {"inbound", "deferred", "pending", "held"}
      BY <2>1
    <3>2. /\ m \in Elements(inbound) => ~InDeferred(m) /\ ~InPending(m) /\ ~InLeft(m)
          /\ InDeferred(m) => ~InPending(m) /\ ~InLeft(m)
          /\ InPending(m) => ~InLeft(m)
          /\ m = consumer \/ task[m] \in Running =>
                m \notin Elements(inbound) /\ ~InDeferred(m) /\ ~InPending(m) /\ ~InLeft(m)
      BY DEF Apart, Running
    <3> QED BY <2>1, <3>1, <3>2
  <2>3. ASSUME NEW m \in Msg
        PROVE  \A t, u \in Msg : m \in Elements(left[t]) /\ m \in Elements(left[u]) => t = u
    BY DEF Apart
  <2>4. ASSUME NEW m \in Msg
        PROVE  /\ PlacesOf(m) = {} <=> ~Placed(m)
               /\ \A p, q \in PlacesOf(m) : p = q
    <3> DEFINE leaving == {t \in Msg : m \in Elements(left[t])}
    <3>1. PlacesOf(m) = {<<p>> : p \in OwnPlaces(m)} \cup {<<"left", t>> : t \in leaving}
      BY DEF PlacesOf
    <3>2. InLeft(m) <=> \E t \in leaving : TRUE
      BY DEF InLeft
    <3>3. Placed(m) <=> InLeft(m) \/ \E x \in OwnPlaces(m) : TRUE
      BY <2>1 DEF Placed
    <3>4. \A t, u \in leaving : t = u
      BY <2>3
    <3>5. (\E x \in OwnPlaces(m) : TRUE) => leaving = {}
      BY <2>2, <3>2
    <3> HIDE DEF leaving
    <3>6. \A p \in PlacesOf(m) : \/ \E x \in OwnPlaces(m) : p = <<x>>
                                \/ \E t \in leaving : p = <<"left", t>>
      BY <3>1
    <3>7. /\ \A x \in OwnPlaces(m) : <<x>> \in PlacesOf(m)
          /\ \A t \in leaving : <<"left", t>> \in PlacesOf(m)
      BY <3>1
    <3>8. PlacesOf(m) = {} <=> ~Placed(m)
      BY <3>2, <3>3, <3>6, <3>7
    <3>9. ASSUME NEW p \in PlacesOf(m), NEW q \in PlacesOf(m)
          PROVE  p = q
      <4>1. CASE leaving = {}
        <5>1. PICK x \in OwnPlaces(m) : p = <<x>>
          BY <3>6, <4>1
        <5>2. PICK y \in OwnPlaces(m) : q = <<y>>
          BY <3>6, <4>1
        <5> QED BY <2>2, <5>1, <5>2
      <4>2. CASE leaving # {}
        <5>1. PICK t \in leaving : p = <<"left", t>>
          BY <3>5, <3>6, <4>2
        <5>2. PICK u \in leaving : q = <<"left", u>>
          BY <3>5, <3>6, <4>2
        <5> QED BY <3>4, <5>1, <5>2
      <4> QED BY <4>1, <4>2
    <3> QED BY <3>8, <3>9
  <2>5. \A m \in sent : m \in Msg /\ (Placed(m) <=> fate[m] = "none")
    BY DEF TypeOK, FatesOK
  <2>6. \A m \in sent : IF fate[m] = "none" THEN \E p \in PlacesOf(m) : PlacesOf(m) = {p}
                        ELSE PlacesOf(m) = {}
    BY <2>4, <2>5
  <2> QED BY <2>6 DEF QueuesOK, EachMessageIsInOnePlace
<1> QED BY <1>1, LoopInvariant, PTL

=============================================================================
