---------------------------- MODULE HistoryProofs ----------------------------
(***************************************************************************)
(* What the history of a conversation keeps, for any number of messages,   *)
(* objects, rounds, crashes and clearings.                                 *)
(*                                                                         *)
(* The first part shows that nothing leaves the file before it is archived: *)
(* HInv says that whoever has the session in hand has what is stored, as   *)
(* long as no object is overtaken, and one lemma per action shows that it  *)
(* stays so.  The second part shows that a history can always be sent      *)
(* again: RInv says it of every object in somebody's hands and of what the *)
(* turn has said and the checkpoint holds, overtaken or not.               *)
(***************************************************************************)
EXTENDS SessionHistory, FiniteSetTheorems, WellFoundedInduction, TLAPS

Role == {"user", "more", "call", "result", "interrupted", "answer", "sorry"}
Working == {"chat", "compact", "consolidated", "model", "tools", "final"}
Said == Seq(Nat \X Role)
SessionFields == {"messages", "cursor", "checkpoint", "pendingUser", "summary"}

\* A stored session whose cursor has passed archived messages only, and whose
\* later ones are all that is still owed.
IsSession(f) ==
    /\ f = [x \in SessionFields |-> f[x]]
    /\ f.messages \in Said /\ f.checkpoint \in Said
    /\ f.cursor \in 0 .. Len(f.messages)
Keeps(f, old, due) ==
    /\ IsSession(f)
    /\ \A i \in 1 .. f.cursor : f.messages[i] \in old
    /\ due \subseteq old \cup Unarchived(f)

\* An archive under way has the messages between the cursor and its end.
Carries(l, f) ==
    /\ l.who \in {"nobody", "turn", "background", "idle"}
    /\ l.who = "nobody" <=> l.obj = NoObj
    /\ l.who # "nobody" =>
          /\ l.obj \in Obj
          /\ l.end \in f.cursor .. Len(f.messages)
          /\ \A i \in f.cursor + 1 .. l.end : f.messages[i] \in l.chunk

IsTurn(t) ==
    /\ t = [x \in {"pc", "obj", "said"} |-> t[x]]
    /\ t.pc \in Working \cup {"idle", "new"}
    /\ IF t.pc \in Working THEN t.obj \in Obj ELSE t.obj = NoObj
    /\ t.said \in Said
    /\ t.pc = "tools" => t.said # <<>>

\* Whoever has a session in hand has what is stored.
Hands == {cached, turn.obj, lock.obj} \ {NoObj}
InStep ==
    /\ object = [o \in Obj |-> object[o]]
    /\ \A o \in Hands : o \in Obj /\ object[o] = file

Current ==
    /\ written \in Nat
    /\ Keeps(file, archived, owed)
    /\ IsTurn(turn) /\ Carries(lock, file)
    /\ lock.who = "turn" => turn.pc = "chat"
    /\ InStep

HInv ==
    /\ overtaken \in BOOLEAN
    /\ queued \subseteq {"background", "idle"}
    /\ overtaken \/ Current

-----------------------------------------------------------------------------
\* What becomes of a session.

\* g has what f has and more, and no message is passed.
Extends(f, g) ==
    /\ IsSession(g) /\ g.cursor = f.cursor
    /\ Len(f.messages) <= Len(g.messages)
    /\ \A i \in 1 .. Len(f.messages) : g.messages[i] = f.messages[i]

(* A session that only grows still owes no more than what it has.           *)
LEMMA GrowthKeeps ==
    ASSUME NEW f, NEW g, NEW old, NEW due, Keeps(f, old, due), Extends(f, g)
    PROVE  Keeps(g, old, due \cup In(g.messages))
<1>1. /\ Len(f.messages) \in Nat /\ Len(g.messages) \in Nat /\ f.cursor \in Nat
      /\ DOMAIN g.messages = 1 .. Len(g.messages)
      /\ f.cursor <= Len(f.messages) /\ g.cursor = f.cursor
  BY DEF Keeps, IsSession, Said, Extends
<1>2. \A i \in 1 .. g.cursor : g.messages[i] \in old
  BY <1>1 DEF Keeps, Extends
<1>3. Unarchived(f) \subseteq Unarchived(g)
  BY <1>1 DEF Extends, Unarchived
<1>4. In(g.messages) \subseteq old \cup Unarchived(g)
  BY <1>1, <1>2 DEF In, Unarchived
<1>. QED BY <1>2, <1>3, <1>4 DEF Keeps, Extends

(* An archive under way still carries what a longer session has before its  *)
(* end.                                                                     *)
LEMMA GrowthCarries ==
    ASSUME NEW f, NEW g, NEW l, IsSession(f), Carries(l, f), Extends(f, g)
    PROVE  Carries(l, g)
<1>1. /\ Len(f.messages) \in Nat /\ Len(g.messages) \in Nat /\ f.cursor \in Nat
      /\ g.cursor = f.cursor
  BY DEF IsSession, Said, Extends
<1>. QED BY <1>1 DEF Carries, Extends

\* The cursor of g is where the archive of l ends.
Passes(f, g, l) ==
    /\ IsSession(g) /\ g.messages = f.messages /\ g.cursor = l.end

(* The cursor passes what was archived, and nothing else (EndRound).        *)
LEMMA PassKeeps ==
    ASSUME NEW f, NEW g, NEW l, NEW old, NEW due, Keeps(f, old, due),
           Carries(l, f), l.who # "nobody", Passes(f, g, l)
    PROVE  Keeps(g, old \cup l.chunk, due \cup In(g.messages))
<1>1. /\ Len(f.messages) \in Nat /\ f.cursor \in Nat /\ l.end \in Nat
      /\ f.cursor <= l.end /\ l.end <= Len(f.messages)
      /\ DOMAIN g.messages = 1 .. Len(f.messages)
      /\ g.cursor = l.end /\ g.messages = f.messages
  BY DEF Keeps, IsSession, Said, Carries, Passes
<1>2. \A i \in 1 .. g.cursor : g.messages[i] \in old \cup l.chunk
  BY <1>1 DEF Keeps, Carries
<1>3. Unarchived(f) \subseteq l.chunk \cup Unarchived(g)
  BY <1>1 DEF Carries, Unarchived
<1>4. In(g.messages) \subseteq old \cup l.chunk \cup Unarchived(g)
  BY <1>1, <1>2 DEF In, Unarchived
<1>. QED BY <1>2, <1>3, <1>4 DEF Keeps, Passes

(* A round takes the next messages up to its end.                           *)
LEMMA RoundCarries ==
    ASSUME NEW who \in {"turn", "background", "idle"}, NEW o \in Obj, NEW f, IsSession(f),
           NEW end \in f.cursor .. Len(f.messages), NEW n, NEW b
    PROVE  Carries(Round(who, o, f, end, n, b), f)
BY HistoryConstantsOK DEF Round, Carries

(* What is written after a history leaves it where it was.                  *)
LEMMA Joined ==
    ASSUME NEW a \in Said, NEW b \in Said
    PROVE  /\ a \o b \in Said /\ Len(a) <= Len(a \o b)
           /\ \A i \in 1 .. Len(a) : (a \o b)[i] = a[i]
BY DEF Said

(* Restoring a checkpoint writes what the history does not end with         *)
(* (_restore_runtime_checkpoint).                                           *)
LEMMA OverlapFits ==
    ASSUME NEW m \in Said, NEW r \in Said
    PROVE  LET k == Overlap(m, r)
           IN  /\ k \in 0 .. Len(r) /\ k <= Len(m)
               /\ SubSeq(m, Len(m) - k + 1, Len(m)) = SubSeq(r, 1, k)
<1> DEFINE n == Len(r)
           ks == {k \in 0 .. Len(r) :
                    /\ k <= Len(m)
                    /\ SubSeq(m, Len(m) - k + 1, Len(m)) = SubSeq(r, 1, k)}
           T == {j \in Nat : n - j \in ks}
<1>1. n \in Nat /\ Len(m) \in Nat
  BY DEF Said
<1>2. 0 \in ks
  <2>1. SubSeq(m, Len(m) + 1, Len(m)) = <<>> /\ SubSeq(r, 1, 0) = <<>>
    BY <1>1 DEF Said
  <2>2. Len(m) - 0 + 1 = Len(m) + 1
    BY <1>1
  <2>. QED BY <1>1, <2>1, <2>2
<1>3. ks \subseteq 0 .. n
  OBVIOUS
<1> HIDE DEF ks, n
<1>4. T # {} /\ T \subseteq Nat
  <2>1. n - n = 0
    BY <1>1
  <2>. QED BY <1>1, <1>2, <2>1
<1>5. PICK j \in T : \A i \in T : ~(<<i, j>> \in OpToRel(<, Nat))
  <2> HIDE DEF T
  <2>. QED BY <1>4, NatLessThanWellFounded, WFMin
<1>6. \E k \in ks : \A i \in ks : i <= k
  <2>1. n - j \in ks /\ j \in Nat
    BY <1>5
  <2>2. ASSUME NEW i \in ks PROVE i <= n - j
    <3>1. i \in Nat /\ i <= n /\ n - i \in Nat /\ n - (n - i) = i
      BY <1>1, <1>3, <2>2
    <3>2. n - i \in T
      BY <2>2, <3>1
    <3>3. ~(n - i < j)
      BY <1>5, <2>1, <3>1, <3>2 DEF OpToRel
    <3>. QED BY <1>1, <2>1, <3>1, <3>3
  <2>. QED BY <2>1, <2>2
<1>7. (CHOOSE k \in ks : \A i \in ks : i <= k) \in ks
  BY <1>6
<1>8. Overlap(m, r) = CHOOSE k \in ks : \A i \in ks : i <= k
  BY DEF Overlap, ks
<1>. QED BY <1>7, <1>8 DEF ks

(* A restored checkpoint is written behind what is there                    *)
(* (_restore_runtime_checkpoint).                                           *)
LEMMA RestoredExtends ==
    ASSUME NEW f, IsSession(f)
    PROVE  Extends(f, Restored(f))
<1> PICK k : k = Overlap(f.messages, f.checkpoint)
  OBVIOUS
<1> PICK rest : rest = SubSeq(f.checkpoint, k + 1, Len(f.checkpoint))
  OBVIOUS
<1> PICK g : g = Restored(f)
  OBVIOUS
<1>1. /\ f.messages \in Said /\ f.checkpoint \in Said
      /\ f.cursor \in 0 .. Len(f.messages) /\ Len(f.messages) \in Nat
      /\ k \in 0 .. Len(f.checkpoint)
  <2>1. f.messages \in Said /\ f.checkpoint \in Said /\ f.cursor \in 0 .. Len(f.messages)
    BY DEF IsSession
  <2>2. k \in 0 .. Len(f.checkpoint)
    BY <2>1, OverlapFits
  <2>. QED BY <2>1, <2>2 DEF Said
<1>2. rest \in Said
  BY <1>1 DEF Said
<1>3. CASE f.checkpoint = <<>>
  <2>1. g = f
    BY <1>3 DEF Restored
  <2>. QED BY <1>1, <2>1 DEF Extends
<1>4. CASE f.checkpoint # <<>>
  <2>1. g = [f EXCEPT !.messages = @ \o rest, !.checkpoint = <<>>, !.pendingUser = FALSE]
    BY <1>4 DEF Restored
  <2>2. /\ g = [x \in {"messages", "cursor", "checkpoint", "pendingUser", "summary"} |-> g[x]]
        /\ g.messages = f.messages \o rest /\ g.checkpoint = <<>> /\ g.cursor = f.cursor
    BY <2>1 DEF IsSession, SessionFields
  <2>3. /\ g.messages \in Said
        /\ Len(f.messages) <= Len(g.messages)
        /\ \A i \in 1 .. Len(f.messages) : g.messages[i] = f.messages[i]
    <3>1. PICK a : a = f.messages
      OBVIOUS
    <3>2. a \in Said /\ g.messages = a \o rest
      BY <1>1, <2>2, <3>1
    <3>3. /\ a \o rest \in Said /\ Len(a) <= Len(a \o rest)
          /\ \A i \in 1 .. Len(a) : (a \o rest)[i] = a[i]
      BY <1>2, <3>2, Joined
    <3>. QED BY <3>1, <3>2, <3>3
  <2>4. <<>> \in Said
    BY DEF Said
  <2>5. g.cursor \in 0 .. Len(g.messages)
    <3>1. Len(f.messages) \in Nat /\ Len(g.messages) \in Nat
      BY <1>1, <2>3 DEF Said
    <3>. QED BY <1>1, <2>2, <2>3, <3>1
  <2>. QED BY <2>2, <2>3, <2>4, <2>5 DEF Extends, IsSession, SessionFields
<1>. QED BY <1>3, <1>4

(* Closing a question that was never answered writes one message at most    *)
(* (_restore_pending_user_turn).                                            *)
LEMMA ConcludedExtends ==
    ASSUME NEW f, IsSession(f)
    PROVE  Extends(f, Concluded(f))
<1> PICK n : n = Len(f.messages)
  OBVIOUS
<1> PICK m : m = IF n > 0 /\ f.messages[n][2] \in {"user", "more"}
                 THEN Append(f.messages, <<f.messages[n][1], "sorry">>) ELSE f.messages
  OBVIOUS
<1> PICK g : g = Concluded(f)
  OBVIOUS
<1>1. /\ f.messages \in Seq(Nat \X Role) /\ f.checkpoint \in Said /\ n \in Nat
      /\ f.cursor \in 0 .. n
  BY DEF IsSession, Said
<1>2. /\ m \in Said /\ n <= Len(m) /\ \A i \in 1 .. n : m[i] = f.messages[i]
  <2>1. CASE n > 0
    <3>1. f.messages[n] \in Nat \X Role
      BY <1>1, <2>1
    <3>2. <<f.messages[n][1], "sorry">> \in Nat \X Role
      BY <3>1 DEF Role
    <3>. QED BY <1>1, <3>2 DEF Said
  <2>2. CASE ~(n > 0)
    BY <1>1, <2>2 DEF Said
  <2>. QED BY <2>1, <2>2
<1>3. CASE ~f.pendingUser
  <2>1. g = f
    BY <1>3 DEF Concluded
  <2>. QED BY <1>1, <2>1 DEF Extends
<1>4. CASE f.pendingUser
  <2>1. g = [f EXCEPT !.pendingUser = FALSE, !.messages = m]
    BY <1>4 DEF Concluded
  <2>2. /\ g = [x \in {"messages", "cursor", "checkpoint", "pendingUser", "summary"} |-> g[x]]
        /\ g.messages = m /\ g.checkpoint = f.checkpoint /\ g.cursor = f.cursor
    BY <2>1 DEF IsSession, SessionFields
  <2>3. g.cursor \in 0 .. Len(g.messages)
    <3>1. Len(m) \in Nat
      BY <1>2 DEF Said
    <3>2. n \in Nat /\ n <= Len(m) /\ f.cursor \in 0 .. n
      BY <1>1, <1>2
    <3>3. g.cursor = f.cursor /\ g.messages = m
      BY <2>2
    <3>. QED BY ONLY <3>1, <3>2, <3>3
  <2>. QED BY <1>1, <1>2, <2>2, <2>3 DEF Extends, IsSession, SessionFields
<1>. QED BY <1>3, <1>4

-----------------------------------------------------------------------------
\* Who holds which object.

(* While nobody is overtaken, one object at most is in somebody's hands.    *)
LEMMA OneInHand ==
    ASSUME Watched, overtaken \in BOOLEAN, ~overtaken'
    PROVE  ~overtaken /\ \A a, b \in Held : a = b
<1>1. ~overtaken /\ ~(Cardinality(Held) > 1)
  BY DEF Watched
<1>2. ASSUME NEW a \in Held, NEW b \in Held, a # b PROVE FALSE
  <2>1. IsFiniteSet(Held)
    <3>1. /\ IsFiniteSet({}) /\ IsFiniteSet({} \cup {cached'})
          /\ IsFiniteSet({} \cup {cached'} \cup {turn'.obj})
          /\ IsFiniteSet({} \cup {cached'} \cup {turn'.obj} \cup {lock'.obj})
      BY FS_EmptySet, FS_AddElement
    <3>2. Held \subseteq {} \cup {cached'} \cup {turn'.obj} \cup {lock'.obj}
      BY DEF Held
    <3>. QED BY <3>1, <3>2, FS_Subset
  <2>2. {a, b} \subseteq Held
    BY <1>2
  <2>3. Cardinality({a, b}) = 2
    <3>1. Cardinality({a}) = 1 /\ IsFiniteSet({a}) /\ b \notin {a}
      BY <1>2, FS_Singleton
    <3>2. Cardinality({a} \cup {b}) = 2
      BY <3>1, FS_AddElement
    <3>3. {a} \cup {b} = {a, b}
      OBVIOUS
    <3>. QED BY <3>2, <3>3
  <2>4. Cardinality({a, b}) <= Cardinality(Held)
    BY <2>1, <2>2, FS_Subset
  <2>5. Cardinality(Held) \in Nat
    BY <2>1, FS_CardinalityType
  <2>. QED BY <1>1, <2>3, <2>4, <2>5
<1>. QED BY <1>1, <1>2

(* A session can be had, and what is got is what is stored (get_or_create). *)
LEMMA GotIsStored ==
    ASSUME Current
    PROVE  /\ Loaded = file
           /\ Spare \in Obj /\ Spare \notin {cached, turn.obj, lock.obj}
           /\ Got \in Obj /\ Got # NoObj /\ Known[Got] = file
           /\ Known = [o \in Obj |-> Known[o]]
           /\ cached # NoObj => Got = cached
<1>1. Loaded = file
  <2>1. file.cursor <= Len(file.messages)
    BY DEF Current, Keeps, IsSession, Said
  <2>. QED BY <2>1 DEF Loaded
<1>2. cached \in Obj \cup {NoObj} /\ turn.obj \in Obj \cup {NoObj} /\ lock.obj \in Obj \cup {NoObj}
  BY DEF Current, InStep, Hands
<1>3. Spare \in Obj /\ Spare \notin {cached, turn.obj, lock.obj}
  <2>1. \E o \in Obj : o \notin {cached, turn.obj, lock.obj}
    BY <1>2, HistoryConstantsOK
  <2>. QED BY <2>1 DEF Spare
<1>4. object = [o \in Obj |-> object[o]]
  BY DEF Current, InStep
<1>5. CASE cached # NoObj
  <2>1. cached \in Obj /\ object[cached] = file
    BY <1>5 DEF Current, InStep, Hands
  <2>. QED BY <1>1, <1>3, <1>4, <1>5, <2>1 DEF Got, Known
<1>6. CASE cached = NoObj
  <2>1. Got = Spare /\ Known = [object EXCEPT ![Spare] = file]
    BY <1>1, <1>6 DEF Got, Known
  <2>. QED BY <1>1, <1>3, <1>4, <1>6, <2>1, HistoryConstantsOK
<1>. QED BY <1>5, <1>6

(* Whoever saves is in step with everybody who has the same object (save).  *)
LEMMA SavedInStep ==
    ASSUME NEW os, NEW o \in Obj, Saved(os, o), \A a, b \in Held : a = b
    PROVE  InStep' /\ file' = os[o]
<1>1. o \in Held /\ Held = Hands'
  BY HistoryConstantsOK DEF Saved, Held, Hands
<1>2. object'[o] = file' /\ object' = [p \in Obj |-> object'[p]]
  BY <1>1 DEF Saved, Objects
<1>3. \A p \in Hands' : p = o
  BY <1>1
<1>. QED BY <1>2, <1>3 DEF InStep, Saved

(* A step that saves nothing leaves everybody in step with the file.        *)
LEMMA UntouchedInStep ==
    ASSUME NEW os, Untouched(os), \A o \in Held : o \in Obj /\ os[o] = file
    PROVE  InStep'
<1>1. Held = Hands' /\ file' = file
  BY DEF Untouched, Held, Hands
<1>2. object' = [p \in Obj |-> object'[p]] /\ \A p \in Held : object'[p] = os[p]
  BY DEF Untouched, Objects
<1>. QED BY <1>1, <1>2 DEF InStep

-----------------------------------------------------------------------------
\* The turn.

(* What grows twice has grown.                                              *)
LEMMA ExtendsTwice ==
    ASSUME NEW f, NEW g, NEW h, IsSession(f), Extends(f, g), Extends(g, h)
    PROVE  Extends(f, h)
<1>1. /\ Len(f.messages) \in Nat /\ Len(g.messages) \in Nat /\ Len(h.messages) \in Nat
  BY DEF IsSession, Said, Extends
<1>. QED BY <1>1 DEF Extends

(* A turn begins with what the last one left put in order (_restore_turn).  *)
LEMMA StartTurnKeeps ==
    ASSUME Current, overtaken \in BOOLEAN, ~overtaken', NEW kind \in {"chat", "compact"},
           StartTurn(kind)
    PROVE  Current'
<1> PICK s : s = Concluded(Restored(Known[Got]))
  OBVIOUS
<1> PICK os : os = [Known EXCEPT ![Got] = s]
  OBVIOUS
<1>1. /\ Got \in Obj /\ Got # NoObj /\ Known[Got] = file
      /\ Known = [o \in Obj |-> Known[o]]
  BY GotIsStored
<1>2. IsSession(file)
  BY DEF Current, Keeps
<1>3. Extends(file, s)
  BY <1>1, <1>2, RestoredExtends, ConcludedExtends, ExtendsTwice DEF Extends
<1>4. /\ \A a, b \in Held : a = b
      /\ turn.pc = "idle" /\ turn' = [NoTurn EXCEPT !.pc = kind, !.obj = Got]
      /\ UNCHANGED <<lock, archived, written>>
      /\ IF s = file THEN cached' = Got /\ Untouched(os) ELSE Saved(os, Got)
  BY <1>1, OneInHand DEF StartTurn
<1>5. os[Got] = s
  BY <1>1
<1>6. IsTurn(turn')
  <2>1. turn'.pc = kind /\ turn'.obj = Got /\ turn'.said = <<>>
    BY <1>4 DEF NoTurn
  <2>2. turn' = [x \in {"pc", "obj", "said"} |-> turn'[x]]
    BY <1>4 DEF NoTurn
  <2>. QED BY <1>1, <2>1, <2>2 DEF IsTurn, Working, Said
<1>7. lock.who # "turn"
  BY <1>4 DEF Current
<1>8. CASE s = file
  <2>1. Got \in Held
    BY <1>1, <1>4, <1>8 DEF Held
  <2>2. InStep'
    BY <1>1, <1>4, <1>5, <1>8, <2>1, UntouchedInStep
  <2>. QED BY <1>4, <1>6, <1>7, <1>8, <2>2 DEF Current, Untouched
<1>9. CASE s # file
  <2>1. InStep' /\ file' = s /\ owed' = owed \cup In(s.messages)
    BY <1>1, <1>4, <1>5, <1>9, SavedInStep DEF Saved
  <2>2. Keeps(file', archived', owed') /\ Carries(lock', file')
    BY <1>2, <1>3, <1>4, <2>1, GrowthKeeps, GrowthCarries DEF Current
  <2>. QED BY <1>4, <1>6, <1>7, <2>1, <2>2 DEF Current
<1>. QED BY <1>8, <1>9

(* A turn writes to the object that is stored, and what it writes only adds *)
(* to it.                                                                   *)
LEMMA WritesKeep ==
    ASSUME Current, overtaken \in BOOLEAN, ~overtaken', NEW s, Extends(file, s),
           NEW pc \in Working \cup {"idle"}, NEW said \in Said, NEW n \in Nat,
           Writes(s, pc, said, n), turn.pc \in Working, lock.who # "turn",
           pc = "tools" => said # <<>>
    PROVE  Current'
<1> PICK os : os = [object EXCEPT ![turn.obj] = s]
  OBVIOUS
<1>1. turn.obj \in Obj /\ os[turn.obj] = s
  BY DEF Current, IsTurn, InStep
<1>2. /\ \A a, b \in Held : a = b
      /\ turn' = IF pc = "idle" THEN NoTurn ELSE [turn EXCEPT !.pc = pc, !.said = said]
      /\ UNCHANGED <<lock, archived>> /\ written' = written + n
      /\ Saved(os, turn.obj)
  BY OneInHand DEF Writes
<1>3. InStep' /\ file' = s /\ owed' = owed \cup In(s.messages)
  BY <1>1, <1>2, SavedInStep DEF Saved
<1>4. Keeps(file', archived', owed') /\ Carries(lock', file')
  BY <1>2, <1>3, GrowthKeeps, GrowthCarries DEF Current, Keeps
<1>5. IsTurn(turn')
  <2>1. CASE pc = "idle"
    <3>1. turn'.pc = "idle" /\ turn'.obj = NoObj /\ turn'.said = <<>>
      BY <1>2, <2>1 DEF NoTurn
    <3>2. turn' = [x \in {"pc", "obj", "said"} |-> turn'[x]]
      BY <1>2, <2>1 DEF NoTurn
    <3>. QED BY <3>1, <3>2 DEF IsTurn, Working, Said
  <2>2. CASE pc # "idle"
    <3>1. /\ turn' = [x \in {"pc", "obj", "said"} |-> turn'[x]]
          /\ turn'.pc = pc /\ turn'.obj = turn.obj /\ turn'.said = said
      BY <1>2, <2>2 DEF Current, IsTurn
    <3>. QED BY <1>1, <2>2, <3>1 DEF IsTurn, Working
  <2>. QED BY <2>1, <2>2
<1>6. written' \in Nat
  BY <1>2 DEF Current
<1>. QED BY <1>2, <1>3, <1>4, <1>5, <1>6 DEF Current

(* A session whose messages alone grow, at their end, has grown.            *)
LEMMA Growth ==
    ASSUME NEW f, IsSession(f), NEW g, g = [x \in SessionFields |-> g[x]],
           g.cursor = f.cursor, g.checkpoint \in Said, g.messages \in Said,
           Len(f.messages) <= Len(g.messages),
           \A i \in 1 .. Len(f.messages) : g.messages[i] = f.messages[i]
    PROVE  Extends(f, g)
<1>1. /\ Len(f.messages) \in Nat /\ Len(g.messages) \in Nat
      /\ f.cursor \in 0 .. Len(f.messages)
  BY DEF IsSession, Said
<1>2. g.cursor \in 0 .. Len(g.messages)
  BY <1>1
<1>. QED BY <1>1, <1>2 DEF Extends, IsSession, SessionFields

(* The message of the user is written early, and not yet answered           *)
(* (_build_turn).                                                           *)
LEMMA BuildTurnKeeps ==
    ASSUME Current, overtaken \in BOOLEAN, ~overtaken', BuildTurn
    PROVE  Current'
<1> PICK m : m = Message("user")
  OBVIOUS
<1> PICK f : f = object[turn.obj]
  OBVIOUS
<1> PICK s : s = [f EXCEPT !.messages = Append(@, m), !.pendingUser = TRUE]
  OBVIOUS
<1>1. /\ turn.pc \in Working /\ lock.who # "turn"
      /\ Writes(s, "model", <<>>, 1)
  BY DEF BuildTurn, Working, Current
<1>2. f = file /\ IsSession(f)
  BY <1>1, HistoryConstantsOK DEF Current, InStep, Hands, IsTurn, Keeps
<1>3. m \in Nat \X Role
  BY DEF Message, Role, Current
<1>4. /\ s = [x \in SessionFields |-> s[x]] /\ s.cursor = f.cursor
      /\ s.checkpoint = f.checkpoint /\ s.messages = Append(f.messages, m)
  BY <1>2 DEF IsSession, SessionFields
<1>5. Extends(file, s)
  <2>1. f.messages \in Seq(Nat \X Role) /\ f.checkpoint \in Said
    BY <1>2 DEF IsSession, Said
  <2>2. /\ s.messages \in Said /\ Len(f.messages) <= Len(s.messages)
        /\ \A i \in 1 .. Len(f.messages) : s.messages[i] = f.messages[i]
    BY <1>3, <1>4, <2>1 DEF Said
  <2>. QED BY <1>2, <1>4, <2>1, <2>2, Growth
<1>6. <<>> \in Said /\ 1 \in Nat /\ "model" \in Working \cup {"idle"}
  BY DEF Said, Working
<1>. QED BY <1>1, <1>5, <1>6, WritesKeep

(* A checkpoint adds no message (the runner's checkpoint callback).         *)
LEMMA CheckpointExtends ==
    ASSUME Current, turn.pc \in Working, NEW said \in Said
    PROVE  Extends(file, Checkpoint(said))
<1> PICK s : s = Checkpoint(said)
  OBVIOUS
<1>1. object[turn.obj] = file /\ IsSession(file)
  BY HistoryConstantsOK DEF Current, InStep, Hands, IsTurn, Keeps
<1>2. /\ s = [x \in SessionFields |-> s[x]] /\ s.cursor = file.cursor
      /\ s.checkpoint = said /\ s.messages = file.messages
  BY <1>1 DEF Checkpoint, IsSession, SessionFields
<1>3. s.messages \in Said /\ Len(file.messages) \in Nat
  BY <1>1, <1>2 DEF IsSession, Said
<1>. QED BY <1>1, <1>2, <1>3, Growth

(* The runner writes checkpoints only (_emit_checkpoint): the messages      *)
(* stay.                                                                    *)
LEMMA RunnerKeeps ==
    ASSUME Current, overtaken \in BOOLEAN, ~overtaken', CallsTools \/ ToolsEnd \/ Answers
    PROVE  Current'
<1>1. /\ turn.pc \in Working /\ lock.who # "turn" /\ turn.said \in Seq(Nat \X Role)
      /\ {1, 0, 2} \subseteq Nat /\ {"tools", "model", "final"} \subseteq Working
      /\ written \in Nat
  BY DEF CallsTools, ToolsEnd, Answers, Working, Current, IsTurn, Said
<1>2. ASSUME NEW point \in Said, NEW said \in Said, NEW n \in {0, 1, 2},
             NEW pc \in {"tools", "model", "final"},
             Writes(Checkpoint(point), pc, said, n), pc = "tools" => said # <<>>
      PROVE  Current'
  <2>1. Extends(file, Checkpoint(point))
    BY <1>1, CheckpointExtends
  <2>. QED BY <1>1, <1>2, <2>1, WritesKeep
<1>3. \A role \in Role : Message(role) \in Nat \X Role
  BY <1>1 DEF Message
<1>4. CASE CallsTools
  <2> PICK call : call = Message("call")
    OBVIOUS
  <2> PICK point : point = <<call, <<call[1], "interrupted">>>>
    OBVIOUS
  <2>1. call \in Nat \X Role /\ <<call[1], "interrupted">> \in Nat \X Role
    BY <1>3 DEF Role
  <2>2. point \in Said
    BY <2>1 DEF Said
  <2>3. Append(turn.said, call) \in Said /\ Append(turn.said, call) # <<>>
    <3>1. PICK said : said = turn.said
      OBVIOUS
    <3>2. said \in Seq(Nat \X Role)
      BY <1>1, <3>1
    <3>3. /\ Append(said, call) \in Seq(Nat \X Role)
          /\ Len(Append(said, call)) = Len(said) + 1 /\ Len(said) \in Nat
      BY <2>1, <3>2
    <3>4. Append(said, call) # <<>>
      <4>1. Len(Append(said, call)) # 0 /\ Len(<<>>) = 0
        BY <3>3
      <4>. QED BY <4>1, Zenon
    <3>5. Append(said, call) \in Said
      BY <3>3 DEF Said
    <3>. QED BY <3>1, <3>4, <3>5
  <2>4. Writes(Checkpoint(point), "tools", Append(turn.said, call), 1)
    BY <1>4 DEF CallsTools
  <2>. QED BY <1>2, <2>2, <2>3, <2>4
<1>5. CASE ToolsEnd
  <2> PICK call : call = turn.said[Len(turn.said)]
    OBVIOUS
  <2> PICK result : result = <<call[1], "result">>
    OBVIOUS
  <2> PICK said : said = Append(turn.said, result)
    OBVIOUS
  <2>1. call \in Nat \X Role
    BY <1>1, <1>5 DEF ToolsEnd, Current, IsTurn
  <2>2. result \in Nat \X Role /\ Message("more") \in Nat \X Role
    BY <1>3, <2>1 DEF Role
  <2>3. /\ <<call, result>> \in Said /\ said \in Said
        /\ Append(said, Message("more")) \in Said
    BY <1>1, <2>1, <2>2 DEF Said
  <2>4. \/ Writes(Checkpoint(<<call, result>>), "model", said, 0)
        \/ Writes(Checkpoint(<<call, result>>), "model", Append(said, Message("more")), 1)
    BY <1>5 DEF ToolsEnd
  <2>. QED BY <1>2, <2>3, <2>4
<1>6. CASE Answers
  <2> PICK answer : answer = Message("answer")
    OBVIOUS
  <2> PICK more : more = <<written + 2, "more">>
    OBVIOUS
  <2>1. answer \in Nat \X Role /\ more \in Nat \X Role
    BY <1>1, <1>3 DEF Role
  <2>2. /\ <<answer>> \in Said /\ Append(turn.said, answer) \in Said
        /\ turn.said \o <<answer, more>> \in Said
    BY <1>1, <2>1 DEF Said
  <2>3. \/ Writes(Checkpoint(<<answer>>), "final", Append(turn.said, answer), 1)
        \/ Writes(Checkpoint(<<answer>>), "model", turn.said \o <<answer, more>>, 2)
    BY <1>6 DEF Answers
  <2>. QED BY <1>2, <2>2, <2>3
<1>. QED BY <1>4, <1>5, <1>6

(* The whole turn is written once, after what it began with (_persist_turn).*)
LEMMA PersistTurnKeeps ==
    ASSUME Current, overtaken \in BOOLEAN, ~overtaken', PersistTurn
    PROVE  Current'
<1> PICK f : f = object[turn.obj]
  OBVIOUS
<1> PICK said : said = turn.said
  OBVIOUS
<1> PICK s : s = [f EXCEPT !.messages = @ \o said, !.checkpoint = <<>>, !.pendingUser = FALSE]
  OBVIOUS
<1>1. /\ turn.pc = "final" /\ turn.pc \in Working /\ lock.who # "turn"
      /\ Writes(s, "idle", <<>>, 0)
  BY DEF PersistTurn, Working, Current
<1>2. f = file /\ IsSession(f) /\ said \in Said
  BY <1>1, HistoryConstantsOK DEF Current, InStep, Hands, IsTurn, Keeps
<1>3. /\ s = [x \in SessionFields |-> s[x]] /\ s.cursor = f.cursor
      /\ s.checkpoint = <<>> /\ s.messages = f.messages \o said
  BY <1>2 DEF IsSession, SessionFields
<1>4. <<>> \in Said /\ 0 \in Nat /\ "idle" \in Working \cup {"idle"}
  BY DEF Said
<1>5. Extends(file, s)
  <2> PICK a : a = f.messages
    OBVIOUS
  <2>1. a \in Said /\ s.messages = a \o said
    BY <1>2, <1>3 DEF IsSession
  <2>2. /\ a \o said \in Said /\ Len(a) <= Len(a \o said)
        /\ \A i \in 1 .. Len(a) : (a \o said)[i] = a[i]
    BY <1>2, <2>1, Joined
  <2>3. /\ s.messages \in Said /\ Len(f.messages) <= Len(s.messages)
        /\ \A i \in 1 .. Len(f.messages) : s.messages[i] = f.messages[i]
    BY <2>1, <2>2
  <2>. QED BY <1>2, <1>3, <1>4, <2>3, Growth
<1>. QED BY <1>1, <1>4, <1>5, WritesKeep

(* A turn that raises or is stopped leaves the session to the next one,     *)
(* with the tool results of its checkpoint if it is stopped                 *)
(* (_cancel_active_tasks, _restore_runtime_checkpoint).                     *)
LEMMA IdleTurn ==
    ASSUME NEW t, NEW pc \in {"idle", "new"}, t = [NoTurn EXCEPT !.pc = pc]
    PROVE  IsTurn(t) /\ t.obj = NoObj /\ t.pc = pc
<1>1. t.pc = pc /\ t.obj = NoObj /\ t.said = <<>>
  BY DEF NoTurn
<1>2. t = [x \in {"pc", "obj", "said"} |-> t[x]]
  BY DEF NoTurn
<1>3. <<>> \in Said /\ pc \notin Working /\ pc # "tools"
  BY DEF Said, Working
<1>. QED BY <1>1, <1>2, <1>3 DEF IsTurn

(* Between turns nobody has an object.                                      *)
LEMMA NoTurnIsIdle == IsTurn(NoTurn) /\ NoTurn.obj = NoObj /\ NoTurn.pc = "idle"
<1>1. NoTurn = [NoTurn EXCEPT !.pc = "idle"]
  BY DEF NoTurn
<1>. QED BY <1>1, IdleTurn

(* A lock nobody holds carries nothing, and so suits every session.         *)
LEMMA FreeLock ==
    ASSUME NEW f
    PROVE  Carries(Unlocked, f) /\ Unlocked.who = "nobody" /\ Unlocked.obj = NoObj
BY DEF Carries, Unlocked

(* A turn that raises writes nothing.                                       *)
LEMMA FailTurnKeeps ==
    ASSUME Current, overtaken \in BOOLEAN, ~overtaken', FailTurn
    PROVE  Current'
<1>1. /\ turn.pc \in {"model", "tools"} /\ turn' = NoTurn
      /\ UNCHANGED <<cached, lock, archived, written, file, owed>>
      /\ Untouched(object) /\ lock.who # "turn"
  BY DEF FailTurn, Untouched, Current
<1>2. \A o \in Held : o \in Hands
  BY <1>1, NoTurnIsIdle DEF Held, Hands
<1>3. InStep'
  BY <1>1, <1>2, UntouchedInStep DEF Current, InStep
<1>. QED BY <1>1, <1>3, NoTurnIsIdle DEF Current

(* A cancelled turn restores its checkpoint, and an archive it waited for   *)
(* is given up (cmd_stop).                                                  *)
LEMMA CancelTurnKeeps ==
    ASSUME Current, overtaken \in BOOLEAN, ~overtaken', NEW byNew \in BOOLEAN,
           CancelTurn(byNew)
    PROVE  Current'
<1> PICK s : s = Restored(Known[Got])
  OBVIOUS
<1> PICK os : os = [Known EXCEPT ![Got] = s]
  OBVIOUS
<1> PICK pc : pc = IF byNew THEN "new" ELSE "idle"
  OBVIOUS
<1>1. /\ Got \in Obj /\ Got # NoObj /\ Known[Got] = file
      /\ Known = [o \in Obj |-> Known[o]]
  BY GotIsStored
<1>2. IsSession(file)
  BY DEF Current, Keeps
<1>3. Extends(file, s)
  BY <1>1, <1>2, RestoredExtends
<1>4. /\ \A a, b \in Held : a = b
      /\ turn' = [NoTurn EXCEPT !.pc = pc]
      /\ lock' = IF lock.who \in {"turn", "compact"} THEN Unlocked ELSE lock
      /\ UNCHANGED <<archived, written>>
      /\ IF file.checkpoint = <<>> THEN cached' = Got /\ Untouched(Known)
                                   ELSE Saved(os, Got)
  BY <1>1, OneInHand DEF CancelTurn
<1>5. os[Got] = s /\ pc \in {"idle", "new"}
  BY <1>1
<1>6. IsTurn(turn')
  BY <1>4, <1>5, IdleTurn
<1>7. /\ lock'.who # "turn" /\ \A f : Carries(lock, f) => Carries(lock', f)
  BY <1>4, FreeLock
<1>8. CASE file.checkpoint = <<>>
  <2>1. Got \in Held
    BY <1>1, <1>4, <1>8 DEF Held
  <2>2. InStep'
    BY <1>1, <1>4, <1>8, <2>1, UntouchedInStep
  <2>. QED BY <1>4, <1>6, <1>7, <1>8, <2>2 DEF Current, Untouched
<1>9. CASE file.checkpoint # <<>>
  <2>1. InStep' /\ file' = s /\ owed' = owed \cup In(s.messages)
    BY <1>1, <1>4, <1>5, <1>9, SavedInStep DEF Saved
  <2>2. Keeps(file', archived', owed') /\ Carries(lock, file')
    BY <1>2, <1>3, <1>4, <2>1, GrowthKeeps, GrowthCarries DEF Current
  <2>. QED BY <1>4, <1>6, <1>7, <2>1, <2>2 DEF Current
<1>. QED BY <1>8, <1>9

-----------------------------------------------------------------------------
\* What empties or forgets a session.

(* /new empties the session while nobody holds it (cmd_new).                *)
LEMMA NewKeeps ==
    ASSUME Current, overtaken \in BOOLEAN, ~overtaken', New
    PROVE  Current'
<1> PICK s : s = IF turn.pc = "new" THEN Known[Got] ELSE Concluded(Restored(Known[Got]))
  OBVIOUS
<1> PICK blank : blank = [s EXCEPT !.messages = <<>>, !.cursor = 0, !.summary = FALSE]
  OBVIOUS
<1>1. /\ ~overtaken /\ lock.who = "nobody" /\ turn.pc \in {"idle", "new"}
      /\ cached' = NoObj /\ turn' = NoTurn /\ lock' = lock
      /\ archived' = archived /\ written' = written
      /\ file' = blank /\ owed' = {}
  BY DEF New
<1>2. IsSession(file) /\ Known[Got] = file
  BY GotIsStored DEF Current, Keeps
<1>3. IsSession(s)
  BY <1>2, RestoredExtends, ConcludedExtends DEF Extends
<1>4. /\ blank = [x \in SessionFields |-> blank[x]]
      /\ blank.messages = <<>> /\ blank.cursor = 0 /\ blank.checkpoint = s.checkpoint
  BY <1>3 DEF IsSession, SessionFields
<1>5. Keeps(blank, archived, {})
  <2>1. <<>> \in Said /\ 0 \in 0 .. Len(<<>>) /\ s.checkpoint \in Said
    BY <1>3 DEF Said, IsSession
  <2>2. IsSession(blank)
    BY <1>4, <2>1 DEF IsSession, SessionFields
  <2>3. \A i \in 1 .. blank.cursor : FALSE
    BY <1>4
  <2>. QED BY <2>2, <2>3 DEF Keeps
<1>6. lock.obj = NoObj /\ \A f : Carries(lock, f)
  BY <1>1 DEF Current, Carries
<1>7. Hands' = {} /\ object' = [o \in Obj |-> object'[o]]
  BY <1>1, <1>6, NoTurnIsIdle DEF New, Objects, Hands
<1>. QED BY <1>1, <1>5, <1>6, <1>7, NoTurnIsIdle DEF Current, InStep

(* An empty session owes nothing.                                           *)
LEMMA NothingKeeps ==
    ASSUME NEW old
    PROVE  Keeps(Empty, old, {})
<1>1. /\ Empty = [x \in SessionFields |-> Empty[x]]
      /\ Empty.messages = <<>> /\ Empty.cursor = 0 /\ Empty.checkpoint = <<>>
  BY DEF Empty, SessionFields
<1>2. <<>> \in Said /\ 0 \in 0 .. Len(<<>>)
  BY DEF Said
<1>. QED BY <1>1, <1>2 DEF Keeps, IsSession, SessionFields

(* A deletion while nobody has the session leaves nothing owed              *)
(* (delete_session).                                                        *)
LEMMA DeleteKeeps ==
    ASSUME Current, overtaken \in BOOLEAN, ~overtaken', Delete
    PROVE  Current'
<1>1. /\ ~overtaken /\ lock.who = "nobody" /\ turn.obj = NoObj
      /\ cached' = NoObj /\ turn' = turn /\ lock' = lock
      /\ archived' = archived /\ written' = written
      /\ file' = Empty /\ owed' = {}
  BY DEF Delete
<1>2. lock.obj = NoObj /\ \A f : Carries(lock, f)
  BY <1>1 DEF Current, Carries
<1>3. Hands' = {} /\ object' = [o \in Obj |-> object'[o]]
  BY <1>1, <1>2 DEF Delete, Objects, Hands
<1>. QED BY <1>1, <1>2, <1>3, NothingKeeps DEF Current, InStep

(* A crash takes the objects, not the file nor history.jsonl.               *)
LEMMA CrashKeeps ==
    ASSUME Current, Crash
    PROVE  Current'
<1>1. /\ cached' = NoObj /\ turn' = NoTurn /\ lock' = Unlocked
      /\ object' = [o \in Obj |-> Empty]
      /\ UNCHANGED <<file, archived, written, owed>>
  BY DEF Crash
<1>2. Hands' = {} /\ object' = [o \in Obj |-> object'[o]]
  BY <1>1, NoTurnIsIdle, FreeLock DEF Hands
<1>. QED BY <1>1, <1>2, NoTurnIsIdle, FreeLock DEF Current, InStep

(* What is archived can only grow (_archive_and_log of /new).               *)
LEMMA ArchiveKeeps ==
    ASSUME Current, ArchiveSnapshot
    PROVE  Current'
<1>1. /\ archived \subseteq archived'
      /\ UNCHANGED <<object, cached, file, turn, lock, written, owed>>
  BY DEF ArchiveSnapshot
<1>. QED BY <1>1 DEF Current, Keeps, InStep, Hands

-----------------------------------------------------------------------------
\* Consolidation.

\* An archive begins or not, on an object that is in the cache then.
Reads(os, o) ==
    /\ cached' = o /\ Untouched(os) /\ o \in Obj /\ os[o] = file
    /\ UNCHANGED <<turn, archived, written>>

(* Whoever reads a session, from the cache or the file, has what is stored. *)
LEMMA ReadKeeps ==
    ASSUME Current, \A a, b \in Held : a = b, NEW os, NEW o, Reads(os, o),
           Carries(lock', file), lock'.who = "turn" => turn.pc = "chat"
    PROVE  Current'
<1>1. o \in Held
  BY HistoryConstantsOK DEF Reads, Held
<1>2. InStep'
  BY <1>1, UntouchedInStep DEF Reads
<1>. QED BY <1>2 DEF Current, Reads, Untouched

(* A round takes the messages up to a boundary, with the object everybody   *)
(* else has (maybe_consolidate_by_tokens).                                  *)
LEMMA BeginRoundKeeps ==
    ASSUME Current, overtaken \in BOOLEAN, ~overtaken', NEW who \in {"turn", "background"},
           "turn" \notin queued, BeginRound(who)
    PROVE  Current'
<1>1. Got \in Obj /\ Known[Got] = file
  BY GotIsStored
<1>2. \A a, b \in Held : a = b
  BY OneInHand DEF BeginRound
<1>3. Reads(Known, Got)
  BY <1>1 DEF BeginRound, Reads
<1>4. /\ IsSession(file)
      /\ \A end \in Boundaries(file) : end \in file.cursor .. Len(file.messages)
  BY DEF Current, Keeps, IsSession, SessionFields, Said, Boundaries
<1>5. PICK end \in Boundaries(file) : lock' = Round(who, Got, file, end, 1, FALSE)
  BY <1>1 DEF BeginRound
<1>6. Carries(lock', file) /\ lock'.who = who
  <2>1. Carries(Round(who, Got, file, end, 1, FALSE), file)
    BY <1>1, <1>4, RoundCarries
  <2>2. Round(who, Got, file, end, 1, FALSE).who = who
    BY DEF Round
  <2>. QED BY <1>5, <2>1, <2>2
<1>7. who = "turn" => turn.pc = "chat"
  BY DEF BeginRound, Waits
<1>. QED BY <1>2, <1>3, <1>6, <1>7, ReadKeeps

(* Nothing changes for a consolidation that finds nothing to do.            *)
LEMMA LooksKeep ==
    ASSUME Current, overtaken \in BOOLEAN, ~overtaken',
           SkipRound \/ ScheduleIdle \/ SkipCompaction
    PROVE  Current'
<1>1. /\ Got \in Obj /\ Known[Got] = file /\ Loaded = file
      /\ Spare \in Obj /\ object = [o \in Obj |-> object[o]]
  BY GotIsStored DEF Current, InStep
<1>2. \A a, b \in Held : a = b
  BY OneInHand DEF SkipRound, ScheduleIdle, SkipCompaction
<1>3. Carries(lock, file) /\ lock' = lock /\ (lock.who = "turn" => turn.pc = "chat")
  BY DEF Current, SkipRound, ScheduleIdle, SkipCompaction
<1>4. CASE SkipRound \/ ScheduleIdle
  <2>1. Reads(Known, Got)
    BY <1>1, <1>4 DEF SkipRound, ScheduleIdle, Reads
  <2>. QED BY <1>2, <1>3, <2>1, ReadKeeps
<1>5. CASE SkipCompaction
  <2> PICK os : os = [object EXCEPT ![Spare] = Loaded]
    OBVIOUS
  <2>1. Reads(os, Spare)
    BY <1>1, <1>5 DEF SkipCompaction, Reads
  <2>. QED BY <1>2, <1>3, <2>1, ReadKeeps
<1>. QED BY <1>4, <1>5

(* An idle compaction reads the session anew; a /compact always does so     *)
(* beside the object its turn holds (compact_idle_session).                 *)
LEMMA BeginCompactionKeeps ==
    ASSUME Current, overtaken \in BOOLEAN, ~overtaken', NEW who \in {"idle", "compact"},
           BeginCompaction(who)
    PROVE  Current'
<1> PICK os : os = [object EXCEPT ![Spare] = Loaded]
  OBVIOUS
<1>1. /\ Spare \in Obj /\ Spare \notin {cached, turn.obj, lock.obj} /\ Loaded = file
      /\ object = [o \in Obj |-> object[o]]
  BY GotIsStored DEF Current, InStep
<1>2. \A a, b \in Held : a = b
  BY OneInHand DEF BeginCompaction
<1>3. Reads(os, Spare)
  BY <1>1 DEF BeginCompaction, Reads
<1>4. who = "idle"
  <2>1. SUFFICES ASSUME turn.pc = "compact" PROVE FALSE
    BY DEF BeginCompaction
  <2>2. turn.obj \in Obj /\ turn' = turn /\ cached' = Spare
    BY <2>1 DEF BeginCompaction, Current, IsTurn, Working
  <2>3. turn.obj \in Held /\ Spare \in Held
    BY <1>1, <2>2, HistoryConstantsOK DEF Held
  <2>. QED BY <1>1, <1>2, <2>3
<1>5. lock' = Round("idle", Spare, file, Len(file.messages), 1, FALSE)
  BY <1>1, <1>4 DEF BeginCompaction
<1>6. Carries(lock', file) /\ lock'.who = "idle"
  <2>1. IsSession(file) /\ Len(file.messages) \in file.cursor .. Len(file.messages)
    BY DEF Current, Keeps, IsSession, Said
  <2>2. Carries(Round("idle", Spare, file, Len(file.messages), 1, FALSE), file)
    BY <1>1, <2>1, RoundCarries
  <2>3. Round("idle", Spare, file, Len(file.messages), 1, FALSE).who = "idle"
    BY DEF Round
  <2>. QED BY <1>5, <2>2, <2>3
<1>. QED BY <1>2, <1>3, <1>6, ReadKeeps

\* The archive ends, and the object it was of passes its messages.
Ends(os, s) ==
    /\ lock.who # "nobody"
    /\ archived' = archived \cup lock.chunk /\ written' = written
    /\ os[lock.obj] = s /\ Passes(file, s, lock) /\ Saved(os, lock.obj)

(* An archive that ends saves what it has passed.                           *)
LEMMA EndKeeps ==
    ASSUME Current, \A a, b \in Held : a = b, NEW os, NEW s, Ends(os, s),
           Carries(lock', s), IsTurn(turn'), lock'.who = "turn" => turn'.pc = "chat"
    PROVE  Current'
<1>1. lock.obj \in Obj
  BY DEF Current, Carries, Ends
<1>2. InStep' /\ file' = s /\ owed' = owed \cup In(s.messages)
  BY <1>1, SavedInStep DEF Ends, Saved
<1>3. Keeps(file', archived', owed')
  BY <1>2, PassKeeps DEF Current, Ends
<1>. QED BY <1>2, <1>3 DEF Current, Ends

\* What the end of an archive writes into a session.
Passed(f, g, end) ==
    /\ g = [x \in SessionFields |-> g[x]] /\ g.messages = f.messages
    /\ g.checkpoint = f.checkpoint /\ g.cursor = end

(* The cursor moves to the end of the archive and no message moves.         *)
LEMMA PassedPasses ==
    ASSUME NEW f, IsSession(f), NEW l, Carries(l, f), l.who # "nobody", NEW g,
           Passed(f, g, l.end)
    PROVE  Passes(f, g, l)
<1>1. /\ f.messages \in Said /\ f.checkpoint \in Said /\ Len(f.messages) \in Nat
      /\ f.cursor \in 0 .. Len(f.messages) /\ l.end \in f.cursor .. Len(f.messages)
  BY DEF IsSession, Said, Carries
<1>2. l.end \in 0 .. Len(f.messages)
  BY <1>1
<1>. QED BY <1>1, <1>2 DEF Passed, Passes, IsSession, SessionFields

(* A round ends, and another may follow it (maybe_consolidate_by_tokens).   *)
LEMMA EndRoundKeeps ==
    ASSUME Current, overtaken \in BOOLEAN, ~overtaken', NEW ok \in BOOLEAN, EndRound(ok)
    PROVE  Current'
<1> PICK s : s = [object[lock.obj] EXCEPT !.cursor = lock.end]
  OBVIOUS
<1> PICK done : done = [s EXCEPT !.summary = @ \/ ok \/ lock.summary]
  OBVIOUS
<1>1. /\ lock.who \in {"turn", "background"} /\ archived' = archived \cup lock.chunk
      /\ written' = written /\ \A a, b \in Held : a = b
  BY OneInHand DEF EndRound
<1>2. /\ lock.obj \in Obj /\ object[lock.obj] = file /\ IsSession(file) /\ Carries(lock, file)
      /\ object = [o \in Obj |-> object[o]]
  BY <1>1, HistoryConstantsOK DEF Current, Carries, InStep, Hands, Keeps
<1>3. Passed(file, s, lock.end)
  BY <1>2 DEF Passed, IsSession, SessionFields
<1>4. Passed(file, done, lock.end)
  BY <1>3 DEF Passed, SessionFields
<1>5. Passes(file, s, lock) /\ Passes(file, done, lock)
  BY <1>1, <1>2, <1>3, <1>4, PassedPasses
<1>6. CASE /\ \E end \in Boundaries(s) :
                  lock' = Round(lock.who, lock.obj, s, end, lock.round + 1, TRUE)
           /\ turn' = turn
           /\ Saved([object EXCEPT ![lock.obj] = s], lock.obj)
  <2> PICK os : os = [object EXCEPT ![lock.obj] = s]
    OBVIOUS
  <2>1. Ends(os, s)
    BY <1>1, <1>2, <1>5, <1>6 DEF Ends
  <2>2. PICK end \in Boundaries(s) :
            lock' = Round(lock.who, lock.obj, s, end, lock.round + 1, TRUE)
    BY <1>6
  <2>3. IsSession(s) /\ end \in s.cursor .. Len(s.messages)
    <3>1. IsSession(s)
      BY <1>5 DEF Passes
    <3>2. s.cursor \in Nat /\ Len(s.messages) \in Nat
      BY <3>1 DEF IsSession, Said
    <3>. QED BY <3>1, <3>2 DEF Boundaries
  <2>4. Carries(Round(lock.who, lock.obj, s, end, lock.round + 1, TRUE), s)
    BY <1>1, <1>2, <2>3, RoundCarries
  <2>5. lock'.who = lock.who
    BY <2>2 DEF Round
  <2>. QED BY <1>1, <1>6, <2>1, <2>2, <2>4, <2>5, EndKeeps DEF Current
<1>7. CASE /\ lock' = Unlocked
           /\ turn' = IF lock.who = "turn" THEN [turn EXCEPT !.pc = "consolidated"] ELSE turn
           /\ Saved([object EXCEPT ![lock.obj] = done], lock.obj)
  <2> PICK os : os = [object EXCEPT ![lock.obj] = done]
    OBVIOUS
  <2>1. Ends(os, done)
    BY <1>1, <1>2, <1>5, <1>7 DEF Ends
  <2>2. IsTurn(turn')
    <3>1. CASE lock.who = "turn"
      <4>1. turn.pc = "chat" /\ IsTurn(turn)
        BY <3>1 DEF Current
      <4>2. /\ turn' = [x \in {"pc", "obj", "said"} |-> turn'[x]]
            /\ turn'.pc = "consolidated" /\ turn'.obj = turn.obj /\ turn'.said = turn.said
        BY <1>7, <3>1, <4>1 DEF IsTurn
      <4>. QED BY <4>1, <4>2 DEF IsTurn, Working
    <3>2. CASE lock.who # "turn"
      BY <1>7, <3>2 DEF Current
    <3>. QED BY <3>1, <3>2
  <2>. QED BY <1>1, <1>7, <2>1, <2>2, FreeLock, EndKeeps
<1>. QED BY <1>6, <1>7 DEF EndRound

(* The captured batch is passed, and no more (compact_idle_session).        *)
LEMMA EndIdleKeeps ==
    ASSUME Current, overtaken \in BOOLEAN, ~overtaken', NEW ok \in BOOLEAN, EndIdle(ok)
    PROVE  Current'
<1> PICK s : s = Compacted(object[lock.obj], ok)
  OBVIOUS
<1> PICK os : os = [object EXCEPT ![lock.obj] = s]
  OBVIOUS
<1>1. /\ lock.who = "idle" /\ archived' = archived \cup lock.chunk /\ lock' = Unlocked
      /\ turn' = turn /\ written' = written /\ \A a, b \in Held : a = b
  BY OneInHand DEF EndIdle
<1>2. /\ lock.obj \in Obj /\ object[lock.obj] = file /\ IsSession(file) /\ Carries(lock, file)
      /\ object = [o \in Obj |-> object[o]]
  BY <1>1, HistoryConstantsOK DEF Current, Carries, InStep, Hands, Keeps
<1>3. s = [file EXCEPT !.cursor = lock.end, !.summary = @ \/ ok]
  BY <1>2 DEF Compacted
<1>4. Passed(file, s, lock.end)
  BY <1>2, <1>3 DEF Passed, IsSession, SessionFields
<1>5. Passes(file, s, lock)
  BY <1>1, <1>2, <1>4, PassedPasses
<1>6. Saved(os, lock.obj)
  BY <1>2 DEF EndIdle
<1>7. Ends(os, s)
  BY <1>1, <1>2, <1>5, <1>6 DEF Ends
<1>. QED BY <1>1, <1>7, FreeLock, EndKeeps DEF Current

-----------------------------------------------------------------------------
\* Nothing is lost.

(* HInv holds at the start.                                                 *)
LEMMA HInitially == HistoryInit => HInv
<1> SUFFICES ASSUME HistoryInit PROVE HInv
  OBVIOUS
<1>1. /\ overtaken = FALSE /\ queued = {} /\ written = 0 /\ archived = {} /\ owed = {}
      /\ file = Empty /\ turn = NoTurn /\ lock = Unlocked /\ cached = NoObj
      /\ object = [o \in Obj |-> object[o]]
  BY DEF HistoryInit
<1>2. Hands = {}
  BY <1>1, NoTurnIsIdle, FreeLock DEF Hands
<1>. QED BY <1>1, <1>2, NothingKeeps, NoTurnIsIdle, FreeLock DEF HInv, Current, InStep

(* Only consolidations of the background and of idle sessions are queued.   *)
LEMMA QueueNames ==
    ASSUME queued \subseteq {"background", "idle"}, HistoryNext
    PROVE  queued' \subseteq {"background", "idle"}
BY DEF HistoryNext, StartTurn, BuildTurn, CallsTools, ToolsEnd, Answers, PersistTurn,
       FailTurn, New, ArchiveSnapshot, Delete, Crash, SkipRound, ScheduleIdle,
       SkipCompaction, BeginRound, BeginCompaction, CancelTurn, EndRound, EndIdle,
       EndCompact

(* What was overtaken once stays so.                                        *)
LEMMA OvertakenStays ==
    ASSUME overtaken \in BOOLEAN, HistoryNext
    PROVE  overtaken' \in BOOLEAN /\ (overtaken => overtaken')
BY DEF HistoryNext, StartTurn, BuildTurn, CallsTools, ToolsEnd, Answers, PersistTurn,
       FailTurn, New, ArchiveSnapshot, Delete, Crash, SkipRound, ScheduleIdle,
       SkipCompaction, BeginRound, BeginCompaction, CancelTurn, EndRound, EndIdle,
       EndCompact, Writes, Watched

(* HInv survives every step.                                                *)
LEMMA HPreserved == HInv /\ [HistoryNext]_svars => HInv'
<1> SUFFICES ASSUME HInv, [HistoryNext]_svars PROVE HInv'
  OBVIOUS
<1>1. CASE UNCHANGED svars
  BY <1>1 DEF svars, HInv, Current, InStep, Hands
<1>2. CASE HistoryNext
  <2>1. queued' \subseteq {"background", "idle"} /\ overtaken' \in BOOLEAN
        /\ (overtaken => overtaken')
    BY <1>2, QueueNames, OvertakenStays DEF HInv
  <2>2. ASSUME ~overtaken' PROVE Current'
    <3>1. Current /\ overtaken \in BOOLEAN /\ "turn" \notin queued
      BY <2>1, <2>2 DEF HInv
    <3>2. ASSUME NEW ok \in BOOLEAN, EndCompact(ok) PROVE FALSE
      BY <3>1, <3>2 DEF EndCompact, Current, Carries
    <3>3. CASE StartTurn("chat") \/ StartTurn("compact") \/ BuildTurn
      BY <2>2, <3>1, <3>3, StartTurnKeeps, BuildTurnKeeps
    <3>4. CASE CallsTools \/ ToolsEnd \/ Answers \/ PersistTurn \/ FailTurn
      BY <2>2, <3>1, <3>4, RunnerKeeps, PersistTurnKeeps, FailTurnKeeps
    <3>5. CASE New \/ ArchiveSnapshot \/ Delete \/ Crash
      BY <2>2, <3>1, <3>5, NewKeeps, ArchiveKeeps, DeleteKeeps, CrashKeeps
    <3>6. CASE SkipRound \/ ScheduleIdle \/ SkipCompaction
      BY <2>2, <3>1, <3>6, LooksKeep
    <3>7. CASE \/ BeginRound("turn") \/ BeginRound("background")
               \/ BeginCompaction("idle") \/ BeginCompaction("compact")
      BY <2>2, <3>1, <3>7, BeginRoundKeeps, BeginCompactionKeeps
    <3>8. CASE \E b \in BOOLEAN : CancelTurn(b) \/ EndRound(b) \/ EndIdle(b) \/ EndCompact(b)
      BY <2>2, <3>1, <3>2, <3>8, CancelTurnKeeps, EndRoundKeeps, EndIdleKeeps
    <3>. QED BY <1>2, <3>3, <3>4, <3>5, <3>6, <3>7, <3>8 DEF HistoryNext
  <2>. QED BY <2>1, <2>2 DEF HInv
<1>. QED BY <1>1, <1>2

(* While no object is used beside another, whoever has the session in hand  *)
(* has what is stored, and the cursor has passed archived messages only     *)
(* (manager.py, memory.py).                                                 *)
THEOREM HistoryInvariant == HistorySpec => []HInv
BY HInitially, HPreserved, PTL DEF HistorySpec

(* Nothing the cursor passes is unwritten, however turns, stops, failures,  *)
(* crashes, archives and /new fall between each other                       *)
(* (memory.py:1532-1534).                                                   *)
THEOREM NothingIsLostUnarchived == HistorySpec => []KeptUntilArchived
<1>1. HInv => KeptUntilArchived
  BY DEF HInv, Current, Keeps, KeptUntilArchived
<1>. QED BY <1>1, HistoryInvariant, PTL

-----------------------------------------------------------------------------
\* A history that can be sent again.

\* n ends what m opens: a call, or a question that was never answered.
Closes(m, n) ==
    /\ m[1] = n[1]
    /\ \/ m[2] = "call" /\ n[2] \in {"result", "interrupted"}
       \/ m[2] \in {"user", "more"} /\ n[2] = "sorry"
\* Messages are in the order they were written in, a closing one with the
\* number of what it closes; every call is closed, and no question follows
\* another.
Sound(h) ==
    /\ h \in Said
    /\ \A i, j \in DOMAIN h : i < j => h[i][1] < h[j][1] \/ (j = i + 1 /\ Closes(h[i], h[j]))
    /\ \A i \in DOMAIN h : h[i][2] = "call" => i + 1 \in DOMAIN h /\ Closes(h[i], h[i + 1])
    /\ \A i \in DOMAIN h : i + 1 \in DOMAIN h => ~(Opens(h[i]) /\ Opens(h[i + 1]))
EndsOpen(h) == h # <<>> /\ Opens(h[Len(h)])
UpTo(h, n) == \A i \in DOMAIN h : h[i][1] <= n
Precedes(h, g) == \A i \in DOMAIN h, j \in DOMAIN g : h[i][1] < g[j][1]
Unopened(h) == \A i \in DOMAIN h : ~Opens(h[i])

\* A session whose messages are sound, and so are they with its checkpoint
\* behind them; only a session with a pending user ends with a question.
Good(s, n) ==
    /\ s = [x \in SessionFields |-> s[x]]
    /\ s.pendingUser \in BOOLEAN
    /\ Sound(s.messages) /\ UpTo(s.messages, n)
    /\ Sound(s.checkpoint) /\ UpTo(s.checkpoint, n)
    /\ Precedes(s.messages, s.checkpoint) /\ Unopened(s.checkpoint)
    /\ EndsOpen(s.messages) => s.pendingUser

\* What a turn finds in its session, and what it has said fits behind it: when
\* its tools run, with any reply to the call it has made.
Ready(t, s, n) ==
    /\ t.pc \in {"chat", "compact", "consolidated"} =>
          s.checkpoint = <<>> /\ ~EndsOpen(s.messages)
    /\ t.pc \in {"model", "tools", "final"} =>
          /\ Unopened(t.said) /\ UpTo(t.said, n) /\ Precedes(s.messages, t.said)
          /\ IF t.pc = "tools"
             THEN /\ t.said # <<>> /\ t.said[Len(t.said)][2] = "call"
                  /\ \A r \in {"result", "interrupted"} :
                        Sound(Append(t.said, <<t.said[Len(t.said)][1], r>>))
             ELSE Sound(t.said)
          /\ t.pc = "final" => t.said # <<>>

\* Who waits for an archive has an object, and the turn waits for its own.
Locked(l, t) ==
    /\ l.who \in {"nobody", "turn", "background", "idle", "compact"}
    /\ IF l.who = "nobody" THEN l.obj = NoObj ELSE l.obj \in Obj
    /\ l.who = "turn" => t.pc = "chat"
    /\ l.who = "compact" => t.pc = "compact"

RInv ==
    /\ written \in Nat
    /\ queued \subseteq {"background", "idle"}
    /\ IsTurn(turn) /\ Locked(lock, turn)
    /\ object = [o \in Obj |-> object[o]]
    /\ Good(file, written)
    /\ \A o \in Hands : o \in Obj /\ Good(object[o], written)
    /\ turn.obj # NoObj => Ready(turn, object[turn.obj], written)

\* The places of two sequences, one after the other.
IsJoin(h, g, x) ==
    /\ x \in Said /\ DOMAIN x = 1 .. Len(h) + Len(g)
    /\ \A i \in DOMAIN h : x[i] = h[i]
    /\ \A i \in DOMAIN x : i \notin DOMAIN h => i - Len(h) \in DOMAIN g /\ x[i] = g[i - Len(h)]

(* Where the messages of two sequences are when one follows the other.      *)
LEMMA JoinPlaces ==
    ASSUME NEW h \in Said, NEW g \in Said
    PROVE  IsJoin(h, g, h \o g)
BY DEF IsJoin, Said

(* A sound part behind a sound part is sound when its messages are later,   *)
(* and it does not ask behind an open question.                             *)
LEMMA SoundJoin ==
    ASSUME NEW h, NEW g, Sound(h), Sound(g), Precedes(h, g), Unopened(g) \/ ~EndsOpen(h)
    PROVE  Sound(h \o g)
<1> PICK x : x = h \o g
  OBVIOUS
<1>1. /\ h \in Said /\ g \in Said /\ Len(h) \in Nat /\ Len(g) \in Nat
      /\ DOMAIN h = 1 .. Len(h) /\ DOMAIN g = 1 .. Len(g)
  BY DEF Sound, Said
<1>2. IsJoin(h, g, x)
  BY <1>1, JoinPlaces
<1>3. ASSUME NEW i \in DOMAIN x, NEW j \in DOMAIN x, i < j
      PROVE  x[i][1] < x[j][1] \/ (j = i + 1 /\ Closes(x[i], x[j]))
  <2>1. CASE i \in DOMAIN h /\ j \in DOMAIN h
    BY <1>2, <1>3, <2>1 DEF Sound, IsJoin
  <2>2. CASE i \in DOMAIN h /\ j \notin DOMAIN h
    BY <1>2, <2>2 DEF Precedes, IsJoin
  <2>3. CASE i \notin DOMAIN h
    <3> PICK a : a = i - Len(h)
      OBVIOUS
    <3> PICK b : b = j - Len(h)
      OBVIOUS
    <3>1. i \in Nat /\ j \in Nat /\ j \notin DOMAIN h
      BY <1>1, <1>2, <1>3, <2>3 DEF IsJoin
    <3>2. a \in DOMAIN g /\ b \in DOMAIN g /\ x[i] = g[a] /\ x[j] = g[b]
      BY <1>2, <2>3, <3>1 DEF IsJoin
    <3>3. a < b /\ (b = a + 1 => j = i + 1)
      BY <1>1, <1>3, <3>1
    <3>. QED BY <3>2, <3>3 DEF Sound
  <2>. QED BY <2>1, <2>2, <2>3
<1>4. ASSUME NEW i \in DOMAIN x, x[i][2] = "call"
      PROVE  i + 1 \in DOMAIN x /\ Closes(x[i], x[i + 1])
  <2>1. CASE i \in DOMAIN h
    <3>1. i + 1 \in DOMAIN h /\ Closes(h[i], h[i + 1])
      BY <1>2, <1>4, <2>1 DEF Sound, IsJoin
    <3>. QED BY <1>1, <1>2, <2>1, <3>1 DEF IsJoin
  <2>2. CASE i \notin DOMAIN h
    <3> PICK a : a = i - Len(h)
      OBVIOUS
    <3>1. i \in Nat /\ a \in DOMAIN g /\ x[i] = g[a]
      BY <1>2, <2>2 DEF IsJoin
    <3>2. a + 1 \in DOMAIN g /\ Closes(g[a], g[a + 1])
      BY <1>4, <3>1 DEF Sound
    <3>3. /\ i + 1 \in DOMAIN x /\ i + 1 \notin DOMAIN h /\ (i + 1) - Len(h) = a + 1
      BY <1>1, <1>2, <2>2, <3>1, <3>2 DEF IsJoin
    <3>4. x[i + 1] = g[a + 1]
      BY <1>2, <3>3 DEF IsJoin
    <3>. QED BY <3>1, <3>2, <3>3, <3>4
  <2>. QED BY <2>1, <2>2
<1>5. ASSUME NEW i \in DOMAIN x, i + 1 \in DOMAIN x, Opens(x[i]), Opens(x[i + 1])
      PROVE  FALSE
  <2>1. CASE i + 1 \in DOMAIN h
    <3>1. i \in DOMAIN h
      BY <1>1, <1>2, <2>1 DEF IsJoin
    <3>. QED BY <1>2, <1>5, <2>1, <3>1 DEF Sound, IsJoin
  <2>2. CASE i + 1 \notin DOMAIN h /\ i \in DOMAIN h
    <3>1. i = Len(h) /\ h # <<>> /\ x[i] = h[i]
      BY <1>1, <1>2, <2>2 DEF IsJoin
    <3>2. EndsOpen(h)
      BY <1>5, <3>1 DEF EndsOpen
    <3>3. x[i + 1] = g[(i + 1) - Len(h)] /\ (i + 1) - Len(h) \in DOMAIN g
      BY <1>2, <1>5, <2>2 DEF IsJoin
    <3>. QED BY <1>5, <3>2, <3>3 DEF Unopened
  <2>3. CASE i \notin DOMAIN h
    <3> PICK a : a = i - Len(h)
      OBVIOUS
    <3>1. i \in Nat /\ i + 1 \notin DOMAIN h /\ (i + 1) - Len(h) = a + 1
      BY <1>1, <1>2, <2>3 DEF IsJoin
    <3>2. a \in DOMAIN g /\ a + 1 \in DOMAIN g /\ x[i] = g[a] /\ x[i + 1] = g[a + 1]
      BY <1>2, <1>5, <2>3, <3>1 DEF IsJoin
    <3>. QED BY <1>5, <3>2 DEF Sound
  <2>. QED BY <2>1, <2>2, <2>3
<1>. QED BY <1>2, <1>3, <1>4, <1>5 DEF Sound, IsJoin

(* What holds of two parts holds of one behind the other.                   *)
LEMMA JoinBounds ==
    ASSUME NEW h \in Said, NEW g \in Said
    PROVE  /\ \A n : UpTo(h, n) /\ UpTo(g, n) => UpTo(h \o g, n)
           /\ \A a : Precedes(a, h) /\ Precedes(a, g) => Precedes(a, h \o g)
           /\ Unopened(h) /\ Unopened(g) => Unopened(h \o g)
           /\ g # <<>> => (EndsOpen(h \o g) <=> EndsOpen(g))
           /\ g # <<>> => h \o g # <<>>
<1> PICK x : x = h \o g
  OBVIOUS
<1>1. /\ Len(h) \in Nat /\ Len(g) \in Nat
      /\ DOMAIN h = 1 .. Len(h) /\ DOMAIN g = 1 .. Len(g)
  BY DEF Said
<1>2. IsJoin(h, g, x)
  BY JoinPlaces
<1>3. \A n : UpTo(h, n) /\ UpTo(g, n) => UpTo(x, n)
  BY <1>2 DEF UpTo, IsJoin
<1>4. \A a : Precedes(a, h) /\ Precedes(a, g) => Precedes(a, x)
  BY <1>2 DEF Precedes, IsJoin
<1>5. Unopened(h) /\ Unopened(g) => Unopened(x)
  BY <1>2 DEF Unopened, IsJoin
<1>6. ASSUME g # <<>>
      PROVE  x # <<>> /\ (EndsOpen(x) <=> EndsOpen(g))
  <2>1. Len(g) > 0
    BY <1>1, <1>6 DEF Said
  <2>2. Len(x) = Len(h) + Len(g)
    BY <1>1, <1>2 DEF IsJoin, Said
  <2>3. Len(x) \in DOMAIN x /\ Len(x) \notin DOMAIN h /\ Len(x) - Len(h) = Len(g)
    BY <1>1, <1>2, <2>1, <2>2 DEF IsJoin
  <2>4. x[Len(x)] = g[Len(g)]
    BY <1>2, <2>3 DEF IsJoin
  <2>5. x # <<>>
    BY <2>3
  <2>. QED BY <1>6, <2>4, <2>5 DEF EndsOpen
<1>. QED BY <1>3, <1>4, <1>5, <1>6

(* An empty part is sound, before and behind everything.                    *)
LEMMA NoMessages ==
    /\ Sound(<<>>) /\ Unopened(<<>>) /\ ~EndsOpen(<<>>)
    /\ \A n : UpTo(<<>>, n)
    /\ \A h : Precedes(h, <<>>) /\ Precedes(<<>>, h)
BY DEF Sound, Said, Unopened, EndsOpen, UpTo, Precedes

(* One message that is no call is sound.                                    *)
LEMMA OneMessage ==
    ASSUME NEW m \in Nat \X Role, m[2] # "call"
    PROVE  /\ Sound(<<m>>) /\ (EndsOpen(<<m>>) <=> Opens(m))
           /\ Unopened(<<m>>) <=> ~Opens(m)
           /\ \A n : UpTo(<<m>>, n) <=> m[1] <= n
           /\ \A h : Precedes(h, <<m>>) <=> \A i \in DOMAIN h : h[i][1] < m[1]
<1>1. <<m>> \in Seq(Nat \X Role) /\ DOMAIN <<m>> = {1} /\ <<m>>[1] = m /\ Len(<<m>>) = 1
  OBVIOUS
<1>2. Sound(<<m>>)
  BY <1>1 DEF Sound, Said
<1>3. EndsOpen(<<m>>) <=> Opens(m)
  BY <1>1 DEF EndsOpen
<1>. QED BY <1>1, <1>2, <1>3 DEF Unopened, UpTo, Precedes

(* A call and its result, or the note that it was interrupted, are sound.   *)
LEMMA CallAndReply ==
    ASSUME NEW n \in Nat, NEW r \in {"result", "interrupted"}
    PROVE  LET p == <<<<n, "call">>, <<n, r>>>>
           IN  /\ Sound(p) /\ Unopened(p)
               /\ \A k : UpTo(p, k) <=> n <= k
               /\ \A h : Precedes(h, p) <=> \A i \in DOMAIN h : h[i][1] < n
<1> PICK a : a = <<n, "call">>
  OBVIOUS
<1> PICK b : b = <<n, r>>
  OBVIOUS
<1> PICK p : p = <<a, b>>
  OBVIOUS
<1>1. a \in Nat \X Role /\ b \in Nat \X Role /\ a[1] = n /\ b[1] = n /\ a[2] = "call" /\ b[2] = r
  BY DEF Role
<1>2. p \in Seq(Nat \X Role) /\ DOMAIN p = {1, 2} /\ p[1] = a /\ p[2] = b
  BY <1>1
<1>3. Closes(a, b) /\ ~Opens(a) /\ ~Opens(b)
  BY <1>1 DEF Closes, Opens
<1>4. Sound(p)
  <2>1. \A i, j \in DOMAIN p : i < j => i = 1 /\ j = 2
    BY <1>2
  <2>2. \A i \in DOMAIN p : p[i][2] = "call" => i = 1
    BY <1>1, <1>2
  <2>3. \A i \in DOMAIN p : ~Opens(p[i])
    BY <1>2, <1>3
  <2>. QED BY <1>2, <1>3, <2>1, <2>2, <2>3 DEF Sound, Said
<1>5. Unopened(p)
  BY <1>2, <1>3 DEF Unopened
<1>6. \A k : UpTo(p, k) <=> n <= k
  BY <1>1, <1>2 DEF UpTo
<1>7. \A h : Precedes(h, p) <=> \A i \in DOMAIN h : h[i][1] < n
  BY <1>1, <1>2 DEF Precedes
<1>. QED BY <1>4, <1>5, <1>6, <1>7

(* Two messages behind a history are a pair behind it.                      *)
LEMMA AppendTwo ==
    ASSUME NEW S, NEW h \in Seq(S), NEW a \in S, NEW b \in S
    PROVE  Append(Append(h, a), b) = h \o <<a, b>>
<1>1. <<a, b>> = Append(<<a>>, b) /\ <<a>> \in Seq(S)
  OBVIOUS
<1>. QED BY <1>1

(* A message behind a history is a part of one message behind it.           *)
LEMMA AppendJoins ==
    ASSUME NEW h \in Said, NEW m \in Nat \X Role
    PROVE  Append(h, m) = h \o <<m>> /\ <<m>> \in Said /\ <<m>> # <<>>
BY DEF Said

(* What a checkpoint holds is never in the history yet, so all of it is     *)
(* written (_restore_runtime_checkpoint).                                   *)
LEMMA NoOverlap ==
    ASSUME NEW m \in Said, NEW r \in Said, Precedes(m, r)
    PROVE  Overlap(m, r) = 0
<1> PICK k : k = Overlap(m, r)
  OBVIOUS
<1>1. /\ k \in 0 .. Len(r) /\ k <= Len(m)
      /\ SubSeq(m, Len(m) - k + 1, Len(m)) = SubSeq(r, 1, k)
  BY OverlapFits
<1>2. Len(m) \in Nat /\ Len(r) \in Nat /\ DOMAIN m = 1 .. Len(m) /\ DOMAIN r = 1 .. Len(r)
  BY DEF Said
<1>3. ASSUME k # 0 PROVE FALSE
  <2> PICK n : n = Len(m)
    OBVIOUS
  <2> PICK b : b = n - k + 1
    OBVIOUS
  <2>0. /\ n \in Nat /\ Len(r) \in Nat /\ k \in 0 .. Len(r) /\ k <= n
        /\ DOMAIN m = 1 .. n /\ DOMAIN r = 1 .. Len(r)
        /\ m \in Seq(Nat \X Role) /\ r \in Seq(Nat \X Role)
        /\ SubSeq(m, b, n) = SubSeq(r, 1, k)
        /\ b = n - k + 1 /\ n = Len(m)
    BY <1>1, <1>2 DEF Said
  <2>1. k \in 1 .. n /\ b \in 1 .. n /\ k \in 1 .. Len(r) /\ b + k - 1 = n /\ k \in 1 .. n - b + 1
    BY ONLY <2>0, <1>3
  <2>2. SubSeq(m, b, n)[k] = m[b + k - 1]
    BY ONLY <2>0, <2>1
  <2>3. SubSeq(r, 1, k)[k] = r[k]
    BY ONLY <2>0, <2>1
  <2>4. m[Len(m)] = r[k] /\ Len(m) \in DOMAIN m /\ k \in DOMAIN r
    <3>1. m[n] = r[k] /\ n \in 1 .. n
      BY ONLY <2>0, <2>1, <2>2, <2>3
    <3>. QED BY ONLY <3>1, <2>0, <2>1
  <2>5. m[Len(m)][1] < r[k][1]
    BY <2>4 DEF Precedes
  <2>6. r[k] \in Nat \X Role
    BY <2>4 DEF Said
  <2>. QED BY <2>4, <2>5, <2>6
<1>. QED BY <1>3

(* What is bounded by the messages written so far is bounded later on.      *)
LEMMA GoodLater ==
    ASSUME NEW s, NEW n \in Nat, NEW k \in Nat, n <= k
    PROVE  /\ \A h : h \in Said /\ UpTo(h, n) => UpTo(h, k)
           /\ Good(s, n) => Good(s, k)
<1>1. ASSUME NEW h, h \in Said, UpTo(h, n) PROVE UpTo(h, k)
  <2>1. \A i \in DOMAIN h : h[i] \in Nat \X Role
    BY <1>1 DEF Said
  <2>2. \A i \in DOMAIN h : h[i][1] \in Nat
    BY <2>1
  <2>. QED BY <1>1, <2>2 DEF UpTo
<1>. QED BY <1>1 DEF Good, Sound

(* A session with no checkpoint is good when its messages are.              *)
LEMMA GoodParts ==
    ASSUME NEW s, NEW n, s = [x \in SessionFields |-> s[x]], s.pendingUser \in BOOLEAN,
           Sound(s.messages), UpTo(s.messages, n), s.checkpoint = <<>>,
           EndsOpen(s.messages) => s.pendingUser
    PROVE  Good(s, n)
BY NoMessages DEF Good

(* A restored checkpoint leaves nothing open and is gone.                   *)
LEMMA RestoredGood ==
    ASSUME NEW s, NEW n, Good(s, n)
    PROVE  /\ Good(Restored(s), n) /\ Restored(s).checkpoint = <<>>
<1> PICK g : g = Restored(s)
  OBVIOUS
<1> PICK c : c = s.checkpoint
  OBVIOUS
<1> PICK m : m = s.messages
  OBVIOUS
<1>1. CASE c = <<>>
  BY <1>1 DEF Restored
<1>2. CASE c # <<>>
  <2>1. /\ m \in Said /\ c \in Said /\ Precedes(m, c) /\ Sound(m) /\ Sound(c)
        /\ UpTo(m, n) /\ UpTo(c, n) /\ Unopened(c)
    BY DEF Good, Sound
  <2>2. SubSeq(c, 1, Len(c)) = c /\ 0 + 1 = 1
    BY <2>1 DEF Said
  <2>3. Overlap(m, c) = 0
    BY <2>1, NoOverlap
  <2>4. g = [s EXCEPT !.messages = m \o c, !.checkpoint = <<>>, !.pendingUser = FALSE]
    BY <1>2, <2>2, <2>3 DEF Restored
  <2>5. /\ g = [x \in SessionFields |-> g[x]] /\ g.pendingUser = FALSE
        /\ g.messages = m \o c /\ g.checkpoint = <<>>
    BY <2>4 DEF Good, SessionFields
  <2>6. Sound(m \o c) /\ UpTo(m \o c, n) /\ (EndsOpen(m \o c) <=> EndsOpen(c))
    BY <1>2, <2>1, SoundJoin, JoinBounds
  <2>7. ~EndsOpen(c)
    <3>1. Len(c) \in DOMAIN c
      BY <1>2, <2>1 DEF Said
    <3>. QED BY <2>1, <3>1 DEF EndsOpen, Unopened
  <2>. QED BY <2>5, <2>6, <2>7, GoodParts
<1>. QED BY <1>1, <1>2

(* A question that was never answered is closed (_restore_pending_user_turn).*)
LEMMA ConcludedGood ==
    ASSUME NEW s, NEW n, Good(s, n), s.checkpoint = <<>>
    PROVE  /\ Good(Concluded(s), n) /\ Concluded(s).checkpoint = <<>>
           /\ ~EndsOpen(Concluded(s).messages)
<1> PICK g : g = Concluded(s)
  OBVIOUS
<1> PICK m : m = s.messages
  OBVIOUS
<1> PICK k : k = Len(m)
  OBVIOUS
<1>1. /\ m \in Seq(Nat \X Role) /\ Sound(m) /\ UpTo(m, n) /\ k \in Nat /\ DOMAIN m = 1 .. k
      /\ s.pendingUser \in BOOLEAN
  <2>1. m \in Said /\ Sound(m) /\ UpTo(m, n) /\ s.pendingUser \in BOOLEAN
    BY DEF Good, Sound
  <2>. QED BY <2>1 DEF Said
<1>2. CASE ~s.pendingUser
  BY <1>2 DEF Concluded, Good
<1>3. CASE s.pendingUser /\ k > 0 /\ m[k][2] \in {"user", "more"}
  <2> PICK sorry : sorry = <<m[k][1], "sorry">>
    OBVIOUS
  <2> PICK x : x = Append(m, sorry)
    OBVIOUS
  <2>1. g = [s EXCEPT !.pendingUser = FALSE, !.messages = x]
    BY <1>3 DEF Concluded
  <2>2. /\ g = [y \in SessionFields |-> g[y]] /\ g.pendingUser = FALSE
        /\ g.messages = x /\ g.checkpoint = <<>>
    BY <2>1 DEF Good, SessionFields
  <2>3. m[k] \in Nat \X Role /\ sorry \in Nat \X Role /\ k \in DOMAIN m
    BY <1>1, <1>3 DEF Role
  <2>4. /\ x \in Seq(Nat \X Role) /\ DOMAIN x = 1 .. k + 1 /\ Len(x) = k + 1
        /\ x[k + 1] = sorry /\ \A i \in 1 .. k : x[i] = m[i]
    BY <1>1, <2>3
  <2>5. \A i \in DOMAIN m : i < k => m[i][1] < m[k][1]
    <3> SUFFICES ASSUME NEW i \in DOMAIN m, i < k PROVE m[i][1] < m[k][1]
      OBVIOUS
    <3>1. m[i][1] < m[k][1] \/ Closes(m[i], m[k])
      BY <1>1, <2>3 DEF Sound
    <3>. QED BY <1>3, <3>1 DEF Closes
  <2>6. Closes(m[k], sorry) /\ sorry[1] = m[k][1] /\ sorry[2] = "sorry"
    BY <1>3 DEF Closes
  <2>7. ASSUME NEW i \in DOMAIN x, NEW j \in DOMAIN x, i < j
        PROVE  x[i][1] < x[j][1] \/ (j = i + 1 /\ Closes(x[i], x[j]))
    <3>1. CASE j \in DOMAIN m
      <4>1. i \in DOMAIN m /\ x[i] = m[i] /\ x[j] = m[j]
        BY <1>1, <2>4, <2>7, <3>1
      <4>. QED BY <1>1, <2>7, <3>1, <4>1 DEF Sound
    <3>2. CASE j \notin DOMAIN m
      <4>1. j = k + 1 /\ x[j] = sorry /\ i \in DOMAIN m /\ x[i] = m[i]
        BY <1>1, <2>4, <2>7, <3>2
      <4>2. CASE i = k
        BY <2>6, <4>1, <4>2
      <4>3. CASE i # k
        <5>1. i < k
          BY <1>1, <4>1, <4>3
        <5>. QED BY <2>5, <2>6, <4>1, <5>1
      <4>. QED BY <4>2, <4>3
    <3>. QED BY <3>1, <3>2
  <2>8. ASSUME NEW i \in DOMAIN x, x[i][2] = "call"
        PROVE  i + 1 \in DOMAIN x /\ Closes(x[i], x[i + 1])
    <3>1. i \in DOMAIN m /\ x[i] = m[i]
      BY <1>1, <2>4, <2>6, <2>8
    <3>2. i + 1 \in DOMAIN m /\ Closes(m[i], m[i + 1])
      BY <1>1, <2>8, <3>1 DEF Sound
    <3>. QED BY <1>1, <2>4, <3>1, <3>2
  <2>9. ASSUME NEW i \in DOMAIN x, i + 1 \in DOMAIN x, Opens(x[i]), Opens(x[i + 1])
        PROVE  FALSE
    <3>1. i + 1 \in DOMAIN m /\ x[i + 1] = m[i + 1]
      BY <1>1, <2>4, <2>6, <2>9 DEF Opens
    <3>2. i \in DOMAIN m /\ x[i] = m[i]
      BY <1>1, <2>4, <2>9, <3>1
    <3>. QED BY <1>1, <2>9, <3>1, <3>2 DEF Sound
  <2>10. Sound(x)
    BY <2>4, <2>7, <2>8, <2>9 DEF Sound, Said
  <2>11. UpTo(x, n)
    BY <1>1, <2>3, <2>4, <2>6 DEF UpTo
  <2>12. ~EndsOpen(x)
    BY <2>4, <2>6 DEF EndsOpen, Opens
  <2>. QED BY <2>2, <2>10, <2>11, <2>12, GoodParts
<1>4. CASE s.pendingUser /\ ~(k > 0 /\ m[k][2] \in {"user", "more"})
  <2>1. g = [s EXCEPT !.pendingUser = FALSE, !.messages = m]
    BY <1>4 DEF Concluded
  <2>2. /\ g = [y \in SessionFields |-> g[y]] /\ g.pendingUser = FALSE
        /\ g.messages = m /\ g.checkpoint = <<>>
    BY <2>1 DEF Good, SessionFields
  <2>3. ~EndsOpen(m)
    BY <1>1, <1>4 DEF EndsOpen, Opens
  <2>. QED BY <1>1, <2>2, <2>3, GoodParts
<1>. QED BY <1>1, <1>2, <1>3, <1>4

-----------------------------------------------------------------------------
\* The steps of a history that can be sent again.

(* Whatever a step leaves in the hands of somebody and in the file.         *)
LEMMA GoodStep ==
    ASSUME RInv, NEW os, Objects(os), written' \in Nat,
           queued' \subseteq {"background", "idle"},
           IsTurn(turn'), Locked(lock', turn'), Good(file', written'),
           \A o \in Held : o \in Obj /\ Good(os[o], written'),
           turn'.obj # NoObj => Ready(turn', os[turn'.obj], written')
    PROVE  RInv'
<1>1. Held = Hands'
  BY DEF Held, Hands
<1>2. /\ object' = [o \in Obj |-> object'[o]]
      /\ \A o \in Held : o \in Obj /\ object'[o] = os[o]
  BY DEF Objects
<1>3. turn'.obj # NoObj => turn'.obj \in Held
  BY DEF Held
<1>. QED BY <1>1, <1>2, <1>3 DEF RInv

(* A session can be had, and it is good, from the cache or from the file    *)
(* (get_or_create).                                                         *)
LEMMA GotGood ==
    ASSUME RInv
    PROVE  /\ Spare \in Obj /\ Spare \notin Hands /\ Spare # NoObj
           /\ Got \in Obj /\ Got # NoObj /\ Good(Known[Got], written)
           /\ Known = [o \in Obj |-> Known[o]]
           /\ \A o \in Hands : Known[o] = object[o]
           /\ Good(Loaded, written)
<1>1. Good(Loaded, written)
  <2>1. CASE Loaded = file
    BY <2>1 DEF RInv
  <2>2. CASE Loaded # file
    <3>1. Loaded = [file EXCEPT !.cursor = 0]
      BY <2>2 DEF Loaded
    <3>2. /\ Loaded = [x \in SessionFields |-> Loaded[x]]
          /\ Loaded.messages = file.messages /\ Loaded.checkpoint = file.checkpoint
          /\ Loaded.pendingUser = file.pendingUser
      BY <3>1 DEF RInv, Good, SessionFields
    <3>. QED BY <3>2 DEF RInv, Good
  <2>. QED BY <2>1, <2>2
<1>2. cached \in Obj \cup {NoObj} /\ turn.obj \in Obj \cup {NoObj} /\ lock.obj \in Obj \cup {NoObj}
  BY DEF RInv, Hands
<1>3. Spare \in Obj /\ Spare \notin {cached, turn.obj, lock.obj} /\ Spare # NoObj
  <2>1. \E o \in Obj : o \notin {cached, turn.obj, lock.obj}
    BY <1>2, HistoryConstantsOK
  <2>. QED BY <2>1, HistoryConstantsOK DEF Spare
<1>4. object = [o \in Obj |-> object[o]]
  BY DEF RInv
<1>5. CASE cached # NoObj
  <2>1. cached \in Obj /\ Good(object[cached], written)
    BY <1>5 DEF RInv, Hands
  <2>2. Got = cached /\ Known = object
    BY <1>5 DEF Got, Known
  <2>. QED BY <1>1, <1>3, <1>4, <1>5, <2>1, <2>2 DEF Hands
<1>6. CASE cached = NoObj
  <2> PICK l : l = Loaded
    OBVIOUS
  <2>1. Got = Spare /\ Known = [object EXCEPT ![Spare] = l]
    BY <1>6 DEF Got, Known
  <2>2. Known[Spare] = l /\ \A o \in Obj : o # Spare => Known[o] = object[o]
    BY <1>3, <1>4, <2>1
  <2>3. Known = [o \in Obj |-> Known[o]]
    BY <1>4, <2>1
  <2>. QED BY <1>1, <1>2, <1>3, <2>1, <2>2, <2>3 DEF Hands
<1>. QED BY <1>5, <1>6

(* A turn starts from a session with nothing left to restore                *)
(* (_restore_turn).                                                         *)
LEMMA StartTurnReplays ==
    ASSUME RInv, NEW kind \in {"chat", "compact"}, StartTurn(kind)
    PROVE  RInv'
<1> PICK s : s = Concluded(Restored(Known[Got]))
  OBVIOUS
<1> PICK os : os = [Known EXCEPT ![Got] = s]
  OBVIOUS
<1>1. /\ Got \in Obj /\ Got # NoObj /\ Good(Known[Got], written)
      /\ Known = [o \in Obj |-> Known[o]] /\ \A o \in Hands : Known[o] = object[o]
  BY GotGood
<1>2. Good(s, written) /\ s.checkpoint = <<>> /\ ~EndsOpen(s.messages)
  BY <1>1, RestoredGood, ConcludedGood
<1>3. /\ turn.pc = "idle" /\ turn' = [NoTurn EXCEPT !.pc = kind, !.obj = Got]
      /\ UNCHANGED <<lock, queued, written>> /\ cached' = Got
      /\ file' = file \/ file' = os[Got]
      /\ Objects(os)
  BY DEF StartTurn, Saved, Untouched
<1>4. os[Got] = s /\ \A o \in Obj : o # Got => os[o] = Known[o]
  BY <1>1
<1>5. /\ turn'.pc = kind /\ turn'.obj = Got /\ turn'.said = <<>>
      /\ turn' = [x \in {"pc", "obj", "said"} |-> turn'[x]]
  BY <1>3 DEF NoTurn
<1>6. IsTurn(turn')
  BY <1>1, <1>5 DEF IsTurn, Working, Said
<1>7. Locked(lock', turn')
  BY <1>3 DEF RInv, Locked
<1>8. \A o \in Held : o \in Obj /\ Good(os[o], written)
  <2>1. \A o \in Held : o = Got \/ o \in Hands
    BY <1>3, <1>5 DEF Held, Hands
  <2>. QED BY <1>1, <1>2, <1>4, <2>1 DEF RInv
<1>9. Ready(turn', os[Got], written)
  BY <1>2, <1>4, <1>5 DEF Ready
<1>10. Good(file', written)
  BY <1>2, <1>3, <1>4 DEF RInv
<1>11. /\ written' \in Nat /\ queued' \subseteq {"background", "idle"} /\ Good(file', written')
       /\ \A o \in Held : o \in Obj /\ Good(os[o], written')
       /\ Ready(turn', os[turn'.obj], written')
  BY <1>3, <1>5, <1>8, <1>9, <1>10 DEF RInv
<1>. QED BY <1>3, <1>6, <1>7, <1>11, GoodStep

(* What a turn writes into its object.                                      *)
LEMMA WritesReplay ==
    ASSUME RInv, NEW s, NEW pc \in Working \cup {"idle"}, NEW said \in Said, NEW n \in Nat,
           Writes(s, pc, said, n), turn.pc \in Working, lock.who \notin {"turn", "compact"},
           pc = "tools" => said # <<>>, queued' \subseteq {"background", "idle"},
           Good(s, written + n),
           pc # "idle" => \A t : t.pc = pc /\ t.said = said => Ready(t, s, written + n)
    PROVE  RInv'
<1> PICK os : os = [object EXCEPT ![turn.obj] = s]
  OBVIOUS
<1>1. /\ turn.obj \in Obj /\ turn.obj # NoObj /\ object = [o \in Obj |-> object[o]]
      /\ IsTurn(turn) /\ written \in Nat
  BY HistoryConstantsOK DEF RInv, IsTurn
<1>2. os[turn.obj] = s /\ \A o \in Obj : o # turn.obj => os[o] = object[o]
  BY <1>1
<1>3. /\ turn' = IF pc = "idle" THEN NoTurn ELSE [turn EXCEPT !.pc = pc, !.said = said]
      /\ lock' = lock /\ written' = written + n /\ cached' = turn.obj
      /\ file' = s /\ Objects(os)
  BY <1>2 DEF Writes, Saved
<1>4. written' \in Nat /\ written <= written'
  BY <1>1, <1>3
<1>5. CASE pc = "idle"
  <2>1. turn' = NoTurn
    BY <1>3, <1>5
  <2>2. IsTurn(turn') /\ turn'.obj = NoObj
    BY <2>1, NoTurnIsIdle
  <2>3. Locked(lock', turn')
    BY <1>3 DEF RInv, Locked
  <2>4. \A o \in Held : o = turn.obj \/ o \in Hands
    BY <1>3, <2>2 DEF Held, Hands
  <2>5. \A o \in Held : o \in Obj /\ Good(os[o], written')
    BY <1>1, <1>2, <1>3, <1>4, <2>4, GoodLater DEF RInv
  <2>. QED BY <1>3, <1>4, <2>2, <2>3, <2>5, GoodStep
<1>6. CASE pc # "idle"
  <2>1. /\ turn' = [x \in {"pc", "obj", "said"} |-> turn'[x]]
        /\ turn'.pc = pc /\ turn'.obj = turn.obj /\ turn'.said = said
    BY <1>1, <1>3, <1>6 DEF IsTurn
  <2>2. IsTurn(turn')
    BY <1>1, <1>6, <2>1 DEF IsTurn, Working
  <2>3. Locked(lock', turn')
    BY <1>3 DEF RInv, Locked
  <2>4. \A o \in Held : o = turn.obj \/ o \in Hands
    BY <1>3, <2>1 DEF Held, Hands
  <2>5. \A o \in Held : o \in Obj /\ Good(os[o], written')
    BY <1>1, <1>2, <1>3, <1>4, <2>4, GoodLater DEF RInv
  <2>6. Ready(turn', os[turn'.obj], written')
    BY <1>2, <1>3, <1>6, <2>1
  <2>. QED BY <1>3, <1>4, <2>2, <2>3, <2>5, <2>6, GoodStep
<1>. QED BY <1>5, <1>6

(* What a turn says follows what it said, and what was there before it.     *)
LEMMA SaidGrows ==
    ASSUME NEW m \in Said, NEW said \in Said, NEW n \in Nat, NEW k \in Nat, n <= k,
           Unopened(said), UpTo(said, n), Precedes(m, said),
           NEW x \in Nat \X Role, ~Opens(x), x[1] <= k,
           \A i \in DOMAIN m : m[i][1] < x[1]
    PROVE  /\ Append(said, x) \in Said /\ Append(said, x) # <<>>
           /\ Unopened(Append(said, x)) /\ UpTo(Append(said, x), k)
           /\ Precedes(m, Append(said, x))
           /\ Append(said, x)[Len(Append(said, x))] = x
           /\ Sound(said) /\ x[2] # "call" /\ n < x[1] => Sound(Append(said, x))
<1> PICK y : y = Append(said, x)
  OBVIOUS
<1> PICK g : g = <<x>>
  OBVIOUS
<1>1. /\ y = said \o g /\ g \in Said /\ g # <<>>
  BY AppendJoins
<1>2. y[Len(y)] = x /\ y \in Said
  BY DEF Said
<1>3. g \in Seq(Nat \X Role) /\ DOMAIN g = {1} /\ g[1] = x
  OBVIOUS
<1>4. Unopened(g) /\ UpTo(g, k) /\ Precedes(m, g)
  BY <1>3 DEF Unopened, UpTo, Precedes
<1>5. UpTo(said, k)
  BY GoodLater
<1>6. y # <<>> /\ Unopened(y) /\ UpTo(y, k) /\ Precedes(m, y)
  BY <1>1, <1>4, <1>5, JoinBounds
<1>7. ASSUME Sound(said), x[2] # "call", n < x[1] PROVE Sound(y)
  <2>1. Sound(g)
    BY <1>7, OneMessage
  <2>2. Precedes(said, g)
    <3>1. \A i \in DOMAIN said : said[i] \in Nat \X Role
      BY DEF Said
    <3>2. \A i \in DOMAIN said : said[i][1] \in Nat /\ said[i][1] <= n
      BY <3>1 DEF UpTo
    <3>3. x[1] \in Nat
      OBVIOUS
    <3>. QED BY <1>3, <1>7, <3>2, <3>3 DEF Precedes
  <2>. QED BY <1>1, <1>4, <1>7, <2>1, <2>2, SoundJoin
<1>. QED BY <1>2, <1>6, <1>7

(* The next message is later than every one written so far.                 *)
LEMMA BelowNext ==
    ASSUME NEW h \in Said, NEW n \in Nat, UpTo(h, n), NEW k \in Nat, n < k
    PROVE  \A i \in DOMAIN h : h[i][1] < k
<1>1. \A i \in DOMAIN h : h[i] \in Nat \X Role
  BY DEF Said
<1>2. \A i \in DOMAIN h : h[i][1] \in Nat /\ h[i][1] <= n
  BY <1>1 DEF UpTo
<1>. QED BY <1>2

(* A checkpoint of sound later messages keeps a session good                *)
(* (_emit_checkpoint).                                                      *)
LEMMA CheckpointGood ==
    ASSUME RInv, turn.obj \in Obj, NEW point, NEW n \in Nat, written <= n,
           Sound(point), Unopened(point), UpTo(point, n),
           Precedes(object[turn.obj].messages, point)
    PROVE  /\ Good(Checkpoint(point), n)
           /\ Checkpoint(point).messages = object[turn.obj].messages
<1> PICK f : f = object[turn.obj]
  OBVIOUS
<1> PICK s : s = Checkpoint(point)
  OBVIOUS
<1>1. Good(f, n)
  BY HistoryConstantsOK, GoodLater DEF RInv, Hands
<1>2. s = [f EXCEPT !.checkpoint = point]
  BY DEF Checkpoint
<1>3. /\ s = [x \in SessionFields |-> s[x]] /\ s.messages = f.messages
      /\ s.checkpoint = point /\ s.pendingUser = f.pendingUser
  BY <1>1, <1>2 DEF Good, SessionFields
<1>. QED BY <1>1, <1>3 DEF Good

(* The question is written behind a history that is closed (_build_turn).   *)
LEMMA BuildTurnReplays ==
    ASSUME RInv, BuildTurn
    PROVE  RInv'
<1> PICK m : m = Message("user")
  OBVIOUS
<1> PICK f : f = object[turn.obj]
  OBVIOUS
<1> PICK s : s = [f EXCEPT !.messages = Append(@, m), !.pendingUser = TRUE]
  OBVIOUS
<1>1. /\ turn.pc \in {"chat", "consolidated"} /\ turn.pc \in Working
      /\ lock.who \notin {"turn", "compact"} /\ queued' = queued
      /\ Writes(s, "model", <<>>, 1)
  BY DEF BuildTurn, Working, RInv, Locked
<1>2. turn.obj \in Obj /\ turn.obj \in Hands /\ turn.obj # NoObj
  BY <1>1, HistoryConstantsOK DEF RInv, IsTurn, Hands
<1>3. Good(f, written) /\ f.checkpoint = <<>> /\ ~EndsOpen(f.messages) /\ written \in Nat
  BY <1>1, <1>2 DEF RInv, Ready
<1>4. m = <<written + 1, "user">>
  BY DEF Message
<1>5. m \in Nat \X Role /\ m[1] = written + 1 /\ m[2] # "call"
  BY <1>3, <1>4 DEF Role
<1>6. f.messages \in Said /\ Sound(f.messages) /\ UpTo(f.messages, written)
  BY <1>3 DEF Good, Sound
<1>7. /\ s = [x \in SessionFields |-> s[x]] /\ s.checkpoint = <<>> /\ s.pendingUser = TRUE
      /\ s.messages = Append(f.messages, m)
  BY <1>3 DEF Good, SessionFields
<1>8. Sound(s.messages) /\ UpTo(s.messages, written + 1)
  <2> PICK h : h = f.messages
    OBVIOUS
  <2>0. written + 1 \in Nat /\ written <= written + 1 /\ m[1] <= written + 1
    BY <1>3, <1>5
  <2>1. /\ Sound(<<m>>) /\ UpTo(<<m>>, written + 1) /\ <<m>> \in Said
        /\ Append(h, m) = h \o <<m>>
    <3>1. Sound(<<m>>) /\ UpTo(<<m>>, written + 1)
      BY <1>5, <2>0, OneMessage
    <3>. QED BY <1>5, <1>6, <3>1, AppendJoins
  <2>2. Precedes(h, <<m>>)
    BY <1>3, <1>5, <1>6, BelowNext, OneMessage
  <2>3. UpTo(h, written + 1)
    BY <1>3, <1>6, <2>0, GoodLater
  <2>4. Sound(h \o <<m>>)
    BY <1>3, <1>6, <2>1, <2>2, SoundJoin
  <2>5. UpTo(h \o <<m>>, written + 1)
    BY <1>6, <2>1, <2>3, JoinBounds
  <2>. QED BY <1>7, <2>1, <2>4, <2>5
<1>9. Good(s, written + 1)
  BY <1>7, <1>8, GoodParts
<1>10. \A t : t.pc = "model" /\ t.said = <<>> => Ready(t, s, written + 1)
  BY NoMessages DEF Ready
<1>11. /\ <<>> \in Said /\ 1 \in Nat /\ "model" \in Working \cup {"idle"}
       /\ queued' \subseteq {"background", "idle"}
  BY <1>1 DEF Said, Working, RInv
<1>. QED BY <1>1, <1>9, <1>10, <1>11, WritesReplay

(* A call is checkpointed as interrupted until its result is there          *)
(* (runner.py).                                                             *)
LEMMA CallsToolsReplays ==
    ASSUME RInv, CallsTools
    PROVE  RInv'
<1> PICK n : n = written + 1
  OBVIOUS
<1> PICK call : call = Message("call")
  OBVIOUS
<1> PICK point : point = <<call, <<call[1], "interrupted">>>>
  OBVIOUS
<1> PICK f : f = object[turn.obj]
  OBVIOUS
<1> PICK said : said = Append(turn.said, call)
  OBVIOUS
<1>1. /\ turn.pc = "model" /\ turn.pc \in Working /\ lock.who \notin {"turn", "compact"}
      /\ queued' = queued /\ Writes(Checkpoint(point), "tools", said, 1)
  BY DEF CallsTools, Working, RInv, Locked
<1>2. turn.obj \in Obj /\ turn.obj \in Hands /\ turn.obj # NoObj
  BY <1>1, HistoryConstantsOK DEF RInv, IsTurn, Hands
<1>3. /\ written \in Nat /\ n \in Nat /\ written < n /\ written <= n
      /\ call = <<n, "call">> /\ call \in Nat \X Role /\ call[1] = n /\ call[2] = "call"
      /\ point = <<<<n, "call">>, <<n, "interrupted">>>>
  BY DEF RInv, Message, Role
<1>4. /\ f.messages \in Said /\ UpTo(f.messages, written) /\ turn.said \in Said
      /\ Sound(turn.said) /\ Unopened(turn.said) /\ UpTo(turn.said, written)
      /\ Precedes(f.messages, turn.said)
  BY <1>1, <1>2 DEF RInv, Ready, Good, Sound
<1>5. \A i \in DOMAIN f.messages : f.messages[i][1] < n
  BY <1>3, <1>4, BelowNext
<1>6. /\ Sound(point) /\ Unopened(point) /\ UpTo(point, n)
      /\ Precedes(f.messages, point)
  <2>1. "interrupted" \in {"result", "interrupted"} /\ n <= n
    BY <1>3
  <2>. QED BY <1>3, <1>5, <2>1, CallAndReply
<1>7. Good(Checkpoint(point), n) /\ Checkpoint(point).messages = f.messages
  BY <1>2, <1>3, <1>6, CheckpointGood
<1>8. /\ said \in Said /\ said # <<>> /\ Unopened(said) /\ UpTo(said, n)
      /\ Precedes(f.messages, said) /\ said[Len(said)] = call
  <2> PICK m : m = f.messages
    OBVIOUS
  <2> PICK old : old = turn.said
    OBVIOUS
  <2>1. /\ m \in Said /\ old \in Said /\ written \in Nat /\ n \in Nat /\ written <= n
        /\ Unopened(old) /\ UpTo(old, written) /\ Precedes(m, old)
        /\ call \in Nat \X Role /\ ~Opens(call) /\ call[1] <= n
        /\ \A i \in DOMAIN m : m[i][1] < call[1]
    BY <1>3, <1>4, <1>5 DEF Opens
  <2>2. /\ Append(old, call) \in Said /\ Append(old, call) # <<>>
        /\ Unopened(Append(old, call)) /\ UpTo(Append(old, call), n)
        /\ Precedes(m, Append(old, call))
        /\ Append(old, call)[Len(Append(old, call))] = call
    BY ONLY <2>1, SaidGrows
  <2>. QED BY <2>2
<1>9. ASSUME NEW r \in {"result", "interrupted"}
      PROVE  Sound(Append(said, <<n, r>>))
  <2> PICK h : h = turn.said
    OBVIOUS
  <2> PICK reply : reply = <<n, r>>
    OBVIOUS
  <2> PICK pair : pair = <<call, reply>>
    OBVIOUS
  <2>1. reply \in Nat \X Role
    BY <1>3 DEF Role
  <2>2. Append(Append(h, call), reply) = h \o <<call, reply>>
    <3>1. h \in Seq(Nat \X Role)
      BY <1>4 DEF Said
    <3>. QED BY ONLY <1>3, <2>1, <3>1, AppendTwo
  <2>3. Sound(pair) /\ Unopened(pair) /\ Precedes(h, pair)
    <3>1. \A i \in DOMAIN h : h[i][1] < n
      BY <1>3, <1>4, BelowNext
    <3>. QED BY <1>3, <3>1, CallAndReply
  <2>4. Sound(h \o pair)
    BY <1>4, <2>3, SoundJoin
  <2>. QED BY <2>2, <2>4
<1>10. ASSUME NEW t, t.pc = "tools", t.said = said
       PROVE  Ready(t, Checkpoint(point), n)
  BY <1>3, <1>7, <1>8, <1>9, <1>10 DEF Ready
<1>11. 1 \in Nat /\ "tools" \in Working \cup {"idle"} /\ queued' \subseteq {"background", "idle"}
  BY <1>1 DEF Working, RInv
<1>. QED BY <1>1, <1>7, <1>8, <1>10, <1>11, WritesReplay

(* The result takes the place of the note, and a follow-up may come behind  *)
(* it.                                                                      *)
LEMMA ToolsEndReplays ==
    ASSUME RInv, ToolsEnd
    PROVE  RInv'
<1> PICK n : n = written + 1
  OBVIOUS
<1> PICK call : call = turn.said[Len(turn.said)]
  OBVIOUS
<1> PICK result : result = <<call[1], "result">>
  OBVIOUS
<1> PICK point : point = <<call, result>>
  OBVIOUS
<1> PICK f : f = object[turn.obj]
  OBVIOUS
<1> PICK said : said = Append(turn.said, result)
  OBVIOUS
<1> PICK more : more = Message("more")
  OBVIOUS
<1>1. /\ turn.pc = "tools" /\ turn.pc \in Working /\ lock.who \notin {"turn", "compact"}
      /\ queued' = queued
      /\ \/ Writes(Checkpoint(point), "model", said, 0)
         \/ Writes(Checkpoint(point), "model", Append(said, more), 1)
  BY DEF ToolsEnd, Working, RInv, Locked
<1>2. turn.obj \in Obj /\ turn.obj \in Hands /\ turn.obj # NoObj
  BY <1>1, HistoryConstantsOK DEF RInv, IsTurn, Hands
<1>3. /\ written \in Nat /\ n \in Nat /\ written < n /\ written <= n /\ written <= written
      /\ more = <<n, "more">> /\ more \in Nat \X Role /\ more[1] = n /\ more[2] = "more"
  BY DEF RInv, Message, Role
<1>4. /\ f.messages \in Said /\ UpTo(f.messages, written) /\ turn.said \in Said
      /\ Unopened(turn.said) /\ UpTo(turn.said, written) /\ turn.said # <<>>
      /\ Precedes(f.messages, turn.said) /\ call[2] = "call"
      /\ Sound(said)
  <2>1. Good(f, written) /\ Ready(turn, f, written) /\ IsTurn(turn)
    BY <1>2 DEF RInv
  <2>2. f.messages \in Said /\ UpTo(f.messages, written) /\ turn.said \in Said
    BY <2>1 DEF Good, Sound, IsTurn
  <2>3. /\ Unopened(turn.said) /\ UpTo(turn.said, written) /\ turn.said # <<>>
        /\ Precedes(f.messages, turn.said) /\ call[2] = "call"
        /\ \A r \in {"result", "interrupted"} : Sound(Append(turn.said, <<call[1], r>>))
    BY <1>1, <2>1 DEF Ready
  <2>. QED BY <2>2, <2>3
<1>5. Len(turn.said) \in DOMAIN turn.said /\ call \in Nat \X Role
  <2> PICK h : h = turn.said
    OBVIOUS
  <2>1. h \in Seq(Nat \X Role) /\ h # <<>>
    BY <1>4 DEF Said
  <2>2. Len(h) \in DOMAIN h /\ h[Len(h)] \in Nat \X Role
    BY <2>1
  <2>. QED BY <2>2
<1>6. call[1] \in Nat /\ call[1] <= written /\ call = <<call[1], "call">>
  BY <1>4, <1>5 DEF UpTo
<1>7. \A i \in DOMAIN f.messages : f.messages[i][1] < call[1] /\ f.messages[i][1] < n
  BY <1>3, <1>4, <1>5, BelowNext DEF Precedes
<1>8. /\ Sound(point) /\ Unopened(point) /\ UpTo(point, written)
      /\ Precedes(f.messages, point)
  <2>1. "result" \in {"result", "interrupted"}
    OBVIOUS
  <2>2. point = <<<<call[1], "call">>, <<call[1], "result">>>>
    BY <1>6
  <2>. QED BY <1>6, <1>7, <2>1, <2>2, CallAndReply
<1>9. /\ Good(Checkpoint(point), written) /\ Checkpoint(point).messages = f.messages
  BY <1>2, <1>3, <1>8, CheckpointGood
<1>10. /\ said \in Said /\ said # <<>> /\ Unopened(said) /\ UpTo(said, written)
       /\ Precedes(f.messages, said)
  <2> PICK m : m = f.messages
    OBVIOUS
  <2> PICK old : old = turn.said
    OBVIOUS
  <2>1. result \in Nat \X Role /\ ~Opens(result) /\ result[1] = call[1]
    BY <1>6 DEF Opens, Role
  <2>2. /\ m \in Said /\ old \in Said /\ written \in Nat /\ written <= written
        /\ Unopened(old) /\ UpTo(old, written) /\ Precedes(m, old)
        /\ result[1] <= written /\ \A i \in DOMAIN m : m[i][1] < result[1]
    BY <1>3, <1>4, <1>6, <1>7, <2>1
  <2>3. /\ Append(old, result) \in Said /\ Append(old, result) # <<>>
        /\ Unopened(Append(old, result)) /\ UpTo(Append(old, result), written)
        /\ Precedes(m, Append(old, result))
    BY ONLY <2>1, <2>2, SaidGrows
  <2>. QED BY <2>3
<1>11. queued' \subseteq {"background", "idle"} /\ "model" \in Working \cup {"idle"}
       /\ written + 0 = written
  BY <1>1, <1>3 DEF Working, RInv
<1>12. CASE Writes(Checkpoint(point), "model", said, 0)
  <2>1. \A t : t.pc = "model" /\ t.said = said => Ready(t, Checkpoint(point), written)
    BY <1>4, <1>9, <1>10 DEF Ready
  <2>2. 0 \in Nat /\ Good(Checkpoint(point), written + 0)
        /\ \A t : t.pc = "model" /\ t.said = said => Ready(t, Checkpoint(point), written + 0)
    BY <1>9, <1>11, <2>1
  <2>. QED BY <1>1, <1>10, <1>11, <1>12, <2>2, WritesReplay
<1>13. CASE Writes(Checkpoint(point), "model", Append(said, more), 1)
  <2> PICK y : y = Append(said, more)
    OBVIOUS
  <2>1. ~Opens(more) /\ more[1] <= n /\ more[2] # "call" /\ written < more[1]
    BY <1>3 DEF Opens
  <2>2. /\ y \in Said /\ y # <<>> /\ Unopened(y) /\ UpTo(y, n)
        /\ Precedes(f.messages, y) /\ Sound(y)
    <3> PICK m : m = f.messages
      OBVIOUS
    <3>1. /\ m \in Said /\ said \in Said /\ Sound(said) /\ written \in Nat /\ n \in Nat
          /\ Unopened(said) /\ UpTo(said, written) /\ Precedes(m, said) /\ written <= n
          /\ more \in Nat \X Role /\ \A i \in DOMAIN m : m[i][1] < more[1]
      BY <1>3, <1>4, <1>7, <1>10
    <3>2. /\ Append(said, more) \in Said /\ Append(said, more) # <<>>
          /\ Unopened(Append(said, more)) /\ UpTo(Append(said, more), n)
          /\ Precedes(m, Append(said, more)) /\ Sound(Append(said, more))
      BY ONLY <2>1, <3>1, SaidGrows
    <3>. QED BY <3>2
  <2>3. Good(Checkpoint(point), n)
    BY <1>3, <1>9, GoodLater
  <2>4. \A t : t.pc = "model" /\ t.said = y => Ready(t, Checkpoint(point), n)
    BY <1>9, <2>2 DEF Ready
  <2>5. 1 \in Nat /\ Writes(Checkpoint(point), "model", y, 1)
    BY <1>13
  <2>. QED BY <1>1, <1>11, <2>2, <2>3, <2>4, <2>5, WritesReplay
<1>. QED BY <1>1, <1>12, <1>13

(* An answer ends the turn, or a follow-up comes behind it.                 *)
LEMMA AnswersReplays ==
    ASSUME RInv, Answers
    PROVE  RInv'
<1> PICK n : n = written + 1
  OBVIOUS
<1> PICK answer : answer = Message("answer")
  OBVIOUS
<1> PICK more : more = <<written + 2, "more">>
  OBVIOUS
<1> PICK f : f = object[turn.obj]
  OBVIOUS
<1> PICK m : m = f.messages
  OBVIOUS
<1> PICK old : old = turn.said
  OBVIOUS
<1> PICK said : said = Append(old, answer)
  OBVIOUS
<1>1. /\ turn.pc = "model" /\ turn.pc \in Working /\ lock.who \notin {"turn", "compact"}
      /\ queued' = queued
      /\ \/ Writes(Checkpoint(<<answer>>), "final", said, 1)
         \/ Writes(Checkpoint(<<answer>>), "model", old \o <<answer, more>>, 2)
  BY DEF Answers, Working, RInv, Locked
<1>2. turn.obj \in Obj /\ turn.obj \in Hands /\ turn.obj # NoObj
  BY <1>1, HistoryConstantsOK DEF RInv, IsTurn, Hands
<1>3. /\ written \in Nat /\ n \in Nat /\ n + 1 \in Nat /\ written <= n /\ written < n
      /\ n <= n + 1 /\ n < n + 1 /\ n <= n
      /\ answer \in Nat \X Role /\ answer[1] = n /\ answer[2] # "call" /\ ~Opens(answer)
      /\ more \in Nat \X Role /\ more[1] = n + 1 /\ more[2] # "call" /\ ~Opens(more)
  <2>1. written \in Nat
    BY DEF RInv
  <2>2. answer = <<n, "answer">> /\ more = <<n + 1, "more">>
    BY <2>1 DEF Message
  <2>. QED BY <2>1, <2>2 DEF Opens, Role
<1>4. /\ m \in Said /\ UpTo(m, written) /\ old \in Said /\ Sound(old)
      /\ Unopened(old) /\ UpTo(old, written) /\ Precedes(m, old)
  <2>1. Good(f, written) /\ Ready(turn, f, written)
    BY <1>2 DEF RInv
  <2>. QED BY <1>1, <2>1 DEF Good, Ready, Sound
<1>5. /\ \A i \in DOMAIN m : m[i][1] < answer[1]
      /\ \A i \in DOMAIN m : m[i][1] < more[1]
  <2>1. written < n + 1
    BY <1>3
  <2>2. \A i \in DOMAIN m : m[i][1] < n
    BY <1>3, <1>4, BelowNext
  <2>3. \A i \in DOMAIN m : m[i][1] < n + 1
    BY <1>3, <1>4, <2>1, BelowNext
  <2>. QED BY <1>3, <2>2, <2>3
<1>6. /\ Good(Checkpoint(<<answer>>), n) /\ Good(Checkpoint(<<answer>>), n + 1)
      /\ Checkpoint(<<answer>>).messages = m
  <2>1. /\ Sound(<<answer>>) /\ Unopened(<<answer>>) /\ UpTo(<<answer>>, n)
        /\ Precedes(m, <<answer>>)
    BY <1>3, <1>5, OneMessage
  <2>2. Good(Checkpoint(<<answer>>), n) /\ Checkpoint(<<answer>>).messages = m
    BY <1>2, <1>3, <2>1, CheckpointGood
  <2>. QED BY <1>3, <2>2, GoodLater
<1>7. /\ said \in Said /\ said # <<>> /\ Unopened(said) /\ UpTo(said, n)
      /\ Precedes(m, said) /\ Sound(said)
  <2>1. /\ Append(old, answer) \in Said /\ Append(old, answer) # <<>>
        /\ Unopened(Append(old, answer)) /\ UpTo(Append(old, answer), n)
        /\ Precedes(m, Append(old, answer)) /\ Sound(Append(old, answer))
    <3>1. answer[1] <= n /\ written < answer[1]
      BY <1>3
    <3>. QED BY ONLY <1>3, <1>4, <1>5, <3>1, SaidGrows
  <2>. QED BY <2>1
<1>8. queued' \subseteq {"background", "idle"} /\ {"model", "final"} \subseteq Working \cup {"idle"}
  BY <1>1 DEF Working, RInv
<1>9. CASE Writes(Checkpoint(<<answer>>), "final", said, 1)
  <2>1. \A t : t.pc = "final" /\ t.said = said => Ready(t, Checkpoint(<<answer>>), n)
    BY <1>6, <1>7 DEF Ready
  <2>2. 1 \in Nat /\ n = written + 1 /\ "final" \in Working \cup {"idle"}
    BY <1>8
  <2>. QED BY <1>1, <1>6, <1>7, <1>8, <1>9, <2>1, <2>2, WritesReplay
<1>10. CASE Writes(Checkpoint(<<answer>>), "model", old \o <<answer, more>>, 2)
  <2> PICK y : y = Append(said, more)
    OBVIOUS
  <2>1. /\ y \in Said /\ Unopened(y) /\ UpTo(y, n + 1) /\ Precedes(m, y) /\ Sound(y)
    <3>1. /\ Append(said, more) \in Said /\ Unopened(Append(said, more))
          /\ UpTo(Append(said, more), n + 1) /\ Precedes(m, Append(said, more))
          /\ Sound(Append(said, more))
      <4>1. more[1] <= n + 1 /\ n < more[1]
        BY <1>3
      <4>. QED BY ONLY <1>3, <1>4, <1>5, <1>7, <4>1, SaidGrows
    <3>. QED BY <3>1
  <2>2. y = old \o <<answer, more>>
    <3>1. old \in Seq(Nat \X Role)
      BY <1>4 DEF Said
    <3>2. Append(Append(old, answer), more) = old \o <<answer, more>>
      BY ONLY <1>3, <3>1, AppendTwo
    <3>. QED BY <3>2
  <2>3. \A t : t.pc = "model" /\ t.said = y => Ready(t, Checkpoint(<<answer>>), n + 1)
    BY <1>6, <2>1 DEF Ready
  <2>4. /\ 2 \in Nat /\ n + 1 = written + 2 /\ "model" \in Working \cup {"idle"}
        /\ Writes(Checkpoint(<<answer>>), "model", y, 2)
    BY <1>3, <1>8, <1>10, <2>2
  <2>. QED BY <1>1, <1>6, <1>8, <2>1, <2>3, <2>4, WritesReplay
<1>. QED BY <1>1, <1>9, <1>10

(* What the turn has said is written whole, and its checkpoint is gone      *)
(* (_persist_turn).                                                         *)
LEMMA PersistTurnReplays ==
    ASSUME RInv, PersistTurn
    PROVE  RInv'
<1> PICK f : f = object[turn.obj]
  OBVIOUS
<1> PICK m : m = f.messages
  OBVIOUS
<1> PICK said : said = turn.said
  OBVIOUS
<1> PICK s : s = [f EXCEPT !.messages = m \o said, !.checkpoint = <<>>, !.pendingUser = FALSE]
  OBVIOUS
<1>1. /\ turn.pc = "final" /\ turn.pc \in Working /\ lock.who \notin {"turn", "compact"}
      /\ queued' = queued \cup {"background"} /\ Writes(s, "idle", <<>>, 0)
  BY DEF PersistTurn, Working, RInv, Locked
<1>2. turn.obj \in Obj /\ turn.obj \in Hands /\ turn.obj # NoObj
  BY <1>1, HistoryConstantsOK DEF RInv, IsTurn, Hands
<1>3. Good(f, written) /\ Ready(turn, f, written) /\ written \in Nat /\ IsTurn(turn)
  BY <1>2 DEF RInv
<1>4. /\ m \in Said /\ Sound(m) /\ UpTo(m, written)
      /\ said \in Said /\ Sound(said) /\ Unopened(said) /\ UpTo(said, written)
      /\ Precedes(m, said) /\ said # <<>>
  <2>1. Sound(m) /\ UpTo(m, written)
    BY <1>3 DEF Good
  <2>2. /\ Sound(said) /\ Unopened(said) /\ UpTo(said, written)
        /\ Precedes(m, said) /\ said # <<>>
    BY <1>1, <1>3 DEF Ready
  <2>. QED BY <2>1, <2>2 DEF Sound
<1>5. Sound(m \o said) /\ UpTo(m \o said, written) /\ (EndsOpen(m \o said) <=> EndsOpen(said))
  BY <1>4, SoundJoin, JoinBounds
<1>6. ~EndsOpen(said)
  <2>1. Len(said) \in DOMAIN said
    BY <1>4 DEF Said
  <2>. QED BY <1>4, <2>1 DEF EndsOpen, Unopened
<1>7. /\ s = [x \in SessionFields |-> s[x]] /\ s.pendingUser = FALSE
      /\ s.messages = m \o said /\ s.checkpoint = <<>>
  BY <1>3 DEF Good, SessionFields
<1>8. Good(s, written) /\ written + 0 = written
  <2> PICK x : x = s.messages
    OBVIOUS
  <2>1. Sound(x) /\ UpTo(x, written) /\ ~EndsOpen(x) /\ x = s.messages
    BY <1>5, <1>6, <1>7
  <2>2. s.pendingUser \in BOOLEAN
    BY <1>7
  <2>3. Good(s, written)
    BY ONLY <1>7, <2>1, <2>2, GoodParts
  <2>. QED BY <1>3, <2>3
<1>9. /\ <<>> \in Said /\ 0 \in Nat /\ "idle" \in Working \cup {"idle"}
      /\ queued' \subseteq {"background", "idle"}
  BY <1>1 DEF Said, RInv
<1>. QED BY <1>1, <1>8, <1>9, WritesReplay

(* A turn that raises leaves its checkpoint to the next one.                *)
LEMMA FailTurnReplays ==
    ASSUME RInv, FailTurn
    PROVE  RInv'
<1>1. /\ turn.pc \in {"model", "tools"} /\ turn' = NoTurn /\ Objects(object)
      /\ UNCHANGED <<cached, lock, queued, written, file>>
  BY DEF FailTurn, Untouched
<1>2. IsTurn(turn') /\ turn'.obj = NoObj
  BY <1>1, NoTurnIsIdle
<1>3. Locked(lock', turn')
  BY <1>1 DEF RInv, Locked
<1>4. \A o \in Held : o \in Obj /\ Good(object[o], written')
  BY <1>1, <1>2 DEF RInv, Held, Hands
<1>5. written' \in Nat /\ queued' \subseteq {"background", "idle"} /\ Good(file', written')
  BY <1>1 DEF RInv
<1>. QED BY <1>1, <1>2, <1>3, <1>4, <1>5, GoodStep

(* A cancelled turn restores its checkpoint in the session it gets          *)
(* (cmd_stop).                                                              *)
LEMMA CancelTurnReplays ==
    ASSUME RInv, NEW byNew \in BOOLEAN, CancelTurn(byNew)
    PROVE  RInv'
<1> PICK s : s = Known[Got]
  OBVIOUS
<1> PICK g : g = Restored(s)
  OBVIOUS
<1> PICK os : os = [Known EXCEPT ![Got] = g]
  OBVIOUS
<1>1. /\ turn' = [NoTurn EXCEPT !.pc = IF byNew THEN "new" ELSE "idle"]
      /\ lock' = IF lock.who \in {"turn", "compact"} THEN Unlocked ELSE lock
      /\ UNCHANGED <<queued, written>>
      /\ IF s.checkpoint = <<>> THEN cached' = Got /\ Untouched(Known) ELSE Saved(os, Got)
  BY DEF CancelTurn
<1>2. /\ Got \in Obj /\ Got # NoObj /\ Good(s, written) /\ Known = [o \in Obj |-> Known[o]]
      /\ \A o \in Hands : Known[o] = object[o]
  BY GotGood
<1>3. Good(g, written) /\ (s.checkpoint = <<>> => g = s)
  BY <1>2, RestoredGood DEF Restored
<1>4. os[Got] = g /\ \A o \in Obj : o # Got => os[o] = Known[o]
  BY <1>2
<1>5. s.checkpoint = <<>> => os = Known
  BY <1>2, <1>3
<1>6. /\ cached' = Got /\ Objects(os) /\ (file' = file \/ file' = g)
  BY <1>1, <1>4, <1>5 DEF Saved, Untouched
<1>7. /\ turn' = [x \in {"pc", "obj", "said"} |-> turn'[x]]
      /\ turn'.obj = NoObj /\ turn'.said = <<>> /\ turn'.pc \in {"idle", "new"}
  BY <1>1 DEF NoTurn
<1>8. IsTurn(turn')
  BY <1>7 DEF IsTurn, Working, Said
<1>9. Locked(lock', turn') /\ lock'.obj \in {lock.obj, NoObj}
  BY <1>1 DEF RInv, Locked, Unlocked
<1>10. \A o \in Held : o = Got \/ o \in Hands
  BY <1>6, <1>7, <1>9 DEF Held, Hands
<1>11. \A o \in Held : o \in Obj /\ Good(os[o], written')
  BY <1>1, <1>2, <1>3, <1>4, <1>10 DEF RInv
<1>12. written' \in Nat /\ queued' \subseteq {"background", "idle"} /\ Good(file', written')
  BY <1>1, <1>3, <1>6 DEF RInv
<1>. QED BY <1>6, <1>7, <1>8, <1>9, <1>11, <1>12, GoodStep

(* An emptied session is good, with the checkpoint it still has (cmd_new).  *)
LEMMA NewReplays ==
    ASSUME RInv, New
    PROVE  RInv'
<1> PICK s : s = IF turn.pc = "new" THEN Known[Got] ELSE Concluded(Restored(Known[Got]))
  OBVIOUS
<1> PICK blank : blank = [s EXCEPT !.messages = <<>>, !.cursor = 0, !.summary = FALSE]
  OBVIOUS
<1> PICK os : os = [Known EXCEPT ![Got] = blank]
  OBVIOUS
<1>1. /\ turn.pc \in {"idle", "new"} /\ UNCHANGED <<lock, queued, written>>
      /\ cached' = NoObj /\ turn' = NoTurn /\ file' = blank /\ Objects(os)
  BY DEF New
<1>2. /\ Got \in Obj /\ Good(Known[Got], written) /\ Known = [o \in Obj |-> Known[o]]
      /\ \A o \in Hands : Known[o] = object[o]
  BY GotGood
<1>3. Good(s, written)
  BY <1>2, RestoredGood, ConcludedGood
<1>4. /\ blank = [x \in SessionFields |-> blank[x]] /\ blank.messages = <<>>
      /\ blank.checkpoint = s.checkpoint /\ blank.pendingUser = s.pendingUser
  BY <1>3 DEF Good, SessionFields
<1>5. Good(blank, written)
  BY <1>3, <1>4, NoMessages DEF Good
<1>6. os[Got] = blank /\ \A o \in Obj : o # Got => os[o] = Known[o]
  BY <1>2
<1>7. IsTurn(turn') /\ turn'.obj = NoObj
  BY <1>1, NoTurnIsIdle
<1>8. Locked(lock', turn')
  BY <1>1 DEF RInv, Locked
<1>9. \A o \in Held : o \in Hands
  BY <1>1, <1>7 DEF Held, Hands
<1>10. \A o \in Held : o \in Obj /\ Good(os[o], written')
  BY <1>1, <1>2, <1>5, <1>6, <1>9 DEF RInv
<1>11. written' \in Nat /\ queued' \subseteq {"background", "idle"} /\ Good(file', written')
  BY <1>1, <1>5 DEF RInv
<1>. QED BY <1>1, <1>7, <1>8, <1>10, <1>11, GoodStep

(* A session that was never written is good.                                *)
LEMMA EmptyIsGood ==
    ASSUME NEW n
    PROVE  Good(Empty, n)
<1>1. /\ Empty = [x \in SessionFields |-> Empty[x]] /\ Empty.messages = <<>>
      /\ Empty.checkpoint = <<>> /\ Empty.pendingUser = FALSE
  BY DEF Empty, SessionFields
<1>. QED BY <1>1, NoMessages DEF Good

(* A deletion leaves whoever has the session what they had.                 *)
LEMMA DeleteReplays ==
    ASSUME RInv, Delete
    PROVE  RInv'
<1>1. /\ UNCHANGED <<turn, lock, queued, written>> /\ cached' = NoObj /\ file' = Empty
      /\ Objects(object)
  BY DEF Delete
<1>2. IsTurn(turn') /\ Locked(lock', turn')
  BY <1>1 DEF RInv
<1>3. \A o \in Held : o \in Obj /\ Good(object[o], written')
  BY <1>1 DEF RInv, Held, Hands
<1>4. turn'.obj # NoObj => Ready(turn', object[turn'.obj], written')
  BY <1>1 DEF RInv
<1>5. written' \in Nat /\ queued' \subseteq {"background", "idle"} /\ Good(file', written')
  BY <1>1, EmptyIsGood DEF RInv
<1>. QED BY <1>1, <1>2, <1>3, <1>4, <1>5, GoodStep

(* A crash leaves the file as the last save made it.                        *)
LEMMA CrashReplays ==
    ASSUME RInv, Crash
    PROVE  RInv'
<1>1. /\ object' = [o \in Obj |-> Empty] /\ cached' = NoObj /\ turn' = NoTurn
      /\ lock' = Unlocked /\ queued' = {} /\ file' = file /\ written' = written
  BY DEF Crash
<1>2. IsTurn(turn') /\ turn'.obj = NoObj
  BY <1>1, NoTurnIsIdle
<1>3. Locked(lock', turn') /\ lock'.obj = NoObj
  BY <1>1, <1>2 DEF Locked, Unlocked
<1>4. Held = {}
  BY <1>1, <1>2, <1>3 DEF Held
<1>5. Objects(object)
  BY <1>1, <1>4 DEF Objects
<1>6. written' \in Nat /\ queued' \subseteq {"background", "idle"} /\ Good(file', written')
  BY <1>1 DEF RInv
<1>. QED BY <1>2, <1>3, <1>4, <1>5, <1>6, GoodStep

(* An archive of what a /new left touches no session.                       *)
LEMMA ArchiveReplays ==
    ASSUME RInv, UNCHANGED <<object, cached, file, turn, lock, queued, written>>
    PROVE  RInv'
BY DEF RInv, Hands

(* A step that gets the session, or reads it, and starts or skips an archive.*)
LEMMA LooksReplay ==
    ASSUME RInv, NEW os, Untouched(os), NEW o \in Obj, cached' = o, Good(os[o], written),
           \A p \in Hands : os[p] = object[p],
           turn' = turn, written' = written, queued' \subseteq {"background", "idle"},
           Locked(lock', turn), lock'.obj \in {lock.obj, o}
    PROVE  RInv'
<1>1. IsTurn(turn') /\ Locked(lock', turn')
  BY DEF RInv
<1>2. \A p \in Held : p = o \/ p \in Hands
  BY DEF Held, Hands
<1>3. \A p \in Held : p \in Obj /\ Good(os[p], written')
  BY <1>2 DEF RInv
<1>4. turn'.obj # NoObj => Ready(turn', os[turn'.obj], written')
  BY DEF RInv, Hands
<1>5. Objects(os) /\ written' \in Nat /\ Good(file', written')
  BY DEF RInv, Untouched
<1>. QED BY <1>1, <1>3, <1>4, <1>5, GoodStep

(* A round of consolidation starts, or not, on the session it gets.         *)
LEMMA GetsReplay ==
    ASSUME RInv, SkipRound \/ ScheduleIdle \/ \E who \in {"turn", "background"} : BeginRound(who)
    PROVE  RInv'
<1> PICK os : os = Known
  OBVIOUS
<1>1. /\ Got \in Obj /\ Good(os[Got], written) /\ \A p \in Hands : os[p] = object[p]
  BY GotGood
<1>2. /\ cached' = Got /\ Untouched(os) /\ turn' = turn /\ written' = written
  BY DEF SkipRound, ScheduleIdle, BeginRound
<1>3. queued' \subseteq {"background", "idle"}
  BY DEF SkipRound, ScheduleIdle, BeginRound, RInv
<1>4. CASE SkipRound \/ ScheduleIdle
  <2>1. lock' = lock
    BY <1>4 DEF SkipRound, ScheduleIdle
  <2>2. Locked(lock', turn) /\ lock'.obj \in {lock.obj, Got}
    BY <2>1 DEF RInv
  <2>. QED BY <1>1, <1>2, <1>3, <2>2, LooksReplay
<1>5. ASSUME NEW who \in {"turn", "background"}, BeginRound(who)
      PROVE  RInv'
  <2>1. who = "turn" => turn.pc = "chat"
    BY <1>5 DEF BeginRound, Waits, RInv
  <2>2. lock'.who = who /\ lock'.obj = Got
    BY <1>5 DEF BeginRound, Round
  <2>3. Locked(lock', turn)
    BY <1>1, <2>1, <2>2 DEF Locked
  <2>. QED BY <1>1, <1>2, <1>3, <2>2, <2>3, LooksReplay
<1>. QED BY <1>4, <1>5

(* A compaction starts, or not, on a session it reads again (invalidate).   *)
LEMMA ReadsReplay ==
    ASSUME RInv, SkipCompaction \/ \E who \in {"idle", "compact"} : BeginCompaction(who)
    PROVE  RInv'
<1> PICK l : l = Loaded
  OBVIOUS
<1> PICK os : os = [object EXCEPT ![Spare] = l]
  OBVIOUS
<1>1. /\ Spare \in Obj /\ Spare \notin Hands /\ Good(l, written)
  BY GotGood
<1>2. os[Spare] = l /\ \A p \in Hands : os[p] = object[p]
  BY <1>1 DEF RInv
<1>3. /\ cached' = Spare /\ Untouched(os) /\ turn' = turn /\ written' = written
  BY DEF SkipCompaction, BeginCompaction
<1>4. queued' \subseteq {"background", "idle"}
  BY DEF SkipCompaction, BeginCompaction, RInv
<1>5. CASE SkipCompaction
  <2>1. lock' = lock
    BY <1>5 DEF SkipCompaction
  <2>2. Locked(lock', turn) /\ lock'.obj \in {lock.obj, Spare}
    BY <2>1 DEF RInv
  <2>. QED BY <1>1, <1>2, <1>3, <1>4, <2>2, LooksReplay
<1>6. ASSUME NEW who \in {"idle", "compact"}, BeginCompaction(who)
      PROVE  RInv'
  <2>1. who = "compact" => turn.pc = "compact"
    BY <1>6 DEF BeginCompaction
  <2>2. lock'.who = who /\ lock'.obj = Spare
    BY <1>6 DEF BeginCompaction, Round
  <2>3. Locked(lock', turn)
    BY <1>1, <2>1, <2>2 DEF Locked
  <2>. QED BY <1>1, <1>2, <1>3, <1>4, <2>2, <2>3, LooksReplay
<1>. QED BY <1>5, <1>6

(* The cursor and the summary say nothing of what can be replayed.          *)
LEMMA SameReplay ==
    ASSUME NEW f, NEW g, NEW n, Good(f, n), g = [x \in SessionFields |-> g[x]],
           g.messages = f.messages, g.checkpoint = f.checkpoint,
           g.pendingUser = f.pendingUser
    PROVE  /\ Good(g, n)
           /\ \A t : Ready(t, f, n) => Ready(t, g, n)
BY DEF Good, Ready

(* The end of an archive saves the object it holds.                         *)
LEMMA EndReplays ==
    ASSUME RInv, NEW x, lock.who # "nobody",
           x = [y \in SessionFields |-> x[y]],
           x.messages = object[lock.obj].messages,
           x.checkpoint = object[lock.obj].checkpoint,
           x.pendingUser = object[lock.obj].pendingUser,
           Saved([object EXCEPT ![lock.obj] = x], lock.obj),
           IsTurn(turn'), turn'.obj = turn.obj, written' = written, queued' = queued,
           Locked(lock', turn'), lock'.obj \in {lock.obj, NoObj},
           \A s : Ready(turn, s, written) => Ready(turn', s, written)
    PROVE  RInv'
<1> PICK f : f = object[lock.obj]
  OBVIOUS
<1> PICK os : os = [object EXCEPT ![lock.obj] = x]
  OBVIOUS
<1>1. lock.obj \in Obj /\ lock.obj # NoObj /\ lock.obj \in Hands /\ Good(f, written)
  BY HistoryConstantsOK DEF RInv, Locked, Hands
<1>2. Good(x, written) /\ \A t : Ready(t, f, written) => Ready(t, x, written)
  BY <1>1, SameReplay
<1>3. os[lock.obj] = x /\ \A o \in Obj : o # lock.obj => os[o] = object[o]
  BY <1>1 DEF RInv
<1>4. cached' = lock.obj /\ file' = x /\ Objects(os)
  BY <1>3 DEF Saved
<1>5. \A p \in Held : p \in Hands
  BY <1>1, <1>4 DEF Held, Hands
<1>6. \A p \in Held : p \in Obj /\ Good(os[p], written')
  BY <1>2, <1>3, <1>5 DEF RInv
<1>7. turn'.obj # NoObj => Ready(turn', os[turn'.obj], written')
  <2> SUFFICES ASSUME turn.obj # NoObj PROVE Ready(turn', os[turn.obj], written)
    OBVIOUS
  <2>1. turn.obj \in Obj /\ Ready(turn, object[turn.obj], written)
    BY DEF RInv, Hands
  <2>2. Ready(turn, os[turn.obj], written)
    BY <1>2, <1>3, <2>1
  <2>. QED BY <2>2
<1>8. written' \in Nat /\ queued' \subseteq {"background", "idle"} /\ Good(file', written')
  BY <1>2, <1>4 DEF RInv
<1>. QED BY <1>4, <1>6, <1>7, <1>8, GoodStep

(* A round that ends moves the cursor (maybe_consolidate_by_tokens).        *)
LEMMA EndRoundReplays ==
    ASSUME RInv, NEW ok \in BOOLEAN, EndRound(ok)
    PROVE  RInv'
<1> PICK f : f = object[lock.obj]
  OBVIOUS
<1> PICK s : s = [f EXCEPT !.cursor = lock.end]
  OBVIOUS
<1> PICK done : done = [s EXCEPT !.summary = @ \/ ok \/ lock.summary]
  OBVIOUS
<1>1. /\ lock.who \in {"turn", "background"} /\ queued' = queued /\ written' = written
      /\ \/ /\ \E end \in Boundaries(s) :
                  lock' = Round(lock.who, lock.obj, s, end, lock.round + 1, TRUE)
            /\ turn' = turn
            /\ Saved([object EXCEPT ![lock.obj] = s], lock.obj)
         \/ /\ lock' = Unlocked
            /\ turn' = IF lock.who = "turn" THEN [turn EXCEPT !.pc = "consolidated"]
                       ELSE turn
            /\ Saved([object EXCEPT ![lock.obj] = done], lock.obj)
  BY DEF EndRound
<1>2. Good(f, written) /\ IsTurn(turn) /\ Locked(lock, turn)
  BY <1>1, HistoryConstantsOK DEF RInv, Locked, Hands
<1>3. /\ s = [y \in SessionFields |-> s[y]] /\ s.messages = f.messages
      /\ s.checkpoint = f.checkpoint /\ s.pendingUser = f.pendingUser
  BY <1>2 DEF Good, SessionFields
<1>4. /\ done = [y \in SessionFields |-> done[y]] /\ done.messages = f.messages
      /\ done.checkpoint = f.checkpoint /\ done.pendingUser = f.pendingUser
  BY <1>3 DEF SessionFields
<1>5. CASE /\ \E end \in Boundaries(s) :
                 lock' = Round(lock.who, lock.obj, s, end, lock.round + 1, TRUE)
           /\ turn' = turn
           /\ Saved([object EXCEPT ![lock.obj] = s], lock.obj)
  <2>1. lock'.who = lock.who /\ lock'.obj = lock.obj
    BY <1>5 DEF Round
  <2>2. Locked(lock', turn')
    BY <1>2, <1>5, <2>1 DEF Locked
  <2>3. /\ lock.who # "nobody" /\ IsTurn(turn') /\ turn'.obj = turn.obj
        /\ \A t : Ready(turn, t, written) => Ready(turn', t, written)
    BY <1>1, <1>2, <1>5
  <2>. QED BY <1>1, <1>3, <1>5, <2>1, <2>2, <2>3, EndReplays
<1>6. CASE /\ lock' = Unlocked
           /\ turn' = IF lock.who = "turn" THEN [turn EXCEPT !.pc = "consolidated"]
                      ELSE turn
           /\ Saved([object EXCEPT ![lock.obj] = done], lock.obj)
  <2>1. Locked(lock', turn') /\ lock'.obj = NoObj
    BY <1>6 DEF Locked, Unlocked
  <2>2. /\ IsTurn(turn') /\ turn'.obj = turn.obj
        /\ \A t : Ready(turn, t, written) => Ready(turn', t, written)
    <3>1. CASE lock.who = "turn"
      <4>1. turn.pc = "chat"
        BY <1>2, <3>1 DEF Locked
      <4>2. /\ turn' = [x \in {"pc", "obj", "said"} |-> turn'[x]]
            /\ turn'.pc = "consolidated" /\ turn'.obj = turn.obj /\ turn'.said = turn.said
        BY <1>2, <1>6, <3>1 DEF IsTurn
      <4>3. IsTurn(turn')
        BY <1>2, <4>1, <4>2 DEF IsTurn, Working
      <4>4. \A t : Ready(turn, t, written) => Ready(turn', t, written)
        BY <4>1, <4>2 DEF Ready
      <4>. QED BY <4>2, <4>3, <4>4
    <3>2. CASE lock.who # "turn"
      BY <1>2, <1>6, <3>2
    <3>. QED BY <3>1, <3>2
  <2>3. lock.who # "nobody"
    BY <1>1
  <2>. QED BY <1>1, <1>4, <1>6, <2>1, <2>2, <2>3, EndReplays
<1>. QED BY <1>1, <1>5, <1>6

(* A compaction that ends moves the cursor (compact_idle_session).          *)
LEMMA EndIdleReplays ==
    ASSUME RInv, NEW ok \in BOOLEAN, EndIdle(ok)
    PROVE  RInv'
<1> PICK f : f = object[lock.obj]
  OBVIOUS
<1> PICK s : s = Compacted(f, ok)
  OBVIOUS
<1>1. /\ lock.who = "idle" /\ queued' = queued /\ written' = written /\ turn' = turn
      /\ lock' = Unlocked
      /\ Saved([object EXCEPT ![lock.obj] = Compacted(@, ok)], lock.obj)
  BY DEF EndIdle
<1>2. Good(f, written) /\ IsTurn(turn) /\ object = [o \in Obj |-> object[o]]
  BY <1>1, HistoryConstantsOK DEF RInv, Locked, Hands
<1>3. [object EXCEPT ![lock.obj] = Compacted(@, ok)] = [object EXCEPT ![lock.obj] = s]
  BY <1>2
<1>4. Saved([object EXCEPT ![lock.obj] = s], lock.obj)
  BY <1>1, <1>3
<1>5. /\ s = [y \in SessionFields |-> s[y]] /\ s.messages = f.messages
      /\ s.checkpoint = f.checkpoint /\ s.pendingUser = f.pendingUser
  BY <1>2 DEF Good, SessionFields, Compacted
<1>6. Locked(lock', turn') /\ lock'.obj = NoObj
  BY <1>1 DEF Locked, Unlocked
<1>7. /\ lock.who # "nobody" /\ IsTurn(turn') /\ turn'.obj = turn.obj
      /\ \A t : Ready(turn, t, written) => Ready(turn', t, written)
  BY <1>1, <1>2
<1>. QED BY <1>1, <1>4, <1>5, <1>6, <1>7, EndReplays

(* A /compact writes its command and its reply behind a closed history      *)
(* (_dispatch_command).                                                     *)
LEMMA EndCompactReplays ==
    ASSUME RInv, NEW ok \in BOOLEAN, EndCompact(ok)
    PROVE  RInv'
<1> PICK f : f = object[turn.obj]
  OBVIOUS
<1> PICK m : m = f.messages
  OBVIOUS
<1> PICK user : user = Message("user")
  OBVIOUS
<1> PICK answer : answer = <<written + 2, "answer">>
  OBVIOUS
<1> PICK s : s = [f EXCEPT !.pendingUser = FALSE, !.messages = m \o <<user, answer>>]
  OBVIOUS
<1> PICK os : os = [object EXCEPT ![lock.obj] = Compacted(@, ok), ![turn.obj] = s]
  OBVIOUS
<1>1. /\ lock.who = "compact" /\ lock' = Unlocked /\ turn' = NoTurn /\ queued' = queued
      /\ Saved(os, turn.obj) /\ written' = written + 2
  BY DEF EndCompact
<1>2. turn.pc = "compact" /\ turn.obj \in Obj /\ turn.obj # NoObj /\ turn.obj \in Hands
  BY <1>1, HistoryConstantsOK DEF RInv, Locked, IsTurn, Working, Hands
<1>3. Good(f, written) /\ f.checkpoint = <<>> /\ ~EndsOpen(m) /\ written \in Nat
  BY <1>2 DEF RInv, Ready
<1>4. m \in Said /\ Sound(m) /\ UpTo(m, written)
  <2>1. Sound(m) /\ UpTo(m, written)
    BY <1>3 DEF Good
  <2>. QED BY <2>1 DEF Sound
<1>5. /\ user \in Nat \X Role /\ user[1] = written + 1 /\ user[2] # "call"
      /\ answer \in Nat \X Role /\ answer[1] = written + 2 /\ answer[2] # "call"
      /\ ~Opens(answer)
  <2>1. user = <<written + 1, "user">>
    BY DEF Message
  <2>. QED BY <1>3, <2>1 DEF Role, Opens
<1>6. Sound(m \o <<user, answer>>) /\ UpTo(m \o <<user, answer>>, written + 2)
      /\ ~EndsOpen(m \o <<user, answer>>)
  <2> PICK h : h = m \o <<user>>
    OBVIOUS
  <2>1. /\ written + 1 \in Nat /\ written + 2 \in Nat /\ written < written + 1
        /\ written + 1 < written + 2 /\ written + 1 <= written + 2
        /\ written <= written + 1 /\ written + 1 <= written + 1 /\ written + 2 <= written + 2
    BY <1>3
  <2>2. /\ Sound(<<user>>) /\ UpTo(<<user>>, written + 1) /\ Precedes(m, <<user>>)
        /\ <<user>> \in Said /\ <<user>> # <<>>
    <3>1. \A i \in DOMAIN m : m[i][1] < user[1]
      BY <1>3, <1>4, <1>5, <2>1, BelowNext
    <3>2. Sound(<<user>>) /\ UpTo(<<user>>, written + 1) /\ Precedes(m, <<user>>)
      BY <1>5, <2>1, <3>1, OneMessage
    <3>. QED BY <1>4, <1>5, <3>2, AppendJoins
  <2>3. Sound(h)
    BY <1>3, <1>4, <2>2, SoundJoin
  <2>4. UpTo(h, written + 1) /\ h \in Said
    <3>1. UpTo(m, written + 1)
      BY <1>3, <1>4, <2>1, GoodLater
    <3>. QED BY <1>4, <2>2, <2>3, <3>1, JoinBounds DEF Sound
  <2>5. /\ Sound(<<answer>>) /\ UpTo(<<answer>>, written + 2) /\ Precedes(h, <<answer>>)
        /\ <<answer>> \in Said /\ <<answer>> # <<>> /\ Unopened(<<answer>>)
        /\ ~EndsOpen(<<answer>>)
    <3>1. \A i \in DOMAIN h : h[i][1] < answer[1]
      BY <1>5, <2>1, <2>4, BelowNext
    <3>2. /\ Sound(<<answer>>) /\ UpTo(<<answer>>, written + 2) /\ Precedes(h, <<answer>>)
          /\ Unopened(<<answer>>) /\ ~EndsOpen(<<answer>>)
      BY <1>5, <2>1, <3>1, OneMessage
    <3>. QED BY <1>5, <2>4, <3>2, AppendJoins
  <2>6. Sound(h \o <<answer>>)
    BY <2>3, <2>5, SoundJoin
  <2>7. UpTo(h \o <<answer>>, written + 2) /\ ~EndsOpen(h \o <<answer>>)
    <3>1. UpTo(h, written + 2)
      BY <2>1, <2>4, GoodLater
    <3>. QED BY <2>4, <2>5, <3>1, JoinBounds
  <2>8. h \o <<answer>> = m \o <<user, answer>>
    <3>1. m \in Seq(Nat \X Role)
      BY <1>4 DEF Said
    <3>2. Append(Append(m, user), answer) = m \o <<user, answer>>
      BY ONLY <1>5, <3>1, AppendTwo
    <3>3. Append(m, user) = m \o <<user>> /\ Append(h, answer) = h \o <<answer>>
      BY <1>4, <1>5, <2>4, AppendJoins
    <3>. QED BY <3>2, <3>3
  <2>. QED BY <2>6, <2>7, <2>8
<1>7. /\ s = [x \in SessionFields |-> s[x]] /\ s.pendingUser = FALSE
      /\ s.messages = m \o <<user, answer>> /\ s.checkpoint = <<>>
  BY <1>3 DEF Good, SessionFields
<1>8. Good(s, written + 2)
  <2> PICK x : x = s.messages
    OBVIOUS
  <2>1. Sound(x) /\ UpTo(x, written + 2) /\ ~EndsOpen(x) /\ x = s.messages
    BY <1>6, <1>7
  <2>2. s.pendingUser \in BOOLEAN
    BY <1>7
  <2>. QED BY ONLY <1>7, <2>1, <2>2, GoodParts
<1>9. os[turn.obj] = s
  BY <1>2 DEF RInv
<1>10. cached' = turn.obj /\ file' = s /\ Objects(os)
  BY <1>1, <1>9 DEF Saved
<1>11. IsTurn(turn') /\ turn'.obj = NoObj
  BY <1>1, NoTurnIsIdle
<1>12. Locked(lock', turn') /\ lock'.obj = NoObj
  BY <1>1 DEF Locked, Unlocked
<1>13. \A o \in Held : o = turn.obj
  BY <1>10, <1>11, <1>12 DEF Held
<1>14. \A o \in Held : o \in Obj /\ Good(os[o], written')
  BY <1>1, <1>2, <1>8, <1>9, <1>13
<1>15. written' \in Nat /\ queued' \subseteq {"background", "idle"} /\ Good(file', written')
  BY <1>1, <1>3, <1>8, <1>10 DEF RInv
<1>. QED BY <1>10, <1>11, <1>12, <1>14, <1>15, GoodStep

(* RInv holds at the start.                                                 *)
LEMMA RInitially == HistoryInit => RInv
<1> SUFFICES ASSUME HistoryInit PROVE RInv
  OBVIOUS
<1>1. /\ queued = {} /\ written = 0 /\ file = Empty /\ turn = NoTurn /\ lock = Unlocked
      /\ cached = NoObj /\ object = [o \in Obj |-> object[o]]
  BY DEF HistoryInit
<1>2. Locked(lock, turn) /\ lock.obj = NoObj
  BY <1>1 DEF Locked, Unlocked
<1>3. Hands = {}
  BY <1>1, <1>2, NoTurnIsIdle DEF Hands
<1>. QED BY <1>1, <1>2, <1>3, NoTurnIsIdle, EmptyIsGood DEF RInv

(* RInv survives every step.                                                *)
LEMMA RPreserved == RInv /\ [HistoryNext]_svars => RInv'
<1> SUFFICES ASSUME RInv, [HistoryNext]_svars PROVE RInv'
  OBVIOUS
<1>1. CASE UNCHANGED svars
  BY <1>1 DEF svars, RInv, Hands
<1>2. CASE StartTurn("chat") \/ StartTurn("compact") \/ BuildTurn
  BY <1>2, StartTurnReplays, BuildTurnReplays
<1>3. CASE CallsTools \/ ToolsEnd \/ Answers \/ PersistTurn \/ FailTurn
  BY <1>3, CallsToolsReplays, ToolsEndReplays, AnswersReplays, PersistTurnReplays,
     FailTurnReplays
<1>4. CASE New \/ ArchiveSnapshot \/ Delete \/ Crash
  <2>1. ASSUME ArchiveSnapshot PROVE RInv'
    BY <2>1, ArchiveReplays DEF ArchiveSnapshot
  <2>. QED BY <1>4, <2>1, NewReplays, DeleteReplays, CrashReplays
<1>5. CASE \/ SkipRound \/ ScheduleIdle \/ SkipCompaction
           \/ BeginRound("turn") \/ BeginRound("background")
           \/ BeginCompaction("idle") \/ BeginCompaction("compact")
  BY <1>5, GetsReplay, ReadsReplay
<1>6. CASE \E b \in BOOLEAN : CancelTurn(b) \/ EndRound(b) \/ EndIdle(b) \/ EndCompact(b)
  BY <1>6, CancelTurnReplays, EndRoundReplays, EndIdleReplays, EndCompactReplays
<1>. QED BY <1>1, <1>2, <1>3, <1>4, <1>5, <1>6 DEF HistoryNext

(* No message of a history that can be sent again is there twice.           *)
LEMMA SoundIsDistinct ==
    ASSUME NEW h, Sound(h)
    PROVE  Cardinality(In(h)) = Len(h)
<1>1. Len(h) \in Nat /\ DOMAIN h = 1 .. Len(h)
  BY DEF Sound, Said
<1>2. ASSUME NEW i \in DOMAIN h, NEW j \in DOMAIN h, i < j
      PROVE  h[i] # h[j]
  <2>1. h[i][1] < h[j][1] \/ Closes(h[i], h[j])
    BY <1>2 DEF Sound
  <2>2. h[i][1] \in Nat /\ h[j][1] \in Nat
    <3>1. h[i] \in Nat \X Role /\ h[j] \in Nat \X Role
      BY <1>2 DEF Sound, Said
    <3>. QED BY <3>1
  <2>. QED BY <2>1, <2>2 DEF Closes
<1> PICK g : g = [i \in 1 .. Len(h) |-> h[i]]
  OBVIOUS
<1>3. g \in Bijection(1 .. Len(h), In(h))
  <2>1. g \in [1 .. Len(h) -> In(h)]
    BY <1>1 DEF In
  <2>2. \A i, j \in 1 .. Len(h) : g[i] = g[j] => i = j
    BY <1>1, <1>2
  <2>3. \A m \in In(h) : \E i \in 1 .. Len(h) : g[i] = m
    BY <1>1 DEF In
  <2>. QED BY <2>1, <2>2, <2>3 DEF Bijection, Injection, IsInjective,
     Surjection
<1>. QED BY <1>1, <1>3, FS_CountingElements DEF ExistsBijection

(* What every history in somebody's hands, in a checkpoint and in the file  *)
(* keeps whatever ends a turn (loop.py).                                    *)
THEOREM ReplayInvariant == HistorySpec => []RInv
BY RInitially, RPreserved, PTL DEF HistorySpec

(* A history can be sent to a provider again whatever ended its turns, with *)
(* every call answered, no result alone, no question left open before the   *)
(* next and nothing written twice (loop.py:2694-2700).                      *)
THEOREM HistoryCanBeSentAgain == HistorySpec => []HistoryIsReplayable
<1>1. ASSUME RInv PROVE HistoryIsReplayable
  <2> PICK h : h = file.messages
    OBVIOUS
  <2> DEFINE at(i) == IF i \in DOMAIN h THEN h[i] ELSE <<0, "none">>
  <2>1. Sound(h)
    BY <1>1 DEF RInv, Good
  <2>2. ASSUME NEW i \in DOMAIN h
        PROVE  /\ i \in Nat /\ i < i + 1 /\ h[i][1] \in Nat
               /\ h[i][2] = "call" <=> /\ at(i + 1)[1] = h[i][1]
                                       /\ at(i + 1)[2] \in {"result", "interrupted"}
               /\ ~(Opens(h[i]) /\ Opens(at(i + 1)))
    <3>1. i \in Nat /\ i < i + 1 /\ h[i] \in Nat \X Role
      BY <2>1 DEF Sound, Said
    <3>2. CASE i + 1 \in DOMAIN h
      <4>1. at(i + 1) = h[i + 1]
        BY <3>2
      <4>2. h[i][1] < h[i + 1][1] \/ Closes(h[i], h[i + 1])
        BY <2>1, <3>1, <3>2 DEF Sound
      <4>3. h[i][2] = "call" => Closes(h[i], h[i + 1])
        BY <2>1, <3>2 DEF Sound
      <4>4. ~(Opens(h[i]) /\ Opens(h[i + 1]))
        BY <2>1, <3>2 DEF Sound
      <4>. QED BY <3>1, <4>1, <4>2, <4>3, <4>4 DEF Closes
    <3>3. CASE i + 1 \notin DOMAIN h
      <4>1. at(i + 1) = <<0, "none">>
        BY <3>3
      <4>2. h[i][2] # "call"
        BY <2>1, <3>3 DEF Sound
      <4>. QED BY <3>1, <4>1, <4>2 DEF Opens
    <3>. QED BY <3>2, <3>3, <3>1
  <2>3. Cardinality(In(h)) = Len(h)
    BY <2>1, SoundIsDistinct
  <2>. QED BY <2>2, <2>3 DEF HistoryIsReplayable
<1>. QED BY <1>1, ReplayInvariant, PTL

=============================================================================
