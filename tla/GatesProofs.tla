----------------------------- MODULE GatesProofs -----------------------------
(***************************************************************************)
(* What the parts of the gate that MCGates runs side by side guarantee,    *)
(* for any configuration, path, person, request, policy, inventory,        *)
(* hand-written grant and duration: who may answer (approvals.py), and     *)
(* that a grant never says more than somebody said and a delegated turn    *)
(* never holds more than its manager.                                      *)
(***************************************************************************)
EXTENDS StandingGrants, ApprovalQuestions, SequenceTheorems, WellFoundedInduction, TLAPS

-----------------------------------------------------------------------------
(* Who may answer                                                           *)

(* The check and the feasibility test agree on every accepted answer, for   *)
(* any configuration record whatsoever (approvals.py:205-208).              *)
LEMMA CheckImpliesFeasible ==
    ASSUME NEW g, NEW o, NEW oa, NEW p, NEW w,
           check_approval(g, o, oa, p, w) = "ok"
    PROVE  /\ approval_feasible(g, o, oa) = "ok"
           /\ Approver(p, w) \in g.approvers
  <1>1. /\ o # Blank
        /\ answering_paths(g, o, oa) # {}
        /\ is_approver(g, p, w)
        /\ p \in authenticated_paths(g)
        /\ answer_is_independent(g, o, oa, p, w)
    BY DEF check_approval
  <1>2. p \in answering_paths(g, o, oa)
    BY <1>1 DEF answering_paths, answer_is_independent
  <1>3. Approver(p, w) \in reachable_approvers(g, o, oa)
    BY <1>1, <1>2 DEF reachable_approvers, is_approver, Approver
  <1> QED
    BY <1>1, <1>3 DEF approval_feasible, is_approver

(* Nobody approves their own request on their own path, whatever the        *)
(* configuration says (approvals.py:366-368).                               *)
LEMMA CheckRefusesSelf ==
    ASSUME NEW g, NEW o, NEW oa, NEW p, NEW w,
           check_approval(g, o, oa, p, w) = "ok"
    PROVE  /\ p # Blank /\ w # Blank
           /\ ~(p = o /\ w = oa)
           /\ p = o => oa # Blank
  <1>1. is_approver(g, p, w) /\ answer_is_independent(g, o, oa, p, w)
    BY DEF check_approval
  <1> QED
    BY <1>1 DEF is_approver, answer_is_independent, identity_may_substitute

(* A feasible request has an approver whose answer counts.                  *)
LEMMA FeasibleHasWitness ==
    ASSUME NEW g, NEW o, NEW oa,
           \A ap \in g.approvers : ap = Approver(ap.channel, ap.sender),
           approval_feasible(g, o, oa) = "ok"
    PROVE  \E ap \in g.approvers :
              check_approval(g, o, oa, ap.channel, ap.sender) = "ok"
  <1>1. /\ o # Blank
        /\ answering_paths(g, o, oa) # {}
        /\ reachable_approvers(g, o, oa) # {}
    BY DEF approval_feasible
  <1>2. PICK ap \in g.approvers :
          /\ ap.channel \in answering_paths(g, o, oa)
          /\ ap.sender # Blank
          /\ answer_is_independent(g, o, oa, ap.channel, ap.sender)
    BY <1>1 DEF reachable_approvers
  <1>3. ap.channel \in authenticated_paths(g) /\ ap.channel # Blank
    BY <1>2 DEF answering_paths, authenticated_paths
  <1>4. is_approver(g, ap.channel, ap.sender)
    BY <1>2, <1>3 DEF is_approver
  <1>5. check_approval(g, o, oa, ap.channel, ap.sender) = "ok"
    BY <1>1, <1>2, <1>3, <1>4 DEF check_approval
  <1> QED
    BY <1>5

(* No configuration lets a person answer their own request on its own path. *)
THEOREM SelfApprovalImpossible == QuestionSpec => []NoSelfApproval
  <1>1. NoSelfApproval
    BY CheckRefusesSelf DEF NoSelfApproval, Verdict
  <1> QED
    BY <1>1, PTL

(* Every answer the check accepts was foreseen by the feasibility test.  The *)
(* approver of a feasible request is a person on a path, and the            *)
(* configuration of a question never changes, so a suspension that starts   *)
(* is one somebody can answer (approvals.py:143-145).                       *)
THEOREM FeasibilityIsExact == QuestionSpec => []CheckAgreesWithFeasibility
  <1> DEFINE GatesOK == gates \in Gates
  <1>1. QuestionInit => GatesOK
    BY DEF QuestionInit
  <1>2. GatesOK /\ [NextAnswer]_qvars => GatesOK'
    BY DEF NextAnswer, qvars
  <1>3. GatesOK => FeasibleHasAnAnswer
    <2> SUFFICES ASSUME GatesOK, Feasible = "ok"
                 PROVE  \E p \in Path, w \in Person :
                          check_approval(gates, origin, originActor, p, w) = "ok"
      BY DEF FeasibleHasAnAnswer
    <2>1. gates.approvers \subseteq {Approver(p, w) : p \in Path \cup {Blank},
                                                     w \in Person \cup {Blank}}
      BY DEF Gates
    <2>2. \A ap \in gates.approvers : /\ ap = Approver(ap.channel, ap.sender)
                                      /\ ap.channel \in Path \cup {Blank}
                                      /\ ap.sender \in Person \cup {Blank}
      BY <2>1 DEF Approver
    <2>3. PICK ap \in gates.approvers :
            check_approval(gates, origin, originActor, ap.channel, ap.sender) = "ok"
      BY <2>2, FeasibleHasWitness DEF Feasible
    <2>4. ap.channel # Blank /\ ap.sender # Blank
      BY <2>3, CheckRefusesSelf
    <2> QED
      BY <2>2, <2>3, <2>4
  <1>4. GatesOK => CheckAgreesWithFeasibility
    BY <1>3, CheckImpliesFeasible DEF CheckAgreesWithFeasibility, Verdict, Feasible
  <1> QED
    BY <1>1, <1>2, <1>4, PTL DEF QuestionSpec

-----------------------------------------------------------------------------
(* What a grant says                                                        *)

\* Where a grant in the list, or in an open panel, came from.
Traceable(g, given) ==
    \/ g \in Declared
    \/ \E a \in given : g = grant_from_approved_action(a.view, a.expires)

\* What an operator is shown is what the request asked, and no ceiling
\* refuses it.
ViewOK(v) ==
    /\ v \in ViewRecord
    /\ v.command = v.request.command /\ v.key = ContextKey(v.request)
    /\ ~ceiling_refusal(v.request, "mutate.remote")

\* A grant of the list says what was agreed, for as long.
Covers(g, v, expires) ==
    /\ SameAction(g, grant_from_approved_action(v, expires))
    /\ g.expires = Never \/ (expires # Never /\ g.expires >= expires)

GInv ==
    /\ GrantsTypeOK
    /\ \A i \in DOMAIN grants : Traceable(grants[i], agreed)
    /\ \A list \in panel : \A i \in DOMAIN list : Traceable(list[i], agreed)
    /\ \A v \in waiting : ViewOK(v)
    /\ \A k \in kept : /\ ViewOK(k.view)
                       /\ \E i \in DOMAIN grants : Covers(grants[i], k.view, k.expires)

-----------------------------------------------------------------------------
(* Lists of grants                                                          *)

(* Taking one grant off a list leaves grants of that list                   *)
(* (settings_api.py: the panel posts what it shows).                        *)
LEMMA TakenOut ==
    ASSUME NEW S, NEW s \in Seq(S), NEW i \in DOMAIN s
    PROVE  /\ RemoveAt(s, i) \in Seq(S)
           /\ \A j \in DOMAIN RemoveAt(s, i) : \E k \in DOMAIN s : RemoveAt(s, i)[j] = s[k]
<1>. DEFINE a == SubSeq(s, 1, i - 1)
            b == SubSeq(s, i + 1, Len(s))
<1>1. Len(s) \in Nat /\ DOMAIN s = 1..Len(s) /\ i \in 1..Len(s)
  BY LenProperties
<1>2. /\ a \in Seq(S) /\ Len(a) = i - 1
      /\ \A j \in 1..(i - 1) : a[j] = s[j]
  BY <1>1, SubSeqProperties
<1>3. /\ b \in Seq(S) /\ Len(b) = Len(s) - i
      /\ \A j \in 1..(Len(s) - i) : b[j] = s[i + j]
  BY <1>1, SubSeqProperties
<1>. HIDE DEF a, b
<1>4. /\ a \o b \in Seq(S) /\ Len(a \o b) = Len(a) + Len(b)
      /\ \A j \in 1..(Len(a) + Len(b)) : (a \o b)[j] = IF j <= Len(a) THEN a[j] ELSE b[j - Len(a)]
  BY <1>2, <1>3, ConcatProperties
<1>5. /\ Len(a) + Len(b) = Len(s) - 1 /\ DOMAIN (a \o b) = 1..(Len(s) - 1)
  <2>1. Len(a) + Len(b) = Len(s) - 1
    BY <1>1, <1>2, <1>3
  <2>2. DOMAIN (a \o b) = 1..Len(a \o b)
    BY <1>4, LenProperties
  <2>. QED BY <1>4, <2>1, <2>2
<1>6. ASSUME NEW j \in 1..(Len(s) - 1) PROVE \E k \in DOMAIN s : (a \o b)[j] = s[k]
  <2>1. CASE j <= Len(a)
    <3>0. j \in 1..(Len(a) + Len(b))
      BY <1>5
    <3>1. j \in 1..(i - 1) /\ j \in 1..Len(s) /\ j \in 1..(Len(a) + Len(b))
      <4>1. j \in Nat /\ i \in Nat /\ j >= 1 /\ j <= i - 1 /\ i <= Len(s)
        BY <1>1, <1>2, <2>1
      <4>. QED BY <1>1, <3>0, <4>1
    <3>2. (a \o b)[j] = a[j] /\ a[j] = s[j]
      BY <1>2, <1>4, <2>1, <3>1
    <3>. QED BY <1>1, <3>1, <3>2
  <2>2. CASE ~(j <= Len(a))
    <3>1. j - Len(a) \in 1..(Len(s) - i) /\ i + (j - Len(a)) = j + 1 /\ j + 1 \in 1..Len(s)
      BY <1>1, <1>2, <2>2
    <3>2. j \in 1..(Len(a) + Len(b))
      BY <1>5
    <3>3. (a \o b)[j] = b[j - Len(a)]
      BY <1>4, <2>2, <3>2
    <3>4. b[j - Len(a)] = s[j + 1]
      BY <1>3, <3>1
    <3>. QED BY <1>1, <3>1, <3>3, <3>4
  <2>. QED BY <2>1, <2>2
<1>. QED BY <1>4, <1>5, <1>6 DEF RemoveAt, a, b

(* One more grant at the end of a list.                                     *)
LEMMA Added ==
    ASSUME NEW S, NEW s \in Seq(S), NEW g \in S
    PROVE  /\ Append(s, g) \in Seq(S)
           /\ \A i \in DOMAIN Append(s, g) : Append(s, g)[i] = g
                  \/ (i \in DOMAIN s /\ Append(s, g)[i] = s[i])
           /\ \A i \in DOMAIN s : i \in DOMAIN Append(s, g) /\ Append(s, g)[i] = s[i]
           /\ \E i \in DOMAIN Append(s, g) : Append(s, g)[i] = g
<1>1. Len(s) \in Nat /\ DOMAIN s = 1..Len(s)
  BY LenProperties
<1>2. /\ Append(s, g) \in Seq(S) /\ Len(Append(s, g)) = Len(s) + 1
      /\ \A i \in 1..Len(s) : Append(s, g)[i] = s[i]
      /\ Append(s, g)[Len(s) + 1] = g
  BY AppendProperties
<1>3. DOMAIN Append(s, g) = 1..(Len(s) + 1)
  BY <1>2, LenProperties
<1>. QED BY <1>1, <1>2, <1>3

(* The grant that answers is one of the matching ones, live and meant for   *)
(* this context (policy.py: _grant_hits).                                   *)
LEMMA LiveOne ==
    ASSUME NEW list, NEW t, NEW key, NEW M, M \subseteq Nat \ {0}
    PROVE  LET live == {i \in M : key \in list[i].contexts /\ ~is_expired(list[i], t)}
           IN  /\ live # {} => Live(list, t, key, M) \in live
               /\ live = {} => Live(list, t, key, M) = 0
<1>. DEFINE live == {i \in M : key \in list[i].contexts /\ ~is_expired(list[i], t)}
<1>1. live \subseteq Nat
  OBVIOUS
<1>2. Live(list, t, key, M) = IF live = {} THEN 0 ELSE CHOOSE i \in live : \A j \in live : i <= j
  BY DEF Live
<1>. HIDE DEF live
<1>3. ASSUME live # {} PROVE (CHOOSE i \in live : \A j \in live : i <= j) \in live
  <2>1. PICK i \in live : \A j \in live : ~(<<j, i>> \in OpToRel(<, Nat))
    BY <1>1, <1>3, NatLessThanWellFounded, WFMin
  <2>2. \A j \in live : i <= j
    <3>. SUFFICES ASSUME NEW j \in live PROVE ~(j < i)
      BY <1>1
    <3>. QED BY <1>1, <2>1 DEF OpToRel
  <2>. QED BY <2>2
<1>4. /\ live # {} => Live(list, t, key, M) \in live
      /\ live = {} => Live(list, t, key, M) = 0
  BY <1>2, <1>3
<1>. QED BY <1>4 DEF live
-----------------------------------------------------------------------------
(* Every step keeps the invariant                                           *)

(* A grant derived from a view is a grant of the program                    *)
(* (derived_grants.py: grant_from_approved_action).                         *)
LEMMA ADerivedGrant ==
    ASSUME NEW v \in ViewRecord, NEW e \in Nat \cup {Never}
    PROVE  grant_from_approved_action(v, e) \in StandingGrant
BY DEF grant_from_approved_action, StandingGrant, ViewRecord

LEMMA AView ==
    ASSUME NEW r \in Request, NEW hosts \in SUBSET Host
    PROVE  /\ View(r, hosts) \in ViewRecord
           /\ View(r, hosts).command = View(r, hosts).request.command
           /\ View(r, hosts).key = ContextKey(View(r, hosts).request)
           /\ View(r, hosts).request = r /\ View(r, hosts).hosts = hosts
<1>1. r.command \in Command
  BY DEF Request
<1>2. ContextKey(r) \in {"interactive", "unattended"}
  BY DEF ContextKey
<1>. QED BY <1>1, <1>2 DEF View, ViewRecord

LEMMA InventoryHosts ==
    ASSUME GrantsTypeOK, NEW h \in DOMAIN servers
    PROVE  servers[h].hosts \in SUBSET Host
BY InventoryAssumption DEF GrantsTypeOK, ServerRecord

(* Reads of a request do not depend on the class the door gives it.         *)
LEMMA Reclassed ==
    ASSUME NEW r \in Request, NEW q, q = [r EXCEPT !.class = "mutate.remote"]
    PROVE  /\ q \in Request /\ q.class = "mutate.remote" /\ q.command = r.command
           /\ q.inherited = r.inherited /\ q.delegated = r.delegated
           /\ ContextKey(q) = ContextKey(r) /\ Unattended(q) = Unattended(r)
           /\ ceiling_refusal(q, "mutate.remote") = ceiling_refusal(r, "mutate.remote")
<1>1. /\ q \in Request /\ q.class = "mutate.remote" /\ q.command = r.command
      /\ q.inherited = r.inherited /\ q.delegated = r.delegated
      /\ q.context = r.context /\ q.human = r.human
  BY DEF Request, CapabilityClass
<1>2. effective_execution_context(q) = effective_execution_context(r)
  BY <1>1 DEF effective_execution_context
<1>. QED BY <1>1, <1>2 DEF ContextKey, Unattended, ceiling_refusal

(* What the door answers: nothing it cannot resolve, nothing a ceiling      *)
(* forbids, and otherwise what the word of the matrix and the live grants   *)
(* say (server.py: _gate).                                                  *)
LEMMA TheDoor ==
    ASSUME NEW r \in Request
    PROVE  LET ok   == /\ Resolved(servers, r.server) /\ ~servers[r.server].unbounded
                       /\ ~ceiling_refusal(r, "mutate.remote")
               word == matrix[ContextKey(r)].remote[_scope_for(servers[r.server])]
               live == Live(grants, now, ContextKey(r),
                            {i \in DOMAIN grants :
                               _grant_matches(grants[i], servers, servers[r.server].hosts, r.command)})
               d    == Settled(word, live)
           IN  Gate(r) = IF ok THEN IF d.outcome = "approve" /\ Unattended(r) THEN Denied ELSE d
                         ELSE Denied
<1>. DEFINE q == [r EXCEPT !.class = "mutate.remote"]
            scope == _scope_for(servers[r.server])
            hosts == servers[r.server].hosts
<1>1. /\ q.class = "mutate.remote" /\ q.command = r.command
      /\ ContextKey(q) = ContextKey(r) /\ Unattended(q) = Unattended(r)
      /\ ceiling_refusal(q, "mutate.remote") = ceiling_refusal(r, "mutate.remote")
  BY Reclassed
<1>2. scope = "all" <=> servers[r.server].unbounded
  BY DEF _scope_for
<1>3. scope \in KnownScope
  BY DEF _scope_for, KnownScope
<1>. HIDE DEF q, scope, hosts
<1>4. evaluate(matrix, grants, servers, now, q, scope, hosts)
        = IF ceiling_refusal(r, "mutate.remote") THEN Denied
          ELSE Settled(matrix[ContextKey(r)].remote[scope],
                       Live(grants, now, ContextKey(r),
                            {i \in DOMAIN grants :
                               _grant_matches(grants[i], servers, hosts, r.command)}))
  BY <1>1, <1>3 DEF evaluate, GatedClass, _grant_hits
<1>5. Denied.outcome # "approve"
  BY DEF Denied, Answered
<1>6. Gate(r) = IF ~Resolved(servers, r.server) \/ scope = "all" THEN Denied
                ELSE LET d == evaluate(matrix, grants, servers, now, q, scope, hosts)
                     IN  IF d.outcome = "approve" /\ Unattended(r) THEN Denied ELSE d
  BY DEF Gate, _gate, q, scope, hosts
<1>. QED BY <1>2, <1>4, <1>5, <1>6 DEF scope, hosts

LEMMA GrantsInitOK == GrantsInit => GInv
<1>. SUFFICES ASSUME GrantsInit PROVE GInv
  OBVIOUS
<1>1. GrantsTypeOK
  BY EmptySeq DEF GrantsInit, GrantsTypeOK
<1>. QED BY <1>1 DEF GrantsInit, GInv

(* An action is suspended when the gate says approve, which it never does   *)
(* beyond a ceiling.                                                        *)
LEMMA SuspendOK ==
    ASSUME GInv, NEW r \in Ask, Suspend(r)
    PROVE  GInv'
<1>. USE DEF Suspend
<1>1. r \in Request
  BY AskAssumption
<1>2. Gate(r).outcome = "approve"
  OBVIOUS
<1>3. Resolved(servers, r.server) /\ ~ceiling_refusal(r, "mutate.remote")
  <2>1. Denied.outcome # "approve"
    BY DEF Denied, Answered
  <2>. QED BY <1>1, <1>2, <2>1, TheDoor
<1>4. servers[r.server].hosts \in SUBSET Host
  BY <1>3, InventoryHosts DEF Resolved, GInv
<1>. DEFINE v == View(r, servers[r.server].hosts)
<1>5. ViewOK(v)
  BY <1>1, <1>3, <1>4, AView DEF ViewOK
<1>6. waiting' = waiting \cup {v} /\ v \in ViewRecord
  BY <1>5 DEF ViewOK
<1>. HIDE DEF v
<1>7. UNCHANGED <<matrix, grants, servers, now, proposed, panel, agreed, kept>>
  OBVIOUS
<1>8. GrantsTypeOK'
  BY <1>6, <1>7 DEF GInv, GrantsTypeOK
<1>9. \A w \in waiting' : ViewOK(w)
  BY <1>5, <1>6 DEF GInv
<1>. HIDE DEF Suspend
<1>. QED BY <1>7, <1>8, <1>9 DEF GInv, Covers, SameAction

LEMMA SuspendConnectorOK ==
    ASSUME GInv, NEW r \in ConnectorAsk, SuspendConnector(r)
    PROVE  GInv'
<1>. USE DEF SuspendConnector
<1>1. r \in Request /\ r.server \in Host
  BY AskAssumption DEF Request
<1>2. evaluate_connector(matrix, grants, now, r).outcome = "approve"
  OBVIOUS
<1>3. ~ceiling_refusal(r, "mutate.remote")
  BY <1>2 DEF evaluate_connector, Denied, Answered
<1>. DEFINE v == View(r, {r.server})
<1>5. ViewOK(v)
  BY <1>1, <1>3, AView DEF ViewOK
<1>6. waiting' = waiting \cup {v} /\ v \in ViewRecord
  BY <1>5 DEF ViewOK
<1>. HIDE DEF v
<1>7. UNCHANGED <<matrix, grants, servers, now, proposed, panel, agreed, kept>>
  OBVIOUS
<1>8. GrantsTypeOK'
  BY <1>6, <1>7 DEF GInv, GrantsTypeOK
<1>9. \A w \in waiting' : ViewOK(w)
  BY <1>5, <1>6 DEF GInv
<1>. HIDE DEF SuspendConnector
<1>. QED BY <1>7, <1>8, <1>9 DEF GInv, Covers, SameAction

(* A rehearsal proposes a view of a request of an automation.               *)
LEMMA RehearseOK ==
    ASSUME GInv, NEW r \in Ask, Rehearse(r)
    PROVE  GInv'
<1>. USE DEF Rehearse
<1>1. r \in Request
  BY AskAssumption
<1>2. proposed' \subseteq ViewRecord
  <2>1. CASE proposed' = {}
    BY <2>1
  <2>2. CASE proposed' # {}
    <3>1. Resolved(servers, r.server) /\ proposed' = {View(r, servers[r.server].hosts)}
      BY <2>2
    <3>2. servers[r.server].hosts \in SUBSET Host
      BY <3>1, InventoryHosts DEF Resolved, GInv
    <3>. QED BY <1>1, <3>1, <3>2, AView
  <2>. QED BY <2>1, <2>2
<1>3. UNCHANGED <<matrix, grants, servers, now, waiting, panel, agreed, kept>>
  OBVIOUS
<1>4. GrantsTypeOK'
  BY <1>2, <1>3 DEF GInv, GrantsTypeOK
<1>. QED BY <1>3, <1>4 DEF GInv, Traceable, Covers, SameAction

(* Steps that leave the list of grants and the suspended actions alone, or  *)
(* take one action away, keep what they say.                                *)
LEMMA QuietOK ==
    ASSUME GInv,
           \/ \E v \in waiting : Settle(v)
           \/ OpenPanel \/ Tick
           \/ \E s \in Inventories : EditInventory(s)
           \/ UNCHANGED gvars
    PROVE  GInv'
<1>. USE DEF Settle, OpenPanel, Tick, EditInventory, gvars
<1>1. UNCHANGED <<matrix, grants, proposed, agreed, kept>> /\ waiting' \subseteq waiting
  OBVIOUS
<1>2. panel' = panel \/ panel' = {grants}
  OBVIOUS
<1>3. GrantsTypeOK'
  BY <1>1, <1>2 DEF GInv, GrantsTypeOK
<1>4. \A list \in panel' : \A i \in DOMAIN list : Traceable(list[i], agreed)
  BY <1>2 DEF GInv
<1>. QED BY <1>1, <1>3, <1>4 DEF GInv, Traceable, Covers, SameAction

(* A grant that is added, or found in the list, is the one that was agreed  *)
(* (approvals_api.py: write_derived_grant, commissioning_api.py: promote).  *)
LEMMA AppendedOK ==
    ASSUME GInv, NEW v \in ViewRecord, NEW e \in Nat \cup {Never},
           \/ grants' = grants
           \/ grants' = Append(grants, grant_from_approved_action(v, e)),
           agreed' = agreed \cup {Agreed(v, e)},
           UNCHANGED <<matrix, servers, now, panel>>
    PROVE  /\ grants' \in Seq(StandingGrant)
           /\ agreed' \subseteq [view : ViewRecord, expires : Nat \cup {Never}]
           /\ \A i \in DOMAIN grants' : Traceable(grants'[i], agreed')
           /\ \A list \in panel' : \A i \in DOMAIN list : Traceable(list[i], agreed')
           /\ \A i \in DOMAIN grants : i \in DOMAIN grants' /\ grants'[i] = grants[i]
<1>. DEFINE g == grant_from_approved_action(v, e)
<1>1. g \in StandingGrant /\ grants \in Seq(StandingGrant)
  BY ADerivedGrant DEF GInv, GrantsTypeOK
<1>2. Agreed(v, e).view = v /\ Agreed(v, e).expires = e /\ Agreed(v, e) \in agreed'
  BY DEF Agreed
<1>3. \A x : Traceable(x, agreed) => Traceable(x, agreed')
  BY DEF Traceable
<1>4. Traceable(g, agreed')
  BY <1>2 DEF Traceable
<1>. HIDE DEF g
<1>5. /\ grants' \in Seq(StandingGrant)
      /\ \A i \in DOMAIN grants' : grants'[i] = g \/ (i \in DOMAIN grants /\ grants'[i] = grants[i])
      /\ \A i \in DOMAIN grants : i \in DOMAIN grants' /\ grants'[i] = grants[i]
  BY <1>1, Added DEF g
<1>6. \A i \in DOMAIN grants' : Traceable(grants'[i], agreed')
  BY <1>3, <1>4, <1>5 DEF GInv
<1>7. \A list \in panel' : \A i \in DOMAIN list : Traceable(list[i], agreed')
  BY <1>3 DEF GInv
<1>8. agreed' \subseteq [view : ViewRecord, expires : Nat \cup {Never}]
  BY <1>2 DEF Agreed, GInv, GrantsTypeOK
<1>. QED BY <1>5, <1>6, <1>7, <1>8

(* The list keeps covering what was kept when it only grows.                *)
LEMMA StillCovered ==
    ASSUME GInv, NEW k \in kept,
           \A i \in DOMAIN grants : i \in DOMAIN grants' /\ grants'[i] = grants[i]
    PROVE  ViewOK(k.view) /\ \E i \in DOMAIN grants' : Covers(grants'[i], k.view, k.expires)
BY DEF GInv

LEMMA DerivedOK ==
    ASSUME GInv, NEW v \in waiting, NEW d \in Duration, write_derived_grant(v, d)
    PROVE  GInv'
<1>. DEFINE e == Expiry(d)
            g == grant_from_approved_action(v, e)
<1>1. ViewOK(v) /\ v \in ViewRecord
  BY DEF GInv, ViewOK
<1>2. e \in Nat \cup {Never}
  BY DurationAssumption DEF GInv, GrantsTypeOK, Expiry
<1>3. /\ waiting' = waiting \ {v}
      /\ grants' = IF _already_covered(g) THEN grants ELSE Append(grants, g)
      /\ agreed' = agreed \cup {Agreed(v, e)}
      /\ kept' = kept \cup {Agreed(v, e)}
      /\ UNCHANGED <<matrix, servers, now, proposed, panel>>
  BY DEF write_derived_grant
<1>. HIDE DEF e
<1>4. /\ grants' \in Seq(StandingGrant)
      /\ agreed' \subseteq [view : ViewRecord, expires : Nat \cup {Never}]
      /\ \A i \in DOMAIN grants' : Traceable(grants'[i], agreed')
      /\ \A list \in panel' : \A i \in DOMAIN list : Traceable(list[i], agreed')
      /\ \A i \in DOMAIN grants : i \in DOMAIN grants' /\ grants'[i] = grants[i]
  BY <1>1, <1>2, <1>3, AppendedOK
<1>5. kept' \subseteq agreed'
  BY <1>3 DEF GInv, GrantsTypeOK
<1>6. GrantsTypeOK'
  BY <1>3, <1>4, <1>5 DEF GInv, GrantsTypeOK
<1>7. \E i \in DOMAIN grants' : Covers(grants'[i], v, e)
  <2>1. CASE _already_covered(g)
    BY <1>3, <2>1 DEF _already_covered, Covers, grant_from_approved_action
  <2>2. CASE ~_already_covered(g)
    <3>1. grants' = Append(grants, g) /\ grants \in Seq(StandingGrant) /\ g \in StandingGrant
      BY <1>1, <1>2, <1>3, <2>2, ADerivedGrant DEF GInv, GrantsTypeOK
    <3>2. PICK i \in DOMAIN grants' : grants'[i] = g
      BY <3>1, Added
    <3>3. g.expires = e
      BY DEF grant_from_approved_action
    <3>4. e = Never \/ (e # Never /\ e >= e)
      BY <1>2
    <3>. QED BY <3>2, <3>3, <3>4 DEF Covers, SameAction
  <2>. QED BY <2>1, <2>2
<1>8. \A k \in kept' : /\ ViewOK(k.view)
                        /\ \E i \in DOMAIN grants' : Covers(grants'[i], k.view, k.expires)
  <2>1. Agreed(v, e).view = v /\ Agreed(v, e).expires = e
    BY DEF Agreed
  <2>2. \A k \in kept : /\ ViewOK(k.view)
                         /\ \E i \in DOMAIN grants' : Covers(grants'[i], k.view, k.expires)
    BY <1>4, StillCovered
  <2>. QED BY <1>1, <1>3, <1>7, <2>1, <2>2
<1>9. \A w \in waiting' : ViewOK(w)
  BY <1>3 DEF GInv
<1>. QED BY <1>4, <1>6, <1>8, <1>9 DEF GInv

LEMMA PromoteOK ==
    ASSUME GInv, NEW v \in proposed, promote(v)
    PROVE  GInv'
<1>. DEFINE g == grant_from_approved_action(v, Never)
<1>1. v \in ViewRecord /\ Never \in Nat \cup {Never}
  BY DEF GInv, GrantsTypeOK
<1>2. /\ grants' = grants \/ grants' = Append(grants, g)
      /\ agreed' = agreed \cup {Agreed(v, Never)}
      /\ UNCHANGED <<matrix, servers, now, waiting, proposed, panel, kept>>
  BY DEF promote
<1>3. /\ grants' \in Seq(StandingGrant)
      /\ agreed' \subseteq [view : ViewRecord, expires : Nat \cup {Never}]
      /\ \A i \in DOMAIN grants' : Traceable(grants'[i], agreed')
      /\ \A list \in panel' : \A i \in DOMAIN list : Traceable(list[i], agreed')
      /\ \A i \in DOMAIN grants : i \in DOMAIN grants' /\ grants'[i] = grants[i]
  BY <1>1, <1>2, AppendedOK
<1>4. GrantsTypeOK'
  BY <1>2, <1>3 DEF GInv, GrantsTypeOK
<1>5. \A k \in kept' : /\ ViewOK(k.view)
                        /\ \E i \in DOMAIN grants' : Covers(grants'[i], k.view, k.expires)
  BY <1>2, <1>3, StillCovered
<1>6. \A w \in waiting' : ViewOK(w)
  BY <1>2 DEF GInv
<1>. QED BY <1>3, <1>4, <1>5, <1>6 DEF GInv

(* What the panel saves are grants of the list it was opened with, and what *)
(* the operator added by hand.                                              *)
LEMMA SavedOK ==
    ASSUME GInv, NEW m \in Matrix, NEW shown \in panel, NEW list \in Edits(shown),
           update_gates_settings(m, list)
    PROVE  GInv'
<1>1. /\ matrix' = m /\ grants' = list /\ panel' = {} /\ kept' = {}
      /\ UNCHANGED <<servers, now, waiting, proposed, agreed>>
  BY DEF update_gates_settings
<1>2. shown \in Seq(StandingGrant) /\ \A i \in DOMAIN shown : Traceable(shown[i], agreed)
  BY DEF GInv, GrantsTypeOK
<1>3. list \in Seq(StandingGrant) /\ \A i \in DOMAIN list : Traceable(list[i], agreed)
  <2>1. CASE list = shown
    BY <1>2, <2>1
  <2>2. ASSUME NEW g \in Declared, list = Append(shown, g)
        PROVE  list \in Seq(StandingGrant) /\ \A i \in DOMAIN list : Traceable(list[i], agreed)
    <3>1. g \in StandingGrant
      BY DeclaredAssumption
    <3>2. /\ list \in Seq(StandingGrant)
          /\ \A i \in DOMAIN list : list[i] = g \/ (i \in DOMAIN shown /\ list[i] = shown[i])
      BY <1>2, <2>2, <3>1, Added
    <3>. QED BY <1>2, <3>2 DEF Traceable
  <2>3. ASSUME NEW i \in DOMAIN shown, list = RemoveAt(shown, i)
        PROVE  list \in Seq(StandingGrant) /\ \A j \in DOMAIN list : Traceable(list[j], agreed)
    <3>1. /\ list \in Seq(StandingGrant)
          /\ \A j \in DOMAIN list : \E k \in DOMAIN shown : list[j] = shown[k]
      BY <1>2, <2>3, TakenOut
    <3>. QED BY <1>2, <3>1
  <2>. QED BY <2>1, <2>2, <2>3 DEF Edits
<1>4. GrantsTypeOK'
  BY <1>1, <1>3 DEF GInv, GrantsTypeOK
<1>. QED BY <1>1, <1>3, <1>4 DEF GInv

LEMMA GrantsStepOK == GInv /\ [GrantsNext]_gvars => GInv'
<1>. SUFFICES ASSUME GInv, [GrantsNext]_gvars PROVE GInv'
  OBVIOUS
<1>1. CASE \E r \in Ask : Suspend(r) \/ Rehearse(r)
  BY <1>1, SuspendOK, RehearseOK
<1>2. CASE \E r \in ConnectorAsk : SuspendConnector(r)
  BY <1>2, SuspendConnectorOK
<1>3. CASE \E v \in waiting : \E d \in Duration : write_derived_grant(v, d)
  BY <1>3, DerivedOK
<1>4. CASE \E v \in proposed : promote(v)
  BY <1>4, PromoteOK
<1>5. CASE \E m \in Matrix, shown \in panel :
              \E list \in Edits(shown) : update_gates_settings(m, list)
  BY <1>5, SavedOK
<1>6. CASE \/ \E v \in waiting : Settle(v)
           \/ OpenPanel \/ Tick
           \/ \E s \in Inventories : EditInventory(s)
           \/ UNCHANGED gvars
  BY <1>6, QuietOK
<1>. QED BY <1>1, <1>2, <1>3, <1>4, <1>5, <1>6 DEF GrantsNext

-----------------------------------------------------------------------------
(* What the invariant says of the door                                      *)

(* A request that a grant answers is within what that grant's words say.    *)
LEMMA UsedGrant ==
    ASSUME GInv, NEW r \in Ask, Gate(r).grant # 0
    PROVE  LET i == Gate(r).grant
           IN  /\ i \in DOMAIN grants
               /\ _grant_matches(grants[i], servers, servers[r.server].hosts, r.command)
               /\ ContextKey(r) \in grants[i].contexts
               /\ ~is_expired(grants[i], now)
<1>. DEFINE M == {i \in DOMAIN grants :
                   _grant_matches(grants[i], servers, servers[r.server].hosts, r.command)}
            live == Live(grants, now, ContextKey(r), M)
<1>1. r \in Request
  BY AskAssumption
<1>2. Gate(r).grant \in {0, live}
  <2>1. /\ Denied.grant = 0
        /\ \A w, l : Settled(w, l).grant \in {0, l}
    BY DEF Denied, Settled, Answered
  <2>. QED BY <1>1, <2>1, TheDoor
<1>3. DOMAIN grants \subseteq Nat \ {0}
  <2>1. Len(grants) \in Nat /\ DOMAIN grants = 1..Len(grants)
    BY LenProperties DEF GInv, GrantsTypeOK
  <2>. QED BY <2>1
<1>4. M \subseteq Nat \ {0}
  BY <1>3
<1>5. live # 0 => live \in {i \in M : ContextKey(r) \in grants[i].contexts /\ ~is_expired(grants[i], now)}
  BY <1>4, LiveOne
<1>6. Gate(r).grant = live /\ live # 0
  BY <1>2
<1>. QED BY <1>5, <1>6

LEMMA InvTraceable == GInv => AuthorityIsTraceable
<1>. SUFFICES ASSUME GInv, NEW r \in Ask, Gate(r).grant # 0,
                     grants[Gate(r).grant] \notin Declared
              PROVE  WasAgreed(r, servers[r.server].hosts)
  BY DEF AuthorityIsTraceable
<1>. DEFINE i == Gate(r).grant
            hosts == servers[r.server].hosts
<1>1. /\ i \in DOMAIN grants
      /\ _grant_matches(grants[i], servers, hosts, r.command)
      /\ ContextKey(r) \in grants[i].contexts
      /\ ~is_expired(grants[i], now)
  BY UsedGrant
<1>2. Traceable(grants[i], agreed)
  BY <1>1 DEF GInv
<1>. HIDE DEF i, hosts
<1>3. PICK a \in agreed : grants[i] = grant_from_approved_action(a.view, a.expires)
  BY <1>2 DEF Traceable, i
<1>4. /\ grants[i].contexts = {a.view.key} /\ grants[i].commands = {a.view.command}
      /\ grants[i].hosts = a.view.hosts /\ grants[i].expires = a.expires
  BY <1>3 DEF grant_from_approved_action
<1>5. a.view.key = ContextKey(r) /\ a.view.command = r.command
  BY <1>1, <1>4 DEF _grant_matches
<1>6. now \in Nat /\ a.expires \in Nat \cup {Never}
  BY DEF GInv, GrantsTypeOK
<1>7. InForce(a.expires)
  BY <1>1, <1>4, <1>6 DEF is_expired, InForce
<1>8. hosts \subseteq StandsFor(a.view.hosts)
  <2>1. hosts \subseteq _resolved_grant_hosts(servers, a.view.hosts)
    BY <1>1, <1>4 DEF _grant_matches
  <2>2. ASSUME NEW x \in _resolved_grant_hosts(servers, a.view.hosts)
        PROVE  x \in StandsFor(a.view.hosts)
    <3>1. PICK h \in a.view.hosts : x \in IF h \in DOMAIN servers THEN servers[h].hosts ELSE {h}
      BY <2>2 DEF _resolved_grant_hosts
    <3>. QED BY <3>1 DEF StandsFor
  <2>. QED BY <2>1, <2>2
<1>. QED BY <1>5, <1>7, <1>8 DEF WasAgreed, hosts

LEMMA InvAnswers == GInv => AddedGrantAnswers
<1>. SUFFICES ASSUME GInv, NEW k \in kept, NEW r, r = k.view.request,
                     r \in Ask, InForce(k.expires),
                     Resolved(servers, r.server), servers[r.server].hosts = k.view.hosts,
                     ~servers[r.server].unbounded, ~Shadowed(k.view.hosts),
                     matrix[ContextKey(r)].remote[_scope_for(servers[r.server])] # "deny"
              PROVE  Gate(r).outcome = "allow"
  BY DEF AddedGrantAnswers
<1>. DEFINE hosts == servers[r.server].hosts
            scope == _scope_for(servers[r.server])
            word == matrix[ContextKey(r)].remote[scope]
            M == {i \in DOMAIN grants : _grant_matches(grants[i], servers, hosts, r.command)}
            live == Live(grants, now, ContextKey(r), M)
<1>1. r \in Request /\ ViewOK(k.view)
  BY AskAssumption DEF GInv
<1>2. /\ k.view.command = r.command /\ k.view.key = ContextKey(r)
      /\ ~ceiling_refusal(r, "mutate.remote")
  BY <1>1 DEF ViewOK
<1>3. k \in agreed /\ k.expires \in Nat \cup {Never} /\ now \in Nat
  BY DEF GInv, GrantsTypeOK
<1>4. PICK i \in DOMAIN grants : Covers(grants[i], k.view, k.expires)
  BY DEF GInv
<1>5. DOMAIN grants \subseteq Nat \ {0} /\ grants[i] \in StandingGrant
  <2>1. Len(grants) \in Nat /\ DOMAIN grants = 1..Len(grants)
    BY LenProperties DEF GInv, GrantsTypeOK
  <2>2. grants[i] \in StandingGrant
    BY <1>4, <2>1, ElementOfSeq DEF GInv, GrantsTypeOK
  <2>. QED BY <2>1, <2>2
<1>6. /\ grants[i].commands = {r.command} /\ grants[i].hosts = hosts
      /\ grants[i].contexts = {ContextKey(r)}
  BY <1>2, <1>4 DEF Covers, SameAction, grant_from_approved_action
<1>7. ~is_expired(grants[i], now)
  <2>1. grants[i].expires \in Nat \cup {Never}
    BY <1>5 DEF StandingGrant
  <2>. QED BY <1>3, <1>4, <2>1, NeverAssumption DEF Covers, InForce, is_expired
<1>8. i \in M
  <2>1. grants[i].connectors \cup grants[i].operations = {}
    BY <1>5, <1>6 DEF StandingGrant
  <2>2. hosts # {}
    BY DEF Resolved
  <2>3. hosts \subseteq _resolved_grant_hosts(servers, hosts)
    BY DEF _resolved_grant_hosts, Shadowed
  <2>. QED BY <1>6, <2>1, <2>2, <2>3 DEF _grant_matches
<1>9. live # 0
  <2>1. M \subseteq Nat \ {0}
    BY <1>5
  <2>. QED BY <1>6, <1>7, <1>8, <2>1, LiveOne
<1>10. word \in PolicyWord
  <2>1. matrix \in Policy /\ ContextKey(r) \in {"interactive", "unattended"}
    BY MatrixAssumption DEF GInv, GrantsTypeOK, ContextKey
  <2>2. matrix[ContextKey(r)] \in ContextPolicy
    BY <2>1 DEF Policy
  <2>3. scope \in {"host", "group"}
    BY DEF _scope_for
  <2>. QED BY <2>2, <2>3 DEF ContextPolicy
<1>11. Settled(word, live).outcome = "allow"
  BY <1>9, <1>10 DEF Settled, Answered, _decision_for, PolicyWord
<1>12. Gate(r) = IF Settled(word, live).outcome = "approve" /\ Unattended(r)
                 THEN Denied ELSE Settled(word, live)
  BY <1>1, <1>2, TheDoor
<1>. QED BY <1>11, <1>12

-----------------------------------------------------------------------------
(* Delegation                                                               *)

(* The managers are requests like the others (delegation.py).               *)
LEMMA AManager ==
    ASSUME NEW asks, asks \subseteq Request, NEW m \in Managers(asks)
    PROVE  m \in Request /\ ~m.delegated /\ m.class # "read"
<1>1. PICK r \in asks, known \in BOOLEAN : m = [r EXCEPT !.human = known]
  BY DEF Managers
<1>2. m \in Request
  BY <1>1 DEF Request
<1>. QED BY <1>2 DEF Managers

(* A sponsor asks what the manager asks, and no delegation binds it.        *)
LEMMA ASponsor ==
    ASSUME NEW m \in Request, ~m.delegated
    PROVE  /\ Sponsor(m) \in Request
           /\ Sponsor(m).class = m.class /\ Sponsor(m).server = m.server
           /\ Sponsor(m).command = m.command /\ Sponsor(m).connector = m.connector
           /\ Sponsor(m).operation = m.operation
           /\ Unattended(Sponsor(m)) <=> ~(m.context = "interactive" /\ m.human)
           /\ \A class : ~ceiling_refusal(Sponsor(m), class)
<1>. DEFINE s == Sponsor(m)
<1>1. /\ s \in Request /\ s.class = m.class /\ s.server = m.server
      /\ s.command = m.command /\ s.connector = m.connector /\ s.operation = m.operation
      /\ ~s.delegated
      /\ s.context # "interactive" <=> ~(m.context = "interactive" /\ m.human)
  <2>1. CASE m.context = "interactive" /\ ~m.human
    <3>1. PICK r : r = [m EXCEPT !.context = "automation"]
      OBVIOUS
    <3>2. /\ r \in Request /\ r.class = m.class /\ r.server = m.server
          /\ r.command = m.command /\ r.connector = m.connector /\ r.operation = m.operation
          /\ r.delegated = m.delegated /\ r.context = "automation"
      BY <3>1 DEF Request
    <3>3. s = r
      BY <2>1, <3>1, Zenon DEF Sponsor
    <3>. QED BY <2>1, <3>2, <3>3
  <2>2. CASE ~(m.context = "interactive" /\ ~m.human)
    <3>1. s = m
      BY <2>2, Zenon DEF Sponsor
    <3>. QED BY <2>2, <3>1
  <2>. QED BY <2>1, <2>2
<1>. HIDE DEF s
<1>2. Unattended(s) <=> s.context # "interactive"
  BY <1>1 DEF Unattended, effective_execution_context
<1>3. \A class : ~ceiling_refusal(s, class)
  BY <1>1 DEF ceiling_refusal
<1>. QED BY <1>1, <1>2, <1>3 DEF s

(* A peer is asked the same questions as its sponsor, in the same context;  *)
(* only the ceiling sets them apart (delegation.py).                        *)
LEMMA APeer ==
    ASSUME NEW m \in Request, ~m.delegated, NEW C \in SUBSET CapabilityClass
    PROVE  /\ Peer(m, C) \in Request
           /\ ContextKey(Peer(m, C)) = ContextKey(Sponsor(m))
           /\ Unattended(Peer(m, C)) = Unattended(Sponsor(m))
           /\ Peer(m, C).class = m.class /\ Peer(m, C).server = m.server
           /\ Peer(m, C).command = m.command /\ Peer(m, C).connector = m.connector
           /\ Peer(m, C).operation = m.operation
           /\ \A class : ceiling_refusal(Peer(m, C), class) <=> C # {} /\ class \notin C
<1>. DEFINE p == Peer(m, C)
<1>1. /\ p \in Request /\ p.delegated = TRUE /\ p.inherited = C /\ p.context = "subagent"
      /\ p.human <=> m.context = "interactive" /\ m.human
      /\ p.class = m.class /\ p.server = m.server /\ p.command = m.command
      /\ p.connector = m.connector /\ p.operation = m.operation
  BY DEF Request, Peer
<1>. HIDE DEF p
<1>2. Unattended(p) <=> ~(m.context = "interactive" /\ m.human)
  BY <1>1 DEF Unattended, effective_execution_context
<1>3. Unattended(p) <=> Unattended(Sponsor(m))
  BY <1>2, ASponsor
<1>4. ContextKey(p) = ContextKey(Sponsor(m))
  BY <1>3 DEF ContextKey
<1>5. \A class : ceiling_refusal(p, class) <=> C # {} /\ class \notin C
  BY <1>1 DEF ceiling_refusal
<1>6. Unattended(p) = Unattended(Sponsor(m))
  BY <1>3 DEF Unattended
<1>. QED BY <1>1, <1>4, <1>5, <1>6 DEF p

LEMMA Ranks ==
    /\ Rank(Denied) = 0
    /\ \A d : Rank(d) \in {0, 1, 2}
BY DEF Rank, Denied, Answered

(* For a command, a connector call and the credential, the peer gets what   *)
(* its sponsor would, or nothing.                                           *)
LEMMA PeerCommand ==
    ASSUME NEW m \in Managers(Ask), NEW C \in SUBSET CapabilityClass
    PROVE  Gate(Peer(m, C)) = IF C # {} /\ "mutate.remote" \notin C THEN Denied
                              ELSE Gate(Sponsor(m))
<1>1. m \in Request /\ ~m.delegated
  BY AskAssumption, AManager
<1>2. Peer(m, C) \in Request /\ Sponsor(m) \in Request
  BY <1>1, APeer, ASponsor
<1>3. /\ ContextKey(Peer(m, C)) = ContextKey(Sponsor(m))
      /\ Unattended(Peer(m, C)) = Unattended(Sponsor(m))
      /\ Peer(m, C).server = m.server /\ Peer(m, C).command = m.command
      /\ ceiling_refusal(Peer(m, C), "mutate.remote") <=> C # {} /\ "mutate.remote" \notin C
  BY <1>1, APeer
<1>4. /\ Sponsor(m).server = m.server /\ Sponsor(m).command = m.command
      /\ ~ceiling_refusal(Sponsor(m), "mutate.remote")
  BY <1>1, ASponsor
<1>. QED BY <1>2, <1>3, <1>4, TheDoor

LEMMA PeerConnector ==
    ASSUME NEW m \in Managers(ConnectorAsk), NEW C \in SUBSET CapabilityClass
    PROVE  evaluate_connector(matrix, grants, now, Peer(m, C))
             = IF C # {} /\ "mutate.remote" \notin C THEN Denied
               ELSE evaluate_connector(matrix, grants, now, Sponsor(m))
<1>1. m \in Request /\ ~m.delegated /\ m.class # "read"
  BY AskAssumption, AManager
<1>2. /\ ContextKey(Peer(m, C)) = ContextKey(Sponsor(m)) /\ Peer(m, C).class = m.class
      /\ Peer(m, C).connector = m.connector /\ Peer(m, C).operation = m.operation
      /\ \A class : ceiling_refusal(Peer(m, C), class) <=> C # {} /\ class \notin C
  BY <1>1, APeer
<1>3. /\ Sponsor(m).class = m.class /\ Sponsor(m).connector = m.connector
      /\ Sponsor(m).operation = m.operation
      /\ \A class : ~ceiling_refusal(Sponsor(m), class)
  BY <1>1, ASponsor
<1>4. _connector_grant_hits(grants, now, Peer(m, C))
        = _connector_grant_hits(grants, now, Sponsor(m))
  BY <1>2, <1>3 DEF _connector_grant_hits
<1>. QED BY <1>1, <1>2, <1>3, <1>4 DEF evaluate_connector

LEMMA PeerCredential ==
    ASSUME NEW m \in Managers(Ask), NEW C \in SUBSET CapabilityClass, NEW a
    PROVE  evaluate_credential_access(matrix, Peer(m, C), a)
             = IF C # {} /\ "credential.access" \notin C THEN Denied
               ELSE evaluate_credential_access(matrix, Sponsor(m), a)
<1>1. m \in Request /\ ~m.delegated
  BY AskAssumption, AManager
<1>2. /\ ContextKey(Peer(m, C)) = ContextKey(Sponsor(m))
      /\ ~ceiling_refusal(Sponsor(m), "credential.access")
      /\ ceiling_refusal(Peer(m, C), "credential.access") <=> C # {} /\ "credential.access" \notin C
  BY <1>1, APeer, ASponsor
<1>. QED BY <1>1, <1>2 DEF evaluate_credential_access

(* A delegation is a peer, its sponsor and the ceiling between them.        *)
LEMMA ADelegation ==
    ASSUME NEW asks, NEW d \in Delegations(asks)
    PROVE  \E m \in Managers(asks), C \in SUBSET CapabilityClass :
              d.peer = Peer(m, C) /\ d.sponsor = Sponsor(m) /\ d.ceiling = C
BY CeilingAssumption DEF Delegations

LEMMA InvDelegation == DelegationNeverWidens
<1>1. NeverWider(CommandDelegations, "mutate.remote", Gate)
  <2>. SUFFICES ASSUME NEW d \in CommandDelegations
                PROVE  LET peers == Rank(Gate(d.peer))
                       IN  /\ peers <= Rank(Gate(d.sponsor))
                           /\ d.ceiling # {} /\ "mutate.remote" \notin d.ceiling => peers = 0
    BY DEF NeverWider
  <2>. QED BY ADelegation, PeerCommand, Ranks DEF CommandDelegations
<1>2. NeverWider(ConnectorDelegations, "mutate.remote",
                 LAMBDA r : evaluate_connector(matrix, grants, now, r))
  BY ADelegation, PeerConnector, Ranks DEF NeverWider, ConnectorDelegations
<1>3. ASSUME NEW a \in {"grant", "approval"}
      PROVE  NeverWider(CommandDelegations, "credential.access",
                        LAMBDA r : evaluate_credential_access(matrix, r, a))
  BY ADelegation, PeerCredential, Ranks DEF NeverWider, CommandDelegations
<1>. QED BY <1>1, <1>2, <1>3 DEF DelegationNeverWidens

-----------------------------------------------------------------------------
(* Theorems                                                                 *)

(* Where every grant came from, in every state of every run.                *)
THEOREM GrantsInvariant == GrantsSpec => []GInv
BY GrantsInitOK, GrantsStepOK, PTL DEF GrantsSpec

(* The list of grants is always a list of grants the program accepts        *)
(* (config/gates.py: StandingGrant).                                        *)
THEOREM GrantsTypeCorrect == GrantsSpec => []GrantsTypeOK
<1>1. GInv => GrantsTypeOK
  BY DEF GInv
<1>. QED BY <1>1, GrantsInvariant, PTL

(* No remote command runs without a question unless the matrix, a grant     *)
(* written by hand or a person's agreement covers it (policy.py: evaluate,  *)
(* derived_grants.py).                                                      *)
THEOREM NoAuthorityFromNowhere == GrantsSpec => []AuthorityIsTraceable
BY InvTraceable, GrantsInvariant, PTL

(* A grant that was added is honoured until it expires                      *)
(* (approvals_api.py, policy.py: _grant_hits).                              *)
THEOREM GrantsAreHonoured == GrantsSpec => []AddedGrantAnswers
BY InvAnswers, GrantsInvariant, PTL

(* No delegated turn holds more authority than its manager or, when the     *)
(* manager's channel authenticated nobody, than an unattended turn that     *)
(* asks the same (delegation.py:35, 206-210).                               *)
THEOREM NoPeerHoldsMore == GrantsSpec => []DelegationNeverWidens
BY InvDelegation, PTL

=============================================================================
