--------------------------- MODULE StandingGrants ---------------------------
(***************************************************************************)
(* How the list gates.standingGrants changes while requests are decided by *)
(* it (GatePolicy): an approval may add the grant it implies               *)
(* (gates/derived_grants.py, webui/approvals_api.py), an operator promotes *)
(* what the rehearsal of an automation found (webui/commissioning_api.py), *)
(* and the settings panel saves the whole policy it was opened with        *)
(* (webui/settings_api.py).  Meanwhile the inventory changes and grants    *)
(* expire.  The routes of the web interface run one at a time.             *)
(***************************************************************************)
EXTENDS GatePolicy, SequencesExt, FiniteSets

CONSTANTS
    Ask,            \* the requests for remote commands
    ConnectorAsk,   \* the requests for connector calls
    Matrix,         \* the policies the operator chooses among
    Declared,       \* the grants the operator writes by hand
    Inventories,    \* what the inventory may hold: names to records
    Duration,       \* what a derived grant may last
    Ceiling,        \* the ceilings a manager may declare
    MaxNow,         \* bound: time
    MaxGrants,      \* bound: grants in the list
    MaxWaiting,     \* bound: actions suspended at once
    MaxAgreed       \* bound: different things an operator agrees to

ASSUME AskAssumption == Ask \subseteq Request /\ ConnectorAsk \subseteq Request
ASSUME MatrixAssumption == Matrix \subseteq Policy
ASSUME DeclaredAssumption == Declared \subseteq StandingGrant
ASSUME CeilingAssumption == Ceiling \subseteq SUBSET CapabilityClass
ASSUME DurationAssumption == Duration \subseteq (Nat \ {0}) \cup {Never}
ASSUME InventoryAssumption ==
    \A s \in Inventories : DOMAIN s \subseteq Host /\ \A h \in DOMAIN s : s[h] \in ServerRecord

VARIABLES
    matrix,         \* the policy in config.json
    grants,         \* gates.standingGrants
    servers,        \* the inventory
    now,
    waiting,        \* the views of the suspended actions
    proposed,       \* the grant the last rehearsal of the automation proposes
    panel,          \* the list the settings panel was opened with, if it is open
    agreed,         \* history: the views an operator asked a grant for, with its expiry
    kept            \* history: those of them that ended in "ok", until a panel saves

gvars == <<matrix, grants, servers, now, waiting, proposed, panel, agreed, kept>>

GrantsInit ==
    /\ matrix \in Matrix
    /\ grants = <<>>
    /\ servers \in Inventories
    /\ now = 0
    /\ waiting = {} /\ proposed = {}
    /\ panel = {}
    /\ agreed = {} /\ kept = {}

\* What an operator is shown of a request, and a grant is derived from.
View(r, hosts) ==
    [request |-> r, hosts |-> hosts, command |-> r.command, key |-> ContextKey(r)]

Gate(r) == _gate(matrix, grants, servers, now, r)

-----------------------------------------------------------------------------
(* Requests                                                                 *)

Suspend(r) ==
    /\ Cardinality(waiting) < MaxWaiting
    /\ Gate(r).outcome = "approve"
    /\ waiting' = waiting \cup {View(r, servers[r.server].hosts)}
    /\ UNCHANGED <<matrix, grants, servers, now, proposed, panel, agreed, kept>>

\* A connector call is decided without a look at who is there to answer; its
\* host is that of the service.
SuspendConnector(r) ==
    /\ Cardinality(waiting) < MaxWaiting
    /\ evaluate_connector(matrix, grants, now, r).outcome = "approve"
    /\ waiting' = waiting \cup {View(r, {r.server})}
    /\ UNCHANGED <<matrix, grants, servers, now, proposed, panel, agreed, kept>>

\* Answered without a grant, or the grant could not be saved.
Settle(v) ==
    /\ v \in waiting
    /\ waiting' = waiting \ {v}
    /\ UNCHANGED <<matrix, grants, servers, now, proposed, panel, agreed, kept>>

-----------------------------------------------------------------------------
(* Grants from approvals                                                    *)

Expiry(choice) == IF choice = Never THEN Never ELSE now + choice

\* Mutant: the grant is for both contexts.
grant_from_approved_action_AnyContext(v, expires) ==
    [contexts |-> {"interactive", "unattended"}, hosts |-> v.hosts,
     commands |-> {v.command}, connectors |-> {}, operations |-> {},
     expires |-> expires]

grant_from_approved_action(v, expires) ==
    [contexts |-> {v.key}, hosts |-> v.hosts, commands |-> {v.command},
     connectors |-> {}, operations |-> {}, expires |-> expires]

SameAction(g, h) ==
    g.commands = h.commands /\ g.hosts = h.hosts /\ g.contexts = h.contexts

\* Mutant: a grant for the same action covers it however long it lasts.
_already_covered_AnyExpiry(g) ==
    \E i \in DOMAIN grants : SameAction(grants[i], g)

\* An existing grant says the same, for at least as long.
_already_covered(g) ==
    \E i \in DOMAIN grants :
        /\ SameAction(grants[i], g)
        /\ \/ grants[i].expires = Never
           \/ g.expires # Never /\ grants[i].expires >= g.expires

Agreed(v, expires) == [view |-> v, expires |-> expires]

\* Approve and add: the answer has reached the executor, the grant is written.
write_derived_grant(v, choice) ==
    /\ v \in waiting
    /\ waiting' = waiting \ {v}
    /\ LET g == grant_from_approved_action(v, Expiry(choice))
       IN  grants' = IF _already_covered(g) THEN grants ELSE Append(grants, g)
    /\ agreed' = agreed \cup {Agreed(v, Expiry(choice))}
    /\ Len(grants') <= MaxGrants /\ Cardinality(agreed') <= MaxAgreed
    /\ kept' = kept \cup {Agreed(v, Expiry(choice))}
    /\ UNCHANGED <<matrix, servers, now, proposed, panel>>

\* A rehearsal previews what the automation does.  What the gate would refuse
\* is proposed as a grant, unless no grant could permit it.
Rehearse(r) ==
    /\ Unattended(r)
    /\ proposed' = IF /\ Gate(r).outcome = "deny"
                      /\ Resolved(servers, r.server) /\ ~servers[r.server].unbounded
                   THEN {View(r, servers[r.server].hosts)} ELSE {}
    /\ UNCHANGED <<matrix, grants, servers, now, waiting, panel, agreed, kept>>

\* _write_grants: a grant for the same action is taken for a permission.
promote(v) ==
    /\ v \in proposed
    /\ LET g == grant_from_approved_action(v, Never)
       IN  grants' = IF \E i \in DOMAIN grants : SameAction(grants[i], g)
                     THEN grants ELSE Append(grants, g)
    /\ agreed' = agreed \cup {Agreed(v, Never)}
    /\ Len(grants') <= MaxGrants /\ Cardinality(agreed') <= MaxAgreed
    /\ UNCHANGED <<matrix, servers, now, waiting, proposed, panel, kept>>

-----------------------------------------------------------------------------
(* The operator                                                             *)

OpenPanel ==
    /\ panel' = {grants}
    /\ UNCHANGED <<matrix, grants, servers, now, waiting, proposed, agreed, kept>>

\* The panel posts a policy and all the grants it shows, whatever was added
\* since it was opened.  A grant without hosts or commands cannot be saved.
update_gates_settings(m, list) ==
    /\ Len(list) <= MaxGrants
    /\ \A i \in DOMAIN list : list[i].hosts # {} /\ list[i].commands # {}
    /\ matrix' = m /\ grants' = list
    /\ panel' = {}
    /\ kept' = {}
    /\ UNCHANGED <<servers, now, waiting, proposed, agreed>>

\* What the operator may have made of the list the panel was opened with.
Edits(list) == {list} \cup {Append(list, g) : g \in Declared}
                     \cup {RemoveAt(list, i) : i \in DOMAIN list}

EditInventory(s) ==
    /\ servers' = s
    /\ UNCHANGED <<matrix, grants, now, waiting, proposed, panel, agreed, kept>>

Tick ==
    /\ now < MaxNow /\ now' = now + 1
    /\ UNCHANGED <<matrix, grants, servers, waiting, proposed, panel, agreed, kept>>

GrantsNext ==
    \/ \E r \in Ask : Suspend(r) \/ Rehearse(r)
    \/ \E r \in ConnectorAsk : SuspendConnector(r)
    \/ \E v \in waiting : Settle(v) \/ \E d \in Duration : write_derived_grant(v, d)
    \/ \E v \in proposed : promote(v)
    \/ OpenPanel
    \/ \E m \in Matrix, shown \in panel :
          \E list \in Edits(shown) : update_gates_settings(m, list)
    \/ \E s \in Inventories : EditInventory(s)
    \/ Tick

GrantsSpec == GrantsInit /\ [][GrantsNext]_gvars

-----------------------------------------------------------------------------
(* Properties                                                               *)

ViewRecord == [request : Request, hosts : SUBSET Host, command : Command,
               key : {"interactive", "unattended"}]

GrantsTypeOK ==
    /\ matrix \in Matrix
    /\ grants \in Seq(StandingGrant)
    /\ servers \in Inventories
    /\ now \in Nat
    /\ waiting \subseteq ViewRecord /\ proposed \subseteq ViewRecord
    /\ panel \subseteq Seq(StandingGrant)
    /\ agreed \subseteq [view : ViewRecord, expires : Nat \cup {Never}]
    /\ kept \subseteq agreed

InForce(expires) == expires = Never \/ now < expires

\* A record of the inventory bears the name of one of these addresses.
Shadowed(hosts) == hosts \cap DOMAIN servers # {}
StandsFor(hosts) == hosts \cup UNION {servers[h].hosts : h \in hosts \cap DOMAIN servers}

\* An operator agreed to this command in this context, on all these hosts,
\* and until later than now.
WasAgreed(r, hosts) ==
    \E a \in agreed : /\ a.view.command = r.command /\ a.view.key = ContextKey(r)
                      /\ InForce(a.expires) /\ hosts \subseteq StandsFor(a.view.hosts)

(* "A derived grant cannot be wider than the action it came from"           *)
(* (derived_grants.py:27): whatever is repointed, saved over, promoted or   *)
(* expires, a remote command that runs without a question is one the matrix *)
(* allows, one the operator wrote a grant for, or one a person agreed to    *)
(* for this context, on every host it reaches today.  Where a record of the *)
(* inventory is named like an agreed address, the grant follows the record. *)
AuthorityIsTraceable ==
    \A r \in Ask :
        LET used == Gate(r).grant
        IN  used # 0 => \/ grants[used] \in Declared
                        \/ WasAgreed(r, servers[r.server].hosts)

Rank(d) == CASE d.outcome = "deny" -> 0 [] d.outcome = "approve" -> 1 [] OTHER -> 2

\* The frame of the peer a manager delegates to: a person is behind it when
\* somebody watches the manager and the manager's channel says who.
Peer(m, ceiling) ==
    [m EXCEPT !.context = "subagent", !.delegated = TRUE,
              !.human = (m.context = "interactive" /\ m.human),
              !.inherited = ceiling]

\* Managers; the channel of one that somebody watches may say who, or not.
Managers(asks) ==
    {m \in {[r EXCEPT !.human = known] : r \in asks, known \in BOOLEAN} :
        /\ ~m.delegated /\ m.class # "read"
        /\ m.human => m.context = "interactive"}

\* Who a peer acts for: its manager or, when nobody knows who talks to the
\* manager, an automation that asks the same.
Sponsor(m) ==
    IF m.context = "interactive" /\ ~m.human
    THEN [m EXCEPT !.context = "automation"] ELSE m

Delegations(asks) ==
    {[peer |-> Peer(m, C), sponsor |-> Sponsor(m), ceiling |-> C] :
        m \in Managers(asks), C \in Ceiling}
CommandDelegations == Delegations(Ask)
ConnectorDelegations == Delegations(ConnectorAsk)

(* "A delegated turn never holds more authority than the turn that spawned  *)
(* it" (delegation.py:35), for a command, a connector call and the          *)
(* credential: what the gate grants a peer, it grants the manager who asks  *)
(* for the same itself; and never outside the ceiling the manager declared. *)
(* A peer that nobody is known to be behind is decided as unattended        *)
(* (delegation.py:206-210): it gets what an automation would, which may be  *)
(* more than its interactive manager gets without asking.                   *)
NeverWider(delegations, class, Decided(_)) ==
    \A d \in delegations :
        LET peers == Rank(Decided(d.peer))
        IN  /\ peers <= Rank(Decided(d.sponsor))
            /\ d.ceiling # {} /\ class \notin d.ceiling => peers = 0
DelegationNeverWidens ==
    /\ NeverWider(CommandDelegations, "mutate.remote", Gate)
    /\ NeverWider(ConnectorDelegations, "mutate.remote",
                  LAMBDA r : evaluate_connector(matrix, grants, now, r))
    /\ \A a \in {"grant", "approval"} :
          NeverWider(CommandDelegations, "credential.access",
                     LAMBDA r : evaluate_credential_access(matrix, r, a))

(* Approve and add told the operator "ok": until that expiry the same       *)
(* command on the same hosts asks nobody again, as long as the matrix       *)
(* leaves room for a grant and no panel has saved over the list.            *)
AddedGrantAnswers ==
    \A k \in kept :
        LET r == k.view.request
        IN  /\ r \in Ask /\ InForce(k.expires)
            /\ Resolved(servers, r.server) /\ servers[r.server].hosts = k.view.hosts
            /\ ~servers[r.server].unbounded /\ ~Shadowed(k.view.hosts)
            /\ matrix[ContextKey(r)].remote[_scope_for(servers[r.server])] # "deny"
            => Gate(r).outcome = "allow"

=============================================================================
