----------------------------- MODULE GatePolicy -----------------------------
(***************************************************************************)
(* What the gate answers to one request: nanoinfra/gates/policy.py, the    *)
(* rules about delegated turns in gates/delegation.py, the grants of       *)
(* config/gates.py, and the two doors of the executor that ask             *)
(* (gates/executor/server.py, gates/executor/connector_action.py).         *)
(*                                                                         *)
(* A name of the inventory and an address are words of one set: a grant    *)
(* may list either, and a record may be named like an address.             *)
(***************************************************************************)
EXTENDS Integers, Sequences

CONSTANTS
    Host,           \* names of inventory records, and addresses
    Command,        \* resolved commands, rendered connector calls
    Connector, Operation,
    Never           \* the expiry of a grant that has none

ASSUME NeverAssumption == Never \notin Nat

CapabilityClass == {"read", "mutate.local", "mutate.inventory",
                    "mutate.remote", "credential.access"}
GatedClass == {"mutate.remote", "mutate.inventory", "credential.access"}
KnownScope == {"host", "group", "all"}
PolicyWord == {"allow", "approve", "grant", "deny"}

ContextPolicy ==
    [remote : [host : PolicyWord, group : PolicyWord, all : {"deny"}],
     inventory : {"allow", "deny"}, credential : PolicyWord]
Policy == [interactive : ContextPolicy, unattended : ContextPolicy]

\* A grant names hosts and commands, or connectors and operations.
StandingGrant ==
    {g \in [contexts : SUBSET {"interactive", "unattended"},
            hosts : SUBSET Host, commands : SUBSET Command,
            connectors : SUBSET Connector, operations : SUBSET Operation,
            expires : Nat \cup {Never}] :
        /\ g.hosts \cup g.commands = {} \/ g.connectors \cup g.operations = {}
        /\ (g.connectors = {}) = (g.operations = {})}

\* A record of the inventory: what its target expands to, nothing when it
\* cannot be expanded.
ServerRecord == [hosts : SUBSET Host, unbounded : BOOLEAN]

\* A request as the executor reads it off the frame: what it asks for, the
\* context it declares, and the delegation it names; human, when it names who
\* the turn's channel authenticated.
Request ==
    [class : CapabilityClass, context : {"interactive", "subagent", "automation"},
     server : Host, command : Command,
     connector : Connector, operation : Operation,
     delegated : BOOLEAN, human : BOOLEAN, inherited : SUBSET CapabilityClass]

-----------------------------------------------------------------------------
(* Delegation                                                               *)

\* A delegated turn with a person behind it is attended (mutant: any is).
effective_execution_context_NoHuman(r) ==
    IF r.context = "subagent" /\ r.delegated THEN "interactive" ELSE r.context
effective_execution_context(r) ==
    IF r.context = "subagent" /\ r.delegated /\ r.human
    THEN "interactive" ELSE r.context
Unattended(r) == effective_execution_context(r) # "interactive"
ContextKey(r) == IF Unattended(r) THEN "unattended" ELSE "interactive"

\* A turn that declared no ceiling binds nothing.
ceiling_refusal(r, class) ==
    r.delegated /\ r.inherited # {} /\ class \notin r.inherited

-----------------------------------------------------------------------------
(* Grants                                                                   *)

is_expired(g, now) == g.expires # Never /\ now >= g.expires

\* What each entry of a grant stands for today.  An entry that names no
\* record stands for itself; a record that does not resolve grants nothing.
_resolved_grant_hosts(servers, entries) ==
    UNION {IF h \in DOMAIN servers THEN servers[h].hosts ELSE {h} : h \in entries}

_grant_matches(g, servers, hosts, command) ==
    /\ command \in g.commands
    /\ hosts # {}
    /\ g.connectors \cup g.operations = {}
    /\ hosts \subseteq _resolved_grant_hosts(servers, g.hosts)

_connector_grant_matches(g, connector, operation) ==
    /\ connector \in g.connectors /\ operation \in g.operations
    /\ g.hosts \cup g.commands = {}

\* The first grant of the list that is live and meant for this context, among
\* those for which Match holds; 0 for none.
Live(grants, now, key, matching) ==
    LET live == {i \in matching : /\ key \in grants[i].contexts
                                  /\ ~is_expired(grants[i], now)}
    IN  IF live = {} THEN 0 ELSE CHOOSE i \in live : \A j \in live : i <= j

_grant_hits(grants, servers, now, r, hosts) ==
    Live(grants, now, ContextKey(r),
         {i \in DOMAIN grants : _grant_matches(grants[i], servers, hosts, r.command)})

_connector_grant_hits(grants, now, r) ==
    Live(grants, now, ContextKey(r),
         {i \in DOMAIN grants :
            _connector_grant_matches(grants[i], r.connector, r.operation)})

-----------------------------------------------------------------------------
(* Decisions                                                                *)

Answered(outcome, grant) == [outcome |-> outcome, grant |-> grant]
Denied == Answered("deny", 0)

\* "grant" means allow when a grant matches, which the caller has checked.
_decision_for(word) == IF word \in {"allow", "approve"} THEN word ELSE "deny"

\* A live grant answers "grant" and "approve", and never "deny".
Settled(word, live) ==
    IF word \in {"grant", "approve"} /\ live # 0
    THEN Answered("allow", live)
    ELSE Answered(_decision_for(word), 0)

\* One decryption, given what the action was authorized by: a grant, an
\* approval, or the matrix.
evaluate_credential_access(policy, r, authorization) ==
    LET word == policy[ContextKey(r)].credential
    IN  IF ceiling_refusal(r, "credential.access") THEN Denied
        ELSE IF \/ word = "allow"
                \/ /\ word \in {"approve", "grant"}
                   /\ authorization \in {"grant", "matrix"}
                \/ word = "approve" /\ authorization = "approval"
             THEN Answered("allow", 0)
             ELSE Denied

\* evaluate, for a request whose target resolved to these hosts.
evaluate(policy, grants, servers, now, r, scope, hosts) ==
    LET p == policy[ContextKey(r)]
    IN  IF \/ r.class \notin GatedClass
           \/ scope \notin KnownScope
           \/ ceiling_refusal(r, r.class)
        THEN Denied
        ELSE IF r.class = "credential.access"
        THEN evaluate_credential_access(policy, r, "nothing")
        ELSE IF r.class = "mutate.inventory"
        THEN Answered(_decision_for(p.inventory), 0)
        ELSE Settled(p.remote[scope], _grant_hits(grants, servers, now, r, hosts))

evaluate_connector(policy, grants, now, r) ==
    IF r.class = "read" THEN Answered("allow", 0)
    ELSE IF ceiling_refusal(r, r.class) \/ r.class # "mutate.remote" THEN Denied
    ELSE Settled(policy[ContextKey(r)].remote.host,
                 _connector_grant_hits(grants, now, r))

-----------------------------------------------------------------------------
(* The door for remote commands                                             *)

\* resolve_scope of the record the request names.
Resolved(servers, name) == name \in DOMAIN servers /\ servers[name].hosts # {}
_scope_for(record) ==
    IF record.unbounded THEN "all"
    ELSE IF \E a, b \in record.hosts : a # b THEN "group" ELSE "host"

\* Executor._gate: no scope "all", and nobody to ask on an unattended turn.
_gate(policy, grants, servers, now, r) ==
    IF ~Resolved(servers, r.server) \/ _scope_for(servers[r.server]) = "all"
    THEN Denied
    ELSE LET d == evaluate(policy, grants, servers, now,
                           [r EXCEPT !.class = "mutate.remote"],
                           _scope_for(servers[r.server]), servers[r.server].hosts)
         IN  IF d.outcome = "approve" /\ Unattended(r) THEN Denied ELSE d

=============================================================================
