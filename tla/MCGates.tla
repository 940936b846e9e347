------------------------------ MODULE MCGates ------------------------------
(***************************************************************************)
(* Who may say yes, to what, for how long: three parts of the gate that    *)
(* share no state on small instances, one beside the other.  They are the  *)
(* rules about an approver (ApprovalQuestions), the grants that answer in  *)
(* advance (StandingGrants) and the latch that follows a no (DenialLatch). *)
(* A behaviour exercises the part that focus names; the others rest.       *)
(* Paths and people are interchangeable, so the origin is one of each.     *)
(***************************************************************************)
EXTENDS ApprovalQuestions, StandingGrants, DenialLatch, TLC

CONSTANTS
    web, ana,       \* a path and a person
    MaxApprovers,   \* bound: approvers in a configuration
    n1, x1, x2,     \* a name of the inventory, two addresses
    c1, c2,         \* commands
    mail, send      \* a connector and its operation

VARIABLE focus

Symmetry == Permutations(Call) \cup Permutations(Session)

-----------------------------------------------------------------------------
(* Requests, policies and grants of the instance                            *)

Asked(class, context) ==
    [class |-> class, context |-> context, server |-> n1, command |-> c1,
     connector |-> mail, operation |-> send,
     delegated |-> FALSE, human |-> FALSE, inherited |-> {}]

\* Commands to a server, and calls of a connector whose text is another one.
Commands == {Asked("mutate.remote", "interactive"), Asked("mutate.remote", "automation")}
Calls == {[Asked("mutate.remote", "interactive") EXCEPT !.command = c2],
          [Asked("read", "automation") EXCEPT !.command = c2]}

\* No ceiling, and one that allows nothing here.
Ceilings == {{}, {"read"}}

Words(host, group, credential) ==
    [remote |-> [host |-> host, group |-> group, all |-> "deny"],
     inventory |-> "deny", credential |-> credential]
\* A person is asked about one host, a grant is needed for a group or by an
\* automation.
Policies ==
    {[interactive |-> Words("approve", "grant", "approve"),
      unattended |-> Words("grant", "grant", "deny")]}

\* What the operator may write by hand: a grant for the other command, by name.
Handwritten ==
    {[contexts |-> {"unattended"}, hosts |-> {n1}, commands |-> {c2},
      connectors |-> {}, operations |-> {}, expires |-> Never]}

Record(hosts, unbounded) == [hosts |-> hosts, unbounded |-> unbounded]
\* One host; a pattern that expands to two, with a bound or without; another
\* host, and a record named like the first.
Targets == {[h \in {n1} |-> Record({x1}, FALSE)], [h \in {n1} |-> Record({x1, x2}, TRUE)],
            [h \in {n1} |-> Record({x1, x2}, FALSE)], [h \in {n1, x1} |-> Record({x2}, FALSE)]}

-----------------------------------------------------------------------------
(* One part at a time                                                       *)

GatesInit ==
    /\ focus \in {"rules", "grants", "latch"}
    /\ Init
    /\ IF focus = "rules"
       THEN /\ gates \in Gates /\ Cardinality(gates.approvers) <= MaxApprovers
            /\ origin \in {web, Blank} /\ originActor \in {ana, Blank}
            /\ path = Blank /\ who = Blank
            /\ QuestionInit
       ELSE /\ gates = [approvers |-> {}, approvalPaths |-> {}, identity |-> FALSE]
            /\ origin = Blank /\ originActor = Blank /\ path = Blank /\ who = Blank
    /\ IF focus = "grants" THEN GrantsInit
       ELSE /\ matrix = CHOOSE m \in Matrix : TRUE
            /\ servers = CHOOSE s \in Inventories : TRUE
            /\ grants = <<>> /\ now = 0 /\ waiting = {} /\ proposed = {}
            /\ panel = {} /\ agreed = {} /\ kept = {}

GatesNext ==
    /\ \/ focus = "rules" /\ NextAnswer /\ UNCHANGED <<gvars, vars>>
       \/ focus = "grants" /\ GrantsNext /\ UNCHANGED <<qvars, vars>>
       \/ focus = "latch" /\ Next /\ UNCHANGED <<qvars, gvars>>
    /\ UNCHANGED focus

GatesSpec == GatesInit /\ [][GatesNext]_<<focus, qvars, gvars, vars>>
=============================================================================
