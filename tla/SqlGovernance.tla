---------------------------- MODULE SqlGovernance ----------------------------
(***************************************************************************)
(* The rules of the governance gate: the data document that policy/build.ts *)
(* makes of a scenario, the input harness/src/governance/index.ts makes of  *)
(* a call, and the violations of policy/dazense.rego.                       *)
(*                                                                          *)
(* A scenario (the YAML files) is a record:                                 *)
(*   agents  [agent -> [can_query, bundle]], bundle is Null for none        *)
(*   bundles <<[id, tables, joins, time_filters]>>, in directory order       *)
(*   pii     [table -> columns], policy [max_rows, allow_execute_sql, ...]   *)
(*   models  the semantic models (module SemanticPlanner)                    *)
(* A join is [left, right], each a <<table, column>>.                       *)
(*                                                                          *)
(* The text of a statement is abstracted to what parseSql and the patterns   *)
(* of the policy see of it:                                                 *)
(*   tables, joins  after FROM and JOIN; joins as pairs of columns           *)
(*   words          the identifiers in it                                   *)
(*   star           "none", "bare" or "table": no star, a star that follows  *)
(*                  SELECT, the star of a table or its whole row            *)
(*   writes, statements, limit (Null for none)                              *)
(***************************************************************************)
EXTENDS Naturals, Sequences, FiniteSets, SequencesExt

CONSTANT Null

\* getBundle, by its id.
BundleOf(scenario, id) ==
    LET i == SelectInSeq(scenario.bundles, LAMBDA b : b.id = id)
    IN scenario.bundles[i]

\* buildData.  Only the bundles of agents are shipped; of a join, only the
\* columns.
BuildData(scenario) ==
    LET agents == scenario.agents
        used == {agents[a].bundle : a \in DOMAIN agents} \ {Null}
        Columns(bundle) == {<<j.left[2], j.right[2]>> : j \in ToSet(bundle.joins)}
    IN [agents |-> agents,
        bundles |-> [id \in used |->
                        [allowed_tables |-> BundleOf(scenario, id).tables,
                         joins |-> Columns(BundleOf(scenario, id))]],
        pii_columns |-> scenario.pii,
        policy |-> scenario.policy]

\* The input of the policy.  A limit that is bound as a parameter is not in the
\* text: the caller passes it in limit_value_override.
OpaInput(agent, tool, sql, override) ==
    [agent_id |-> agent,
     tool_name |-> tool,
     sql |-> sql,
     limit |-> IF override # Null THEN override ELSE sql.limit]

-----------------------------------------------------------------------------
(* dazense.rego *)

Agent(data, input) == data.agents[input.agent_id]

KnownAgent(data, input) == input.agent_id \in DOMAIN data.agents

\* Checks 5 and 5b apply to an agent with a bundle only.
HasBundle(data, input) ==
    KnownAgent(data, input) /\ Agent(data, input).bundle # Null

Bundle(data, input) == data.bundles[Agent(data, input).bundle]

JoinAllowed(bundle, join) ==
    join \in bundle.joins \/ <<join[2], join[1]>> \in bundle.joins

\* Mutant of PiiHit: the text is not looked at, only SELECT *.
PiiHitStarOnly(sql, table, column) == sql.star = "bare" /\ table \in sql.tables

\* The column is a word of the text, or SELECT * reads its table.
PiiHit(sql, table, column) ==
    \/ column \in sql.words
    \/ sql.star = "bare" /\ table \in sql.tables

\* The checks, each with what makes it fail (the text is never empty).
Violations(data, input) ==
    LET sql == input.sql
        policy == data.policy
        Failing ==
          [authenticate |-> ~KnownAgent(data, input),
           can_query |->
             KnownAgent(data, input) /\ ~Agent(data, input).can_query,
           read_only |-> sql.writes,
           single_statement |->
             policy.disallow_multi_statement /\ sql.statements > 1,
           bundle_scope |->
             /\ HasBundle(data, input)
             /\ \E t \in sql.tables : t \notin Bundle(data, input).allowed_tables,
           join_allowlist |->
             /\ HasBundle(data, input)
             /\ \E j \in sql.joins : ~JoinAllowed(Bundle(data, input), j),
           execution_permission |-> ~policy.allow_execute_sql,
           pii_check |->
             /\ policy.pii_mode = "block"
             /\ \E t \in DOMAIN data.pii_columns :
                   \E c \in data.pii_columns[t] : PiiHit(sql, t, c),
           limit_check |-> policy.enforce_limit /\ input.limit = Null,
           limit_value |->
             /\ policy.enforce_limit
             /\ input.limit # Null
             /\ input.limit > policy.max_rows]
    IN {check \in DOMAIN Failing : Failing[check]}

\* The names of the columns that filterPiiFromResults masks: of the policy file,
\* and of the catalog when it answers.
PiiNames(scenario) == UNION {scenario.pii[t] : t \in DOMAIN scenario.pii}
=============================================================================
