----------------------------- MODULE AgentTools -----------------------------
(***************************************************************************)
(* What an agent is told of its limits and what it checks of its own answer *)
(* (harness/src/tools/control.ts, tools/verify.ts,                          *)
(* governance/rule-check.ts).  Everything here is a pure function of the     *)
(* scenario files and of the arguments of one call; the facts at the end     *)
(* relate it to the planner and the gate, which enforce the same limits.     *)
(*                                                                          *)
(* Here a scenario (see SqlGovernance) also has                             *)
(*   rules      <<[name, severity, applies_to, check]>>, applies_to a set of  *)
(*              <<table or model, field>>; a check is Null or                *)
(*              [kind, when, require], patterns are Null or                  *)
(*              [all, any, forbid], sets of tokens                           *)
(*   freshness  [table -> minutes], the tables with an SLA                   *)
(* and its agents a role.  A text is the set of the tokens that are found in  *)
(* it; the tokens of a statement are its words.  All is in lower case.        *)
(***************************************************************************)
EXTENDS SemanticPlanner

-----------------------------------------------------------------------------
(* control.ts: what an agent is told *)

BundleFor(scenario, agent) ==
    FirstThat(scenario.bundles, LAMBDA b : b.id = scenario.agents[agent].bundle)

\* initialize_agent: no bundle, and a bundle that is not found, are an empty scope.
TablesTold(scenario, agent) ==
    UNION {b.tables : b \in ToSet(BundleFor(scenario, agent))}

JoinsTold(scenario, agent) ==
    UNION {ToSet(b.joins) : b \in ToSet(BundleFor(scenario, agent))}

ModelsTold(scenario, agent) ==
    {m \in ToSet(scenario.models) : m.table \in TablesTold(scenario, agent)}

MeasuresTold(scenario, agent) ==
    UNION {{m.name} \X DOMAIN m.measures : m \in ModelsTold(scenario, agent)}

DimensionsTold(scenario, agent) ==
    UNION {{m.name} \X DOMAIN m.dimensions : m \in ModelsTold(scenario, agent)}

\* matchRulesToScope
RulesForScope(rules, tables, measures) ==
    {r \in ToSet(rules) :
        \E target \in r.applies_to : target[1] \in tables \/ target \in measures}

RulesTold(scenario, agent) ==
    RulesForScope(scenario.rules, TablesTold(scenario, agent), MeasuresTold(scenario, agent))

ToolsTold(scenario, agent) ==
    LET a == scenario.agents[agent]
    IN (IF a.can_query
        THEN {"query_data", "query_metrics", "get_business_rules", "write_finding",
              "read_findings"}
        ELSE {"get_context", "read_findings", "record_outcome", "get_business_rules"})
       \cup (IF a.role = "orchestrator" THEN {"get_confidence", "verify_result"} ELSE {})

\* matchRulesToContext, of get_business_rules.
RulesForContext(rules, tables, metrics, text) ==
    {r \in ToSet(rules) :
        \E target \in r.applies_to :
            \/ target[1] \in tables
            \/ target \in metrics
            \/ target[1] \in text}

-----------------------------------------------------------------------------
(* rule-check.ts *)

PatternMatches(text, pattern) ==
    /\ pattern.all \subseteq text
    /\ pattern.any # {} => pattern.any \cap text # {}
    /\ pattern.forbid \cap text = {}

\* evaluatePattern
PatternOutcome(check, text) ==
    IF text = Null THEN "not_applicable"
    ELSE IF check.when # Null /\ ~PatternMatches(text, check.when) THEN "not_applicable"
    ELSE IF check.require = Null \/ PatternMatches(text, check.require) THEN "pass"
    ELSE "fail"

\* evaluatePii; a statement that is not supplied is empty.
PiiOutcome(words, names) ==
    IF names = {} THEN "not_applicable"
    ELSE IF words # Null /\ words \cap names # {} THEN "fail"
    ELSE "pass"

\* evaluateRule: words of the statement and tokens of the result, or Null.
RuleOutcome(rule, words, result, names) ==
    IF rule.check = Null THEN "manual"
    ELSE CASE rule.check.kind = "sql_pattern" -> PatternOutcome(rule.check, words)
           [] rule.check.kind = "text_pattern" -> PatternOutcome(rule.check, result)
           [] rule.check.kind = "pii_columns" -> PiiOutcome(words, names)
           [] OTHER -> "manual"

-----------------------------------------------------------------------------
(* verify.ts *)

RuleInScope(rule, tables, result) ==
    \E target \in rule.applies_to : target[1] \in tables \cup result

WordsOf(sql) == IF sql = Null THEN Null ELSE sql.words
TablesOf(sql) == IF sql = Null THEN {} ELSE sql.tables

\* Check 1 of verify_result: done for an agent that has a bundle, and skipped
\* (that is, passed) when the bundle is not found.
ScopeVerified(scenario, agent, sql) ==
    \/ agent \notin DOMAIN scenario.agents
    \/ BundleFor(scenario, agent) = <<>>
    \/ TablesOf(sql) \subseteq TablesTold(scenario, agent)

\* Check 2: the error rules in scope, by their outcome.
RulesVerified(scenario, sql, result, outcome) ==
    {r \in ToSet(scenario.rules) :
        /\ r.severity = "error"
        /\ RuleInScope(r, TablesOf(sql), result)
        /\ RuleOutcome(r, WordsOf(sql), result, PiiNames(scenario)) = outcome}

\* verify_result.  Rules that need a human count as passed.
Verified(scenario, agent, sql, result) ==
    /\ ScopeVerified(scenario, agent, sql)
    /\ RulesVerified(scenario, sql, result, "fail") = {}

\* check_consistency: the rules it reports as violated; named is Null or a list
\* of the caller, which is trusted.
Inconsistent(scenario, result, named) ==
    {r \in ToSet(scenario.rules) :
        /\ IF named = Null THEN RuleInScope(r, {}, result) ELSE r.name \in named
        /\ RuleOutcome(r, Null, result, PiiNames(scenario)) = "fail"}

\* Math.round of an age in seconds.
RoundedMinutes(seconds) == (seconds + 30) \div 60

\* check_freshness: an age is <<seconds>>, <<>> for a table without events, and
\* Null when the statement failed, which counts as fresh.
Fresh(sla, table, age) ==
    \/ table \notin DOMAIN sla
    \/ age = Null
    \/ age # <<>> /\ RoundedMinutes(age[1]) <= sla[table]

AllFresh(sla, ages) == \A t \in DOMAIN ages : Fresh(sla, t, ages[t])

\* The parts of get_confidence, in hundredths.
FreshnessScore(sla, tables) == IF tables \cap DOMAIN sla = {} THEN 100 ELSE 95

PrecedentScore(outcomes) ==
    CASE outcomes > 10 -> 90
      [] outcomes > 3 -> 70
      [] outcomes > 0 -> 60
      [] OTHER -> 50

\* get_confidence: the composite score times 10000 * required * domain.  rules is
\* the number of rules the caller says it checked, consulted of agents.
Composite(freshness, precedent, rules, required, consulted, domain) ==
    LET ruleScore == IF required = 0 THEN <<1, 1>> ELSE <<SmallerOf(rules, required), required>>
        coverage == IF domain = 0 THEN <<1, 1>> ELSE <<consulted, domain>>
    IN [num |-> (30 * freshness + 15 * precedent) * ruleScore[2] * coverage[2]
                   + 3000 * ruleScore[1] * coverage[2] + 2500 * coverage[1] * ruleScore[2],
        den |-> 10000 * ruleScore[2] * coverage[2]]

Confidence(score) ==
    CASE 10 * score.num >= 8 * score.den -> "high"
      [] 10 * score.num >= 5 * score.den -> "medium"
      [] OTHER -> "low"

-----------------------------------------------------------------------------
(***************************************************************************)
(* Facts, for one version of a scenario                                     *)
(***************************************************************************)

Alone(measure, dimensions) ==
    [measures |-> <<measure>>, dimensions |-> dimensions, range |-> <<>>, filters |-> <<>>,
     order |-> <<>>, limit |-> Null]

\* What initialize_agent tells an agent is what the planner and the gate hold it
\* to: it is offered the query tools exactly when the gate lets it query, a measure
\* it is told of is refused only for want of a time filter, with a dimension it is
\* told of only for their join besides, and a join it is told of passes the gate.
BriefingIsTrue(scenario, agent) ==
    LET registry == Registry(scenario)
        scope == AgentScope(scenario, agent)
        data == BuildData(scenario)
        Said(request) == Refusal(registry, request, scope)
    IN /\ "query_data" \in ToolsTold(scenario, agent) <=> data.agents[agent].can_query
       /\ \A m \in MeasuresTold(scenario, agent) :
             /\ Said(Alone(m, <<>>)) \in {"none", "time_filter_required"}
             /\ \A d \in DimensionsTold(scenario, agent) :
                   Said(Alone(m, <<d>>)) \in {"none", "time_filter_required", "disallowed_join"}
       /\ \A j \in JoinsTold(scenario, agent) :
             JoinAllowed(data.bundles[scenario.agents[agent].bundle],
                         <<j.left[2], j.right[2]>>)

\* A statement that verify_result passes for its agent reads no table the gate
\* would refuse, and names no PII column while a rule of kind pii_columns is in
\* scope; and verify_result fails no answer for its tables alone that the gate
\* would have let through.
VerifiedAgreesWithGate(scenario, agent, sql, result) ==
    LET refused == Violations(BuildData(scenario), OpaInput(agent, "query_data", sql, Null))
        piiRule == \E r \in ToSet(scenario.rules) :
                      /\ r.severity = "error" /\ r.check # Null
                      /\ r.check.kind = "pii_columns"
                      /\ RuleInScope(r, sql.tables, result)
    IN /\ ScopeVerified(scenario, agent, sql) <=> "bundle_scope" \notin refused
       /\ Verified(scenario, agent, sql, result) /\ piiRule =>
              sql.words \cap PiiNames(scenario) = {}

\* An agent that stays within its bundle is not failed for a rule it could not
\* know of: a rule that fails by the tables of the statement was told at the start
\* and is found again by asking for those tables.
FailedRulesWereTold(scenario, agent, sql, result) ==
    ScopeVerified(scenario, agent, sql) /\ BundleFor(scenario, agent) # <<>> =>
        \A r \in RulesVerified(scenario, sql, result, "fail") :
            RuleInScope(r, sql.tables, {}) =>
                /\ r \in RulesTold(scenario, agent)
                /\ r \in RulesForContext(scenario.rules, sql.tables, {}, {})

\* verify_result is the stricter check: an error that check_consistency finds in a
\* text, verify_result finds in it too, whatever the statement was.
VerifyIsStricter(scenario, agent, sql, result) ==
    (\E r \in Inconsistent(scenario, result, Null) : r.severity = "error") =>
        ~Verified(scenario, agent, sql, result)

\* All fresh, with every age known, means that no table is older than its SLA and
\* half a minute, and that one that is not is reported stale from there on.
FreshnessIsSound(sla, ages) ==
    (\A t \in DOMAIN ages : ages[t] # Null) =>
        (AllFresh(sla, ages) <=>
            \A t \in DOMAIN ages \cap DOMAIN sla :
                ages[t] # <<>> /\ ages[t][1] < 60 * sla[t] + 30)

\* As long as no more agents are counted than there are domain agents, the score
\* is at most one, more evidence never lowers it, and without three in eight of
\* the error rules the confidence is not high.
ConfidenceNeedsRules(freshness, precedent, rules, required, consulted, domain) ==
    LET score == Composite(freshness, precedent, rules, required, consulted, domain)
        better == Composite(freshness, precedent, rules + 1, required, consulted, domain)
    IN consulted <= domain =>
          /\ score.num <= score.den
          /\ score.num <= better.num
          /\ Confidence(score) = "high" => 8 * rules >= 3 * required
=============================================================================
