---------------------------- MODULE CatalogTools ----------------------------
(***************************************************************************)
(* What the harness reads of the catalog and what it reports to the people   *)
(* who govern a scenario: harness/src/catalog/openmetadata.ts,               *)
(* tools/context.ts and the reports of tools/admin.ts that need no policy     *)
(* engine.  Pure functions of the scenario, the catalog and the tables of      *)
(* outcomes and proposals.                                                   *)
(*                                                                          *)
(* A catalog is Null (none is configured), or                                  *)
(*   up        FALSE when every request to it fails                           *)
(*   tables    <<[name, parts, public, columns, terms, text]>> in the order    *)
(*             of the catalog; parts is what is found in the full name,        *)
(*             columns is [column -> what is found in its tags], terms what is  *)
(*             found in its glossary tags, text what is in its description      *)
(*   glossary  <<[name, synonyms, text]>>                                     *)
(*   edges, nodes   [table -> <<from, to>> of ids], [id -> table]              *)
(* A question is <<[word, long]>>, long for more than three letters.          *)
(* An answer is <<result>>, and <<>> for an error.                            *)
(***************************************************************************)
EXTENDS AgentTools

CONSTANT PageSize   \* limit of listTables and listGlossaryTerms

FirstOf(seq, n) == SubSeq(seq, 1, SmallerOf(n, Len(seq)))

Up(catalog) == catalog # Null /\ catalog.up

-----------------------------------------------------------------------------
(* openmetadata.ts *)

\* The page is cut before the tables of other schemas are dropped.
ListTables(catalog) == SelectSeq(FirstOf(catalog.tables, PageSize), LAMBDA t : t.public)

ListGlossaryTerms(catalog) == FirstOf(catalog.glossary, PageSize)

PiiTags == {"PII", "Sensitive"}

PiiColumnsOf(table) == {c \in DOMAIN table.columns : table.columns[c] \cap PiiTags # {}}

\* getPiiColumns, as <<table, column>>.
CatalogPii(catalog) ==
    UNION {{t.name} \X PiiColumnsOf(t) : t \in ToSet(ListTables(catalog))}

\* getLineage: an unknown id stays an id, an error is no lineage.
Lineage(catalog, table) ==
    LET NameOf(id) == IF id \in DOMAIN catalog.nodes THEN catalog.nodes[id] ELSE id
    IN IF ~Up(catalog) \/ table \notin DOMAIN catalog.edges THEN {}
       ELSE {<<NameOf(e[1]), NameOf(e[2])>> : e \in catalog.edges[table]}

-----------------------------------------------------------------------------
(* context.ts *)

Words(question) == {question[i].word : i \in DOMAIN question}
LongWords(question) == SelectSeq(question, LAMBDA w : w.long)

MatchedTerms(catalog, question) ==
    SelectSeq(ListGlossaryTerms(catalog),
              LAMBDA t : ({t.name} \cup t.synonyms) \cap Words(question) # {})

\* By the glossary.
LinkedTables(catalog, question) ==
    {t \in ToSet(ListTables(catalog)) :
        \E term \in ToSet(MatchedTerms(catalog, question)) : term.name \in t.terms}

\* By keyword: the first long word is looked for in the description, and found in
\* every one when there is none.
KeywordTables(catalog, question) ==
    {t \in ToSet(ListTables(catalog)) :
        \/ t.name \in Words(question)
        \/ LongWords(question) = <<>>
        \/ Head(LongWords(question)).word \in t.text}

RelevantTables(catalog, question) ==
    IF LinkedTables(catalog, question) # {} THEN LinkedTables(catalog, question)
    ELSE KeywordTables(catalog, question)

\* get_context
GetContext(catalog, question) ==
    IF ~Up(catalog) THEN <<>>
    ELSE <<[terms |-> MatchedTerms(catalog, question),
            tables |-> RelevantTables(catalog, question),
            pii |-> CatalogPii(catalog)]>>

\* get_entity_details: the first table that has the name, or in whose full name it
\* is found.
GetEntity(catalog, id) ==
    IF ~Up(catalog) THEN <<>>
    ELSE FirstThat(ListTables(catalog), LAMBDA t : t.name = id \/ id \in t.parts)

\* get_lineage: a catalog that is down has none.
GetLineage(catalog, table) == IF catalog = Null THEN <<>> ELSE <<Lineage(catalog, table)>>

\* get_rationale
GetRationale(scenario, name) == FirstThat(scenario.rules, LAMBDA r : r.name = name)

\* search_glossary
SearchGlossary(catalog, word) ==
    IF ~Up(catalog) THEN <<>>
    ELSE <<SelectSeq(ListGlossaryTerms(catalog),
                     LAMBDA t : word \in {t.name} \cup t.text \cup t.synonyms)>>

\* The rows that pass, the latest first, at most limit of them.
Latest(rows, Passes(_), limit) ==
    FirstOf(SortSeq(SelectSeq(rows, Passes), LAMBDA a, b : a.at > b.at), limit)

\* search_precedent: no keyword is no condition.
Precedents(outcomes, question, limit) ==
    LET keywords == Words(FirstOf(LongWords(question), 5))
    IN Latest(outcomes, LAMBDA o : keywords = {} \/ keywords \cap o.text # {}, limit)

-----------------------------------------------------------------------------
(* admin.ts *)

PolicyPii(scenario) == UNION {{t} \X scenario.pii[t] : t \in DOMAIN scenario.pii}

BundledTables(scenario) == UNION {b.tables : b \in ToSet(scenario.bundles)}

RuledTables(scenario) ==
    {target[1] : target \in UNION {r.applies_to : r \in ToSet(scenario.rules)}}

PiiGaps(scenario, catalog) ==
    CASE catalog = Null -> {}
      [] ~Up(catalog) -> {<<"catalog_error", "catalog">>}
      [] OTHER ->
            ({"pii_not_in_policy"} \X (CatalogPii(catalog) \ PolicyPii(scenario)))
              \cup ({"pii_not_in_catalog"} \X (PolicyPii(scenario) \ CatalogPii(catalog)))

BundleGaps(scenario, catalog) ==
    IF ~Up(catalog) THEN {}
    ELSE {"table_not_in_bundle"}
            \X ({t.name : t \in ToSet(ListTables(catalog))} \ BundledTables(scenario))

RuleGaps(scenario) ==
    {"table_no_rules"}
        \X UNION {{b.id} \X (b.tables \ RuledTables(scenario)) : b \in ToSet(scenario.bundles)}

\* find_governance_gaps
Gaps(scenario, catalog, check) ==
    (IF check \in {"pii", "all"} THEN PiiGaps(scenario, catalog) ELSE {})
      \cup (IF check \in {"bundles", "all"} THEN BundleGaps(scenario, catalog) ELSE {})
      \cup (IF check \in {"rules", "all"} THEN RuleGaps(scenario) ELSE {})

\* simulate_removal; beginning is the set of the names that begin with the table's,
\* for a rule is compared by the beginning of its target.
Impact(scenario, catalog, table, beginning) ==
    LET with == {b \in ToSet(scenario.bundles) : table \in b.tables}
        Reads(join) == table \in {join.left[1], join.right[1]}
        rules == {r \in ToSet(scenario.rules) :
                     \E target \in r.applies_to : target[1] \in beginning}
        models == {m \in ToSet(scenario.models) : m.table = table}
    IN ({"bundle_broken"} \X {b.id : b \in with})
         \cup ({"join_broken"} \X {j \in UNION {ToSet(b.joins) : b \in with} : Reads(j)})
         \cup ({"rule_orphaned"} \X {r.name : r \in rules})
         \cup ({"model_broken"} \X {m.name : m \in models})
         \cup ({"lineage_broken"} \X Lineage(catalog, table))

\* graph_stats, of the counts; a statement that fails (Null) leaves what comes
\* after it in its block at zero.
GraphStats(scenario, catalog, outcomes, findings) ==
    [tables |-> IF Up(catalog) THEN Len(ListTables(catalog)) ELSE 0,
     glossary_terms |-> IF Up(catalog) THEN Len(ListGlossaryTerms(catalog)) ELSE 0,
     bundles |-> Len(scenario.bundles),
     business_rules |-> Len(scenario.rules),
     pii_columns |-> Cardinality(PolicyPii(scenario)),
     agents |-> Cardinality(DOMAIN scenario.agents),
     outcomes |-> IF outcomes = Null THEN 0 ELSE outcomes,
     findings |-> IF Null \in {outcomes, findings} THEN 0 ELSE findings]

\* audit_decisions: what is not asked for is Null.
AuditDecisions(outcomes, asked, limit) ==
    Latest(outcomes,
           LAMBDA o : /\ asked.from # Null => o.at >= asked.from
                      /\ asked.to # Null => o.at <= asked.to
                      /\ asked.confidence # Null => o.confidence = asked.confidence
                      /\ asked.agent # Null => asked.agent \in o.agents,
           limit)

\* The proposals of an outcome with their votes and actions: two outer joins.
AuditDetails(outcome, proposals, votes, actions) ==
    LET OrNull(rows) == IF rows = {} THEN {Null} ELSE rows
        Of(rows, p) == {r \in rows : r.proposal = p.proposal}
        shown == {p \in proposals : p.proposal \in outcome.proposals}
    IN UNION {{p} \X OrNull(Of(votes, p)) \X OrNull(Of(actions, p)) : p \in shown}

-----------------------------------------------------------------------------
(***************************************************************************)
(* Facts                                                                    *)
(***************************************************************************)

\* Without a gap of PII the result filter blocks the same columns whether the
\* catalog answers or not; and a tagged column the policy misses is reported
\* exactly when its table is on the page that is read.
PiiGapsAreFound(scenario, catalog) ==
    LET reported == {gap[2] : gap \in Gaps(scenario, catalog, "pii")}
        page == ToSet(FirstOf(catalog.tables, PageSize))
    IN Up(catalog) =>
          /\ reported = {} => {c[2] : c \in CatalogPii(catalog)} = PiiNames(scenario)
          /\ \A t \in ToSet(catalog.tables) : t.public =>
                \A c \in PiiColumnsOf(t) \ UNION {scenario.pii[u] : u \in DOMAIN scenario.pii \cap {t.name}} :
                    <<t.name, c>> \in reported <=> t \in page

\* What graph_stats counts agrees with the gaps: without any, the catalog has no more
\* tables than the bundles and as many PII columns as the policy.  Zero findings
\* may also be a count of outcomes that failed.
StatsAgreeWithGaps(scenario, catalog, outcomes, findings) ==
    LET stats == GraphStats(scenario, catalog, outcomes, findings)
    IN /\ Gaps(scenario, catalog, "bundles") = {} =>
             stats.tables <= Cardinality(BundledTables(scenario))
       /\ Up(catalog) /\ Gaps(scenario, catalog, "pii") = {} =>
             stats.pii_columns = Cardinality(CatalogPii(catalog))
       /\ stats.findings # 0 => stats.outcomes = outcomes

\* With no gap of rules, each agent that is told of a table is told a rule about it.
NoRuleGapMeansTold(scenario, catalog, agent) ==
    Gaps(scenario, catalog, "rules") = {} =>
        \A t \in TablesTold(scenario, agent) :
            \E r \in RulesTold(scenario, agent) : \E target \in r.applies_to : target[1] = t

\* The scenario after the table is really taken out of its bundles and models.
Without(scenario, table) ==
    LET Kept(join) == table \notin {join.left[1], join.right[1]}
    IN [scenario EXCEPT
          !.bundles = [i \in DOMAIN @ |->
                         [@[i] EXCEPT !.tables = @ \ {table}, !.joins = SelectSeq(@, Kept)]],
          !.models = SelectSeq(@, LAMBDA m : m.table # table)]

\* A request that is planned before the removal and refused after it names a model
\* that simulate_removal reports; what it does not report changes no plan.  The rules
\* it names have a rationale, and the lineage is the one get_lineage shows.
RemovalIsForetold(scenario, catalog, agent, request, table, beginning) ==
    LET Said(s) == Refusal(Registry(s), request, AgentScope(s, agent))
        named == Participating(request) \cup {f.on[1] : f \in ToSet(request.filters)}
        broken == Impact(scenario, catalog, table, beginning)
        Named(type) == {i[2] : i \in {j \in broken : j[1] = type}}
        edges == GetLineage(catalog, table)
    IN /\ Said(scenario) # Said(Without(scenario, table)) =>
             \E m \in named : <<"model_broken", m>> \in broken
       /\ \A name \in Named("rule_orphaned") : GetRationale(scenario, name) # <<>>
       /\ Named("lineage_broken") = UNION ToSet(edges)

\* What get_context answers is within the catalog's page; a table that the glossary
\* links to the question hides the tables that only share a word with it.
ContextIsRelevant(catalog, question) ==
    LET context == GetContext(catalog, question)[1]
        linked == {t \in context.tables : \E term \in ToSet(context.terms) : term.name \in t.terms}
    IN Up(catalog) =>
          /\ linked \in {{}, context.tables}
          /\ question = <<>> => context.tables = ToSet(ListTables(catalog))
          /\ \A t \in context.tables : GetEntity(catalog, t.name) # <<>>

\* The outcomes of an audit are those of the three confidences together; each is
\* shown once, the latest first; and a precedent is an outcome of such an audit.
AuditIsComplete(outcomes, question, asked) ==
    LET n == Len(outcomes)
        All == AuditDecisions(outcomes, [asked EXCEPT !.confidence = Null], n)
        Some(c) == ToSet(AuditDecisions(outcomes, [asked EXCEPT !.confidence = c], n))
        every == AuditDecisions(outcomes, [f \in DOMAIN asked |-> Null], n)
    IN /\ UNION {Some(c) : c \in {"high", "medium", "low"}} = ToSet(All)
       /\ \A i, j \in DOMAIN All : i < j => All[i].at >= All[j].at
       /\ Len(every) = n
       /\ ToSet(Precedents(outcomes, question, n)) \subseteq ToSet(every)
       /\ LongWords(question) = <<>> => Precedents(outcomes, question, n) = every

\* No proposal of an outcome is lost by the joins, and an executed one shows its
\* action next to each of its votes.
DetailsKeepProposals(outcome, proposals, votes, actions) ==
    LET rows == AuditDetails(outcome, proposals, votes, actions)
    IN /\ {r[1].proposal : r \in rows} = outcome.proposals \cap {p.proposal : p \in proposals}
       /\ \A a \in actions, v \in votes, p \in proposals :
             a.proposal = p.proposal /\ v.proposal = p.proposal
                 /\ p.proposal \in outcome.proposals => <<p, v, a>> \in rows
=============================================================================
