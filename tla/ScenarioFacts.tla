--------------------------- MODULE ScenarioFacts ----------------------------
(* Facts of the tools that are pure functions of a scenario, evaluated over the  *)
(* scenarios of MCScenarios and small sets of arguments before QueryPath is run. *)
EXTENDS MCScenarios, CatalogTools

Events == INSTANCE EventTools

Memory == INSTANCE MemoryTools WITH RecallLimit <- 2

Files == INSTANCE ScenarioFiles WITH Aggregations <- {"count"}

Domain == INSTANCE SubAgent WITH Correlated <- {"query_data"}

-----------------------------------------------------------------------------
(* AgentTools, on both versions of the scenario *)

MCResults ==
    {{}, {"flights", "gone"}, {"delays", "delay"}, {"delays", "delay", "3 hour"},
     {"delays", "delay", "3 hour", "refund"}, {"customers", "email"}}

MCAgents == {ops, desk, orch}
MCSqls == {MCStatements[i].of.sql : i \in DOMAIN MCStatements}

\* What agents are told is what the planner and the gate hold them to.
ASSUME MCBriefing ==
    \A v \in DOMAIN MCScenarios, a \in MCAgents : BriefingIsTrue(MCScenarios[v], a)

\* What agents verify of themselves agrees with the gate and with what they know.
ASSUME MCVerification ==
    \A v \in DOMAIN MCScenarios, a \in MCAgents, sql \in MCSqls, result \in MCResults :
        /\ VerifiedAgreesWithGate(MCScenarios[v], a, sql, result)
        /\ FailedRulesWereTold(MCScenarios[v], a, sql, result)
        /\ VerifyIsStricter(MCScenarios[v], a, sql, result)

\* Freshness around the bound of an SLA, and with tables that have none.
ASSUME MCFreshness ==
    \A flights, delays \in {<<>>, <<0>>, <<29>>, <<30>>, <<149>>, <<150>>, Null} :
        FreshnessIsSound(MCScenarios[1].freshness,
                         "flights" :> flights @@ "delays" :> delays @@ "customers" :> <<>>)

\* The arithmetic of the confidence, for up to four rules and agents.
ASSUME MCConfidence ==
    \A f \in {95, 100}, outcomes \in {0, 1, 4, 11}, rules, required, consulted, domain \in 0 .. 4 :
        ConfidenceNeedsRules(f, PrecedentScore(outcomes), rules, required, consulted, domain)

-----------------------------------------------------------------------------
(* EventTools, on schemas and signals shaped like scenario/travel/semantics *)

EventKey(name, kind) == [name |-> name, column |-> name, kind |-> kind]

MCSchemas ==
    {[type |-> "event_type", time |-> "timestamp", metadata |-> metadata, keys |-> keys] :
        metadata \in {Null, "metadata"},
        keys \in {<<>>, <<EventKey("booking_id", "int")>>,
                 <<EventKey("flight_id", "int"), EventKey("pnr", "string")>>,
                 <<EventKey("pnr", "string"), EventKey("booking_id", "uuid")>>}}

Number(n) == [type |-> "number", number |-> n]
Text(n) == [type |-> "string", number |-> n]
MCValues == {Null, Number(7), Number(Null), Text(7), Text(Null), [type |-> "boolean", number |-> 1]}
MCCorrelations ==
    UNION {[names -> MCValues] :
              names \in {{}, {"booking_id"}, {"pnr"}, {"flight_id", "pnr"}, {"booking_id", "pnr"}}}

\* Events are stored as given, and found again by their keys.
ASSUME MCEventLog ==
    \A schema \in MCSchemas, args \in MCCorrelations :
        /\ Events!RowIsAsGiven(schema, <<"row">>, "Booked", args, "meta", 5)
        /\ \A id \in {Number(7), Text(7), Text(Null)} :
              Events!CaseFindsItsEvents(schema, "Booked", args, id, 5)

\* The timeline of a log of up to four events of one case, in any order of time.
ASSUME MCTimeline ==
    LET schema == CHOOSE s \in MCSchemas : s.keys = <<EventKey("booking_id", "int")>>
        Row(at) == "booking_id" :> 7 @@ "timestamp" :> at
        Log(times) == [i \in DOMAIN times |-> Row(times[i])]
    IN \A times \in UNION {[1 .. n -> {0, 29, 31, 90, 121}] : n \in 0 .. 4}, limit \in 1 .. 4 :
          Events!TimelineAddsUp(
              Events!Timeline(schema, Log(times), "booking_id", Text(7), limit)[1])

Param(name, kind, required, default, max, days) ==
    [name |-> name, kind |-> kind, required |-> required, default |-> default,
     max |-> max, days |-> days]

MCParams ==
    {Param(name, kind, required, default, max, TRUE) :
        name \in {"time_range_days", "event_type"}, kind \in {"int", "string"},
        required \in BOOLEAN, default \in {Null, Number(30), Text(Null)}, max \in {Null, 29, 30}}

\* Signals with one parameter or two of them.
ASSUME MCSignals ==
    \A p, q \in MCParams, range \in {Null, Number(30), Number(31), Number(Null)} :
        LET args == Events!SignalArgs(Text(Null), range)
        IN /\ Events!BoundedParams(<<p, q>>, args)
           /\ Events!OnlyNamedParams(<<p, q>>, Text(Null), range)

-----------------------------------------------------------------------------
(* CatalogTools, on catalogs of three or four tables of which three are read *)

CatalogTable(name, public, columns, terms, text) ==
    [name |-> name, parts |-> {name, "public"}, public |-> public, columns |-> columns,
     terms |-> terms, text |-> text]

MCCatalogs ==
    LET customers == CatalogTable("customers", TRUE,
            "email" :> {"PII", "Sensitive"} @@ "tier" :> {} @@ "phone" :> {"Sensitive"},
            {}, {"people"})
        flights == CatalogTable("flights", TRUE, "id" :> {}, {"departure"}, {"planes", "delay"})
        delays == CatalogTable("delays", TRUE, "reason" :> {}, {"delay"}, {"planes"})
        crew == CatalogTable("crew", FALSE, "name" :> {"PII"}, {}, {"people"})
        Term(name, synonyms) == [name |-> name, synonyms |-> synonyms, text |-> {name}]
    IN {[up |-> up, tables |-> tables, glossary |-> <<Term("delay", {"late"}), Term("fare", {})>>,
         edges |-> "flights" :> {<<"1", "2">>, <<"2", "3">>}, nodes |-> "1" :> "delays"] :
           up \in BOOLEAN,
           tables \in {<<flights, customers, crew>>, <<flights, delays, crew, customers>>,
                      <<crew, flights, delays, customers>>, <<delays>>}}

MCQuestions ==
    {[i \in DOMAIN words |-> [word |-> words[i], long |-> words[i] # "on"]] :
        words \in {<<>>, <<"on">>, <<"planes", "late">>, <<"people", "on", "flights">>, <<"delays">>}}

\* Gaps, removals and contexts, against what the planner does of the same scenario.
ASSUME MCCatalog ==
    \A catalog \in MCCatalogs \cup {Null}, v \in DOMAIN MCScenarios :
        LET scenario == MCScenarios[v]
            Ruled(kept) == [scenario EXCEPT !.rules = SelectSeq(@, LAMBDA r : r.name \in kept)]
        IN /\ PiiGapsAreFound(scenario, catalog)
           /\ \A outcomes, findings \in {Null, 0, 2} :
                 StatsAgreeWithGaps(scenario, catalog, outcomes, findings)
           /\ \A a \in MCAgents, kept \in SUBSET {"cancelled", "threshold", "privacy"} :
                 NoRuleGapMeansTold(Ruled(kept), catalog, a)
           /\ \A a \in {ops, desk}, i \in DOMAIN MCRequests,
                 table \in {"flights", "delays", "customers"} :
                   RemovalIsForetold(scenario, catalog, a, MCRequests[i].of, table, {table})
           /\ \A question \in MCQuestions : ContextIsRelevant(catalog, question)

\* Three outcomes, of any confidence and in any order of time.
ASSUME MCAudit ==
    LET Outcome(c, at) == [confidence |-> c, at |-> at, agents |-> {ops}, text |-> {"late"},
                           proposals |-> {1, 3}]
        asked == {[from |-> from, to |-> to, agent |-> agent, confidence |-> Null] :
                     from \in {Null, 2}, to \in {Null, 2}, agent \in {Null, ops, desk}}
    IN \A c \in [1 .. 3 -> {"high", "medium", "low"}], at \in [1 .. 3 -> 1 .. 3],
          question \in MCQuestions, a \in asked :
             AuditIsComplete([i \in 1 .. 3 |-> Outcome(c[i], at[i])], question, a)

ASSUME MCDetails ==
    LET Rows(ids, by) == {[proposal |-> p, by |-> by] : p \in ids}
    IN \A proposals, voted, twice, executed \in SUBSET {1, 2, 3} :
          DetailsKeepProposals([proposals |-> {1, 3}], Rows(proposals, "x"),
                               Rows(voted, "ann") \cup Rows(twice, "bob"), Rows(executed, "y"))

-----------------------------------------------------------------------------
(* MemoryTools, with a page of two entries *)

ASSUME MCFindings ==
    \A n \in 0 .. 3 : \A at \in [1 .. n -> 1 .. 3], from \in [1 .. n -> {ops, desk}],
                        session \in [1 .. n -> {"s", "t"}], agent \in {Null, ops, desk} :
        Memory!FindingsAreInOrder(
            [i \in 1 .. n |-> [session |-> session[i], agent |-> from[i], at |-> at[i]]],
            "s", agent)

\* Entries of every scope, some of them of another agent or bundle, or retired.
MCEntries ==
    {[scope |-> of[1], of |-> of[2], status |-> status, title |-> title,
      summary |-> <<"calm">>, confidence |-> confidence, at |-> 4] :
        of \in {<<"agent", ops>>, <<"agent", desk>>, <<"bundle", "ops">>, <<"bundle", "desk">>,
               <<"global", Null>>},
        status \in {"active", "retired"}, confidence \in {50, 80},
        title \in {<<"delay">>, <<"fare">>}}

MCEntryLists ==
    {<<>>} \cup {<<e>> : e \in MCEntries} \cup {<<e, f>> : e, f \in MCEntries}

MCKept ==
    <<ops, "delay">> :> [content |-> <<"old">>, at |-> 1]
    @@ <<desk, "delay">> :> [content |-> <<"theirs">>, at |-> 1]

\* What is saved, and what is recalled by whom.
ASSUME MCMemory ==
    \A entries \in MCEntryLists, v \in DOMAIN MCScenarios :
        LET store == [kv |-> MCKept, entries |-> entries]
        IN /\ \A key \in {"delay", "fare"}, inserted \in BOOLEAN,
                 content \in {<<"late", "email">>, <<"phone">>, <<"late">>} :
                 Memory!SavedIsRecalled(MCScenarios[v], store, ops, key, content, 5, inserted)
           /\ \A agent \in MCAgents, key \in {Null, "delay", "calm"},
                 scope \in {"agent", "bundle", "global", "all"} :
                 Memory!RecallKeepsScope(MCScenarios[v], store, agent, key, scope)

-----------------------------------------------------------------------------
(* ScenarioFiles *)

MCDirectories ==
    LET D == {<<>>} \cup {<<[id |-> id, tables |-> tables, joins |-> {}]>> :
                            id \in {"ops", "desk"}, tables \in {{}, {"flights"}, {"customers"}}}
    IN UNION {[1 .. n -> D] : n \in 0 .. 3}

MCFileAgents ==
    ops :> [bundle |-> "ops"] @@ desk :> [bundle |-> "desk"] @@ orch :> [bundle |-> ""]

ASSUME MCBundleFiles ==
    \A directories \in MCDirectories, agent \in {ops, desk, orch, "unknown"} :
        \A more \in {<<[id |-> "ops", tables |-> {"delays"}, joins |-> {}]>>} :
            Files!TablesAreOfOneFile(directories, MCFileAgents, agent, more)

\* Connections of nobody and of an agent, and up to four names.
ASSUME MCConnections ==
    \A n \in 0 .. 4 : \A names \in [1 .. n -> {"ops", "desk", "unknown"}],
                        bound \in {"", "ops", "gone"} :
        Files!OneAgentPerConnection([a \in {"ops", "desk"} |-> [bundle |-> a]], bound, names)

MCFileModels ==
    LET Some(S, n) == UNION {[1 .. k -> S] : k \in 0 .. n}
        M == {[name |-> name, dimensions |-> dimensions, measures |-> measures] :
                 name \in {"m", "k"}, dimensions \in Some({"a", "b"}, 2),
                 measures \in Some([name : {"a", "c"}, aggregation : {"count", "median"}], 2)}
    IN {<<>>} \cup {<<m>> : m \in M}
       \cup {<<m, k>> : m \in {x \in M : Len(x.dimensions) < 2 /\ Len(x.measures) < 2}, k \in M}

ASSUME MCRegistries ==
    \A models \in MCFileModels :
        /\ Files!RefusalsAreDue(models)
        /\ \A ref \in {<<"m", "a">>, <<"m", "c">>, <<"k", "b">>, <<"k", "">>, <<"a">>, <<"x", "a">>} :
              Files!RefsAreClear(models, ref)

-----------------------------------------------------------------------------
(* SubAgent *)

MCResult(status, reason, error) == [status |-> status, reason |-> reason, error |-> error]

MCCalls ==
    LET C == {[tool |-> "query_data", result |-> result] :
                 result \in {MCResult("blocked", "pii", ""), MCResult("blocked", "", "e"),
                            MCResult("success", "", ""), MCResult("error", "sql", ""),
                            Domain!NoResult}}
    IN {<<c>> : c \in C} \cup {<<c, d>> : c \in C, d \in {x \in C : x.result.status # "error"}}

MCReplies ==
    {[calls |-> asked, content |-> "", stop |-> FALSE] : asked \in MCCalls}
    \cup {[calls |-> <<>>, content |-> content, stop |-> stop] :
             content \in {"", "text"}, stop \in BOOLEAN}
    \cup {[calls |-> <<[tool |-> "query_data", result |-> Domain!Failed]>>,
           content |-> "", stop |-> FALSE]}

\* A model ready with up to three replies, all or some of which may be asked for.
ASSUME MCAnswers ==
    \A n \in 0 .. 3 : \A replies \in [1 .. n -> MCReplies], steps \in 0 .. n :
        /\ Domain!AnswersAlways(replies, steps)
        /\ Domain!TranscriptIsWhole(replies, steps)
        /\ Domain!RefusalIsTold(replies, steps)

ASSUME MCCorrelated ==
    \A tool \in {"query_data", "read_findings"}, caseId \in {<<>>, <<"case">>},
       names \in SUBSET {"case_id", "request_id", "sql"} :
        Domain!RetryIsTheSame(tool, [x \in names |-> "given"], caseId)
=============================================================================
