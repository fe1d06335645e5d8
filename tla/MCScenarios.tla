---------------------------- MODULE MCScenarios -----------------------------
(* What QueryPath is checked with: two versions of a scenario shaped like               *)
(* scenario/travel.  The second one gives the flight agent the delays and       *)
(* their join, makes the phone number PII and lowers max_rows.                  *)
EXTENDS QueryPath, TLC

CONSTANTS ops, desk, orch, c1, c2

Join(t, c, u, d) == [left |-> <<t, c>>, right |-> <<u, d>>]

MCModels ==
    << [name |-> "arrivals", table |-> "flights", time |-> "dep",
        dimensions |-> "dep" :> "dep",
        measures |-> "n" :> [column |-> "id", aggregation |-> "count"]],
       [name |-> "customers", table |-> "customers", time |-> Null,
        dimensions |-> "contact" :> "email" @@ "since" :> "created_at" @@ "tier" :> "tier",
        measures |-> "people" :> [column |-> "id", aggregation |-> "count"]
                  @@ "last" :> [column |-> "phone", aggregation |-> "max"]],
       [name |-> "delays", table |-> "delays", time |-> Null,
        dimensions |-> "reason" :> "reason",
        measures |-> "late" :> [column |-> "id", aggregation |-> "count"]],
       [name |-> "flights", table |-> "flights", time |-> "dep",
        dimensions |-> "dep" :> "dep",
        measures |-> "n" :> [column |-> "id", aggregation |-> "count"]] >>

MCPolicy(rows) ==
    [max_rows |-> rows, allow_execute_sql |-> TRUE, disallow_multi_statement |-> TRUE,
     enforce_limit |-> TRUE, pii_mode |-> "block"]

Rule(name, severity, target, check) ==
    [name |-> name, severity |-> severity, applies_to |-> {target}, check |-> check]

Check(kind, when, require) == [kind |-> kind, when |-> when, require |-> require]
Pattern(all, any, forbid) == [all |-> all, any |-> any, forbid |-> forbid]

\* One rule of each kind, shaped like scenario/travel/semantics/business_rules.yml.
MCRules ==
    << Rule("cancelled", "error", <<"flights", "n">>,
            Check("sql_pattern", Pattern({}, {"id"}, {}), Pattern({"status"}, {}, {}))),
       Rule("threshold", "error", <<"delays", "late">>,
            Check("text_pattern", Pattern({"delay"}, {}, {}), Pattern({}, {"3 hour"}, {"refund"}))),
       Rule("gone", "warning", <<"flights", "n">>,
            Check("text_pattern", Null, Pattern({}, {}, {"gone"}))),
       Rule("privacy", "error", <<"customers", "people">>, Check("pii_columns", Null, Null)),
       Rule("checkin", "error", <<"arrivals", "n">>, Null),
       Rule("fares", "error", <<"delays", "late">>, Check("query_result", Null, Null)) >>

MCScenario(tables, joins, pii, rows) ==
    [agents |-> ops :> [can_query |-> TRUE, bundle |-> "ops", role |-> "domain"]
             @@ desk :> [can_query |-> TRUE, bundle |-> "desk", role |-> "domain"]
             @@ orch :> [can_query |-> FALSE, bundle |-> Null, role |-> "orchestrator"],
     rules |-> MCRules,
     freshness |-> "flights" :> 2 @@ "delays" :> 0,
     bundles |-> << [id |-> "ops", tables |-> tables, joins |-> joins,
                     time_filters |->
                        <<[table |-> "flights", column |-> "dep", max_days |-> 2]>>],
                    [id |-> "desk", tables |-> {"customers"}, joins |-> <<>>,
                     time_filters |-> <<>>] >>,
     pii |-> "customers" :> pii,
     policy |-> MCPolicy(rows),
     models |-> MCModels]

MCScenarios ==
    << MCScenario({"flights"}, <<>>, {"email"}, 3),
       MCScenario({"flights", "delays"}, <<Join("delays", "flight", "flights", "id")>>,
                  {"email", "phone"}, 2) >>

Metrics(agent, measures, dimensions, range, filters, order, limit) ==
    [agent |-> agent, tool |-> "query_metrics",
     of |-> [measures |-> measures, dimensions |-> dimensions, range |-> range,
             filters |-> filters, order |-> order, limit |-> limit]]

Filter(on, op, kind, at) == [on |-> on, op |-> op, kind |-> kind, at |-> at]

Data(agent, tables, words, star, keys, limit) ==
    [agent |-> agent, tool |-> "query_data",
     of |-> [sql |-> [tables |-> tables, joins |-> {}, words |-> words, star |-> star,
                      writes |-> FALSE, statements |-> 1, limit |-> limit],
             keys |-> keys]]

N == <<"flights", "n">>
Days(n) == <<0, 2 * n>>

\* One request for each way through the planner.
MCRequests ==
    << Metrics(ops, <<N>>, <<>>, Days(2), <<>>, <<N>>, 9),
      Metrics(ops, <<N>>, <<<<"delays", "reason">>>>, Days(2), <<>>, <<>>, Null),
      Metrics(ops, <<N>>, <<>>, Days(3), <<>>, <<>>, 1),
      Metrics(ops, <<<<"arrivals", "n">>>>, <<>>, <<>>,
              <<Filter(<<"arrivals", "dep">>, ">=", "date", 0),
                Filter(<<"arrivals", "dep">>, "<", "date", 9),
                Filter(<<"arrivals", "dep">>, "<", "date", 4)>>, <<>>, 1),
      Metrics(ops, <<N>>, <<>>, Days(1),
              <<Filter(<<"delays", "reason">>, "=", "text", 0)>>, <<>>, 1),
      Metrics(ops, <<N, <<"delays", "late">>>>, <<>>, Days(1), <<>>, <<>>, 1),
      Metrics(ops, <<<<"customers", "people">>>>, <<>>, <<>>, <<>>, <<>>, 1),
      Metrics(ops, <<>>, <<>>, <<>>, <<>>, <<>>, 1),
      Metrics(ops, <<N>>, <<<<"flights", "gate">>>>, <<>>, <<>>, <<>>, 1),
      Metrics(ops, <<N>>, <<>>, <<2, 2>>, <<>>, <<>>, 1),
      Metrics(ops, <<N>>, <<>>, Days(1), <<Filter(N, ">", "missing", 0)>>, <<>>, 1),
      Metrics(ops, <<N>>, <<>>, Days(1), <<>>, <<<<"delays", "reason">>>>, 1),
      Metrics(desk, <<<<"customers", "people">>>>, <<>>, Days(1), <<>>, <<>>, 1),
      Metrics(desk, <<<<"customers", "last">>>>, <<<<"customers", "tier">>>>, <<>>,
              <<>>, <<>>, 1),
      Metrics(desk, <<<<"customers", "people">>>>,
              <<<<"customers", "contact">>, <<"customers", "since">>>>, <<>>, <<>>, <<>>, 1) >>

MCStatements ==
    << Data(ops, {"flights"}, {"id", "flights"}, "none", "id" :> "id", 2),
      Data(desk, {"customers"}, {"c", "customers"}, "table",
           "email" :> "email" @@ "phone" :> "phone" @@ "tier" :> "tier", 1),
      Data(desk, {"customers"}, {"email", "x", "customers"}, "none", "x" :> "email", 1),
      Data(desk, {"customers"}, {"phone", "x", "customers"}, "none", "x" :> "phone", 1),
      Data(desk, {"customers"}, {"customers"}, "bare", "email" :> "email", Null),
      [Data(orch, {"flights", "delays"}, {"id"}, "none", "id" :> "id", 3) EXCEPT
          !.of.sql.joins = {<<"flight", "id">>}, !.of.sql.writes = TRUE,
          !.of.sql.statements = 2],
      [Data(ops, {"flights", "delays"}, {"id"}, "none", "id" :> "id", 3) EXCEPT
          !.of.sql.joins = {<<"id", "flight">>}],
      Data(desk, {"customers"}, {"c", "x", "customers"}, "table",
           "x" :> "email" @@ "phone" :> "phone", 1) >>

MCQueries == MCStatements \o MCRequests
=============================================================================
