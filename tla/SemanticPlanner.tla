--------------------------- MODULE SemanticPlanner ---------------------------
(***************************************************************************)
(* From a query_metrics request to a statement: harness/src/semantic/       *)
(* registry.ts, planner.ts and sql-compiler.ts, and resolveAgentScope of    *)
(* executor.ts.  Everything here is a pure function.                        *)
(*                                                                          *)
(* The semantic models of a scenario (see SqlGovernance) are a sequence, in *)
(* the order of their names, of                                             *)
(*   [name, table, time, dimensions [field -> column],                      *)
(*    measures [field -> [column, aggregation]]]                            *)
(* where time is Null when no time_dimension is declared.  A request is      *)
(*   [measures, dimensions (sequences of <<model, field>>),                 *)
(*    range (<<>> or <<start, end>>), filters <<[on, op, kind, at]>>,        *)
(*    order (sequence of refs), limit (Null for none)]                      *)
(* A filter's value is missing, a date (at) or another text (kind).  Dates   *)
(* are counted in half days.                                                *)
(***************************************************************************)
EXTENDS SqlGovernance, Integers

CONSTANTS
    DefaultLimit,   \* DEFAULT_LIMIT
    MaxLimit,       \* MAX_LIMIT
    WriteWords      \* the identifiers that contain a write keyword

\* The first and the last element that is in a set, as a sequence of at most one.
FirstIn(seq, S) ==
    LET I == {i \in DOMAIN seq : seq[i] \in S}
    IN IF I = {} THEN <<>> ELSE <<seq[Min(I)]>>

LastIn(seq, S) ==
    LET I == {i \in DOMAIN seq : seq[i] \in S}
    IN IF I = {} THEN <<>> ELSE <<seq[Max(I)]>>

\* The first element that passes.
FirstThat(seq, Passes(_)) == FirstIn(seq, {x \in ToSet(seq) : Passes(x)})

-----------------------------------------------------------------------------
(* The registry *)

\* modelByTable: of two models on one table the later one.
ModelByTable(models, table) == LastIn(models, {m \in ToSet(models) : m.table = table})

Registry(scenario) ==
    [models |-> scenario.models,
     joins |-> [i \in DOMAIN scenario.bundles |-> scenario.bundles[i].joins]]

\* A join whose two tables have a model, between these models.
EdgeOf(models, join) ==
    LET left == ModelByTable(models, join.left[1])
        right == ModelByTable(models, join.right[1])
    IN IF left = <<>> \/ right = <<>> THEN <<>>
       ELSE <<[left |-> left[1].name, leftColumn |-> join.left[2],
               right |-> right[1].name, rightColumn |-> join.right[2],
               source |-> join]>>

\* joinsByPair keeps the first edge of a pair, over the bundles in their order.
GetJoin(registry, a, b) ==
    LET Connects(join) ==
          LET edge == EdgeOf(registry.models, join)
          IN edge # <<>> /\ {edge[1].left, edge[1].right} = {a, b}
        bundle == FirstThat(registry.joins, LAMBDA js : \E j \in ToSet(js) : Connects(j))
    IN IF bundle = <<>> THEN <<>>
       ELSE EdgeOf(registry.models, FirstThat(bundle[1], Connects)[1])

HasModel(registry, name) == \E m \in ToSet(registry.models) : m.name = name

ModelNamed(registry, name) == CHOOSE m \in ToSet(registry.models) : m.name = name

IsMeasure(registry, ref) ==
    /\ HasModel(registry, ref[1])
    /\ ref[2] \in DOMAIN ModelNamed(registry, ref[1]).measures

IsDimension(registry, ref) ==
    /\ HasModel(registry, ref[1])
    /\ ref[2] \in DOMAIN ModelNamed(registry, ref[1]).dimensions

Measure(registry, ref) == ModelNamed(registry, ref[1]).measures[ref[2]]

DimensionColumn(registry, ref) == ModelNamed(registry, ref[1]).dimensions[ref[2]]

-----------------------------------------------------------------------------
(* The scope of an agent *)

AgentScope(scenario, agent) ==
    LET none == [tables |-> {}, joins |-> <<>>, time_filters |-> <<>>]
        found == IF agent \in DOMAIN scenario.agents
                 THEN FirstThat(scenario.bundles,
                                LAMBDA b : b.id = scenario.agents[agent].bundle)
                 ELSE <<>>
        bundle == IF found = <<>> THEN none ELSE found[1]
    IN [tables |-> bundle.tables, joins |-> bundle.joins,
        time_filters |-> bundle.time_filters,
        max_rows |-> scenario.policy.max_rows]

SameJoin(j, k) == {j.left, j.right} = {k.left, k.right}

JoinIsInBundleScope(edge, scope) ==
    \E j \in ToSet(scope.joins) : SameJoin(edge.source, j)

-----------------------------------------------------------------------------
(* The steps of plan() *)

Participating(request) ==
    {ref[1] : ref \in ToSet(request.measures) \cup ToSet(request.dimensions)}

PlannedModels(registry, request) ==
    {m \in ToSet(registry.models) : m.name \in Participating(request)}

\* The first one, in the order of the names, is in FROM.
Primary(registry, request) ==
    FirstIn(registry.models, PlannedModels(registry, request))[1]

\* The others are joined to it: a star.
JoinAllowedInScope(registry, scope, primary, other) ==
    LET edge == GetJoin(registry, primary.name, other.name)
    IN edge # <<>> /\ JoinIsInBundleScope(edge[1], scope)

\* Every join counts as one_to_many.
FanoutRefused(registry, request) ==
    LET measureModels == {ref[1] : ref \in ToSet(request.measures)}
        Raw(ref) == Measure(registry, ref).aggregation \in {"sum", "count", "avg"}
    IN /\ Cardinality(Participating(request)) > 1
       /\ Cardinality(measureModels) > 1
       /\ \E ref \in ToSet(request.measures) : Raw(ref)

\* The first planned model with a time dimension: time_range goes to it.
WithTime(registry, request) ==
    FirstIn(registry.models, {m \in PlannedModels(registry, request) : m.time # Null})

\* The predicates time_range adds.
RangePredicates(model, range) ==
    IF range = <<>> THEN <<>>
    ELSE LET column == <<model.name, model.time>>
             Bound(op, at) == [column |-> column, op |-> op, kind |-> "date", at |-> at]
         IN <<Bound(">=", range[1]), Bound("<", range[2])>>

\* A filter on a dimension goes to WHERE, one on a measure to HAVING, where it is
\* on no column.
FilterPredicates(registry, filters) ==
    [i \in DOMAIN filters |->
        [column |-> IF IsDimension(registry, filters[i].on)
                    THEN <<filters[i].on[1], DimensionColumn(registry, filters[i].on)>>
                    ELSE Null,
         op |-> filters[i].op, kind |-> filters[i].kind, at |-> filters[i].at]]

Where(registry, request) ==
    (IF WithTime(registry, request) = <<>> THEN <<>>
     ELSE RangePredicates(WithTime(registry, request)[1], request.range))
        \o FilterPredicates(registry, request.filters)

Lower(p) == p.op \in {">=", ">"}
Upper(p) == p.op \in {"<", "<="}

\* Math.ceil to whole days.
WidthInDays(start, end) == -((start - end) \div 2)

\* Mutant of WindowAllowed: any lower and any upper bound will do.
WindowAllowedSomewhere(where, column, days) ==
    \E p, q \in ToSet(where) :
        /\ p.column = column /\ q.column = column
        /\ Lower(p) /\ Upper(q)

\* The first lower and the first upper bound on the column are dates, at most
\* that many days apart.
WindowAllowed(where, column, days) ==
    LET lower == FirstThat(where, LAMBDA p : p.column = column /\ Lower(p))
        upper == FirstThat(where, LAMBDA p : p.column = column /\ Upper(p))
    IN /\ lower # <<>> /\ upper # <<>>
       /\ lower[1].kind = "date" /\ upper[1].kind = "date"
       /\ WidthInDays(lower[1].at, upper[1].at) <= days

\* A requirement goes to the first planned model on its table.
TimeFilterMissing(registry, request, scope) ==
    \E required \in ToSet(scope.time_filters) :
        LET model == FirstIn(registry.models, {m \in PlannedModels(registry, request) :
                                                  m.table = required.table})
        IN /\ model # <<>>
           /\ ~WindowAllowed(Where(registry, request),
                             <<model[1].name, required.column>>, required.max_days)

SmallerOf(a, b) == IF a < b THEN a ELSE b

ClampLimit(limit, maxRows) ==
    LET ceiling == SmallerOf(IF maxRows > 0 THEN maxRows ELSE DefaultLimit, MaxLimit)
    IN IF limit = Null THEN ceiling ELSE SmallerOf(limit, ceiling)

\* What plan() throws, in its order; "none" when it returns.
Refusal(registry, request, scope) ==
    LET planned == PlannedModels(registry, request)
        primary == Primary(registry, request)
        Refs(refs) == ToSet(refs)
    IN IF request.measures = <<>> THEN "measure_required"
       ELSE IF \E r \in Refs(request.measures) : ~IsMeasure(registry, r)
       THEN "unknown_measure"
       ELSE IF \E r \in Refs(request.dimensions) : ~IsDimension(registry, r)
       THEN "unknown_dimension"
       ELSE IF \E m \in planned : m.table \notin scope.tables
       THEN "out_of_bundle"
       ELSE IF \E m \in planned \ {primary} :
                  ~JoinAllowedInScope(registry, scope, primary, m)
       THEN "disallowed_join"
       ELSE IF FanoutRefused(registry, request) THEN "fanout_refused"
       ELSE IF request.range # <<>> /\ request.range[1] >= request.range[2]
       THEN "invalid_time_range"
       ELSE IF request.range # <<>> /\ WithTime(registry, request) = <<>>
       THEN "no_time_dimension"
       ELSE IF \E f \in ToSet(request.filters) :
                  ~IsMeasure(registry, f.on) /\ ~IsDimension(registry, f.on)
       THEN "unknown_dimension"
       ELSE IF \E f \in ToSet(request.filters) : f.kind = "missing"
       THEN "invalid_value"
       ELSE IF TimeFilterMissing(registry, request, scope)
       THEN "time_filter_required"
       ELSE IF \E r \in Refs(request.order) :
                  r \notin Refs(request.measures) \cup Refs(request.dimensions)
       THEN "unknown_dimension"
       ELSE "none"

-----------------------------------------------------------------------------
(* The statement *)

\* What the statement of a plan reads and filters.
Plan(registry, request, scope) ==
    LET planned == PlannedModels(registry, request)
        primary == Primary(registry, request)
        filtered == {f.on : f \in ToSet(request.filters)}
    IN [from |-> planned,
        joins |-> {GetJoin(registry, primary.name, m.name)[1] : m \in planned \ {primary}},
        where |-> Where(registry, request),
        \* the models its columns belong to, in the SELECT list or a filter
        mentions |-> Participating(request) \cup {ref[1] : ref \in filtered},
        shows |-> {ref[2] : ref \in ToSet(request.measures) \cup ToSet(request.dimensions)},
        limit |-> ClampLimit(request.limit, scope.max_rows)]

\* Every identifier compile() writes, quoted: columns, fields, tables, aliases.
Identifiers(registry, request, plan) ==
    LET refs == ToSet(request.measures) \cup ToSet(request.dimensions)
                    \cup {f.on : f \in ToSet(request.filters)}
        ColumnOf(ref) == IF IsMeasure(registry, ref) THEN Measure(registry, ref).column
                         ELSE DimensionColumn(registry, ref)
    IN {ColumnOf(ref) : ref \in refs} \cup {p.column[2] : p \in {p \in ToSet(plan.where) : p.column # Null}}
           \cup plan.shows
           \cup {m.table : m \in plan.from} \cup {m.name : m \in plan.from}
           \cup {e.leftColumn : e \in plan.joins} \cup {e.rightColumn : e \in plan.joins}

\* compile(), as parseSql and the policy see its text: its identifiers are
\* quoted and its limit is a parameter, so that no table, join or limit is found;
\* a keyword is found also inside an identifier.
Compile(registry, request, plan) ==
    LET words == Identifiers(registry, request, plan)
    IN [tables |-> {}, joins |-> {}, words |-> words, star |-> "none",
        writes |-> words \cap WriteWords # {},
        statements |-> 1, limit |-> Null]
=============================================================================
