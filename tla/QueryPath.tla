------------------------------ MODULE QueryPath ------------------------------
(***************************************************************************)
(* The governed query path of one harness process: query_data and           *)
(* query_metrics (tools/action.ts, semantic/executor.ts), the gate they     *)
(* pass (governance/index.ts), the OPA sidecar that decides                 *)
(* (governance/opa-client.ts), the log of its decisions, and the admin       *)
(* tools that replay the log (tools/admin.ts).                              *)
(*                                                                          *)
(* The policy exists in several copies that change at different times: the   *)
(* YAML files, which the harness reads on every call; policy/data.json and   *)
(* policy/.manifest, which a build makes of them; what OPA loaded when it    *)
(* started; the semantic registry and the bundle revision, which the harness *)
(* keeps from its own start.  A copy is the version it was made of.          *)
(*                                                                          *)
(* External: Postgres, OPA as a process, the operator.                      *)
(***************************************************************************)
EXTENDS SemanticPlanner

CONSTANTS
    Calls,          \* tool calls, each made at most once
    Queries,        \* what agents ask, a sequence of [agent, tool, of]: of is a
                    \* [sql, keys] for query_data, a request for query_metrics
    Offered,        \* bound: [Calls -> SUBSET DOMAIN Queries]
    Scenarios,      \* the versions of the YAML files, in the order of the edits
    MaxFaults       \* bound on stops of the harness and lost writes

Versions == DOMAIN Scenarios

\* The schema of policy.yml, and the constants of the planner.
ASSUME LimitsAreNumbers ==
    /\ DefaultLimit \in Nat /\ MaxLimit \in Nat /\ MaxFaults \in Nat
    /\ Null \notin Int
    /\ \A s \in ToSet(Scenarios) : s.policy.max_rows \in 1 .. MaxLimit

\* The YAML files are lists where they are lists, and no two semantic models have
\* one name: the registry refuses them.
ASSUME ScenariosAreWellFormed ==
    /\ Scenarios \in Seq(ToSet(Scenarios)) /\ Scenarios # <<>>
    /\ \A s \in ToSet(Scenarios) :
          /\ s.models \in Seq(ToSet(s.models))
          /\ \A i, j \in DOMAIN s.models : s.models[i].name = s.models[j].name => i = j
          /\ s.bundles \in Seq(ToSet(s.bundles))
          /\ \A i \in DOMAIN s.bundles : s.bundles[i].joins \in Seq(ToSet(s.bundles[i].joins))

\* A request is made of lists.  Of the statement of query_data nothing is assumed:
\* SQL may give what it selects any name.
ASSUME QueriesAreWellFormed ==
    \A q \in ToSet(Queries) :
        \/ q.tool = "query_data"
        \/ /\ q.tool = "query_metrics"
           /\ q.of.measures \in Seq(ToSet(q.of.measures))
           /\ q.of.filters \in Seq(ToSet(q.of.filters))
           /\ q.of.limit \in Nat \cup {Null}

VARIABLES
    yaml,       \* the version of the YAML files
    built,      \* the version data.json and .manifest were built from
    opa,        \* the version OPA has loaded, 0 while it is down
    harness,    \* [up, registry, revision]: what was read at the last start
    calls,      \* the tool calls
    pending,    \* statements on decision_logs that were sent and not awaited
    log,        \* decision_logs
    faults

policyCopies == <<yaml, built, opa>>
vars == <<policyCopies, harness, calls, pending, log, faults>>

DataOf == [v \in Versions |-> BuildData(Scenarios[v])]
RegistryOf == [v \in Versions |-> Registry(Scenarios[v])]

Idle == [pc |-> "idle"]
Answered == [pc |-> "refused"]

\* opa_error is the check of a decision that OPA did not make.
Checks == {"authenticate", "can_query", "read_only", "single_statement", "bundle_scope",
           "join_allowlist", "execution_permission", "pii_check", "limit_check",
           "limit_value", "opa_error"}

\* What the input of a decision is made of: the query, the registry and the
\* YAML files it was planned with.
Sources == [query : DOMAIN Queries, registry : Versions, planned : Versions]

\* A call that was made: by is the version that decided it (0 for none), checks
\* what it was refused for, masked the columns its rows are cleared of.
CallOK(call) ==
    \/ call \in {Idle, Answered}
    \/ /\ call.pc \in {"asked", "allowed", "blocked", "rows", "failed", "lost"}
       /\ call.from \in Sources
       /\ call.by \in Versions \cup {0}
       /\ call.checks \subseteq Checks

TypeOK ==
    /\ yaml \in Versions /\ built \in Versions
    /\ opa \in Versions \cup {0}
    /\ harness \in [up : BOOLEAN, registry : Versions, revision : Versions]
    /\ DOMAIN calls = Calls
    /\ \A c \in Calls : CallOK(calls[c])
    /\ \A w \in pending : w.call \in Calls /\ w.kind \in {"insert", "update"}
    /\ \A r \in log : /\ r.call \in Calls /\ r.revision \in Versions
                      /\ r.contract \in Calls \cup {Null}
    /\ faults \in 0 .. MaxFaults

Init ==
    /\ yaml = 1 /\ built = 1 /\ opa = 1
    /\ harness = [up |-> TRUE, registry |-> 1, revision |-> 1]
    /\ calls = [c \in Calls |-> Idle]
    /\ pending = {} /\ log = {}
    /\ faults = 0

Fault == faults < MaxFaults /\ faults' = faults + 1

-----------------------------------------------------------------------------
(* The operator, OPA and the start of the harness *)

EditScenario ==
    /\ yaml + 1 \in Versions
    /\ yaml' = yaml + 1
    /\ UNCHANGED <<built, opa, harness, calls, pending, log, faults>>

\* policy/build.ts
Build ==
    /\ built # yaml
    /\ built' = yaml
    /\ UNCHANGED <<yaml, opa, harness, calls, pending, log, faults>>

OpaStops ==
    /\ opa # 0
    /\ opa' = 0
    /\ UNCHANGED <<yaml, built, harness, calls, pending, log, faults>>

\* OPA loads the policy directory when it starts.
OpaStarts ==
    /\ opa = 0
    /\ opa' = built
    /\ UNCHANGED <<yaml, built, harness, calls, pending, log, faults>>

\* Calls end unanswered; of the writes that were sent, those not done are lost.
HarnessStops ==
    /\ harness.up
    /\ Fault
    /\ harness' = [harness EXCEPT !.up = FALSE]
    /\ calls' = [c \in Calls |->
                    IF calls[c].pc \in {"asked", "allowed"}
                    THEN [calls[c] EXCEPT !.pc = "lost"] ELSE calls[c]]
    /\ pending' = {}
    /\ UNCHANGED <<policyCopies, log>>

\* initializeSharedState: without OPA the process exits.
HarnessStarts ==
    /\ ~harness.up
    /\ opa # 0
    /\ harness' = [up |-> TRUE, registry |-> yaml, revision |-> built]
    /\ UNCHANGED <<policyCopies, calls, pending, log, faults>>

-----------------------------------------------------------------------------
(* A call, up to the request to OPA: one run of the event loop *)

Scope(version, agent) == AgentScope(Scenarios[version], agent)

QueryOf(from) == Queries[from.query]

Planned(from) == QueryOf(from).tool = "query_metrics"

PlanOf(from) ==
    Plan(RegistryOf[from.registry], QueryOf(from).of,
         Scope(from.planned, QueryOf(from).agent))

\* Mutant of InputOf: the planned limit is not passed on.
InputOfText(from) ==
    LET query == QueryOf(from)
        sql == IF Planned(from)
               THEN Compile(RegistryOf[from.registry], query.of, PlanOf(from))
               ELSE query.of.sql
    IN OpaInput(query.agent, query.tool, sql, Null)

\* What OPA is asked.
InputOf(from) ==
    LET query == QueryOf(from)
    IN IF Planned(from)
       THEN OpaInput(query.agent, query.tool,
                     Compile(RegistryOf[from.registry], query.of, PlanOf(from)),
                     PlanOf(from).limit)
       ELSE OpaInput(query.agent, query.tool, query.of.sql, Null)

\* The planner throws a SemanticError.
RefusedBy(from) ==
    /\ Planned(from)
    /\ Refusal(RegistryOf[from.registry], QueryOf(from).of,
               Scope(from.planned, QueryOf(from).agent)) # "none"

\* The functions above are evaluated once.
Refused == [from \in Sources |-> RefusedBy(from)]

Verdict ==
    [from \in Sources |-> [version \in Versions |->
        IF Refused[from] THEN {} ELSE Violations(DataOf[version], InputOf(from))]]

CallTool(c, q) ==
    /\ harness.up
    /\ calls[c] = Idle
    /\ q \in Offered[c]
    /\ LET from == [query |-> q, registry |-> harness.registry, planned |-> yaml]
       IN calls' = [calls EXCEPT ![c] =
              IF Refused[from] THEN Answered
              ELSE [pc |-> "asked", from |-> from, by |-> 0, checks |-> {}, masked |-> {}]]
    /\ UNCHANGED <<policyCopies, harness, pending, log, faults>>

-----------------------------------------------------------------------------
(* The decision *)

\* evaluate() sends the row of the decision, evaluateGovernance the contract of
\* an allowed one.  Neither is waited for.
Sent(c, checks, by) ==
    LET row == [call |-> c, from |-> calls[c].from, allowed |-> checks = {},
                error |-> "opa_error" \in checks, by |-> by,
                revision |-> harness.revision, contract |-> Null]
    IN {[kind |-> "insert", call |-> c, row |-> row]}
         \cup IF checks = {} THEN {[kind |-> "update", call |-> c]} ELSE {}

\* What the policy file says is PII; the catalog, if it answers, only adds to it.
Masked == PiiNames(Scenarios[yaml])

Decide(c, checks, by) ==
    /\ pending' = pending \cup Sent(c, checks, by)
    /\ calls' = [calls EXCEPT ![c].pc = IF checks = {} THEN "allowed" ELSE "blocked",
                              ![c].by = by, ![c].checks = checks,
                              ![c].masked = IF checks = {} THEN Masked ELSE {}]

OpaAnswers(c) ==
    /\ calls[c].pc = "asked"
    /\ opa # 0
    /\ Decide(c, Verdict[calls[c].from][opa], opa)
    /\ UNCHANGED <<policyCopies, harness, log, faults>>

\* OPA is down, does not answer in OPA_TIMEOUT_MS, answers with an error or
\* with something else than a result.
OpaFails(c) ==
    /\ calls[c].pc = "asked"
    /\ Decide(c, {"opa_error"}, 0)
    /\ UNCHANGED <<policyCopies, harness, log, faults>>

-----------------------------------------------------------------------------
(* The statement *)

\* A column of a model that is not in FROM or JOIN.
MissesModel ==
    [from \in Sources |->
        /\ Planned(from) /\ ~Refused[from]
        /\ LET plan == PlanOf(from)
           IN ~(plan.mentions \subseteq {m.name : m \in plan.from})]

Runs(c) ==
    /\ calls[c].pc = "allowed"
    /\ ~MissesModel[calls[c].from]
    /\ calls' = [calls EXCEPT ![c].pc = "rows"]
    /\ UNCHANGED <<policyCopies, harness, pending, log, faults>>

\* Mutant of Fails: the statement has no timeout.
FailsAtOnce(c) ==
    /\ calls[c].pc = "allowed"
    /\ MissesModel[calls[c].from]
    /\ calls' = [calls EXCEPT ![c].pc = "failed"]
    /\ UNCHANGED <<policyCopies, harness, pending, log, faults>>

\* Postgres rejects the statement, or it fails or takes more than 30 seconds.
Fails(c) ==
    /\ calls[c].pc = "allowed"
    /\ calls' = [calls EXCEPT ![c].pc = "failed"]
    /\ UNCHANGED <<policyCopies, harness, pending, log, faults>>

-----------------------------------------------------------------------------
(* The log *)

\* Mutant of Write: the contract goes to every row of the agent.
WriteByAgent(w) ==
    IF w.kind = "insert" THEN log \cup {w.row}
    ELSE {IF QueryOf(r.from).agent = QueryOf(calls[w.call].from).agent
          THEN [r EXCEPT !.contract = w.call] ELSE r : r \in log}

\* An UPDATE that finds no row changes nothing.
Write(w) ==
    IF w.kind = "insert" THEN log \cup {w.row}
    ELSE {IF r.call = w.call THEN [r EXCEPT !.contract = w.call] ELSE r : r \in log}

\* Each is sent on a connection of its own: they arrive in any order.
WriteArrives(w) ==
    /\ pending' = pending \ {w}
    /\ log' = Write(w)
    /\ UNCHANGED <<policyCopies, harness, calls, faults>>

\* The error is swallowed.
WriteIsLost(w) ==
    /\ Fault
    /\ pending' = pending \ {w}
    /\ UNCHANGED <<policyCopies, harness, calls, log>>

\* Mutant of PolicyChanged: the query is planned again.
PolicyChangedReplanned(row) ==
    (Verdict[[row.from EXCEPT !.planned = yaml]][opa] = {}) # row.allowed

\* policy_changed of replay_outcome, and a changed row of policy_drift_report: the
\* stored input, decided by what OPA has loaded now.
PolicyChanged(row) == (Verdict[row.from][opa] = {}) # row.allowed

-----------------------------------------------------------------------------

Proceed(c) == OpaAnswers(c) \/ OpaFails(c) \/ Runs(c) \/ Fails(c)

Deploy == EditScenario \/ Build \/ OpaStops \/ OpaStarts \/ HarnessStops \/ HarnessStarts

Next ==
    \/ Deploy
    \/ \E c \in Calls, q \in DOMAIN Queries : CallTool(c, q)
    \/ \E c \in Calls : Proceed(c)
    \/ \E w \in pending : WriteArrives(w) \/ WriteIsLost(w)

Spec == Init /\ [][Next]_vars

\* The request to OPA has a timeout, and the statement has one.  Requests to a
\* catalog have none: this is a deployment without one, or with one that answers.
FairSpec ==
    Spec /\ \A c \in Calls : WF_vars(OpaFails(c)) /\ WF_vars(Fails(c))

-----------------------------------------------------------------------------
(***************************************************************************)
(* Properties                                                               *)
(***************************************************************************)

\* Where the statement of a planned query is bounded to so many days.
Bounded(where, column, days) ==
    \E p, q \in ToSet(where) :
        /\ p.column = column /\ Lower(p) /\ p.kind = "date"
        /\ q.column = column /\ Upper(q) /\ q.kind = "date"
        /\ WidthInDays(p.at, q.at) <= days

\* Only the planner keeps a query_metrics call in its bundle, since the gate
\* finds no table in its quoted statement: the tables and joins of what it
\* executes are in the bundle, and every model on a table with a required time
\* filter is bounded.
PlanInBundle ==
    [from \in Sources |->
        (Planned(from) /\ ~Refused[from]) =>
            LET scope == Scope(from.planned, QueryOf(from).agent)
                plan == PlanOf(from)
            IN /\ \A m \in plan.from : m.table \in scope.tables
               /\ \A e \in plan.joins : JoinIsInBundleScope(e, scope)
               /\ \A required \in ToSet(scope.time_filters) : \A m \in plan.from :
                     m.table = required.table =>
                         Bounded(plan.where, <<m.name, required.column>>, required.max_days)]

\* No statement reaches the database before the policy, as OPA had loaded it,
\* allowed this very call, and a planned one stays in the bundle of its agent:
\* whatever is down, late or being redeployed.
GateBeforeDatabase ==
    \A c \in Calls : calls[c].pc \in {"rows", "failed"} =>
        /\ calls[c].by # 0
        /\ Verdict[calls[c].from][calls[c].by] = {}
        /\ PlanInBundle[calls[c].from]

\* planner.ts:53-57: the planner does not emit what the gate would block at once.
\* When both go by one version, a planned statement is blocked only for who asks
\* for it, for PII, for a word in it or because execution is switched off.
PlannedPassesGate ==
    \A c \in Calls :
        (calls[c].pc = "blocked" /\ Planned(calls[c].from)
           /\ calls[c].by = calls[c].from.planned) =>
            calls[c].checks \subseteq
                {"can_query", "pii_check", "read_only", "execution_permission"}

\* The columns of the rows: name -> the column it shows.
KeysOf(from) ==
    LET query == QueryOf(from)
        registry == RegistryOf[from.registry]
        refs == ToSet(query.of.measures) \cup ToSet(query.of.dimensions)
        Shown(ref) == IF IsMeasure(registry, ref) THEN Measure(registry, ref).column
                      ELSE DimensionColumn(registry, ref)
    IN IF Planned(from)
       THEN [field \in {ref[2] : ref \in refs} |->
                Shown(CHOOSE ref \in refs : ref[2] = field)]
       ELSE query.of.keys

\* While the policy blocks PII, a column that is PII for the policy that decided
\* passes the gate and the mask only where the statement renames it without naming
\* it (a star or a whole row under other names): no planned statement shows it, for
\* its renamed dimensions are in the text the gate reads; no statement that names it
\* is answered; and what comes under its own name is masked, unless some version
\* edited since then does not call it PII, however the copies were deployed.
PiiPassesOnlyRenamed ==
    \A c \in Calls :
        (calls[c].pc = "rows" /\ DataOf[calls[c].by].policy.pii_mode = "block") =>
        LET from == calls[c].from
            shown == KeysOf(from)
        IN \A k \in DOMAIN shown : shown[k] \in PiiNames(Scenarios[calls[c].by]) =>
              /\ ~Planned(from)
              /\ shown[k] \notin QueryOf(from).of.sql.words
              /\ (/\ k = shown[k]
                  /\ \A v \in calls[c].by .. yaml : k \in PiiNames(Scenarios[v]))
                    => k \in calls[c].masked

\* However its writes are delayed, reordered or lost, a row of the log says what
\* the agent was told, and has no contract but that of its own allowed call;
\* while nobody rebuilds the policy, it also names the bundle that decided.
LogIsFaithful ==
    \A r \in log :
        /\ r.allowed = (calls[r.call].checks = {})
        /\ r.contract # Null => r.contract = r.call /\ r.allowed
        /\ (built = 1 /\ ~r.error) => r.revision = r.by

\* The admin tools report a change of policy only where the policy OPA has
\* loaded is another one than decided, or where OPA had made no decision.
DriftHasCause ==
    \A row \in log : opa # 0 /\ PolicyChanged(row) => opa # row.by

\* Every call is answered, unless the harness stops.
EveryCallAnswered ==
    \A c \in Calls :
        calls[c].pc \in {"asked", "allowed"}
            ~> calls[c].pc \in {"blocked", "rows", "failed", "lost"}
=============================================================================
