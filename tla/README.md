# A TLA+ model of dazense

dazense is an agent platform: a *harness* (an MCP server over HTTP or stdio) gives
agents governed access to data and to the life cycle of decisions; *agents* are
its clients; a *chat backend* with a web frontend lets people talk to agents. This
directory models the parts of it whose correctness depends on interleavings,
crashes and retries, checks them with TLC, and proves with TLAPS, for every value of
the constants, each safety property and the refinement that the runs check.

    DecisionStore       the decision tables and their statements
    DecisionTools       the MCP tools that work on them, statement by statement
    DecisionWorkflow    the durable workflow (DBOS) that works on them
    DecisionLedger      what a durable workflow promises, abstractly
    DecisionSystem      tools and workflow in one process, on the same tables
    Orchestrator        the durable loop of the agents, and what its tools write
    SqlGovernance       the policy: its data document and its rules, as functions
    SemanticPlanner     the planner of metric queries, as functions
    QueryPath           queries, the gate, OPA, the decision log and its replay
    Sessions            who a caller of the harness is, and for how long
    ChatAgents          chats, their running agents and their messages
    ProjectMembers      who belongs to the organization and project of a backend
    DecisionToolsProofs, DecisionWorkflowProofs, DecisionSystemProofs,
    OrchestratorProofs, QueryPathProofs, SessionsProofs, ChatAgentsProofs,
    ProjectMembersProofs
                        the theorems about the module of that name, with their proofs
    AgentTools, CatalogTools, EventTools, MemoryTools, ScenarioFiles, SubAgent
                        tools and lookups of the harness, and a domain agent, as functions
    ProjectFiles, ChatData, ModelSettings, McpTools, ChatClient, SlackThread,
    ServerCommand
                        the parts of the chat application that are functions
    ScenarioFacts, ChatFacts
                        facts of these functions, over small sets of arguments
    MC*                 instances for TLC (MCScenarios: the scenarios of QueryPath)

    tlc -config DecisionTools.cfg MCDecisionTools.tla
    tlapm DecisionToolsProofs.tla

## 1. The system

All paths are relative to `src/`.

| component | state | operations | what is hard |
|---|---|---|---|
| Decision tables (`scenario/travel/databases/init.sql`, `harness/src/database/index.ts`) | `decision_proposals`, `decision_approvals`, `decision_actions`, `decision_outcomes`, `decision_workflow_runs`, `memory_entries`, `autonomy_stats` | `executeQuery`: one statement on a pooled connection | no transaction spans two statements; unique indexes carry the idempotency |
| MCP decision tools (`harness/src/tools/persist.ts`, `tools/action.ts`) | what a handler holds between two awaits | `propose_decision`, `approve_decision`, `execute_decision_action`, `record_outcome`, `execute_action` | check-then-act over awaits, partial failure, unconditional status writes, retries |
| Durable decision workflow (`harness/src/workflows/decision.ts`, `dbos-init.ts`, `tools/workflow.ts`) | DBOS workflow status and step outputs, `decision_workflow_runs` | `start_decision_workflow`; six steps; recovery at launch | crash between a statement and its checkpoint; exactly-once side effects |
| Findings and memory tools (`tools/persist.ts`) | `decision_findings`, memory tables | `write_finding`, `read_findings`, `save_memory`, `recall_memory` | idempotency key, an insert without one after it |
| Governed query path (`tools/action.ts`, `governance/index.ts`, `policy/dazense.rego`, `policy/build.ts`) | none between calls; the policy in four copies | `query_data`, `query_metrics` | fail closed; copies of the policy that change at different times |
| OPA client and log (`governance/opa-client.ts`) | cached bundle revision; `decision_logs` | evaluate, log, back-fill contract | INSERT and UPDATE that nobody awaits; stale revision |
| Sessions and authentication (`auth/*.ts`, `server.ts`) | session contexts with a lifetime; transports; the singleton of stdio | open, use, close, collect, `initialize_agent` | two maps that must agree; identity read before an await and written after it |
| Agent orchestrator and deep-agent tools (`agents/src/workflows/**`) | transcript, notes, task results, `finalized`; DBOS step outputs | turns, sub-agents, finalize, fallback outcome | state changed inside steps that a replay skips |
| Semantic planner (`harness/src/semantic/*`) | registry | plan, compile, execute | which refusals the gate repeats, and which it cannot |
| Context, control, catalog, events, verification, admin tools | none that others read, but `events` | lookups, reports, `ingest_event`, replay of decisions | replays with a bundle that has changed; what an agent is told against what is enforced |
| Chat agents (`apps/backend/src/services/agent.service.ts`, `routes/chat.ts`, `services/slack.service.ts`) | registry of running agents; chats and messages | create, stream, stop, dispose, mention | replacement racing the end of the replaced agent |
| Members (`apps/backend/src/queries/organization.queries.ts`, `trpc/user.routes.ts`) | users, organization, project, memberships | start, sign-up, add, remove, modify | check-then-act on the last admin; a start in many statements |
| Chat data, settings, file tools, MCP client (`apps/backend/src/{queries,utils,agents/tools,services}`) | messages, usage, settings rows; tool map | save, load, report, resolve a model, list, read, load, call | conversions that lose something; names that collide; overlapping loads |
| Frontend (`apps/frontend/src`) | chat instances of a tab, by chat | open, send, receive, end | an answer that arrives after the user has gone elsewhere |
| Command line of the chat server (`apps/backend/src/cli.ts`) | the secret of the sessions, in a file | parse, migrate, serve | what an argument means; a secret that must outlive a restart |
| Scripts, images | none | build, deploy | |

Interactions. Agents and the orchestrator call harness tools through MCP; a tool call
is an async handler in the one harness process, which awaits its SQL statements one by
one. Workflows run in the same process and on the same tables, and a client may name
a workflow's proposal in any tool call. The harness asks OPA over HTTP. The chat
backend runs agents of its own, which may call the harness as an MCP server.

What makes each part correct:

- *tools*: no effect without a vote; a status always has its audit rows; votes and
  outcomes are unique; an agent's vote stays within its rights; a handler never builds
  on something that stopped being true;
- *workflow*: each side effect exactly once, a recovered run goes on with its own rows,
  an execution is not taken back, each workflow ends;
- *orchestrator*: one final outcome per run, nothing claimed that was not stored;
- *query path*: nothing reaches the database that the policy did not allow, whatever is
  down; what the planner lets pass the gate lets pass; PII comes out only where a
  statement renames it without naming it;
- *OPA log*: a row says what the agent was told, with its own contract;
- *sessions*: a row carries its caller's own identity, and no context stays for ever;
- *chat agents*: a running agent can be found and stopped, an answer follows its question;
- *members*: the project keeps an admin, and a start repairs what was cut short.

`PROJECT.json` lists the hazards at their lines, with the property that covers each.

## 2. What is modelled

### DecisionStore

A table is a sequence of rows; a `SERIAL` key is a position (no statement deletes
rows of these tables). A row has the columns that decide control flow: risk, status
and workflow id of a proposal; proposal, approver and verdict of an approval; proposal
and workflow id of an action; key, workflow id and cited proposals of an outcome.
Text, evidence and audit columns are left out. `executeQuery` sends one statement on a
pooled connection, so *one statement is one step*. `HasVoted` is the unique index on
`(proposal_id, approved_by)`.

### DecisionTools

`pc[c]` says which statement call `c` sends next and `arg[c]` what its handler holds
across the await. One action per statement:

| tool | actions |
|---|---|
| `propose_decision` | `ProposeDecision` |
| `approve_decision` | `ApproveCheck`, `ApproveInsert`, `ApproveUpdate` |
| `execute_decision_action` | `ExecuteCheck`, `ExecuteInsert`, `ExecuteUpdate` |
| `execute_action` | `ActionPropose`, `AutoApproval`, `AutoAction`, `AutoUpdate`, `AutoStats` |
| `record_outcome` | `OutcomeCheck`, `OutcomeInsert`, `OutcomeUpdate`, `OutcomeMemory` |

`CallFails` stops a call before any of its statements after the first: a statement
that throws (the catch block replies and undoes nothing) or a process that dies.
Merged into one step: a `SELECT` and the local checks on its result; the `INSERT ... ON
CONFLICT` of an outcome and the `SELECT` of the row in conflict (rows are not deleted or
re-keyed, so nothing can come between); the validation of evidence in
`propose_decision`, which reads tables nobody changes here and is a free choice. The risk
class that a handler keeps in a local variable is read from the proposal, which never
changes it (`Grows` in the proofs).

Constants are configuration: `CanPropose`, `CanApprove`, `CanExecute` are the
`permissions` of `agents.yml` (an agent that is not listed is not restricted, nor is
`auto` or a `human:` name); `AutoRisks` are the risk classes whose
`approval_requirements` is `auto` (`low`, `medium`). `autonomy_stats.auto_approved`, the
other way to automatic approval, is only read by the code and initially true for `low`
alone, so it is part of `AutoRisks`. The scenario is loaded (`loader` is set), as it is in
both transports.

### DecisionWorkflow and DecisionLedger

A workflow is at the step after its last checkpoint (`ckpt`, `out`), and within the step
at its first or second write or at the return of the body (`at`, `row`). `Checkpoint` is
DBOS storing the value; `Crash` loses `at` and `row`; `Launch` runs pending workflows from
their last checkpoint; `StepThrows` is a failing statement, which ends the workflow
(`decision.ts` configures no retries). `startWorkflow` with a known id does nothing, so
`Start` needs an unknown one. DBOS is external: it is modelled from what `decision.ts`,
`workflow.ts` and `dbos-init.ts` rely on (a checkpoint is atomic and durable, recovery
resumes each pending workflow once).

`DecisionLedger` states the promise with neither steps nor crashes: each entry at most
once, after those it rests on, an action only under a favourable verdict, closed only
when complete. `DecisionWorkflow!Ledger` maps the tables to it (an entry count per
workflow, its verdict, its completed run); `ImplementsLedger` is checked as a property, so
re-executed bodies are stutters.

### DecisionSystem

Calls and workflows of one process on the same tables: `DecisionTools` and
`DecisionWorkflow` are instances over the same variables, a crash fails the calls under
way and interrupts the workflows, and calls are served only while the process is up
(`startHttpServer` awaits `initDbos` before it listens).

### Orchestrator

One run of `orchestratorWorkflowFn`. `get_context` and each turn are DBOS steps; within a
turn the tool calls the model asks for run concurrently, so each `task` and `finalize` is
a call with its own place (sub-agent, `write_finding`; `record_outcome` and its memory).
`Crash` loses the `DeepAgentState`, `Launch` replays the loop: `SkipTurn` takes a
checkpointed turn without running its tools. The harness side of `write_finding` and
`record_outcome` is modelled with the idempotency key it really computes (the harness
ignores the `request_id` it is sent). Assumed of libraries: a `DBOS.runStep` inside a step
runs inline and has no checkpoint (the comment in `task.ts`, 21, expects "its own DBOS
step"), and `generateText` turns a tool that throws into a reply. A run is resumed when
a user invokes it again, so `EveryRunEnds` says that it ends *or stays down*.

### SqlGovernance, SemanticPlanner and QueryPath

The first two are functions. `SqlGovernance` has `buildPolicyData` (`BuildData`), the rules
of `dazense.rego` with the input of `parseSql`, and the masking of rows; a statement is the
record of what the patterns of `parseSql` see in it (tables, joins, words, stars, limit);
`Verdict[source][version]` is the gate's answer as a table.
`SemanticPlanner` has the registry, the scope of an agent, every refusal of `plan()` in
order, and the plan, as sets and choices over the lists of the registry. A table is its name:
one name under two schemas is not modelled. Two facts of the code carry much of the result. The compiled SQL
quotes its identifiers, so the gate's patterns find *no* table or join in a
`query_metrics` call: the planner alone keeps it in its bundle, where the comment at
`executor.ts:57` counts on defence in depth. And `read_only` looks for its words anywhere,
so a planned statement with a column such as `created_at` is blocked.

`QueryPath` runs calls through them: authentication, the request to OPA with its failures,
the answer, the two writes of the log that nobody awaits (`pending`; they arrive in any
order or are lost), the statement, the mask. The policy has four copies (YAML files read
on every call, the built bundle, what OPA loaded, what the harness read at its start), and
`Deploy` is the operator who edits, builds and restarts in any order. `PolicyChanged` is
what `replay_outcome` and `policy_drift_report` compute.

### Sessions

The guardrails of the start, the three verifiers, both transports. `transports` and
`contexts` are the maps of `server.ts` and `auth/context.ts`; a transport lives until it is
closed, a context for `TTL`. A call reads its identity in one step (`CallTool`,
`CallSingleton`) and writes its row in another (`WriteRow`), between which anything may
happen to its session. `scenario.yml` and `agents.yml` are not edited.

### ChatAgents

A post (from the browser or Slack) from its question to its saved answer, cut at every
await; `registry` is `_agents`. `overlapped` records the chats in which an agent was made
while an earlier one had not ended, which one tab reaches by stop and send. All posts are by
the owner of the chat, so the checks of ownership are left out.

### ProjectMembers

`ensureOrganizationSetup` step by step (its `SELECT` of the first user has no order, so
`FindFirst` takes any), the hook of a sign-up, and `modify`, `removeProjectMember` and
`addUserToProject` with the middleware in front of them. `stale` marks a call whose reading
of the members is out of date; `lost` records that such a call took the last admin. A
failing statement needs no action: a call that failed is, to the others, one that never goes
on. The database is PostgreSQL; `viewer` and `user` take the same branches.

### Parts that are functions

Tools and helpers that read, compute and answer within one call have no order to explore.
Each is a module of operators, with *facts* at its end that relate it to what other parts
enforce or to its own inverse. `ScenarioFacts` and `ChatFacts` instantiate them and state
each fact over a small set of arguments as a named assumption, which TLC evaluates before it
runs `query_path` and `chat`: a fact that fails fails the run.

*On the scenarios of `query_path`* (`ScenarioFacts`):

- `AgentTools` (`control.ts`, `verify.ts`, `rule-check.ts`). What `initialize_agent` tells an
  agent is what planner and gate hold it to (`BriefingIsTrue`); `verify_result` passes no
  table the gate would refuse, fails no rule the agent could not know, and is the stricter of
  the two checks; freshness and confidence are sound within their rounding.
- `CatalogTools` (`context.ts`, `admin.ts`, `catalog/`). The gap reports find exactly the PII the
  policy misses, `graph_stats` agrees with them, `simulate_removal` foretells what a removal
  changes in the planner, and the audit leaves nothing out.
- `EventTools` (`event.ts`). A stored event holds what was given, in the columns it was given
  for; what is accepted as a correlation finds its event again; bound parameters stay within
  their maxima.
- `MemoryTools` (`persist.ts`). Findings come in order; what is saved is recalled, without PII;
  recall keeps to the scope of the agent.
- `ScenarioFiles` (`config/index.ts`, `governance/index.ts`, `auth/context.ts`,
  `registry.ts`). An agent's tables are those of one file; a connection serves one agent; a
  registry that was built has one meaning for each reference.
- `SubAgent` (`agents/src/llm.ts`, `harness-client.ts`, `correlation.ts`). A question gets an
  answer within the limit of steps, its transcript has the result of each call, and a repeated
  call carries the same ids.

*On the chat application* (`ChatFacts`):

- `ProjectFiles` (file tools, `.dazenseignore`). No spelling of a path leads out of the project;
  list, read, search and grep agree on what is visible.
- `ChatData` (schema, `chat.queries.ts`, `usage.queries.ts`, message preparation). Both dialects
  of the schema agree, a deletion takes exactly its rows, parts survive storage, a search and a
  report are complete.
- `ModelSettings` (`llm.ts`, settings of models and Slack). A model that is offered can be called;
  saving keeps the other rows; a key outlives the environment's.
- `McpTools` (`mcp.service.ts`, `correlation.ts`). A tool is called by the name it was listed
  under, names collide only where the prefix rule allows it, ids of correlation never come from
  the model, loads that follow one another add up. It has recursive operators: no module with a
  theorem may use it.
- `ChatClient` (`use-agent.ts`, `lib/ai.ts`, `chat-messages.tsx`). All behaviours of eight steps:
  answers are found under their chat and messages go to the chat on screen (`AnswersAreFound`,
  `SendsToTheScreen`); grouping loses nothing; a running chat shows that it runs. The settings
  pages, which unmount the chat, are left out.
- `SlackThread` (`slack.service.ts`). The thread ends with the last text; only a member's
  mention is kept and only the owner's answered.

- `ServerCommand` (`cli.ts`). The server listens only after a migration under a secret, a request
  for help does nothing else (`ServesMigrated`); sessions outlive a restart (`SecretIsKept`).
  Recursive, as `McpTools`.

What these facts had to leave out is behaviour a reader may not expect:

- `get_confidence`: the share of consulted agents is not capped when more are named than exist.
  `check_freshness`: a statement that fails counts as fresh.
- The catalog's page of 50 is cut before other schemas are filtered out.
- A process signal with a required parameter other than the tool's two, and no default, can
  never be computed. The limit of a timeline keeps the oldest events.
- `recall_memory` for its bundle by an agent without one has no condition on scope.
- A binding by `initialize_agent` over stdio comes before the name is looked up: an unknown first
  name is bound, and no other is served after it.
- The last resort for an answer (`fallbackAnswerFromToolResult`) knows the last call only.
- `loadChat` has no order of rows. A message none of whose parts is kept cannot be saved.
- The tokens of an answer are stored with each of its texts and reasonings, so the usage report
  counts them as often. A report of one provider counts no question. A report of months may cut
  the first of them in the last days of December.
- The default model of the first settings row need not be among its enabled ones.
- The error of an MCP server that was down once stays shown.
- A file under a name that begins with two dots is not excluded from `read` by
  `.dazenseignore`.
- A message sent again after its *new* chat could not be made has lost its agent
  (`MCFailedChat`): the chat it makes is shown by another one, which may send meanwhile.
- On the command line a word that is no command is passed over, so that "Unknown command" is
  never reached; `serve migrate` migrates, though the comment says that the first argument is the
  command; an option takes a `migrate` that follows it for its value. A start that cannot read the
  file of the secret replaces the secret, and with it every session.
- A mention by a member who does not own the thread's chat is kept in that chat and shown as
  "answering" for ever: the reply with the refusal comes after the request was answered.

Abstractions: in ignore files no `**` and no leading slash, no symbolic links; full-text ranking
is one score; a text is the set of the tokens looked for in it; a name of a tool is a sequence of
characters, since how it is split decides what is called.

## 3. What is checked

| run | instance | shows |
|---|---|---|
| `tools` | 3 calls, 5 tools, 3 principals (a human, `auto`, an agent with the rights of `booking`), low and high risk, 1 failing call | types, `VoteOnce`, `ApproverRights`, `VoteBeforeEffect`, `StatusHasEvidence`, `PendingVoteIsUnfinished`, `OneOutcomePerKey`, `StatsNeverOvercount`, `HandlersBacked`, `ReopenedOnlyByVote`, `VoteLeadsToDecision` |
| `workflow` | 2 workflows, 2 crashes, 1 error | `OneRowPerTable`, `CheckpointsNameOwnRows`, `SuccessMeansDone`, `ExecutionIsFinal`, `EveryWorkflowEnds`, `ImplementsLedger` |
| `system` | 1 workflow, 2 calls, 1 crash, 1 error | `WorkflowRowsOnce`, `ExecutedHasAction`, `EveryWorkflowEnds` |
| `orchestrator` | 2 turns of 2 calls, 1 sub-agent, 1 crash, 1 fault | `ReturnedDecisionIsRecorded`, `AnswersAreFindings`, `FindingsOnce`, `OutcomesBounded`, `EndedRunIsSilent`, `EveryRunEnds` |
| `query_path` | 2 calls of 23 statements and requests, 2 versions of the scenario, 1 fault; the facts of `ScenarioFacts` | `GateBeforeDatabase`, `PlannedPassesGate`, `PiiPassesOnlyRenamed`, `LogIsFaithful`, `DriftHasCause`, `EveryCallAnswered` |
| `sessions` | 8 deployments, 2 sessions, 2 calls, TTL 2 of 4 ticks, 1 restart | `RowsCarryOwnIdentity`, `ContextsAreKept`, `EveryContextEnds` |
| `chat` | 2 posts (one may be the retry of the other), 1 mention, 2 chats, 1 restart, 1 fault; the facts of `ChatFacts` | `RegistryIsTrue`, `AnswersFollowQuestions` |
| `members` | 3 users, 3 calls, a new database or any old one, 1 stop | `AdminLostOnlyInRace`, `SetupIsComplete`, `MembersAreAdded` |
| `rejected_execution`, `high_risk_auto`, `workflow_rejected`, `orchestrator_replay` | 4 calls; 4 calls; 1 workflow and 2 calls; 2 turns and 1 crash | each violates one documented statement, see below |

Bounds of the decision modules. Three calls are enough to race two handlers on a
proposal that a third created (`propose_decision` and `execute_action` both create one);
for longer life cycles (reject, reopen, execute again) the properties of `tools` on votes and
statuses are proved. Two risk classes are one automatic and one not; `medium` and
`critical` take the same branches. One outcome key makes all `record_outcome` calls
retries of one another. Two workflows are the fewest whose rows can be confused; two
crashes let a recovered body crash again.

Bounds of the others. *Orchestrator*: a turn that is checkpointed and one that is not, two
concurrent calls in each, two decisions to confuse. *QueryPath*: the 23 queries take every
way through planner and policy; two calls share the log, and the second always asks query 1,
so that the product stays small; two versions are the fewest with which copies of the policy
can disagree. *Sessions*: `Open` waits for time to be left, so that each session can expire
before `MaxTime`. *ChatAgents*: two posts in a chat replace one another, the mention makes or
finds a third; two chats can be confused. *ProjectMembers*: an old database starts with any
memberships that have an admin, so that three calls suffice for two demotions, or a removal
against a promotion and a demotion. *Functions*: sequences of up to three (messages, parts,
replies, directories, names of a path), every combination of the kinds the code tells apart;
limits and pages of one to three, so that they are reached. `MaxFailures`, `MaxCrashes`, `MaxErrors`, `MaxFaults`,
`MaxRestarts`, `MaxTime`, `MaxTurns` (the code's own), `CallsPerTurn` and `Offered` are the
only bounds in guards.

Calls, posts and runs are one-shot and end, and a process may stay down, so the final states
have no successor: deadlock checking is off for that reason only. Symmetry (in runs without
liveness) is sound: calls and users occur only as indices.

Fairness. `WF(Continues(c))`: the event loop resumes a handler whose statement has
returned, and statements have a timeout; callers are not obliged to call. In the workflow
`WF(Progress(w))` for the same reason and `WF(Launch)`: whoever operates the harness
restarts it. In the composed system only workflows and the launch are fair: a client
cannot block a workflow. `Orchestrator`: `WF(Progress)`, not `Launch`. `QueryPath`: `WF` of
the failures alone, `OpaFails` and `Fails`, since the request to OPA and the statement
have timeouts; the requests to a catalog have none, so this is a deployment without a
catalog or with one that answers. `Sessions`: `WF(Tick)`, `WF(CollectGarbage)`: time passes
and a timer that is set fires; its period is abstracted. Nothing is assumed of crashes,
errors and restarts but their bounds. `ChatAgents` and `ProjectMembers` state safety only.

### Where the code and its documentation differ

- `ExecutesOnlyApproved`: `persist.ts` (402) says `execute_decision_action` "only works
  on approved proposals". The status is read, and the action inserted in a later
  statement, so a proposal rejected, completed or executed meanwhile gets its action too.
- `HighRiskNeedsHuman`: `persist.ts` (320) says "High/critical: human approval required".
  The check exempts `auto` and unlisted approvers in every risk class.
- `WorkflowExecutesOnlyApproved`: `decision.ts` (180) says step 4 executes "only if
  approved". It looks at a local variable, not at what clients decided since.

- `OutcomeOnce`: `deep-agent/state.ts` (2) calls the state "the unit of DBOS checkpointing
  between turns", `persist.ts` (36) counts on "the same key" at a replay, and
  `test-orchestrator-idempotency.ts` (14) expects one outcome row. The state is changed
  inside steps that a replay skips, so the replayed loop does not know that it has
  finalized, and may record another decision under another key.

Met while modelling, without a run of their own:

- `user.routes.ts` (41), "The project must have at least one admin user": two demotions, or
  a removal racing a promotion, leave none. `AdminLostOnlyInRace` is what remains true.
- `opa-client.ts` speaks of an "already-written" row and of an INSERT that comes first; both
  statements are unawaited on a pool, and the UPDATE may find no row. `LogIsFaithful` is
  stated so that it holds: a row may lack its contract, and never has another's.
- The revision in the log is the one cached at the start of the harness. It names the bundle
  that decided as long as nobody rebuilds the policy, not in general.
- `governance/index.ts` (349, 376) calls the mask "defense in depth". It goes by the name of a
  result's key, and the policy by the words of the text and a star that follows `SELECT`: a
  statement that renames what the star of a table or a whole row yields, without naming the
  column, passes both, and the agent reads the column. `PiiPassesOnlyRenamed` is stated for
  any names SQL may give: it says that, while the files are not edited, this is the only way,
  and that `query_metrics` has none.
  One query of the run is such a statement.
- `task.ts` (21) and `executor.ts` (57): see sections on `Orchestrator` and `QueryPath`.

Of the decision tools, what does hold is weaker: `VoteBeforeEffect` (somebody approved it at some time),
`StatusHasEvidence` (the status has its audit row) and `HandlersBacked`.

## 4. What is proved

Every safety property and every action property of the passing runs is a theorem, for any
value of the constants that the assumptions admit; so is the refinement of `DecisionLedger`.
Each module `XProofs` proves a theorem `Spec => []IInv` for an inductive invariant `IInv`
that TLC checked first, and takes the properties from it. A proof has one lemma per action,
and a lemma on what a step leaves of the other processes.

**`DecisionToolsProofs`**: `TypeOK`, `HandlersBacked`, `VoteBeforeEffect`,
`StatusHasEvidence`, `VoteOnce`, `ApproverRights`, `ReopenedOnlyByVote`,
`PendingVoteIsUnfinished`, `OneOutcomePerKey`, `StatsNeverOvercount`. `VoteBeforeEffect` and
`StatusHasEvidence` are not inductive: a handler writes a row on the strength of something it
found out several steps of other calls ago. `Backed(c)` says what call `c` relies on at each
stage; `IInv` joins it to the types, the two properties and the references of actions. Every
step of any call lets the tables only grow (`Grows`: rows stay, a risk class never changes, no
proposal becomes pending again), and what a handler relies on is stable under growth
(`OthersBacked`); so one has to look only at the call that takes the step (`ArrivesSafe`,
`ContinuesSafe`). That the status `approved` is *not* stable is why `ExecutesOnlyApproved`
fails. The invariants about votes use one lemma on how `decision_approvals` grows
(`ApprovalsGrowByVotes`), those about the status one on how it changes (`StatusByStep`).
`StatsNeverOvercount` compares two counts: `Counting(r)` are the calls that wrote their action
and have not counted it yet, and what is counted plus what is still to be counted is at most
the number of actions.

**`DecisionWorkflowProofs`**: `OneRowPerTable`, `CheckpointsNameOwnRows`, `SuccessMeansDone`,
`ExecutionIsFinal`, `ImplementsLedger`. `IInv` says what a workflow must be behind for each of
its rows to be there (`RowsHold`), which rows its checkpoints name, what a body holds between
its statement and its checkpoint (`BodyHolds`; the window in which a crash loses it), and what
the statements behind an execution have brought about (`EffectsHold`, by `Reached`). That a row
rests on *checkpoints*, never on volatile positions, is what makes a crash and a recovery leave
`IInv` alone. For the refinement, `LedgerIs` reads the mapping off the tables, and each action
is shown to enter one thing, to close, or to stutter.

**`DecisionSystemProofs`**: `WorkflowRowsOnce`, `ExecutedHasAction` and `VoteOnce` of tools and
workflows together. The invariants of the two parts do *not* hold of the whole: clients
overwrite the status of a workflow's proposal and vote as `auto` in its place, so
`SuccessMeansDone` and `ExecutionIsFinal` are lost. What is left, and is inductive, says of each
row who wrote it and of each process that what it is about to build on is there: the
call that is about to write `executed` has an action; an action of a workflow is on the
proposal its checkpoint names. `Moves` bounds what any step may do to the tables, `MovesKeep`
is what survives it, and `ToolKeeps` and `WorkflowKeeps` are the two sides. The proof needs
one thing the properties do not mention: a workflow that was not started has recorded nothing.

**`OrchestratorProofs`**: `ReturnedDecisionIsRecorded`, `AnswersAreFindings`, `FindingsOnce`,
`OutcomesBounded`, `EndedRunIsSilent`. The bound on outcomes is not inductive, for it says
nothing of calls under way: `Spent` charges what was written to earlier executions and to
faults while this one has no decision, and afterwards to the calls of the turn, with
those that have not ended still to come.

**`QueryPathProofs`**: `GateBeforeDatabase`, `PlannedPassesGate`, `PiiPassesOnlyRenamed`,
`LogIsFaithful`, `DriftHasCause`, and types. Two arguments meet. The one about the process:
once made, a call keeps what decided it (`Decided`), and every row of the log, under way or
stored, is of a call that was decided so. The one about the functions, for *every*
scenario and request that is well formed: a planned statement has its tables, joins and time
windows in the bundle of its agent; the policy of the same version blocks it only for who asks,
for PII, for a word in it or for the switch of execution; and what the policy lets pass while
`pii_mode` is `block` does not name the PII column it shows and is not planned. For a column
under its own name `MaskHolds` adds that the mask was read from files no older than what decided
(what OPA loaded is never newer than the files), so that it masks what stayed PII in every version since. About the
names SQL gives to columns nothing is assumed. The planner takes the first or the last of a list that fits; that there
is one is an induction, had from the least number of a set (`LeastNumber`, by well-foundedness).

**`SessionsProofs`**: `RowsCarryOwnIdentity`, `ContextsAreKept`. An identity is copied from the
credential into the context, into the call, into the row; `IInv` says of each copy what it was
taken from. `Read` is stated over what an open request keeps for ever, not over the context, so
that no close, expiry, collection or restart between the read and the write can falsify it.

**`ChatAgentsProofs`**: `RegistryIsTrue`, `AnswersFollowQuestions`. `TablesHold` is about what a
post wrote and read and that both go with a deleted chat; `RegistryHolds` says that, until
something overlapped in a chat, one agent runs in it and the registry names it.

**`ProjectMembersProofs`**: `AdminLostOnlyInRace`, `SetupIsComplete`, `MembersAreAdded`.
`CallHolds` says what a call that is not `stale` knows of the members when it writes: a demotion
that counted is fresh only while another admin is left. `StartHolds` ties each step of a start
to what those before it left.

Assumptions, all named and evaluated by TLC on the instances: `NullAssumption` (SQL NULL is no
identifier); `ToolAssumptions` (`auto` is no human, listed agents are neither, permissions and
risk sets are subsets of the four classes); `WorkflowAssumptions` (`auto` is a principal, bounds are numbers);
`OrchestratorAssumptions`; `SessionsAssumptions` and `NullIsNoName` (no agent has the name of
"no identity"); `ChatAgentsAssumptions`; `ProjectMembersAssumptions`; of the query path,
`LimitsAreNumbers` (the schema of `policy.yml`), `ScenariosAreWellFormed` (lists are lists, and no two models have one name: the
registry refuses them) and `QueriesAreWellFormed` (the parts of a request are lists).

Model-checked only, for the prover cannot state them: the liveness properties
`VoteLeadsToDecision`, `EveryWorkflowEnds` (both systems), `EveryRunEnds`, `EveryCallAnswered`
and `EveryContextEnds`. Evaluated only: the facts of `ScenarioFacts` and `ChatFacts`, most of
them over functions that recurse. The four runs that violate a documented statement are
counterexamples and have nothing to prove.

## 5. Not modelled, and the plan

- *Frontend* but for the chat: forms, settings pages, charts, layout. It is a quarter of the
  implementation's lines and has no state that another component reads.
- *Scripts, images, generators of data, examples*: sequential programs.
- *Catalog access*: the token of OpenMetadata and its refresh.
- *Small routes* (saved prompts, feedback, display settings, e-mail): one statement of an ORM or
  one request each.
- *Prompts and `generate()`*: texts for the model, and the entry of the test runner; *the tool
  that runs Python* is a library.
- *Observability*: spans that no other component reads.
- *Text*: columns no branch reads, the wording of replies, the patterns of `parseSql` and of
  the SQL compiler (their results are modelled), filters on measures, time grain, environment
  variables in the files of a scenario.
- *Several harness processes on one database*: the deployment runs one.

1. `McpClient` (`services/mcp.service.ts`): loads that overlap, listings that end late, errors
   that are never cleared.
2. *Proofs*: facts of the modules of functions that need no recursion, first those of
   `AgentTools` and `CatalogTools` that relate what agents are told to what planner and gate
   enforce (`BriefingIsTrue`, the gap reports), for every scenario.
