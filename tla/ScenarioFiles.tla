--------------------------- MODULE ScenarioFiles ----------------------------
(***************************************************************************)
(* What the harness takes from a scenario's files and whom it takes an       *)
(* agent for (harness/src/config/index.ts, governance/index.ts,              *)
(* auth/context.ts, tools/control.ts, semantic/registry.ts), as pure         *)
(* functions.                                                               *)
(*                                                                          *)
(*   directories  the directories of datasets/ in their order: <<>> without a *)
(*                dataset.yaml, else <<[id, tables, joins]>>                *)
(*   agents       [agent -> [bundle]], of agents.yml; no bundle is ""         *)
(*   model        [name, dimensions, measures], sequences of names and of     *)
(*                [name, aggregation]                                       *)
(***************************************************************************)
EXTENDS Integers, Sequences, FiniteSets, SequencesExt

CONSTANTS Aggregations      \* ALLOWED_AGGREGATIONS of semantic/types.ts

AllBundles(directories) == FlattenSeq(directories)

\* getBundle: the first one of this id, or nothing (an error).
GetBundle(directories, id) ==
    LET found == SelectSeq(AllBundles(directories), LAMBDA b : b.id = id)
    IN IF found = <<>> THEN <<>> ELSE <<Head(found)>>

\* getAgentTables, or "error".
AgentTables(directories, agents, agent) ==
    IF agent \notin DOMAIN agents \/ agents[agent].bundle = "" THEN <<{}>>
    ELSE LET bundle == GetBundle(directories, agents[agent].bundle)
         IN IF bundle = <<>> THEN <<>> ELSE <<bundle[1].tables>>

-----------------------------------------------------------------------------
(* Identity; bound is the agentId of the connection, "" for none *)

Authenticated(agents, bound, agent) == bound \in {"", agent} /\ agent \in DOMAIN agents

\* setAgentIdIfEmpty, of the only connection there is over stdio.
Bind(bound, agent) == IF bound = "" THEN agent ELSE bound

\* initialize_agent on a connection: the agent it is bound to then, and the reply.
Initialize(agents, bound, agent) ==
    LET now == Bind(bound, agent)
    IN [bound |-> now,
        reply |-> IF bound \notin {"", agent} THEN "mismatch"
                  ELSE IF Authenticated(agents, now, agent) THEN "scope" ELSE "unknown agent"]

-----------------------------------------------------------------------------
(* registry.ts *)

MeasureNames(model) == [i \in DOMAIN model.measures |-> model.measures[i].name]

\* validateModel: the first error, or "valid".
ValidateModel(model) ==
    LET twice == {i \in DOMAIN model.measures :
                     \E j \in 1 .. i - 1 : model.measures[j].name = model.measures[i].name}
        wrong == {i \in DOMAIN model.measures : model.measures[i].aggregation \notin Aggregations}
    IN IF ~IsInjective(model.dimensions) THEN "ambiguous_ref"
       ELSE IF \E i \in twice : \A j \in wrong : i <= j THEN "ambiguous_ref"
       ELSE IF wrong # {} THEN "invalid_aggregation"
       ELSE IF ToSet(model.dimensions) \cap ToSet(MeasureNames(model)) # {} THEN "ambiguous_ref"
       ELSE "valid"

\* The constructor: the first error of the models in their order, or "valid".
BuildRegistry(models) ==
    LET outcome == [i \in DOMAIN models |->
                       IF \E j \in 1 .. i - 1 : models[j].name = models[i].name
                       THEN "ambiguous_ref" ELSE ValidateModel(models[i])]
        at == SelectInSeq(outcome, LAMBDA o : o # "valid")
    IN IF at = 0 THEN "valid" ELSE outcome[at]

\* splitRef and classifyRef, on <<model, field>>; a ref of one name has no model.
ClassifyRef(models, ref) ==
    LET at == SelectInSeq(models, LAMBDA m : m.name = ref[1])
    IN IF Len(ref) = 1 THEN "ambiguous_ref"
       ELSE IF at = 0 THEN "unknown_model"
       ELSE IF ref[2] = "" THEN "ambiguous_ref"
       ELSE IF ref[2] \in ToSet(MeasureNames(models[at])) THEN "measure"
       ELSE IF ref[2] \in ToSet(models[at].dimensions) THEN "dimension"
       ELSE "unknown_dimension"

-----------------------------------------------------------------------------
(***************************************************************************)
(* Facts                                                                    *)
(***************************************************************************)

\* An agent has the tables of one file, whatever other files say of its bundle, and
\* adding a directory behind the others changes no agent that had tables.
TablesAreOfOneFile(directories, agents, agent, more) ==
    LET tables == AgentTables(directories, agents, agent)
        later == AgentTables(Append(directories, more), agents, agent)
    IN /\ tables # <<>> => later = tables
       /\ tables \notin {<<>>, <<{}>>} =>
             \E d \in ToSet(directories) :
                d # <<>> /\ d[1].id = agents[agent].bundle /\ tables = <<d[1].tables>>

\* The replies to a sequence of names.
Greetings(agents, bound, names) ==
    FoldLeft(LAMBDA acc, agent :
                LET step == Initialize(agents, acc.bound, agent)
                IN [bound |-> step.bound, replies |-> Append(acc.replies, step.reply)],
             [bound |-> bound, replies |-> <<>>], names)

\* A connection serves one agent, the first name it was given or was opened with; when
\* nobody knows this name, it never serves one, whatever is tried after.
OneAgentPerConnection(agents, bound, names) ==
    LET greeted == Greetings(agents, bound, names)
        served == {names[i] : i \in {j \in DOMAIN names : greeted.replies[j] = "scope"}}
        first == IF bound # "" THEN bound ELSE IF names = <<>> THEN "" ELSE Head(names)
    IN /\ served \subseteq {first} \cap DOMAIN agents
       /\ \A i \in DOMAIN names :
             names[i] = first /\ first \in DOMAIN agents => greeted.replies[i] = "scope"
       /\ \A other \in DOMAIN agents :
             other # greeted.bound /\ greeted.bound # "" => ~Authenticated(agents, greeted.bound, other)

\* In a registry that was built a ref means one thing, what its only model says of it,
\* and no ref means anything in two models.
RefsAreClear(models, ref) ==
    BuildRegistry(models) = "valid" /\ ClassifyRef(models, ref) \in {"measure", "dimension"} =>
        \E i \in DOMAIN models :
            /\ \A j \in DOMAIN models : models[j].name = ref[1] => j = i
            /\ Cardinality({k \in DOMAIN models[i].measures : models[i].measures[k].name = ref[2]})
               + Cardinality({k \in DOMAIN models[i].dimensions : models[i].dimensions[k] = ref[2]}) = 1
            /\ (ClassifyRef(models, ref) = "dimension") = (ref[2] \in ToSet(models[i].dimensions))

\* Only a registry with two meanings of a name, or an aggregation not known, is refused.
RefusalsAreDue(models) ==
    LET Uses(m) == MeasureNames(m) \o m.dimensions
    IN CASE BuildRegistry(models) = "valid" ->
              \A m \in ToSet(models) : IsInjective(Uses(m))
         [] BuildRegistry(models) = "invalid_aggregation" ->
              \E m \in ToSet(models) : \E x \in ToSet(m.measures) : x.aggregation \notin Aggregations
         [] OTHER -> \/ \E m \in ToSet(models) : ~IsInjective(Uses(m))
                     \/ ~IsInjective([i \in DOMAIN models |-> models[i].name])
=============================================================================
