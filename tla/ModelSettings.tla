---------------------------- MODULE ModelSettings ----------------------------
(***************************************************************************)
(* Which model a chat uses, with which key, and the Slack settings, as pure *)
(* functions of the tables and of the environment (utils/llm.ts, the        *)
(* project-llm-config and project-slack-config queries, the settings        *)
(* procedures of project.routes.ts, and AgentService).                      *)
(*                                                                          *)
(*   providers <<[name, models, default]>>: LLM_PROVIDERS, models a sequence *)
(*            of ids, default <<>> or <<the one marked as default>>          *)
(*   configs  <<[provider, key, enabled, url]>>: the rows of one project in  *)
(*            the order the database returns them                           *)
(*   env      a function from the names of providers to the key in their     *)
(*            variable, "" when there is none                               *)
(* What may be absent is <<value>> or <<>>.                                  *)
(***************************************************************************)
EXTENDS Integers, Sequences, SequencesExt

Named(providers, name) == CHOOSE p \in ToSet(providers) : p.name = name

DefaultModelId(providers, name) ==
    LET p == Named(providers, name)
    IN IF p.default = <<>> THEN Head(p.models) ELSE p.default[1]

\* getEnvProviders: in the order of LLM_PROVIDERS.
EnvProviders(providers, env) ==
    LET set == SelectSeq(providers, LAMBDA p : env[p.name] # "")
    IN [i \in DOMAIN set |-> set[i].name]

EnvModelSelections(providers, env) ==
    LET names == EnvProviders(providers, env)
    IN [i \in DOMAIN names |->
           [provider |-> names[i], model |-> DefaultModelId(providers, names[i])]]

DefaultEnvProvider(env) ==
    IF env["anthropic"] # "" THEN <<"anthropic">>
    ELSE IF env["openai"] # "" THEN <<"openai">>
    ELSE <<>>

ConfigOf(configs, provider) == SelectSeq(configs, LAMBDA c : c.provider = provider)

\* getProjectModelProvider
ModelProvider(configs, env) ==
    IF ConfigOf(configs, "anthropic") # <<>> THEN <<"anthropic">>
    ELSE IF ConfigOf(configs, "openai") # <<>> THEN <<"openai">>
    ELSE DefaultEnvProvider(env)

\* getProjectAvailableModels
AvailableModels(providers, configs, env) ==
    LET ModelsOf(c) == IF c.enabled = <<>> THEN <<DefaultModelId(providers, c.provider)>> ELSE c.enabled
        Selections(c) == LET models == ModelsOf(c)
                         IN [i \in DOMAIN models |-> [provider |-> c.provider, model |-> models[i]]]
    IN FlattenSeq([i \in DOMAIN configs |-> Selections(configs[i])])
           \o SelectSeq(EnvModelSelections(providers, env),
                        LAMBDA s : ConfigOf(configs, s.provider) = <<>>)

\* _getResolvedModelSelection
ResolvedSelection(providers, configs, env, selection) ==
    LET fromEnv == EnvModelSelections(providers, env)
    IN CASE selection # <<>> -> selection
         [] selection = <<>> /\ configs # <<>> ->
              <<[provider |-> configs[1].provider,
                 model |-> DefaultModelId(providers, configs[1].provider)]>>
         [] OTHER -> IF fromEnv = <<>> THEN <<>> ELSE <<Head(fromEnv)>>

\* _getModelConfig: the key and the address the model is called with.
ModelConfig(configs, env, selection) ==
    LET own == ConfigOf(configs, selection.provider)
    IN IF own # <<>> THEN <<[key |-> own[1].key, url |-> own[1].url]>>
       ELSE IF env[selection.provider] # "" THEN <<[key |-> env[selection.provider], url |-> ""]>>
       ELSE <<>>

\* AgentService.create, but for the agent: what it is made with.
AgentModel(providers, configs, env, selection) ==
    LET resolved == ResolvedSelection(providers, configs, env, selection)
    IN IF resolved = <<>> \/ ModelConfig(configs, env, resolved[1]) = <<>> THEN <<>>
       ELSE <<[selection |-> resolved[1], config |-> ModelConfig(configs, env, resolved[1])[1]]>>

-----------------------------------------------------------------------------
(* The procedures *)

\* upsertProjectLlmConfig: no key leaves the key of a row as it is.
UpsertConfig(configs, config, key) ==
    LET at == SelectInSeq(configs, LAMBDA c : c.provider = config.provider)
    IN IF at # 0
       THEN [configs EXCEPT ![at] =
                [config EXCEPT !.key = IF key = <<>> THEN configs[at].key ELSE key[1]]]
       ELSE Append(configs, [config EXCEPT !.key = key[1]])

\* upsertLlmConfig; input.key is "" when none is given.
UpsertLlmConfig(configs, env, input) ==
    CASE input.key # "" -> <<UpsertConfig(configs, input, <<input.key>>)>>
      [] input.key = "" /\ ConfigOf(configs, input.provider) # <<>> ->
           <<UpsertConfig(configs, input, <<>>)>>
      [] OTHER ->
           IF env[input.provider] # "" /\ input.enabled # <<>>
           THEN <<UpsertConfig(configs, input, <<env[input.provider]>>)>>
           ELSE <<>>

DeleteLlmConfig(configs, provider) == SelectSeq(configs, LAMBDA c : c.provider # provider)

\* getProjectSlackConfig: what the settings page is shown.
ProjectSlackConfig(project) ==
    IF project.token = "" \/ project.secret = "" THEN <<>>
    ELSE <<[token |-> project.token, secret |-> project.secret]>>

\* getSlackConfig: what Slack is called with, for the default project.
SlackConfig(project, env) ==
    LET token == IF project.token # "" THEN project.token ELSE env.token
        secret == IF project.secret # "" THEN project.secret ELSE env.secret
    IN IF token = "" \/ secret = "" THEN <<>> ELSE <<[token |-> token, secret |-> secret]>>

UpsertSlackConfig(project, token, secret) ==
    [project EXCEPT !.token = token, !.secret = secret]

DeleteSlackConfig(project) == [project EXCEPT !.token = "", !.secret = ""]

-----------------------------------------------------------------------------
(***************************************************************************)
(* Facts                                                                    *)
(***************************************************************************)

\* Each model a user is offered is one the project enables, if it enables any, and can
\* be called: there is a key for it, that of the project's row before the environment's.
OfferedModelsWork(providers, configs, env) ==
    \A s \in ToSet(AvailableModels(providers, configs, env)) :
        LET agent == AgentModel(providers, configs, env, <<s>>)
            own == ConfigOf(configs, s.provider)
        IN /\ agent # <<>> /\ agent[1].selection = s /\ agent[1].config.key # ""
           /\ agent[1].config.key = IF own # <<>> THEN own[1].key ELSE env[s.provider]
           /\ own # <<>> /\ own[1].enabled # <<>> => s.model \in ToSet(own[1].enabled)

\* A chat that names no model gets one when any is offered, and it is one of them,
\* unless the first row enables models and its provider's default is not among them.
UnnamedModelIsOffered(providers, configs, env) ==
    LET offered == ToSet(AvailableModels(providers, configs, env))
        agent == AgentModel(providers, configs, env, <<>>)
    IN /\ (agent = <<>>) = (offered = {})
       /\ agent # <<>> =>
             \/ agent[1].selection \in offered
             \/ /\ configs # <<>> /\ configs[1].enabled # <<>>
                /\ agent[1].selection.provider = configs[1].provider
                /\ agent[1].selection.model \notin ToSet(configs[1].enabled)

\* Saving the settings of a provider keeps one row for it and the others as they were;
\* without a key it keeps the one it had, and a first row is refused unless the
\* environment has a key and a model is enabled.
SavingIsExact(configs, env, input) ==
    LET saved == UpsertLlmConfig(configs, env, input)
        before == ConfigOf(configs, input.provider)
        after == ConfigOf(saved[1], input.provider)
        refused == before = <<>> /\ input.key = "" /\ (env[input.provider] = "" \/ input.enabled = <<>>)
    IN /\ (saved = <<>>) = refused
       /\ ~refused =>
            /\ DeleteLlmConfig(saved[1], input.provider) = DeleteLlmConfig(configs, input.provider)
            /\ Len(after) = 1 /\ after[1].enabled = input.enabled
            /\ after[1].key = CASE input.key # "" -> input.key
                                [] input.key = "" /\ before # <<>> -> before[1].key
                                [] OTHER -> env[input.provider]

\* A key given once stays when the environment changes, and the environment's is used
\* again only after the row is deleted.
KeyOutlivesEnvironment(providers, configs, env, later, input) ==
    LET saved == UpsertLlmConfig(configs, env, input)
        selection == [provider |-> input.provider, model |-> "any"]
    IN saved # <<>> =>
          /\ ModelConfig(saved[1], later, selection) = ModelConfig(saved[1], env, selection)
          /\ LET gone == ModelConfig(DeleteLlmConfig(saved[1], input.provider), later, selection)
             IN gone = IF later[input.provider] = "" THEN <<>>
                       ELSE <<[key |-> later[input.provider], url |-> ""]>>

\* Slack works whenever the settings page shows a configuration, or the environment
\* has one; the two are mixed only for a project with one of the two values.
SlackSettingsAgree(project, env) ==
    LET shown == ProjectSlackConfig(project)
        used == SlackConfig(project, env)
    IN /\ shown # <<>> => used = shown
       /\ shown = <<>> /\ (project.token = "") = (project.secret = "") =>
             used = IF env.token # "" /\ env.secret # "" THEN <<env>> ELSE <<>>
       /\ SlackConfig(DeleteSlackConfig(project), env) =
             IF env.token # "" /\ env.secret # "" THEN <<env>> ELSE <<>>
       /\ SlackConfig(UpsertSlackConfig(project, "t", "s"), env) = <<[token |-> "t", secret |-> "s"]>>
=============================================================================
