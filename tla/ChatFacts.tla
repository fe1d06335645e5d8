------------------------------ MODULE ChatFacts ------------------------------
(* Facts of the parts of the chat backend that are pure functions, evaluated    *)
(* over small sets of their inputs before ChatAgents is run.                    *)
EXTENDS Integers, Sequences, FiniteSets, SequencesExt, TLC

Files == INSTANCE ProjectFiles WITH
            Glob <- "*.sql" :> {"a.sql"} @@ "tmp*" :> {"tmp1", "tmp*"} @@ "*" :> {"a.sql", "b", "tmp1"},
            Hidden <- {".env", "..old", ".meta"},
            DotDot <- {"..old"}

Data == INSTANCE ChatData

Settings == INSTANCE ModelSettings

Screen == INSTANCE ChatClient

Slack == INSTANCE SlackThread

Server == INSTANCE ServerCommand

Mcp == INSTANCE McpTools WITH
            Correlated <- {<<"q">>, <<"a", "q">>},
            BaseTools <- {<<"l">>, <<"a", "l">>}

-----------------------------------------------------------------------------
(* ProjectFiles *)

MCRoot == <<"srv", "p">>

MCLines ==
    {[dir |-> FALSE, names |-> <<"*.sql">>], [dir |-> TRUE, names |-> <<"b">>],
     [dir |-> TRUE, names |-> <<"tmp*">>], [dir |-> FALSE, names |-> <<"b", "tmp1">>],
     [dir |-> TRUE, names |-> <<"b", "c">>], [dir |-> FALSE, names |-> <<"tmp1">>],
     [dir |-> FALSE, names |-> <<"..old">>]}

\* Each directory holds every name once as a file, but for the ones that are directories.
MCDirs == {<<>>, <<"b">>, <<"tmp1">>, <<"..old">>, <<".meta">>, <<"b", "c">>, <<"c">>, <<"c", "b">>}
MCTree ==
    LET paths == (MCDirs \ {<<>>}) \cup
                 {Append(d, n) : d \in MCDirs, n \in {"a.sql", "b", "c", "tmp1", "tmp*", ".env"}}
    IN [p \in paths |-> IF p \in MCDirs THEN "directory" ELSE <<"1", "2", "3", "4">>]

MCNames == {"b", "c", "..", ".", ".meta", "..old", "srv", "p"}
MCVirtual ==
    [absolute : BOOLEAN, names : UNION {[1 .. n -> MCNames] : n \in 0 .. 3}]

\* Paths of up to three names, and every .dazenseignore of up to two lines.
ASSUME MCPaths ==
    \A lines \in SUBSET MCLines : Cardinality(lines) <= 2 =>
        \A virtual \in MCVirtual : Files!StaysInside(MCRoot, virtual, lines)

ASSUME MCListing ==
    \A lines \in SUBSET MCLines :
        /\ Files!ReadObeysLines(MCRoot, MCTree, lines)
        /\ Files!ListAgreesWithRead(MCRoot, MCTree, lines)
        /\ \A pattern \in {<<"*">>, <<"*.sql">>, <<"b", "*">>, <<"tmp1">>, <<".env">>} :
              Files!SearchAgreesWithList(MCRoot, MCTree, pattern, lines)

\* A project below an excluded directory can be neither listed nor read.
ASSUME MCExcludedRoot ==
    Files!List(<<"srv", ".meta">>, MCTree, Files!At(<<>>), {}) = <<>>

MCPrinted ==
    {[path |-> path, line |-> line, submatches |-> n] :
        path \in {MCRoot \o <<"c", "c">>, MCRoot \o <<"b", "a.sql">>, <<"srv", "x">>},
        line \in {1, 4}, n \in {1, 2}}

ASSUME MCGrep ==
    \A printed \in UNION {[1 .. n -> MCPrinted] : n \in 0 .. 2}, max \in 0 .. 3, n \in {0, 1, 2, 4} :
        Files!GrepIsHonest(MCRoot, MCTree, printed, max, n, {[dir |-> FALSE, names |-> <<"*.sql">>]})

-----------------------------------------------------------------------------
(* ChatData *)

ASSUME MCSchema == Data!SchemaIsSound

MCRow(table, id, refs) == [table |-> table, id |-> id, refs |-> refs]

\* Two users and two projects of two organizations, chats of each of them in both.
MCDatabase ==
    LET U == {<<"u1">>, <<"u2">>}
        P == {<<"p1">>, <<"p2">>}
    IN {MCRow("user", u, Data!NoRefs) : u \in U}
       \cup {MCRow("organization", p, Data!NoRefs) : p \in P}
       \cup {MCRow("project", p, [orgId |-> IF p = <<"p1">> THEN p ELSE <<"none">>]) : p \in P}
       \cup {MCRow("projectMember", <<p, u>>, [projectId |-> p, userId |-> u]) : p \in P, u \in U}
       \cup {MCRow("projectLlmConfig", p, [projectId |-> p]) : p \in P}
       \cup {MCRow("chat", <<u, p>>, [userId |-> u, projectId |-> p]) : u \in U, p \in P}
       \cup {MCRow("chatMessage", <<u, p>>, [chatId |-> <<u, p>>]) : u \in U, p \in P}
       \cup {MCRow("messagePart", <<u, p>>, [messageId |-> <<u, p>>]) : u \in U, p \in P}
       \cup {MCRow("messageFeedback", <<u, p>>, [messageId |-> <<u, p>>]) : u \in U, p \in P}

ASSUME MCDeletion == \A gone \in MCDatabase : Data!DeletionIsExact(MCDatabase, gone)

MCPart(type, text, call, approval) ==
    [type |-> type, text |-> text, call |-> call, approval |-> approval]

MCParts ==
    {MCPart("text", <<"t">>, <<>>, <<>>), MCPart("text", <<"u">>, <<>>, <<>>),
     MCPart("reasoning", <<"r">>, <<>>, <<>>),
     MCPart("tool-query", <<>>, <<"call">>, <<[id |-> "i", approved |-> <<>>, reason |-> <<>>]>>),
     MCPart("tool-suggest_follow_ups", <<>>, <<"call">>, <<>>),
     MCPart("dynamic-tool", <<>>, <<"call">>, <<>>),
     MCPart("step-start", <<>>, <<>>, <<>>)}

MCPartLists == UNION {[1 .. n -> MCParts] : n \in 0 .. 3}

MCTokens == [k \in Data!Kinds |-> CASE k = "output" -> 5 [] k = "inputNoCache" -> 3 [] OTHER -> 0]
MCPrices == "known" :> [k \in Data!Kinds |-> IF k = "output" THEN 7 ELSE 2]

ASSUME MCMessages ==
    \A parts \in MCPartLists, role \in {"user", "assistant"} :
        /\ Data!PartsSurvive([id |-> "m", role |-> role, parts |-> parts], <<MCTokens>>)
        /\ Data!PreparedIsComplete(<<[id |-> "m", role |-> role, parts |-> parts]>>)

ASSUME MCCache ==
    \A provider \in {"anthropic", "openai"},
       roles \in UNION {[1 .. n -> {"system", "user", "tool"}] : n \in 0 .. 3} :
        Data!CacheIsBounded(provider, roles)

ASSUME MCUsage ==
    \A parts \in MCPartLists, model \in {"known", "other"} :
        Data!UsageIsPerPart([model |-> model, parts |-> parts], MCTokens, MCPrices)

\* Questions and an answer at any of five times, a report of three dates.
MCReportRow(tokens) == [type |-> "text", tokens |-> tokens]
ASSUME MCReport ==
    \A at \in [1 .. 3 -> 0 .. 4], since \in 0 .. 2, rows \in {<<>>, <<MCReportRow(<<>>)>>} :
        Data!ReportIsComplete(
            {[id |-> i, project |-> IF i = 3 THEN "q" ELSE "p", role |-> "user",
              provider |-> "none", model |-> "none", at |-> at[i], rows |-> rows] : i \in 1 .. 3}
            \cup {[id |-> 4, project |-> "p", role |-> "assistant", provider |-> "a",
                   model |-> "known", at |-> 3, rows |-> <<MCReportRow(<<MCTokens>>)>>]},
            <<1, 2, 4>>, since)

\* A report of 24 hours or 30 days at any time of the last one of them; of the twelve
\* months of a common year, in days, up to December 26th.
MCMonths == <<0, 31, 59, 90, 120, 151, 181, 212, 243, 273, 304, 334>>
ASSUME MCLookback ==
    /\ \A minute \in 0 .. 59 :
          Data!NoDateIsCut([i \in 1 .. 24 |-> 60 * i], 60 * 24 + minute - 24 * 60)
    /\ \A hour \in 0 .. 23 : Data!NoDateIsCut([i \in 1 .. 30 |-> 24 * i], 24 * 30 + hour - 30 * 24)
    /\ \A day \in 334 .. 364 : Data!NoDateIsCut(MCMonths, day - 360) = (day <= 360)

ASSUME MCSearch ==
    \A n \in 0 .. 3 : \A title \in [1 .. n -> BOOLEAN], hits \in [1 .. n -> {0, 1, 3}],
                        users \in [1 .. n -> {"u", "v"}], limit \in 1 .. 2 :
        Data!SearchIsSound([i \in 1 .. n |-> [id |-> i, user |-> users[i],
                                             title |-> title[i], hits |-> hits[i]]], "u", limit)

-----------------------------------------------------------------------------
(* ModelSettings *)

MCProviders ==
    <<[name |-> "anthropic", models |-> <<"c1", "c2">>, default |-> <<"c2">>],
      [name |-> "google", models |-> <<"g1">>, default |-> <<>>],
      [name |-> "openai", models |-> <<"o1", "o2">>, default |-> <<"o1">>]>>

MCEnvs == [{"anthropic", "google", "openai"} -> {"", "env"}]

MCConfig(provider, key, enabled) ==
    [provider |-> provider, key |-> key, enabled |-> enabled, url |-> ""]

\* The rows of a project, at most one for each provider, in any order.
MCConfigs ==
    {<<>>} \cup
    {<<MCConfig(p, "own", e)>> : p \in {"openai", "google"}, e \in {<<>>, <<"o2">>, <<"o1", "o2">>}} \cup
    {<<MCConfig(p, "own", e), MCConfig("anthropic", "old", f)>> :
        p \in {"openai", "google"}, e \in {<<>>, <<"o2">>}, f \in {<<>>, <<"c1">>}}

MCInputs ==
    {MCConfig(p, key, e) : p \in {"anthropic", "openai"}, key \in {"", "new"}, e \in {<<>>, <<"c1">>}}

ASSUME MCSettings ==
    \A env \in MCEnvs, configs \in MCConfigs :
        /\ Settings!OfferedModelsWork(MCProviders, configs, env)
        /\ Settings!UnnamedModelIsOffered(MCProviders, configs, env)
        /\ \A input \in MCInputs :
              /\ Settings!SavingIsExact(configs, env, input)
              /\ \A later \in MCEnvs :
                    Settings!KeyOutlivesEnvironment(MCProviders, configs, env, later, input)

ASSUME MCSlack ==
    \A project \in [token : {"", "p"}, secret : {"", "p"}], env \in [token : {"", "e"}, secret : {"", "e"}] :
        Settings!SlackSettingsAgree(project, env)

-----------------------------------------------------------------------------
(* McpTools *)

MCWords(n) == UNION {[1 .. k -> {"a", "q", "_"}] : k \in 1 .. n}

ASSUME MCNaming ==
    /\ \A server \in MCWords(4), tool \in MCWords(4) : Mcp!CalledAsListed(server, tool)
    /\ \A s1, s2 \in MCWords(2), t1, t2 \in {<<"a">>, <<"q">>, <<"_", "q">>, <<"a", "_", "_", "q">>} :
          Mcp!NamesStayApart(s1, t1, s2, t2)

MCSchema0(type, required, properties) ==
    [type |-> type, required |-> required, items |-> <<>>, properties |-> properties]
MCLeaves == {MCSchema0(t, r, <<>>) : t \in {"array", "any"}, r \in {<<>>, <<{}>>}}
MCSchemas1 ==
    MCLeaves
    \cup {[s EXCEPT !.items = <<x>>] : s \in MCLeaves, x \in MCLeaves}
    \cup {[s EXCEPT !.properties = <<"case_id" :> x @@ "of" :> y>>,
                    !.required = IF @ = <<>> THEN @ ELSE <<{"case_id", "of"}>>] :
             s \in MCLeaves, x \in MCLeaves, y \in MCLeaves}
MCSchemas2 == MCSchemas1 \cup {[s EXCEPT !.items = <<x>>] : s \in MCLeaves, x \in MCSchemas1}

ASSUME MCSanitize == \A schema \in MCSchemas2 : Mcp!SanitizeIsExact(schema)

MCArgs ==
    UNION {[names -> {"model"}] : names \in SUBSET {"case_id", "request_id", "sql"}}

ASSUME MCCorrelation ==
    \A server \in MCWords(3), tool \in {<<"q">>, <<"a", "q">>, <<"a">>}, args \in MCArgs,
       caseId \in {<<>>, <<"turn">>}, schema \in MCSchemas1 :
        Mcp!ModelNeverCorrelates(server, tool, args, caseId, schema)

MCServers ==
    {<<[name |-> <<"a">>, tools |-> ts, up |-> up], [name |-> <<"q">>, tools |-> us, up |-> vp]>> :
        ts \in {{}, {<<"q">>}, {<<"a", "l">>, <<"l">>}}, us \in {{<<"q">>}, {<<"l">>}},
        up \in BOOLEAN, vp \in BOOLEAN}
    \cup {<<>>, <<[name |-> <<"a">>, tools |-> {<<"l">>}, up |-> TRUE]>>,
          <<[name |-> <<"a", "l">>, tools |-> {<<"a", "l">>}, up |-> TRUE]>>}

ASSUME MCLoads ==
    /\ \A one, other \in MCServers : Mcp!LoadsAddUp(one, other)
    /\ \A servers \in MCServers : Mcp!OwnToolsStay(servers)

-----------------------------------------------------------------------------
(* ChatClient *)

\* Eight steps of a user with one chat, and seven with messages that fail.
ASSUME MCScreen ==
    \A c \in Screen!ClientsWithin(8, 1, FALSE) :
        /\ Screen!AgentsAreKnown(c)
        /\ Screen!AnswersAreFound(c)
        /\ Screen!SendsToTheScreen(c)

\* A message sent again after its new chat could not be made has lost its agent: the
\* chat it makes is then shown by another one, which can be sent from meanwhile.
ASSUME MCFailedChat == \E c \in Screen!ClientsWithin(7, 1, TRUE) : Screen!HasTwoAnswers(c)

MCShownPart(type, tool, state, output) ==
    [type |-> type, tool |-> tool, state |-> state, text |-> <<"s">>, output |-> output]

MCShownParts ==
    {MCShownPart("text", "none", state, <<>>) : state \in {"streaming", "done"}}
    \cup {MCShownPart("reasoning", "none", "streaming", <<>>), MCShownPart("step-start", "none", "none", <<>>),
          MCShownPart("dynamic-tool", "mcp", "input-available", <<>>),
          MCShownPart("dynamic-tool", "mcp", "output-available", <<"r1", "r2">>),
          MCShownPart("tool", "execute_python", "output-error", <<>>),
          MCShownPart("tool", "suggest_follow_ups", "input-streaming", <<>>)}

MCShownLists == UNION {[1 .. n -> MCShownParts] : n \in 0 .. 3}

ASSUME MCGrouping ==
    \A parts \in MCShownLists : Screen!GroupingIsExact(parts) /\ Screen!GroupsShowWork(parts)

MCShownMessages ==
    LET M == {[role |-> role, parts |-> parts] : role \in {"user", "assistant"},
                 parts \in UNION {[1 .. n -> MCShownParts \ {MCShownPart("text", "none", "done", <<>>)}] :
                                     n \in 0 .. 1}}
    IN UNION {[1 .. n -> M] : n \in 0 .. 2}
       \cup {<<[role |-> "user", parts |-> <<>>], [role |-> "assistant", parts |-> parts]>> :
               parts \in MCShownLists}

ASSUME MCShown ==
    \A messages \in MCShownMessages, status \in {"ready", "submitted", "streaming", "error"} :
        /\ Screen!GroupsAreExact(messages)
        /\ Screen!WorkIsShown(status, messages)
        /\ Screen!EndedAnswersExplain(status, messages)
        /\ Screen!FollowUpsAreOfTheEnd(messages)

-----------------------------------------------------------------------------
(* SlackThread *)

MCTexts == UNION {[1 .. n -> {"x", Slack!NewLine}] : n \in 0 .. 2}

\* A message as it is streamed: a text, a tool, a second text, or a text that grows.
MCStreamed ==
    {<<<<"text", t>>>> : t \in MCTexts} \cup {<<<<"tool", <<>>>>>>}
    \cup {<<<<"text", <<"x", "n">>>>, <<"tool", <<>>>>, <<"text", t>>>> : t \in MCTexts}

ASSUME MCStream ==
    \A n \in 0 .. 3 : \A messages \in [1 .. n -> MCStreamed] :
        Slack!ThreadShowsAnswer(messages) /\ Slack!UpdatesAreFew(messages)

\* A text of four characters, any parts of which arrive together.
ASSUME MCGrowing ==
    \A text \in [1 .. 4 -> {"x", Slack!NewLine}], stops \in SUBSET (1 .. 4) :
        LET at == SetToSortSeq(stops, <)
        IN Slack!UpdatesAreFew([i \in DOMAIN at |-> <<<<"text", SubSeq(text, 1, at[i])>>>>])

ASSUME MCMentions ==
    LET roles == {"admin", "user", "viewer", "none"}
        Chat(owner) == [owner |-> owner, texts |-> <<"before">>]
    IN \A email \in {"", "ann", "bob", "gone"}, users \in [{"ann", "bob"} -> roles],
          chats \in {<<>>} \cup {[t \in ts |-> Chat(owner)] :
                                   ts \in {{"t"}, {"t", "u"}}, owner \in {"ann", "bob"}},
          messages \in {<<>>, <<<<<<"text", <<"x">>>>>>>>} :
             Slack!MentionsAreKept(users, chats, "t", email, "now", messages)

-----------------------------------------------------------------------------
(* ServerCommand *)

MCArguments ==
    {[dashes |-> 0, text |-> t] : t \in {"", "serve", "migrate", "other"}}
    \cup {[dashes |-> d, text |-> t] : d \in 1 .. 2, t \in {"h", "help", "port"}}

ASSUME MCCommand ==
    \A n \in 0 .. 4 : \A args \in [1 .. n -> MCArguments] :
        /\ Server!MigrateIsAsked(args)
        /\ \A migrates, listens \in BOOLEAN : Server!ServesMigrated(args, migrates, listens)

\* Three starts with every state of the file and of the environment.
MCStart(fresh) ==
    [env : {"", "own"}, fresh : {fresh}, readable : BOOLEAN, writable : BOOLEAN]

ASSUME MCSecret ==
    \A one \in MCStart("new1"), other \in MCStart("new2"), last \in MCStart("new3"),
       file \in {"", "old"} :
          Server!SecretIsKept(<<one, other, last>>, file)
=============================================================================
