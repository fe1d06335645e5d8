------------------------------ MODULE ChatData ------------------------------
(***************************************************************************)
(* What the chat backend keeps, as pure functions of rows: the schema in    *)
(* its two dialects, the parts of a message on their way to the tables and  *)
(* back, the messages given to a model, the usage report and the search.    *)
(*                                                                          *)
(*   part     [type, text, call, approval], as the user interface has it;    *)
(*            call is the tool's name, id, state, input and output, approval *)
(*            is <<>> or <<[id, approved, reason]>>                          *)
(*   message  [id, chat, role, parts]                                        *)
(*   usage    a function from Kinds of tokens to their number                *)
(***************************************************************************)
EXTENDS Integers, Sequences, FiniteSets, SequencesExt, FiniteSetsExt, TLC

-----------------------------------------------------------------------------
(* pgSchema.ts and sqliteSchema.ts *)

\* What a row must be given, what is unique, and what it refers to, all ON DELETE
\* CASCADE.
Table(required, unique, refs) == [required |-> required, unique |-> unique, refs |-> refs]

NoRefs == [column \in {} |-> ""]

PgUsers ==
    [user |-> Table({"id", "name", "email"}, {{"id"}, {"email"}}, NoRefs),
     session |-> Table({"id", "expiresAt", "token", "userId"}, {{"id"}, {"token"}},
                       [userId |-> "user"]),
     account |-> Table({"id", "accountId", "providerId", "userId"}, {{"id"}}, [userId |-> "user"]),
     verification |-> Table({"id", "identifier", "value", "expiresAt"}, {{"id"}}, NoRefs),
     organization |-> Table({"name", "slug"}, {{"id"}, {"slug"}}, NoRefs),
     orgMember |-> Table({"orgId", "userId", "role"}, {{"orgId", "userId"}},
                         [orgId |-> "organization", userId |-> "user"])]

PgChats ==
    [project |-> Table({"name", "type"}, {{"id"}}, [orgId |-> "organization"]),
     chat |-> Table({"userId", "projectId"}, {{"id"}}, [userId |-> "user", projectId |-> "project"]),
     chatMessage |-> Table({"chatId", "role"}, {{"id"}}, [chatId |-> "chat"]),
     messagePart |-> Table({"messageId", "order", "type"}, {{"id"}}, [messageId |-> "chatMessage"]),
     messageFeedback |-> Table({"messageId", "vote"}, {{"messageId"}}, [messageId |-> "chatMessage"])]

PgProjects ==
    [projectMember |-> Table({"projectId", "userId", "role"}, {{"projectId", "userId"}},
                             [projectId |-> "project", userId |-> "user"]),
     projectLlmConfig |-> Table({"projectId", "provider", "apiKey"}, {{"id"}, {"projectId", "provider"}},
                                [projectId |-> "project"]),
     projectSavedPrompt |-> Table({"projectId", "title", "prompt"}, {{"id"}}, [projectId |-> "project"])]

SqliteUsers ==
    [user |-> Table({"id", "name", "email"}, {{"id"}, {"email"}}, NoRefs),
     session |-> Table({"id", "expiresAt", "token", "userId"}, {{"id"}, {"token"}},
                       [userId |-> "user"]),
     account |-> Table({"id", "accountId", "providerId", "userId"}, {{"id"}}, [userId |-> "user"]),
     verification |-> Table({"id", "identifier", "value", "expiresAt"}, {{"id"}}, NoRefs),
     organization |-> Table({"name", "slug"}, {{"id"}, {"slug"}}, NoRefs),
     orgMember |-> Table({"orgId", "userId", "role"}, {{"orgId", "userId"}},
                         [orgId |-> "organization", userId |-> "user"])]

SqliteChats ==
    [project |-> Table({"name", "type"}, {{"id"}}, [orgId |-> "organization"]),
     chat |-> Table({"userId", "projectId"}, {{"id"}}, [userId |-> "user", projectId |-> "project"]),
     chatMessage |-> Table({"chatId", "role"}, {{"id"}}, [chatId |-> "chat"]),
     messagePart |-> Table({"messageId", "order", "type"}, {{"id"}}, [messageId |-> "chatMessage"]),
     messageFeedback |-> Table({"messageId", "vote"}, {{"messageId"}}, [messageId |-> "chatMessage"])]

SqliteProjects ==
    [projectMember |-> Table({"projectId", "userId", "role"}, {{"projectId", "userId"}},
                             [projectId |-> "project", userId |-> "user"]),
     projectLlmConfig |-> Table({"projectId", "provider", "apiKey"}, {{"id"}, {"projectId", "provider"}},
                                [projectId |-> "project"]),
     projectSavedPrompt |-> Table({"projectId", "title", "prompt"}, {{"id"}}, [projectId |-> "project"])]

-----------------------------------------------------------------------------
(* chatMessagePartMappings.ts *)

IsToolType(type) == type = "dynamic-tool" \/ type \in {"tool-query", "tool-suggest_follow_ups"}

\* convertUIPartToDBPart: other types are not kept; a text is given the tokens of the
\* whole message.
ToDBPart(part, order, tokens) ==
    LET row == [order |-> order, type |-> part.type, text |-> <<>>, reasoning |-> <<>>,
                call |-> <<>>, approval |-> <<>>, tokens |-> <<>>]
    IN CASE IsToolType(part.type) ->
              <<[row EXCEPT !.call = part.call, !.approval = part.approval]>>
         [] part.type = "text" -> <<[row EXCEPT !.text = part.text, !.tokens = tokens]>>
         [] part.type = "reasoning" -> <<[row EXCEPT !.reasoning = part.text, !.tokens = tokens]>>
         [] OTHER -> <<>>

\* mapUIPartsToDBParts: the order is the index before the others are taken out.
ToDBParts(parts, tokens) ==
    FlattenSeq([i \in DOMAIN parts |-> ToDBPart(parts[i], i - 1, tokens)])

\* upsertMessage: an INSERT of no values throws.
StoredParts(parts, tokens) ==
    LET rows == ToDBParts(parts, tokens)
    IN IF rows = <<>> /\ parts # <<>> THEN <<>> ELSE <<rows>>

\* convertDBPartToUIPart
ToUIPart(row) ==
    LET part == [type |-> row.type, text |-> <<>>, call |-> <<>>, approval |-> <<>>]
    IN CASE IsToolType(row.type) -> <<[part EXCEPT !.call = row.call, !.approval = row.approval]>>
         [] row.type = "text" -> <<[part EXCEPT !.text = row.text]>>
         [] row.type = "reasoning" -> <<[part EXCEPT !.text = row.reasoning]>>
         [] OTHER -> <<>>

\* loadChat and aggregateChatMessagParts: rows are <<[message, role, part]>> in the order
\* the database returns them, which the query does not state; a message is there from
\* its first part on.
Loaded(rows) ==
    FoldLeft(LAMBDA got, row :
                LET part == ToUIPart(row.part)
                    at == SelectInSeq(got, LAMBDA m : m.id = row.message)
                IN IF part = <<>> THEN got
                   ELSE IF at # 0 THEN [got EXCEPT ![at].parts = Append(@, part[1])]
                   ELSE Append(got, [id |-> row.message, role |-> row.role, parts |-> part]),
             <<>>, rows)

\* The CHECKs of message_part.
RowIsValid(row) ==
    /\ row.type = "text" => row.text # <<>>
    /\ row.type = "reasoning" => row.reasoning # <<>>
    /\ row.type \in {"tool-query", "tool-suggest_follow_ups"} => row.call # <<>>

-----------------------------------------------------------------------------
(* AgentManager: the messages given to the model *)

NoContent == [type |-> "text", text |-> <<"[NO CONTENT]">>, call |-> <<>>, approval |-> <<>>]

HasText(parts) == \E i \in DOMAIN parts : parts[i].type = "text"

\* _prepareUIMessages
Prepared(messages) ==
    [i \in DOMAIN messages |->
        LET m == messages[i]
            parts == IF HasText(m.parts) THEN m.parts ELSE Append(m.parts, NoContent)
        IN IF m.role # "assistant" THEN m
           ELSE [m EXCEPT !.parts =
                    SelectSeq(parts, LAMBDA p : p.type # "tool-suggest_follow_ups")]]

\* _addCache: the breakpoints of one step; the system message comes first.
CacheBreakpoints(provider, roles) ==
    IF roles = <<>> \/ provider # "anthropic" THEN {}
    ELSE {i \in {1} : roles[1] = "system"} \cup {i \in {Len(roles)} : Len(roles) > 1}

-----------------------------------------------------------------------------
(* usage.queries.ts, date.ts and utils/chat.ts *)

Kinds == {"inputNoCache", "inputCacheRead", "inputCacheWrite", "output"}

NoTokens == [k \in Kinds |-> 0]

\* convertToCost; <<>> for a model without prices.
Cost(prices, model, tokens) ==
    IF model \in DOMAIN prices
    THEN <<MapThenSumSet(LAMBDA k : tokens[k] * prices[model][k], Kinds)>>
    ELSE <<>>

\* The tokens of a message of the tables, summed over its parts.
TokensOf(m, k) ==
    FoldLeft(LAMBDA sum, row : IF row.tokens = <<>> THEN sum ELSE sum + row.tokens[1][k], 0, m.rows)

UsageRecord(ms, prices) ==
    [messageCount |-> Cardinality({m \in ms : m.role = "user"}),
     tokens |-> [k \in Kinds |-> MapThenSumSet(LAMBDA m : TokensOf(m, k), ms)],
     cost |-> MapThenSumSet(
                 LAMBDA m : IF m.model \in DOMAIN prices
                            THEN Cost(prices, m.model, [k \in Kinds |-> TokensOf(m, k)])[1] ELSE 0,
                 ms)]

\* The date a time falls into, of dates given by their starts; 0 when it is earlier.
DateOf(starts, time) == Cardinality({i \in DOMAIN starts : starts[i] <= time})

\* getMessagesUsage and fillMissingDates: providers is <<>> or <<the one asked for>>, and
\* a message without parts is not joined.
MessagesUsage(ms, project, providers, prices, starts, since) ==
    LET counted == {m \in ms : /\ m.project = project /\ m.at >= since /\ m.rows # <<>>
                               /\ providers = <<>> \/ <<m.provider>> = providers}
    IN [i \in DOMAIN starts |->
           UsageRecord({m \in counted : DateOf(starts, m.at) = i}, prices)]

-----------------------------------------------------------------------------
(* searchUserChats, on <<[id, user, title, hits]>> in the order of their update, the   *)
(* latest first: whether the title matches, and how many parts do.                  *)

FirstN(seq, n) == SubSeq(seq, 1, IF Len(seq) < n THEN Len(seq) ELSE n)

SearchUserChats(chats, user, limit) ==
    LET own == SelectSeq(chats, LAMBDA c : c.user = user)
        titles == FirstN(SelectSeq(own, LAMBDA c : c.title), limit)
        parts == FlattenSeq([i \in DOMAIN own |-> [j \in 1 .. own[i].hits |-> own[i]]])
        found == FoldLeft(LAMBDA got, c : IF Contains(got, c) THEN got ELSE Append(got, c),
                          titles, FirstN(parts, 2 * limit))
    IN FirstN(found, limit)

-----------------------------------------------------------------------------
(***************************************************************************)
(* Facts                                                                    *)
(***************************************************************************)

Postgres == PgUsers @@ PgChats @@ PgProjects
Sqlite == SqliteUsers @@ SqliteChats @@ SqliteProjects

\* The rows of db deleted with those of gone, up to the longest chain of references.
Deleted(schema, db, gone) ==
    LET Refers(row, to) == \E column \in DOMAIN schema[row.table].refs :
                              /\ schema[row.table].refs[column] = to.table
                              /\ row.refs[column] = to.id
    IN FoldLeft(LAMBDA out, i : out \cup {row \in db : \E to \in out : Refers(row, to)},
                gone, [i \in 1 .. Cardinality(DOMAIN schema) |-> i])

\* Both dialects of the schema say the same, every reference is to a table it has and
\* must be given unless it is the organization of a project, and no table refers back
\* to itself, so deleting a row always ends.
SchemaIsSound ==
    /\ Postgres = Sqlite
    /\ \A t \in DOMAIN Postgres : \A column \in DOMAIN Postgres[t].refs :
          /\ Postgres[t].refs[column] \in DOMAIN Postgres
          /\ <<t, column>> # <<"project", "orgId">> => column \in Postgres[t].required
    /\ LET rows == {[table |-> t, id |-> t, refs |-> Postgres[t].refs] : t \in DOMAIN Postgres}
           Row(t) == CHOOSE row \in rows : row.table = t
       IN \A row \in rows : \A to \in Deleted(Postgres, rows, {row}) :
             \A column \in DOMAIN row.refs : to # Row(row.refs[column])

\* A deletion leaves no row that refers to one it deleted, and of the others' chats,
\* messages and settings it deletes none.
DeletionIsExact(db, gone) ==
    LET out == Deleted(Postgres, db, {gone})
        Targets(row) == {to \in db : \E column \in DOMAIN Postgres[row.table].refs :
                            /\ Postgres[row.table].refs[column] = to.table
                            /\ row.refs[column] = to.id}
    IN /\ \A row \in db \ out : Targets(row) \cap out = {}
       /\ \A row \in out \ {gone} : Targets(row) \cap out # {}

\* A message is refused when none of its parts is kept.  What the tables keep of it
\* passes their checks; read back in any order of its rows it has the same texts,
\* reasonings and tool calls, and in the order they were stored it has them in their
\* order, whatever was left out between them.
PartsSurvive(m, tokens) ==
    LET result == StoredParts(m.parts, tokens)
        stored == IF result = <<>> THEN <<>> ELSE result[1]
        rows == [i \in DOMAIN stored |-> [message |-> m.id, role |-> m.role, part |-> stored[i]]]
        kept == SelectSeq(m.parts, LAMBDA p : IsToolType(p.type) \/ p.type \in {"text", "reasoning"})
        InAnyOrder(got) == \/ got = <<>> /\ kept = <<>>
                           \/ Len(got) = 1 /\ Len(got[1].parts) = Len(kept)
                              /\ ToSet(got[1].parts) = ToSet(kept)
    IN /\ (result = <<>>) = (kept = <<>> /\ m.parts # <<>>)
       /\ \A i \in DOMAIN stored : RowIsValid(stored[i])
       /\ \A i, j \in DOMAIN stored : i < j => stored[i].order < stored[j].order
       /\ Loaded(rows) = IF kept = <<>> THEN <<>> ELSE <<[id |-> m.id, role |-> m.role, parts |-> kept]>>
       /\ InAnyOrder(Loaded(Reverse(rows)))

\* Each answer given to the model has a text and no suggestion, each question is as it
\* was asked, and preparing them again changes nothing.
PreparedIsComplete(messages) ==
    LET ready == Prepared(messages)
    IN /\ Prepared(ready) = ready
       /\ \A i \in DOMAIN messages :
             IF messages[i].role = "assistant"
             THEN /\ HasText(ready[i].parts)
                  /\ \A p \in ToSet(ready[i].parts) : p.type # "tool-suggest_follow_ups"
             ELSE ready[i] = messages[i]

\* No step sets more than two breakpoints, and the last message of a loop has one.
CacheIsBounded(provider, roles) ==
    LET points == CacheBreakpoints(provider, roles)
    IN /\ Cardinality(points) <= 2 /\ points \subseteq DOMAIN roles
       /\ provider = "anthropic" /\ Len(roles) > 1 => Len(roles) \in points

\* The report counts the tokens of an answer once for each of its texts and
\* reasonings: right for an answer of one text, nothing for one of tool calls only.
UsageIsPerPart(m, tokens, prices) ==
    LET rows == ToDBParts(m.parts, <<tokens>>)
        stored == [id |-> "m", project |-> "p", role |-> "assistant", provider |-> "a",
                   model |-> m.model, at |-> 0, rows |-> rows]
        times == Cardinality({i \in DOMAIN m.parts : m.parts[i].type \in {"text", "reasoning"}})
        got == MessagesUsage({stored}, "p", <<>>, prices, <<0>>, 0)[1]
    IN /\ \A k \in Kinds : got.tokens[k] = times * tokens[k]
       /\ m.model \in DOMAIN prices => got.cost = times * Cost(prices, m.model, tokens)[1]

\* A message is in the report of its date, if it has parts and is not older than the
\* report looks back; asked for one provider the report counts no question at all.
ReportIsComplete(ms, starts, since) ==
    LET all == MessagesUsage(ms, "p", <<>>, [model \in {} |-> NoTokens], starts, since)
        one == MessagesUsage(ms, "p", <<"a">>, [model \in {} |-> NoTokens], starts, since)
    IN \A i \in DOMAIN starts :
          /\ all[i].messageCount =
                Cardinality({m \in ms : /\ m.role = "user" /\ m.project = "p" /\ m.rows # <<>>
                                        /\ DateOf(starts, m.at) = i /\ m.at >= since})
          /\ one[i].messageCount = 0

\* The dates of a report begin after it looks back, so no date is cut: true of hours
\* and days, and of months only when the last twelve began within 360 days.
NoDateIsCut(starts, since) == \A i \in DOMAIN starts : starts[i] >= since

\* A search finds a user's own chats, each once and those by title first, and leaves a
\* match out only when it is full or other matches filled the rows it read.
SearchIsSound(chats, user, limit) ==
    LET found == SearchUserChats(chats, user, limit)
        own == {c \in ToSet(chats) : c.user = user}
        matches == {c \in own : c.title \/ c.hits > 0}
        rows == MapThenSumSet(LAMBDA c : c.hits, own)
    IN /\ ToSet(found) \subseteq matches /\ Len(found) <= limit
       /\ Cardinality(ToSet(found)) = Len(found)
       /\ \A i, j \in DOMAIN found : i < j /\ found[j].title => found[i].title
       /\ matches \subseteq ToSet(found) \/ Len(found) = limit \/ rows > 2 * limit
=============================================================================
