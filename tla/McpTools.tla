------------------------------ MODULE McpTools ------------------------------
(***************************************************************************)
(* The tools of MCP servers as a chat agent sees and calls them             *)
(* (apps/backend/src/services/mcp.service.ts and correlation.ts, the names   *)
(* and schemas of utils/tools.ts), as pure functions.                       *)
(*                                                                          *)
(*   name    a sequence of characters: how names are joined and split is     *)
(*           what decides which tool is called                               *)
(*   args    a function from names of fields to values                      *)
(*   service [tools, owner, failed, shown]: what McpService keeps            *)
(* What may be absent is <<value>> or <<>>.                                  *)
(***************************************************************************)
EXTENDS Integers, Sequences, FiniteSets, SequencesExt, TLC

CONSTANTS
    Correlated,     \* CORRELATED_TOOLS, as names
    BaseTools       \* the names of the agent's own tools

Separator == <<"_", "_">>

PrefixToolName(server, tool) == server \o Separator \o tool

\* removePrefixToolName: what is behind the first separator.
RemovePrefix(name) ==
    LET at == {i \in 1 .. Len(name) - 1 : SubSeq(name, i, i + 1) = Separator}
        cut == CHOOSE i \in at : \A j \in at : i <= j
    IN IF at = {} THEN name ELSE SubSeq(name, cut + 2, Len(name))

\* cacheMcpTools: the name the agent sees.
ToolName(server, tool) ==
    IF IsPrefix(server, tool) THEN tool ELSE PrefixToolName(server, tool)

-----------------------------------------------------------------------------
(* correlation.ts *)

CorrelationFields == {"case_id", "request_id"}

Drop(f, names) == [x \in DOMAIN f \ names |-> f[x]]

\* injectCorrelation; caseId is <<>> or <<the id of the turn>>.
InjectCorrelation(name, args, caseId, fresh) ==
    IF name \notin Correlated THEN args
    ELSE IF caseId = <<>> THEN Drop(args, CorrelationFields)
    ELSE Drop(args, CorrelationFields) @@ [case_id |-> caseId[1], request_id |-> fresh]

\* stripCorrelationSchema: only the top level has them.
StripCorrelation(schema) ==
    [schema EXCEPT !.properties = IF @ = <<>> THEN <<>> ELSE <<Drop(@[1], CorrelationFields)>>,
                   !.required = IF @ = <<>> THEN @ ELSE <<@[1] \ CorrelationFields>>]

\* sanitizeTools, on [type, required, items, properties]; required is <<>> when it is null.
RECURSIVE Sanitize(_)
Sanitize(schema) ==
    [schema EXCEPT
        !.required = IF @ = <<>> THEN <<{}>> ELSE @,
        !.items = IF @ # <<>> THEN <<Sanitize(@[1])>>
                  ELSE IF schema.type = "array"
                  THEN <<[type |-> "any", required |-> <<{}>>, items |-> <<>>, properties |-> <<>>]>>
                  ELSE <<>>,
        !.properties = IF @ = <<>> THEN <<>>
                       ELSE <<[p \in DOMAIN @[1] |-> Sanitize(@[1][p])]>>]

\* The schema of a tool as the model is given it.
ShownSchema(server, tool, schema) ==
    Sanitize(IF RemovePrefix(ToolName(server, tool)) \in Correlated
             THEN StripCorrelation(schema) ELSE schema)

-----------------------------------------------------------------------------
(* McpService *)

NewService == [tools |-> {}, owner |-> <<>>, failed |-> {}, shown |-> <<>>]

\* _cacheMcpState: what the settings page shows of each server.
CachedState(names, tools, owner, failed) ==
    [s \in names |-> [tools |-> {n \in tools : owner[n] = s}, error |-> s \in failed]]

\* loadMcpState, with one connection ending after the other: servers is
\* <<[name, tools, up]>>.  The tools are built anew, owners and failures are kept.
Load(service, servers) ==
    LET connected == SelectSeq(servers, LAMBDA s : s.up)
        NamesOf(s) == {ToolName(s.name, t) : t \in s.tools}
        tools == UNION {NamesOf(s) : s \in ToSet(connected)}
        owner == FoldLeft(LAMBDA own, s : [n \in NamesOf(s) |-> s.name] @@ own,
                          service.owner, connected)
        failed == service.failed \cup {s.name : s \in ToSet(servers) \ ToSet(connected)}
    IN [tools |-> tools, owner |-> owner, failed |-> failed,
        shown |-> CachedState({s.name : s \in ToSet(servers)}, tools, owner, failed)]

\* _callTool: the server, the name it is called by there, and its arguments.
CallTool(service, name, args, caseId, fresh) ==
    IF name \notin DOMAIN service.owner THEN <<>>
    ELSE LET bare == RemovePrefix(name)
         IN <<[server |-> service.owner[name], tool |-> bare,
               args |-> InjectCorrelation(bare, args, caseId, fresh)]>>

\* getTools: a tool of a server goes before the agent's own one.
ToolsOf(service) ==
    [n \in BaseTools \cup service.tools |-> IF n \in service.tools THEN "mcp" ELSE "own"]

-----------------------------------------------------------------------------
(***************************************************************************)
(* Facts                                                                    *)
(***************************************************************************)

Separated(name) == \E i \in 1 .. Len(name) - 1 : SubSeq(name, i, i + 1) = Separator

\* A tool is called by the name its server listed, exactly when the separator is not
\* in the server's name or at its end, or for a name that begins with the server's,
\* not in the tool's.
CalledAsListed(server, tool) ==
    (RemovePrefix(ToolName(server, tool)) = tool) =
        IF IsPrefix(server, tool) THEN ~Separated(tool) ELSE ~Separated(server \o <<"_">>)

\* Tools are taken for each other only when the name of one server begins with the
\* other's, or when a server lists a name with and without its own before it.
NamesStayApart(s1, t1, s2, t2) ==
    ToolName(s1, t1) = ToolName(s2, t2) /\ <<s1, t1>> # <<s2, t2>> =>
        \/ s1 # s2 /\ (IsPrefix(s1, s2) \/ IsPrefix(s2, s1))
        \/ s1 = s2 /\ (t1 = PrefixToolName(s1, t2) \/ t2 = PrefixToolName(s2, t1))

\* A call of a correlated tool carries the ids of the turn, or none, whatever the
\* model gave, and else what it gave; its schema does not show them.
ModelNeverCorrelates(server, tool, args, caseId, schema) ==
    LET service == Load(NewService, <<[name |-> server, tools |-> {tool}, up |-> TRUE]>>)
        call == CallTool(service, ToolName(server, tool), args, caseId, "fresh")[1]
        shown == ShownSchema(server, tool, schema)
    IN tool \in Correlated /\ RemovePrefix(ToolName(server, tool)) = tool =>
          /\ Drop(call.args, CorrelationFields) = Drop(args, CorrelationFields)
          /\ caseId = <<>> => DOMAIN call.args \cap CorrelationFields = {}
          /\ caseId # <<>> => call.args["case_id"] = caseId[1] /\ call.args["request_id"] = "fresh"
          /\ shown.required[1] \cap CorrelationFields = {}
          /\ shown.properties # <<>> => DOMAIN shown.properties[1] \cap CorrelationFields = {}

RECURSIVE IsStrict(_)
IsStrict(schema) ==
    /\ schema.required # <<>>
    /\ schema.type = "array" => schema.items # <<>>
    /\ schema.items # <<>> => IsStrict(schema.items[1])
    /\ schema.properties # <<>> =>
          \A p \in DOMAIN schema.properties[1] : IsStrict(schema.properties[1][p])

\* A sanitized schema has items in every array and no null in required, at any depth,
\* and a schema that is so already stays as it is.
SanitizeIsExact(schema) ==
    /\ IsStrict(Sanitize(schema))
    /\ IsStrict(schema) => Sanitize(schema) = schema
    /\ Sanitize(Sanitize(schema)) = Sanitize(schema)

\* After loads of any outcome: the tools offered are those of the last load and each
\* can be called, at a server that lists it now; a server that once failed is shown
\* with its error for good, its tools beside it.
LoadsAddUp(one, other) ==
    LET service == Load(Load(NewService, one), other)
        up == {s \in ToSet(other) : s.up}
        Down(servers) == {s.name : s \in {t \in ToSet(servers) : ~t.up}}
    IN /\ \A n \in service.tools :
             \E s \in up : service.owner[n] = s.name /\ \E t \in s.tools : n = ToolName(s.name, t)
       /\ \A s \in up : \A t \in s.tools : ToolName(s.name, t) \in service.tools
       /\ \A s \in DOMAIN service.shown :
             service.shown[s].error = (s \in Down(one) \cup Down(other))

\* A tool of the agent's own is hidden only by a server whose name its name begins with.
OwnToolsStay(servers) ==
    LET tools == ToolsOf(Load(NewService, servers))
    IN \A n \in BaseTools :
          tools[n] = "own" \/ \E s \in ToSet(servers) : IsPrefix(s.name, n)
=============================================================================
