------------------------------ MODULE ChatClient ------------------------------
(***************************************************************************)
(* The chat in the browser: which chat instance a route shows and which      *)
(* answer goes to which chat (hooks/use-agent.ts and services/agents.ts of    *)
(* apps/frontend), and how messages are shown (lib/ai.ts,                    *)
(* lib/messages.utils.ts and components/chat-messages.tsx).                  *)
(*                                                                          *)
(*   chat      0 for none ("new-chat" as an agent's id), else a number       *)
(*   instance  [id, to, running]: its agentId, the chat of its last message   *)
(*             and whether it waits for or reads an answer                   *)
(*   client    [route, instances, agents, view, chats]: the chat on screen,   *)
(*             every instance made, the map of agentService (from ids to      *)
(*             instances), the instance on screen, and how many chats exist   *)
(*   part      [type, tool, state, text, output]                             *)
(***************************************************************************)
EXTENDS Integers, Sequences, FiniteSets, SequencesExt

New == 0

\* A tab opened on a new chat, with n chats of the user.
Client(n) ==
    [route |-> New, instances |-> <<[id |-> New, to |-> New, running |-> FALSE]>>,
     agents |-> [k \in {New} |-> 1], view |-> 1, chats |-> n]

Registered(agents, id, i) == [k \in DOMAIN agents \cup {id} |-> IF k = id THEN i ELSE agents[k]]
Disposed(agents, id) == [k \in DOMAIN agents \ {id} |-> agents[k]]
Moved(agents, from, to) ==
    IF from \in DOMAIN agents THEN Registered(Disposed(agents, from), to, agents[from]) ELSE agents

\* agentInstance of useAgent: the agent of the chat, or a new one.
Show(c, chat) ==
    LET i == Len(c.instances) + 1
    IN IF chat \in DOMAIN c.agents
       THEN [c EXCEPT !.route = chat, !.view = c.agents[chat]]
       ELSE [c EXCEPT !.route = chat, !.view = i,
                      !.instances = Append(@, [id |-> chat, to |-> New, running |-> FALSE]),
                      !.agents = Registered(@, chat, i)]

\* The route changes; useDisposeInactiveAgents drops the agent of the chat that is left,
\* unless it runs.
Open(c, chat) ==
    LET shown == Show(c, chat)
        left == c.route
    IN IF left # New /\ left \in DOMAIN shown.agents /\ ~c.instances[shown.agents[left]].running
       THEN [shown EXCEPT !.agents = Disposed(@, left)]
       ELSE shown

\* sendMessage: refused while the instance on screen runs; the chat is the one of the route.
Send(c) ==
    IF c.instances[c.view].running THEN c
    ELSE [c EXCEPT !.instances[c.view].running = TRUE, !.instances[c.view].to = c.route]

\* onData: the server made the chat of instance i's message.
Data(c, i) ==
    LET chat == c.chats + 1
    IN Open([c EXCEPT !.chats = chat,
                      !.agents = Moved(@, c.instances[i].id, chat),
                      !.instances[i].id = chat, !.instances[i].to = chat], chat)

\* The answer ends or fails, or the user stops it; onFinish.  No route is not "new-chat".
End(c, i) ==
    LET id == c.instances[i].id
    IN [c EXCEPT !.instances[i].running = FALSE,
                 !.agents = IF c.route = New \/ c.route # id THEN Disposed(@, id) ELSE @]

\* What may happen next; failing: also the failure of a message before its chat is made.
ClientSteps(c, failing) ==
    {Open(c, chat) : chat \in (0 .. c.chats) \ {c.route}} \cup {Send(c)}
    \cup {Data(c, i) : i \in {j \in DOMAIN c.instances :
                                 c.instances[j].running /\ c.instances[j].to = New}}
    \cup {End(c, i) : i \in {j \in DOMAIN c.instances :
                                c.instances[j].running /\ (failing \/ c.instances[j].to # New)}}

-----------------------------------------------------------------------------
(* lib/ai.ts, on parts; a tool part has a tool *)

IsTool(part) == part.type \in {"tool", "dynamic-tool"}
IsToolSettled(part) == part.state \in {"output-available", "output-denied", "output-error"}

\* isMessageSettled, which is true of a message that is not.
IsUnsettled(parts) ==
    \E i \in DOMAIN parts :
        parts[i].state = "streaming" \/ (IsTool(parts[i]) /\ ~IsToolSettled(parts[i]))

IsRunning(status) == status \in {"streaming", "submitted"}

\* checkIsAgentGenerating; messages are [role, parts].
IsGenerating(status, messages) ==
    IsRunning(status) /\ messages # <<>> /\ IsUnsettled(Last(messages).parts)

NonCollapsibleTools == {"display_chart", "suggest_follow_ups", "execute_python"}

IsCollapsible(part) ==
    part.type = "reasoning" \/ (IsTool(part) /\ part.tool \notin NonCollapsibleTools)

\* groupToolCalls: each item is the parts shown as one.
GroupToolCalls(parts) ==
    LET Flush(acc) == IF acc.group = <<>> THEN acc.items ELSE Append(acc.items, acc.group)
        Next(acc, part) ==
            IF IsCollapsible(part) THEN [acc EXCEPT !.group = Append(@, part)]
            ELSE IF part.type = "text" \/ IsTool(part)
            THEN [items |-> Append(Flush(acc), <<part>>), group |-> <<>>]
            ELSE acc
    IN Flush(FoldLeft(Next, [items |-> <<>>, group |-> <<>>], parts))

\* ToolCallsGroup: is a group shown as still at work?
IsGroupLoading(group, expand) ==
    expand \/ \E i \in DOMAIN group :
        IF group[i].type = "reasoning" THEN group[i].state = "streaming" ELSE ~IsToolSettled(group[i])

\* getLastFollowUpSuggestions, of the last message; the suggestions are the part's text.
FollowUps(messages) ==
    LET parts == IF messages = <<>> THEN <<>> ELSE Last(messages).parts
        at == SelectInSeq(parts, LAMBDA p : p.type = "tool" /\ p.tool = "suggest_follow_ups")
        loading == at # 0 /\ parts[at].state = "input-streaming"
    IN [suggestions |-> IF at = 0 \/ loading THEN <<>> ELSE parts[at].text, isLoading |-> loading]

\* groupMessages: each group is a question and its answers.
GroupMessages(messages) ==
    LET Next(groups, m) ==
            IF m.role = "user" THEN Append(groups, <<m>>)
            ELSE IF groups = <<>> THEN groups
            ELSE [groups EXCEPT ![Len(groups)] = Append(@, m)]
    IN FoldLeft(Next, <<>>, messages)

-----------------------------------------------------------------------------
(* components/chat-messages.tsx *)

\* extractBlockedReasons; output is <<>> or the reasons found in it, outermost first.
BlockedReasons(parts) ==
    {Head(parts[i].output) : i \in {j \in DOMAIN parts : IsTool(parts[j]) /\ parts[j].output # <<>>}}

\* Where the loader of a waiting chat is: below an answer, below a question, or nowhere.
Loader(status, messages) ==
    LET groups == GroupMessages(messages)
    IN IF ~IsRunning(status) \/ IsGenerating(status, messages) \/ groups = <<>> THEN "none"
       ELSE IF Len(Last(groups)) > 1 THEN "answer" ELSE "question"

\* What AssistantMessageBlock tells of an answer besides its parts.
Notice(status, messages, i) ==
    LET parts == messages[i].parts
        settled == ~IsRunning(status) \/ i # Len(messages)
        hasText == \E p \in ToSet(parts) : p.type = "text"
        loader == i = Len(messages) /\ Loader(status, messages) = "answer"
    IN IF parts = <<>> /\ ~loader THEN "nothing"
       ELSE IF ~settled \/ hasText THEN "parts"
       ELSE IF BlockedReasons(parts) # {} THEN "blocked" ELSE "no response"

-----------------------------------------------------------------------------
(***************************************************************************)
(* Facts                                                                    *)
(***************************************************************************)

\* The clients reached in at most n steps.
ClientsWithin(n, chats, failing) ==
    LET reached[k \in 0 .. n] ==
            IF k = 0 THEN {Client(chats)}
            ELSE LET before == reached[k - 1]
                 IN before \cup UNION {ClientSteps(c, failing) : c \in before}
    IN reached[n]

\* Every agent is under its own id and one id, and the one on screen under the route.
AgentsAreKnown(c) ==
    /\ \A k \in DOMAIN c.agents : c.instances[c.agents[k]].id = k
    /\ c.route \in DOMAIN c.agents /\ c.agents[c.route] = c.view

\* An answer is read by the agent of its chat, so the user who returns to the chat
\* finds it, and no chat has two answers at once.
AnswersAreFound(c) ==
    \A i \in DOMAIN c.instances : c.instances[i].running =>
        /\ c.instances[i].id = c.instances[i].to
        /\ c.instances[i].id \in DOMAIN c.agents /\ c.agents[c.instances[i].id] = i

\* What is sent now goes to the chat on screen, and nothing sent before changes.
SendsToTheScreen(c) ==
    LET sent == Send(c)
    IN \A i \in DOMAIN c.instances :
          IF i = c.view /\ ~c.instances[i].running
          THEN sent.instances[i].to = c.route /\ sent.instances[i].id = c.route
          ELSE sent.instances[i] = c.instances[i]

\* Two answers of one chat are made at once.
HasTwoAnswers(c) ==
    \E i, j \in DOMAIN c.instances :
        /\ i # j /\ c.instances[i].running /\ c.instances[j].running
        /\ c.instances[i].to = c.instances[j].to /\ c.instances[i].to # New

\* Nothing of an answer is left out but what is never shown, no group of one, and no
\* two groups that could be one.
GroupingIsExact(parts) ==
    LET items == GroupToolCalls(parts)
    IN /\ FlattenSeq(items) =
             SelectSeq(parts, LAMBDA p : p.type \in {"text", "reasoning", "tool", "dynamic-tool"})
       /\ \A i \in DOMAIN items : Len(items[i]) > 1 => \A p \in ToSet(items[i]) : IsCollapsible(p)
       /\ \A i \in 1 .. Len(items) - 1 :
             ~(IsCollapsible(items[i][1]) /\ IsCollapsible(items[i + 1][1]))

\* From the first question on every message is shown once, in order.
GroupsAreExact(messages) ==
    LET start == SelectInSeq(messages, LAMBDA m : m.role = "user")
    IN FlattenSeq(GroupMessages(messages)) =
          IF start = 0 THEN <<>> ELSE SubSeq(messages, start, Len(messages))

\* A chat that runs shows it: by a part at work in its last message or by the loader
\* at its end, never by both, and only while it runs.
WorkIsShown(status, messages) ==
    LET atWork == messages # <<>> /\ IsUnsettled(Last(messages).parts)
        loader == Loader(status, messages)
    IN messages # <<>> /\ messages[1].role = "user" =>
          IF IsRunning(status)
          THEN /\ atWork # (loader # "none")
               /\ loader # "none" => (loader = "answer") = (Last(messages).role = "assistant")
          ELSE loader = "none"

\* A tool at work in a group shows the group at work.
GroupsShowWork(parts) ==
    \A i \in DOMAIN GroupToolCalls(parts) :
        LET group == GroupToolCalls(parts)[i]
        IN Len(group) > 1 => IsGroupLoading(group, FALSE) = IsUnsettled(group)

\* An answer that governance stopped says why once it has ended, unless it has text;
\* one that is still read never says that there is none.
EndedAnswersExplain(status, messages) ==
    \A i \in DOMAIN messages :
        LET notice == Notice(status, messages, i)
            settled == ~IsRunning(status) \/ i < Len(messages)
        IN /\ notice \in {"blocked", "no response"} => settled
           /\ settled /\ BlockedReasons(messages[i].parts) # {} =>
                 notice = IF \E p \in ToSet(messages[i].parts) : p.type = "text"
                          THEN "parts" ELSE "blocked"

\* Suggestions are offered only below the answer that made them, one row at a time.
FollowUpsAreOfTheEnd(messages) ==
    \A i \in DOMAIN messages :
        LET shown == FollowUps(SubSeq(messages, 1, i))
        IN /\ shown.isLoading => shown.suggestions = <<>>
           /\ shown # FollowUps(<<>>) =>
                 \E p \in ToSet(messages[i].parts) : p.tool = "suggest_follow_ups"
=============================================================================
