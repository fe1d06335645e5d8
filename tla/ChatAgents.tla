------------------------------ MODULE ChatAgents ------------------------------
(***************************************************************************)
(* Chats of the backend and the agents that answer in them: POST /agent     *)
(* (routes/chat.ts), a mention in Slack (routes/slack.ts and                *)
(* services/slack.service.ts), stop and delete (trpc/chat.routes.ts), the    *)
(* registry of running agents (services/agent.service.ts) and the tables     *)
(* (queries/chat.queries.ts).                                               *)
(*                                                                          *)
(* A post is one request with one question.  It is cut at every await, and   *)
(* what one process does between two awaits is one step.  All posts are by   *)
(* the owner of the chat.                                                   *)
(* External: the database, the model provider, Slack, the browser.          *)
(***************************************************************************)
EXTENDS Naturals, FiniteSets

CONSTANTS
    Chats,          \* ids of chats; each is given out once
    Posts,
    Threads,        \* Slack threads
    Kind,           \* [Posts -> {"chat", "slack"}]
    MessageId,      \* [Posts -> ids the browser chose]; a retry has the same one
    Null,
    MaxRestarts,    \* bound
    MaxFaults       \* bound on statements and model calls that fail

ASSUME ChatAgentsAssumptions ==
    /\ Kind \in [Posts -> {"chat", "slack"}]
    /\ MaxRestarts \in Nat /\ MaxFaults \in Nat
    /\ Null \notin Chats

VARIABLES
    used,           \* chats that were ever created
    chats,          \* table chat: those not deleted
    threadOf,       \* column slack_thread_id
    messages,       \* table chat_message: [chat, post, role, id]
    posts,          \* [pc, chat, thread, before, history, aborted]
    registry,       \* _agents: chat -> the post whose agent it is
    overlapped,     \* chats in which an agent was made before the last one ended
    restarts, faults

tables == <<used, chats, threadOf, messages>>
vars == <<tables, posts, registry, overlapped, restarts, faults>>

Idle == [pc |-> "idle", chat |-> Null, thread |-> Null, before |-> {}, history |-> {},
         aborted |-> FALSE]

Init ==
    /\ used = {} /\ chats = {} /\ messages = {}
    /\ threadOf = [ch \in Chats |-> Null]
    /\ posts = [p \in Posts |-> Idle]
    /\ registry = [ch \in {} |-> Null]
    /\ overlapped = {}
    /\ restarts = 0 /\ faults = 0

At(p, pc) == posts[p].pc = pc
Goes(p, pc) == posts' = [posts EXCEPT ![p].pc = pc]
Fault == faults < MaxFaults /\ faults' = faults + 1

MessagesOf(ch) == {m \in messages : m.chat = ch}
Without(ch) == [c \in DOMAIN registry \ {ch} |-> registry[c]]

-----------------------------------------------------------------------------
(* The question *)

\* The ids of createChat and of Slack are made here, so none is taken.
IdOf(p, ch) == IF Kind[p] = "slack" \/ ch \notin chats THEN p ELSE MessageId[p]

Question(p, ch) == [chat |-> ch, post |-> p, role |-> "user", id |-> IdOf(p, ch)]

Saved(p, ch) ==
    /\ messages' = messages \cup {Question(p, ch)}
    /\ posts' = [posts EXCEPT ![p].pc = "saved", ![p].chat = ch,
                              ![p].before = MessagesOf(ch)]

\* createChat: the chat and its first message, in one transaction.
CreateChat(p, ch, thread) ==
    /\ ch \in Chats \ used
    /\ used' = used \cup {ch} /\ chats' = chats \cup {ch}
    /\ threadOf' = [threadOf EXCEPT ![ch] = thread]
    /\ Saved(p, ch)

\* Mutant of UpsertMessage: a message that is there already is no error.
UpsertMessageIfNew(p, ch) ==
    /\ ch \in chats
    /\ \/ /\ \A m \in messages : m.id # IdOf(p, ch)
          /\ Saved(p, ch)
       \/ /\ \E m \in messages : m.id = IdOf(p, ch)
          /\ posts' = [posts EXCEPT ![p].pc = "saved", ![p].chat = ch]
          /\ UNCHANGED messages
    /\ UNCHANGED <<used, chats, threadOf>>

\* upsertMessage: an insert that meets its own id returns no row, and the row is
\* used, so that the transaction fails.
UpsertMessage(p, ch) ==
    /\ ch \in chats
    /\ \A m \in messages : m.id # IdOf(p, ch)
    /\ Saved(p, ch)
    /\ UNCHANGED <<used, chats, threadOf>>

NewChat(p) ==
    /\ At(p, "idle") /\ Kind[p] = "chat"
    /\ \E ch \in Chats : CreateChat(p, ch, Null)
    /\ UNCHANGED <<registry, overlapped, restarts, faults>>

PostToChat(p, ch) ==
    /\ At(p, "idle") /\ Kind[p] = "chat"
    /\ ch \in used
    /\ UpsertMessage(p, ch)
    /\ UNCHANGED <<registry, overlapped, restarts, faults>>

\* getChatBySlackThread: one of the chats of the thread, or none.
Mention(p, thread) ==
    /\ At(p, "idle") /\ Kind[p] = "slack"
    /\ LET found == {ch \in chats : threadOf[ch] = thread}
       IN \E ch \in IF found = {} THEN {Null} ELSE found :
             posts' = [posts EXCEPT ![p].pc = "looked", ![p].chat = ch,
                                    ![p].thread = thread]
    /\ UNCHANGED <<tables, registry, overlapped, restarts, faults>>

SaveMention(p) ==
    /\ At(p, "looked")
    /\ IF posts[p].chat = Null
       THEN \E ch \in Chats : CreateChat(p, ch, posts[p].thread)
       ELSE UpsertMessage(p, posts[p].chat)
    /\ UNCHANGED <<registry, overlapped, restarts, faults>>

\* The request ends with an error: its chat was deleted, or a statement or the
\* choice of a model failed.
PostFails(p) ==
    /\ \/ posts[p].pc \in {"looked", "saved"} /\ posts[p].chat \in used \ chats
             /\ UNCHANGED faults
       \/ posts[p].pc \in {"looked", "saved", "creating"} /\ Fault
    /\ Goes(p, "failed")
    /\ UNCHANGED <<tables, registry, overlapped, restarts>>

-----------------------------------------------------------------------------
(* The agent *)

\* loadChat
Load(p) ==
    /\ At(p, "saved")
    /\ posts[p].chat \in chats
    /\ posts' = [posts EXCEPT ![p].pc = "loaded", ![p].history = MessagesOf(posts[p].chat)]
    /\ UNCHANGED <<tables, registry, overlapped, restarts, faults>>

Active == {"creating", "streaming", "ending", "answered"}

\* create(), up to its first await: _disposeAgent stops and forgets the agent of
\* the chat that is there.
Create(p) ==
    /\ At(p, "loaded")
    /\ LET ch == posts[p].chat
           stopped == IF ch \in DOMAIN registry THEN {registry[ch]} ELSE {}
       IN /\ posts' = [q \in Posts |->
                          IF q = p THEN [posts[q] EXCEPT !.pc = "creating"]
                          ELSE IF q \in stopped THEN [posts[q] EXCEPT !.aborted = TRUE]
                          ELSE posts[q]]
          /\ registry' = Without(ch)
          /\ overlapped' = IF \E q \in Posts : posts[q].chat = ch /\ posts[q].pc \in Active
                           THEN overlapped \cup {ch} ELSE overlapped
    /\ UNCHANGED <<tables, restarts, faults>>

\* The rest of create(), and stream().
Register(p) ==
    /\ At(p, "creating")
    /\ registry' = [c \in DOMAIN registry \cup {posts[p].chat} |->
                       IF c = posts[p].chat THEN p ELSE registry[c]]
    /\ Goes(p, "streaming")
    /\ UNCHANGED <<tables, overlapped, restarts, faults>>

\* The stream ends: the answer is complete, stopped or an error.
StreamEnds(p) ==
    /\ At(p, "streaming")
    /\ Goes(p, "ending")
    /\ UNCHANGED <<tables, registry, overlapped, restarts, faults>>

\* onFinish
SaveAnswer(p) ==
    /\ At(p, "ending")
    /\ posts[p].chat \in chats
    /\ messages' = messages \cup {[chat |-> posts[p].chat, post |-> p,
                                   role |-> "assistant", id |-> <<p>>]}
    /\ Goes(p, "answered")
    /\ UNCHANGED <<used, chats, threadOf, registry, overlapped, restarts, faults>>

\* onFinish throws: there is no usage to wait for, the chat was deleted or the
\* insert fails.  Nothing takes the agent out of the registry.
AnswerIsLost(p) ==
    /\ At(p, "ending")
    /\ (posts[p].chat \notin chats /\ UNCHANGED faults) \/ Fault
    /\ Goes(p, "lost")
    /\ UNCHANGED <<tables, registry, overlapped, restarts>>

\* Mutant of Dispose: the agent stays in the registry.
DisposeNothing(p) ==
    /\ At(p, "answered")
    /\ Goes(p, "over")
    /\ UNCHANGED <<tables, registry, overlapped, restarts, faults>>

\* _onDispose forgets the agent of the chat, whose it may be.
Dispose(p) ==
    /\ At(p, "answered")
    /\ registry' = Without(posts[p].chat)
    /\ Goes(p, "over")
    /\ UNCHANGED <<tables, overlapped, restarts, faults>>

-----------------------------------------------------------------------------
(* The user and the process *)

Stop(ch) ==
    /\ ch \in DOMAIN registry
    /\ posts' = [posts EXCEPT ![registry[ch]].aborted = TRUE]
    /\ UNCHANGED <<tables, registry, overlapped, restarts, faults>>

\* deleteChat: the messages go with it, its agent does not.
DeleteChat(ch) ==
    /\ ch \in chats
    /\ chats' = chats \ {ch}
    /\ messages' = messages \ MessagesOf(ch)
    /\ UNCHANGED <<used, threadOf, posts, registry, overlapped, restarts, faults>>

Restart ==
    /\ restarts < MaxRestarts
    /\ restarts' = restarts + 1
    /\ posts' = [p \in Posts |->
                    IF posts[p].pc \in {"idle", "over"} THEN posts[p]
                    ELSE [posts[p] EXCEPT !.pc = "failed"]]
    /\ registry' = [ch \in {} |-> Null]
    /\ UNCHANGED <<tables, overlapped, faults>>

-----------------------------------------------------------------------------

Answering(p) ==
    \/ Load(p) \/ Create(p) \/ Register(p) \/ StreamEnds(p)
    \/ SaveAnswer(p) \/ AnswerIsLost(p) \/ Dispose(p)

Next ==
    \/ \E p \in Posts : NewChat(p) \/ SaveMention(p) \/ PostFails(p) \/ Answering(p)
    \/ \E p \in Posts, ch \in Chats : PostToChat(p, ch)
    \/ \E p \in Posts, t \in Threads : Mention(p, t)
    \/ \E ch \in Chats : Stop(ch) \/ DeleteChat(ch)
    \/ Restart

Spec == Init /\ [][Next]_vars

-----------------------------------------------------------------------------
(***************************************************************************)
(* Properties                                                               *)
(***************************************************************************)

PCs == {"idle", "looked", "saved", "loaded", "failed", "lost", "over"} \cup Active

TypeOK ==
    /\ chats \subseteq used /\ used \subseteq Chats
    /\ threadOf \in [Chats -> Threads \cup {Null}]
    /\ \A m \in messages : m.chat \in chats /\ m.post \in Posts
    /\ DOMAIN posts = Posts
    /\ \A p \in Posts : posts[p].pc \in PCs /\ posts[p].chat \in used \cup {Null}
    /\ DOMAIN registry \subseteq used
    /\ overlapped \subseteq used

\* The registry is what stop() and the next post go by.  An agent in it belongs
\* to that chat and has not ended, unless its answer could not be saved; and an
\* agent that runs is in it, unless it was made while another agent of the chat
\* had not ended: then the end of the older one, or the other create(), may have
\* put it out of reach.
RegistryIsTrue ==
    /\ \A ch \in DOMAIN registry :
          posts[registry[ch]].chat = ch /\ posts[registry[ch]].pc # "over"
    /\ \A p \in Posts :
          (posts[p].pc \in Active \ {"creating"} /\ posts[p].chat \notin overlapped) =>
              posts[p].chat \in DOMAIN registry /\ registry[posts[p].chat] = p

\* However posts, retries, stops, deletions and failures interleave, an answer
\* stands in the chat of its own question, and was given by an agent that had
\* read it and all that stood in the chat before it; nothing is saved in a chat
\* that was deleted.
AnswersFollowQuestions ==
    \A m \in messages :
        /\ m.chat \in chats
        /\ m.role = "assistant" =>
              LET post == posts[m.post]
                  asked == {q \in MessagesOf(m.chat) : q.role = "user" /\ q.post = m.post}
              IN asked # {} /\ asked \cup post.before \subseteq post.history
=============================================================================
