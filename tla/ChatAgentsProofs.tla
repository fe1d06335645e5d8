--------------------------- MODULE ChatAgentsProofs ---------------------------
(***************************************************************************)
(* Proofs about ChatAgents.                                                 *)
(*                                                                          *)
(* The invariant has two halves, which meet only in the state of a post.    *)
(* TablesHold is about what a post wrote and read: where its question       *)
(* stands, that its agent has read it, and that both go when the chat goes. *)
(* RegistryHolds is about who answers: while nothing overlapped, a chat has *)
(* one agent that runs, and the registry names it.                          *)
(***************************************************************************)
EXTENDS ChatAgents, TLAPS

Messages ==
    [chat : Chats, post : Posts, role : {"user", "assistant"},
     id : Posts \cup {MessageId[p] : p \in Posts} \cup {<<p>> : p \in Posts}]

PostStates ==
    [pc : PCs, chat : Chats \cup {Null}, thread : Threads \cup {Null},
     before : SUBSET Messages, history : SUBSET Messages, aborted : BOOLEAN]

Types ==
    /\ chats \subseteq used /\ used \subseteq Chats
    /\ threadOf \in [Chats -> Threads \cup {Null}]
    /\ messages \subseteq Messages
    /\ posts \in [Posts -> PostStates]

\* What a post has asked and was not deleted.
Asked(p) == {m \in messages : m.role = "user" /\ m.post = p}

\* An agent that read the chat of its post read the question and all before it.
Read(p) ==
    /\ posts[p].chat \in chats => Asked(p) # {}
    /\ Asked(p) \cup posts[p].before \subseteq posts[p].history

Reading == {"loaded"} \cup Active

MessageHolds(m) ==
    /\ m.chat \in chats /\ m.chat = posts[m.post].chat
    /\ posts[m.post].pc \notin {"idle", "looked"}
    /\ m.role = "assistant" =>
          posts[m.post].pc \in {"answered", "over", "failed"} /\ Read(m.post)

PostHolds(p) ==
    /\ posts[p].pc \notin {"idle", "looked", "failed"} => posts[p].chat \in used
    /\ posts[p].chat \in used \cup {Null}
    /\ (posts[p].pc = "saved" /\ posts[p].chat \in chats) =>
          Asked(p) # {} /\ posts[p].before \subseteq MessagesOf(posts[p].chat)
    /\ posts[p].pc \in Reading => Read(p)

TablesHold ==
    /\ Types
    /\ \A m \in messages : MessageHolds(m)
    /\ \A p \in Posts : PostHolds(p)

\* An agent that was registered, and nothing but a restart has made forgotten.
Registered == (Active \ {"creating"}) \cup {"lost"}

RegistryHolds ==
    /\ DOMAIN registry \subseteq used /\ overlapped \subseteq used
    /\ \A ch \in DOMAIN registry :
          /\ registry[ch] \in Posts
          /\ posts[registry[ch]].chat = ch
          /\ posts[registry[ch]].pc \in Registered
    /\ \A p \in Posts :
          (posts[p].pc \in Active \ {"creating"} /\ posts[p].chat \notin overlapped) =>
              posts[p].chat \in DOMAIN registry /\ registry[posts[p].chat] = p
    /\ \A p, q \in Posts :
          (/\ posts[p].pc \in Active /\ posts[q].pc \in Active
           /\ posts[p].chat = posts[q].chat /\ posts[p].chat \notin overlapped) => p = q

IInv == TablesHold /\ RegistryHolds

-----------------------------------------------------------------------------
(* What is written and read *)

LEMMA TablesBegin == Init => TablesHold
<1> SUFFICES ASSUME Init PROVE TablesHold
  OBVIOUS
<1> USE DEF Init
<1>1. Idle \in PostStates
  BY DEF Idle, PostStates, PCs
<1>2. Types
  BY <1>1 DEF Types
<1>3. \A p \in Posts : PostHolds(p)
  BY DEF PostHolds, Idle, Reading, Active
<1> QED
  BY <1>2, <1>3 DEF TablesHold

\* A post goes on, with its chat, its question and what it read.
Same(p) ==
    /\ posts'[p].chat = posts[p].chat /\ posts'[p].thread = posts[p].thread
    /\ posts'[p].before = posts[p].before /\ posts'[p].history = posts[p].history

Onward(p) ==
    /\ Same(p)
    /\ posts[p].pc \in Reading => posts'[p].pc \in Reading \cup {"lost", "over", "failed"}
    /\ posts[p].pc \notin Reading =>
          \/ posts'[p].pc = posts[p].pc
          \/ posts[p].pc \notin {"idle", "over"} /\ posts'[p].pc = "failed"
    /\ posts[p].pc = "answered" => posts'[p].pc \in {"answered", "over", "failed"}

LEMMA TablesOnward ==
    ASSUME TablesHold, UNCHANGED tables,
           posts' \in [Posts -> PostStates],
           \A p \in Posts : Onward(p)
    PROVE  TablesHold'
<1> USE DEF TablesHold, tables
<1>1. Types'
  BY DEF Types
<1>2. \A p \in Posts : Asked(p)' = Asked(p)
  BY DEF Asked
<1>3. \A p \in Posts : Read(p) => Read(p)'
  BY <1>2 DEF Read, Onward, Same
<1>4. ASSUME NEW m \in messages PROVE MessageHolds(m)'
  <2>1. m.post \in Posts
    BY DEF Types, Messages
  <2>2. MessageHolds(m) /\ Onward(m.post)
    BY <2>1
  <2>3. posts'[m.post].chat = posts[m.post].chat
    BY <2>2 DEF Onward, Same
  <2>4. posts'[m.post].pc \notin {"idle", "looked"}
    BY <2>2 DEF MessageHolds, Onward, Reading, Active
  <2>5. m.role = "assistant" => posts'[m.post].pc \in {"answered", "over", "failed"}
    BY <2>2 DEF MessageHolds, Onward, Reading, Active
  <2>6. m.role = "assistant" => Read(m.post)'
    BY <1>3, <2>1, <2>2 DEF MessageHolds
  <2> QED
    BY <2>2, <2>3, <2>4, <2>5, <2>6 DEF MessageHolds
<1>5. ASSUME NEW p \in Posts PROVE PostHolds(p)'
  <2>1. PostHolds(p) /\ Onward(p) /\ (Read(p) => Read(p)') /\ Asked(p)' = Asked(p)
    BY <1>2, <1>3
  <2>2. MessagesOf(posts[p].chat)' = MessagesOf(posts[p].chat)
    BY <2>1 DEF MessagesOf, Onward, Same
  <2>3. posts'[p].pc \notin {"idle", "looked", "failed"} => posts'[p].chat \in used'
    BY <2>1 DEF PostHolds, Onward, Same, Reading, Active
  <2>4. posts'[p].chat \in used' \cup {Null}
    BY <2>1 DEF PostHolds, Onward, Same
  <2>5. (posts'[p].pc = "saved" /\ posts'[p].chat \in chats') =>
            Asked(p)' # {} /\ posts'[p].before \subseteq MessagesOf(posts[p].chat)'
    BY <2>1, <2>2 DEF PostHolds, Onward, Same, Reading, Active
  <2>6. posts'[p].pc \in Reading => posts[p].pc \in Reading
    BY <2>1 DEF Onward, Reading, Active
  <2> QED
    BY <2>1, <2>3, <2>4, <2>5, <2>6 DEF PostHolds
<1> QED
  BY <1>1, <1>4, <1>5

\* One post's pc moves.
LEMMA GoesOnward ==
    ASSUME TablesHold, UNCHANGED tables, NEW p \in Posts, NEW pc \in PCs, Goes(p, pc),
           \/ posts[p].pc \in Reading /\ pc \in Reading \cup {"lost", "over", "failed"}
           \/ posts[p].pc \in {"looked", "saved"} /\ pc = "failed",
           posts[p].pc = "answered" => pc \in {"answered", "over", "failed"}
    PROVE  TablesHold'
<1>1. posts \in [Posts -> PostStates]
  BY DEF TablesHold, Types
<1>2. posts' = [posts EXCEPT ![p].pc = pc]
  BY DEF Goes
<1>3. posts' \in [Posts -> PostStates]
  BY <1>1, <1>2 DEF PostStates
<1>4. ASSUME NEW q \in Posts PROVE Onward(q)
  <2>1. CASE q = p
    <3>1. Same(q) /\ posts'[q].pc = pc
      BY <1>1, <1>2, <2>1 DEF PostStates, Same
    <3> QED
      BY <2>1, <3>1 DEF Onward, Reading, Active
  <2>2. CASE q # p
    <3>1. posts'[q] = posts[q]
      BY <1>1, <1>2, <2>2
    <3> QED
      BY <3>1 DEF Onward, Same
  <2> QED
    BY <2>1, <2>2
<1> QED
  BY <1>3, <1>4, TablesOnward


\* The question is saved, in a new chat or in one that is there.
LEMMA TablesSaved ==
    ASSUME TablesHold, NEW p \in Posts, NEW ch \in Chats,
           \/ posts[p].pc = "idle"
           \/ posts[p].pc = "looked" /\ posts[p].chat \in {ch, Null},
           Saved(p, ch),
           chats' = chats \cup {ch} /\ used' = used \cup {ch},
           ch \in used => ch \in chats,
           threadOf' \in [Chats -> Threads \cup {Null}]
    PROVE  TablesHold'
<1> DEFINE question == Question(p, ch)
<1>1. /\ question \in Messages
      /\ question.chat = ch /\ question.post = p /\ question.role = "user"
  BY DEF Question, Messages, IdOf
<1> HIDE DEF question
<1>2. posts \in [Posts -> PostStates] /\ messages \subseteq Messages
  BY DEF TablesHold, Types
<1>3. messages' = messages \cup {question}
  BY DEF Saved, question
<1>4. posts' = [posts EXCEPT ![p] = [posts[p] EXCEPT !.pc = "saved", !.chat = ch,
                                                     !.before = MessagesOf(ch)]]
  BY <1>2 DEF Saved, PostStates
<1>5. MessagesOf(ch) \subseteq messages /\ MessagesOf(ch) \subseteq MessagesOf(ch)'
  BY <1>3 DEF MessagesOf
<1>6. /\ posts'[p].pc = "saved" /\ posts'[p].chat = ch
      /\ posts'[p].before = MessagesOf(ch)
      /\ posts' \in [Posts -> PostStates]
  <2>1. MessagesOf(ch) \in SUBSET Messages
    BY <1>2, <1>5
  <2>2. posts[p] \in PostStates
    BY <1>2
  <2> DEFINE saved == [posts[p] EXCEPT !.pc = "saved", !.chat = ch,
                                       !.before = MessagesOf(ch)]
  <2>3. /\ saved \in PostStates
        /\ saved.pc = "saved" /\ saved.chat = ch /\ saved.before = MessagesOf(ch)
    BY <2>1, <2>2 DEF PostStates, PCs
  <2> HIDE DEF saved
  <2> QED
    BY <1>2, <1>4, <2>3 DEF saved
<1>7. \A q \in Posts \ {p} : posts'[q] = posts[q] /\ Asked(q)' = Asked(q)
  BY <1>1, <1>2, <1>3, <1>4 DEF Asked
<1>8. question \in Asked(p)'
  BY <1>1, <1>3 DEF Asked
<1>9. Types'
  BY <1>1, <1>3, <1>6 DEF TablesHold, Types
<1>10. ASSUME NEW m \in messages' PROVE MessageHolds(m)'
  <2>1. CASE m = question
    BY <1>1, <1>6, <2>1 DEF MessageHolds
  <2>2. CASE m # question
    <3>1. m \in messages /\ MessageHolds(m) /\ m.post \in Posts
      BY <1>2, <1>3, <2>2 DEF TablesHold, Messages
    <3>2. m.post # p
      BY <3>1 DEF MessageHolds, TablesHold, Asked
    <3>3. posts'[m.post] = posts[m.post] /\ Asked(m.post)' = Asked(m.post)
      BY <1>7, <3>1, <3>2
    <3>4. m.chat \in chats'
      BY <3>1 DEF MessageHolds
    <3>5. m.role = "assistant" => Read(m.post)'
      <4>1. m.role = "assistant" => Read(m.post) /\ posts[m.post].chat \in chats
        BY <3>1 DEF MessageHolds
      <4> QED
        BY <3>3, <4>1 DEF Read
    <3> QED
      BY <3>1, <3>3, <3>4, <3>5 DEF MessageHolds
  <2> QED
    BY <2>1, <2>2
<1>11. ASSUME NEW q \in Posts PROVE PostHolds(q)'
  <2>1. CASE q = p
    BY <1>5, <1>6, <1>8, <2>1 DEF PostHolds, Reading, Active
  <2>2. CASE q # p
    <3>1. PostHolds(q) /\ posts'[q] = posts[q] /\ Asked(q)' = Asked(q)
      BY <1>7, <2>2 DEF TablesHold
    <3>2. MessagesOf(posts[q].chat) \subseteq MessagesOf(posts[q].chat)'
      BY <1>3, <3>1 DEF MessagesOf
    <3>3. (posts[q].chat \in chats' /\ posts[q].chat \in used) => posts[q].chat \in chats
      OBVIOUS
    <3>4. posts[q].pc \in Reading => posts[q].chat \in used /\ Read(q)
      BY <3>1 DEF PostHolds, Reading, Active
    <3>5. posts[q].pc \in Reading => Read(q)'
      BY <3>1, <3>3, <3>4 DEF Read
    <3>6. (posts[q].pc = "saved" /\ posts[q].chat \in chats') =>
              Asked(q)' # {} /\ posts[q].before \subseteq MessagesOf(posts[q].chat)'
      BY <3>1, <3>2, <3>3 DEF PostHolds
    <3> QED
      BY <3>1, <3>5, <3>6 DEF PostHolds
  <2> QED
    BY <2>1, <2>2
<1> QED
  BY <1>9, <1>10, <1>11 DEF TablesHold

\* getChatBySlackThread
LEMMA TablesMention ==
    ASSUME TablesHold, NEW p \in Posts, NEW thread \in Threads, Mention(p, thread)
    PROVE  TablesHold'
<1>1. PICK ch \in chats \cup {Null} :
          posts' = [posts EXCEPT ![p].pc = "looked", ![p].chat = ch, ![p].thread = thread]
  BY DEF Mention
<1>2. posts \in [Posts -> PostStates] /\ messages \subseteq Messages /\ chats \subseteq used
      /\ used \subseteq Chats
  BY DEF TablesHold, Types
<1>3. posts' = [posts EXCEPT ![p] = [posts[p] EXCEPT !.pc = "looked", !.chat = ch,
                                                     !.thread = thread]]
  BY <1>1, <1>2 DEF PostStates
<1>4. /\ posts'[p].pc = "looked" /\ posts'[p].chat = ch
      /\ posts' \in [Posts -> PostStates]
  BY <1>2, <1>3 DEF PostStates, PCs
<1>5. \A q \in Posts \ {p} : posts'[q] = posts[q]
  BY <1>2, <1>3
<1>6. UNCHANGED tables
  BY DEF Mention
<1>7. Types'
  BY <1>4, <1>6 DEF TablesHold, Types, tables
<1>8. \A q \in Posts : Asked(q)' = Asked(q)
  BY <1>6 DEF Asked, tables
<1>9. posts[p].pc = "idle"
  BY DEF Mention, At
<1>10. ASSUME NEW m \in messages' PROVE MessageHolds(m)'
  <2>1. m \in messages /\ MessageHolds(m) /\ m.post \in Posts
    BY <1>2, <1>6 DEF TablesHold, tables, Messages
  <2>2. m.post # p
    BY <1>9, <2>1 DEF MessageHolds
  <2>3. posts'[m.post] = posts[m.post] /\ Asked(m.post)' = Asked(m.post)
    BY <1>5, <1>8, <2>1, <2>2
  <2> QED
    BY <1>6, <2>1, <2>3 DEF MessageHolds, Read, tables
<1>11. ASSUME NEW q \in Posts PROVE PostHolds(q)'
  <2>1. CASE q = p
    BY <1>2, <1>4, <1>6, <2>1 DEF PostHolds, Reading, Active, tables
  <2>2. CASE q # p
    <3>1. PostHolds(q) /\ posts'[q] = posts[q] /\ Asked(q)' = Asked(q)
      BY <1>5, <1>8, <2>2 DEF TablesHold
    <3> QED
      BY <1>6, <3>1 DEF PostHolds, Read, MessagesOf, tables
  <2> QED
    BY <2>1, <2>2
<1> QED
  BY <1>7, <1>10, <1>11 DEF TablesHold

\* loadChat: what the agent will read is the chat as it stands, question included.
LEMMA TablesLoad == ASSUME TablesHold, NEW p \in Posts, Load(p) PROVE TablesHold'
<1> DEFINE loaded == [posts[p] EXCEPT !.pc = "loaded",
                                      !.history = MessagesOf(posts[p].chat)]
<1>1. /\ posts \in [Posts -> PostStates] /\ messages \subseteq Messages
      /\ posts[p].pc = "saved" /\ posts[p].chat \in chats
      /\ UNCHANGED tables
  BY DEF TablesHold, Types, Load, At
<1>2. MessagesOf(posts[p].chat) \in SUBSET Messages
  BY <1>1 DEF MessagesOf
<1>3. /\ loaded \in PostStates
      /\ loaded.pc = "loaded" /\ loaded.chat = posts[p].chat
      /\ loaded.before = posts[p].before /\ loaded.history = MessagesOf(posts[p].chat)
  <2>1. posts[p] \in PostStates
    BY <1>1
  <2> QED
    BY <1>2, <2>1 DEF PostStates, PCs
<1>4. posts' = [posts EXCEPT ![p] = loaded]
  BY <1>1 DEF Load, PostStates
<1> HIDE DEF loaded
<1>5. posts' \in [Posts -> PostStates] /\ posts'[p] = loaded
  BY <1>1, <1>3, <1>4
<1>6. \A q \in Posts \ {p} : posts'[q] = posts[q]
  BY <1>1, <1>4
<1>7. \A q \in Posts : Asked(q)' = Asked(q)
  BY <1>1 DEF Asked, tables
<1>8. Types'
  BY <1>1, <1>5 DEF TablesHold, Types, tables
<1>9. \A m \in messages : m.post = p => m.chat = posts[p].chat /\ m.role # "assistant"
  BY <1>1 DEF TablesHold, MessageHolds
<1>10. ASSUME NEW m \in messages' PROVE MessageHolds(m)'
  <2>1. m \in messages /\ MessageHolds(m) /\ m.post \in Posts
    BY <1>1 DEF TablesHold, tables, Messages
  <2>2. CASE m.post = p
    BY <1>1, <1>3, <1>5, <1>9, <2>1, <2>2 DEF MessageHolds, tables
  <2>3. CASE m.post # p
    <3>1. posts'[m.post] = posts[m.post] /\ Asked(m.post)' = Asked(m.post)
      BY <1>6, <1>7, <2>1, <2>3
    <3> QED
      BY <1>1, <2>1, <3>1 DEF MessageHolds, Read, tables
  <2> QED
    BY <2>2, <2>3
<1>11. ASSUME NEW q \in Posts PROVE PostHolds(q)'
  <2>1. CASE q = p
    <3>1. Asked(p) # {} /\ posts[p].before \subseteq MessagesOf(posts[p].chat)
          /\ posts[p].chat \in used
      BY <1>1 DEF TablesHold, PostHolds
    <3>2. Asked(p) \subseteq MessagesOf(posts[p].chat)
      BY <1>9 DEF Asked, MessagesOf
    <3>3. Read(p)'
      BY <1>3, <1>5, <1>7, <3>1, <3>2 DEF Read
    <3> QED
      BY <1>1, <1>3, <1>5, <2>1, <3>1, <3>3 DEF PostHolds, tables
  <2>2. CASE q # p
    <3>1. PostHolds(q) /\ posts'[q] = posts[q] /\ Asked(q)' = Asked(q)
      BY <1>6, <1>7, <2>2 DEF TablesHold
    <3> QED
      BY <1>1, <3>1 DEF PostHolds, Read, MessagesOf, tables
  <2> QED
    BY <2>1, <2>2
<1> QED
  BY <1>8, <1>10, <1>11 DEF TablesHold

\* onFinish: the answer stands beside its question.
LEMMA TablesSaveAnswer ==
    ASSUME TablesHold, NEW p \in Posts, SaveAnswer(p)
    PROVE  TablesHold'
<1> DEFINE answer == [chat |-> posts[p].chat, post |-> p, role |-> "assistant",
                      id |-> <<p>>]
<1>1. /\ posts \in [Posts -> PostStates] /\ messages \subseteq Messages
      /\ posts[p].pc = "ending" /\ posts[p].chat \in chats /\ chats \subseteq Chats
      /\ posts' = [posts EXCEPT ![p].pc = "answered"]
      /\ UNCHANGED <<used, chats, threadOf>>
  BY DEF TablesHold, Types, SaveAnswer, At, Goes
<1>2. /\ answer \in Messages
      /\ answer.chat = posts[p].chat /\ answer.post = p /\ answer.role = "assistant"
  BY <1>1 DEF Messages
<1>3. messages' = messages \cup {answer}
  BY DEF SaveAnswer
<1> HIDE DEF answer
<1>4. posts' \in [Posts -> PostStates]
  BY <1>1 DEF PostStates, PCs, Active
<1>5. ASSUME NEW q \in Posts
      PROVE  /\ Same(q)
             /\ posts'[q].pc = IF q = p THEN "answered" ELSE posts[q].pc
  BY <1>1 DEF PostStates, Same
<1>6. \A q \in Posts : Asked(q)' = Asked(q)
  BY <1>2, <1>3 DEF Asked
<1>7. \A q \in Posts : Read(q) => Read(q)'
  BY <1>1, <1>5, <1>6 DEF Read, Same
<1>8. Types'
  BY <1>1, <1>2, <1>3, <1>4 DEF TablesHold, Types
<1>9. Read(p)
  BY <1>1 DEF TablesHold, PostHolds, Reading, Active
<1>10. ASSUME NEW m \in messages' PROVE MessageHolds(m)'
  <2>1. CASE m = answer
    <3>1. Read(m.post)' /\ m.post \in Posts
      BY <1>2, <1>7, <1>9, <2>1
    <3> QED
      BY <1>1, <1>2, <1>5, <2>1, <3>1 DEF MessageHolds, Same
  <2>2. CASE m # answer
    <3>1. m \in messages /\ MessageHolds(m) /\ m.post \in Posts
      BY <1>1, <1>3, <2>2 DEF TablesHold, Messages
    <3>2. m.role = "assistant" => Read(m.post)'
      BY <1>7, <3>1 DEF MessageHolds
    <3> QED
      BY <1>1, <1>5, <3>1, <3>2 DEF MessageHolds, Same
  <2> QED
    BY <2>1, <2>2
<1>11. ASSUME NEW q \in Posts PROVE PostHolds(q)'
  <2>1. PostHolds(q) /\ Same(q) /\ Asked(q)' = Asked(q) /\ (Read(q) => Read(q)')
    BY <1>5, <1>6, <1>7 DEF TablesHold
  <2>2. MessagesOf(posts[q].chat) \subseteq MessagesOf(posts[q].chat)'
    BY <1>3, <2>1 DEF MessagesOf, Same
  <2>3. CASE q = p
    BY <1>1, <1>5, <2>1, <2>3 DEF PostHolds, Same, Reading, Active
  <2>4. CASE q # p
    BY <1>1, <1>5, <2>1, <2>2, <2>4 DEF PostHolds, Same
  <2> QED
    BY <2>3, <2>4
<1> QED
  BY <1>8, <1>10, <1>11 DEF TablesHold

\* deleteChat: all that was asked and answered in the chat goes with it.
LEMMA TablesDelete ==
    ASSUME TablesHold, NEW ch \in Chats, DeleteChat(ch)
    PROVE  TablesHold'
<1>1. /\ messages' = {m \in messages : m.chat # ch}
      /\ chats' = chats \ {ch}
      /\ UNCHANGED <<used, threadOf, posts>>
  BY DEF DeleteChat, MessagesOf
<1>2. /\ \A m \in messages : MessageHolds(m) /\ m.post \in Posts
      /\ \A p \in Posts : PostHolds(p)
  BY DEF TablesHold, Types, Messages
<1>3. Types'
  BY <1>1 DEF TablesHold, Types
<1>4. \A p \in Posts : Asked(p)' \subseteq Asked(p)
  BY <1>1 DEF Asked
<1>5. \A p \in Posts : posts[p].chat # ch => Asked(p)' = Asked(p)
  BY <1>1, <1>2 DEF Asked, MessageHolds
<1>6. \A p \in Posts : Read(p) => Read(p)'
  BY <1>1, <1>4, <1>5 DEF Read
<1>7. \A m \in messages' : MessageHolds(m)'
  BY <1>1, <1>2, <1>6 DEF MessageHolds
<1>8. ASSUME NEW p \in Posts PROVE PostHolds(p)'
  <2>1. posts[p].chat # ch => MessagesOf(posts[p].chat)' = MessagesOf(posts[p].chat)
    BY <1>1 DEF MessagesOf
  <2> QED
    BY <1>1, <1>2, <1>5, <1>6, <2>1 DEF PostHolds
<1> QED
  BY <1>3, <1>7, <1>8 DEF TablesHold

\* create() stops another agent, stop() one, a restart all.
LEMMA TablesCreate == ASSUME TablesHold, NEW p \in Posts, Create(p) PROVE TablesHold'
<1>1. posts \in [Posts -> PostStates] /\ UNCHANGED tables /\ posts[p].pc = "loaded"
  BY DEF TablesHold, Types, Create, At
<1>2. ASSUME NEW q \in Posts
      PROVE  /\ posts'[q] \in PostStates /\ Same(q)
             /\ posts'[q].pc = IF q = p THEN "creating" ELSE posts[q].pc
  <2>1. posts[q] \in PostStates
    BY <1>1
  <2>2. \/ posts'[q] = [posts[q] EXCEPT !.pc = "creating"] /\ q = p
        \/ posts'[q] \in {posts[q], [posts[q] EXCEPT !.aborted = TRUE]} /\ q # p
    BY DEF Create
  <2> QED
    BY <2>1, <2>2 DEF PostStates, PCs, Active, Same
<1>3. posts' \in [Posts -> PostStates]
  <2>1. posts' = [q \in Posts |-> posts'[q]]
    BY DEF Create
  <2> QED
    BY <1>2, <2>1
<1>4. \A q \in Posts : Onward(q)
  BY <1>1, <1>2 DEF Onward, Reading, Active
<1> QED
  BY <1>1, <1>3, <1>4, TablesOnward

LEMMA TablesStop ==
    ASSUME TablesHold, RegistryHolds, NEW ch \in Chats, Stop(ch)
    PROVE  TablesHold'
<1>1. /\ posts \in [Posts -> PostStates] /\ UNCHANGED tables
      /\ registry[ch] \in Posts
      /\ posts' = [posts EXCEPT ![registry[ch]].aborted = TRUE]
  BY DEF TablesHold, Types, Stop, RegistryHolds
<1>2. posts' \in [Posts -> PostStates]
  BY <1>1 DEF PostStates
<1>3. \A q \in Posts : Same(q) /\ posts'[q].pc = posts[q].pc
  BY <1>1 DEF PostStates, Same
<1> QED
  BY <1>1, <1>2, <1>3, TablesOnward DEF Onward

LEMMA TablesRestart == ASSUME TablesHold, Restart PROVE TablesHold'
<1>1. posts \in [Posts -> PostStates] /\ UNCHANGED tables
  BY DEF TablesHold, Types, Restart
<1>2. ASSUME NEW q \in Posts
      PROVE  /\ posts'[q] \in PostStates /\ Same(q)
             /\ posts'[q].pc = IF posts[q].pc \in {"idle", "over"} THEN posts[q].pc
                               ELSE "failed"
  <2>1. posts[q] \in PostStates
    BY <1>1
  <2>2. posts'[q] = IF posts[q].pc \in {"idle", "over"} THEN posts[q]
                    ELSE [posts[q] EXCEPT !.pc = "failed"]
    BY DEF Restart
  <2> QED
    BY <2>1, <2>2 DEF PostStates, PCs, Same
<1>3. posts' \in [Posts -> PostStates]
  <2>1. posts' = [q \in Posts |-> posts'[q]]
    BY DEF Restart
  <2> QED
    BY <1>2, <2>1
<1>4. \A q \in Posts : Onward(q)
  BY <1>2 DEF Onward, Reading, Active
<1> QED
  BY <1>1, <1>3, <1>4, TablesOnward

\* PostFails, Register, StreamEnds, AnswerIsLost and Dispose move one pc.
LEMMA TablesGoes ==
    ASSUME TablesHold, NEW p \in Posts,
           PostFails(p) \/ Register(p) \/ StreamEnds(p) \/ AnswerIsLost(p) \/ Dispose(p)
    PROVE  TablesHold'
<1> USE DEF At, PCs, Reading, Active
<1>1. CASE PostFails(p)
  BY <1>1, GoesOnward DEF PostFails
<1>2. CASE Register(p)
  BY <1>2, GoesOnward DEF Register
<1>3. CASE StreamEnds(p)
  BY <1>3, GoesOnward DEF StreamEnds
<1>4. CASE AnswerIsLost(p)
  BY <1>4, GoesOnward DEF AnswerIsLost
<1>5. CASE Dispose(p)
  BY <1>5, GoesOnward DEF Dispose
<1> QED
  BY <1>1, <1>2, <1>3, <1>4, <1>5

LEMMA TablesQuestion ==
    ASSUME TablesHold, NEW p \in Posts,
           NewChat(p) \/ (\E ch \in Chats : PostToChat(p, ch)) \/ SaveMention(p)
    PROVE  TablesHold'
<1>1. /\ chats \subseteq used /\ used \subseteq Chats
      /\ threadOf \in [Chats -> Threads \cup {Null}]
      /\ posts[p].thread \in Threads \cup {Null}
  BY DEF TablesHold, Types, PostStates
<1>2. ASSUME NEW ch \in Chats, NEW thread \in Threads \cup {Null}, CreateChat(p, ch, thread),
             posts[p].pc = "idle" \/ (posts[p].pc = "looked" /\ posts[p].chat = Null)
      PROVE  TablesHold'
  <2>1. threadOf' \in [Chats -> Threads \cup {Null}]
    BY <1>1, <1>2 DEF CreateChat
  <2> QED
    BY <1>2, <2>1, TablesSaved DEF CreateChat
<1>3. ASSUME NEW ch \in Chats, UpsertMessage(p, ch),
             posts[p].pc = "idle" \/ (posts[p].pc = "looked" /\ posts[p].chat = ch)
      PROVE  TablesHold'
  <2>1. chats' = chats \cup {ch} /\ used' = used \cup {ch} /\ threadOf' = threadOf
    BY <1>1, <1>3 DEF UpsertMessage
  <2> QED
    BY <1>1, <1>3, <2>1, TablesSaved DEF UpsertMessage
<1>4. CASE NewChat(p)
  BY <1>2, <1>4 DEF NewChat, At
<1>5. CASE \E ch \in Chats : PostToChat(p, ch)
  BY <1>3, <1>5 DEF PostToChat, At
<1>6. CASE SaveMention(p) /\ posts[p].chat = Null
  <2>1. PICK ch \in Chats : CreateChat(p, ch, posts[p].thread)
    BY <1>6 DEF SaveMention
  <2>2. posts[p].pc = "looked"
    BY <1>6 DEF SaveMention, At
  <2> DEFINE thread == posts[p].thread
  <2>3. thread \in Threads \cup {Null} /\ CreateChat(p, ch, thread)
    BY <1>1, <2>1
  <2> HIDE DEF thread
  <2>4. threadOf' \in [Chats -> Threads \cup {Null}]
    BY <1>1, <2>3 DEF CreateChat
  <2> QED
    BY <1>6, <2>2, <2>3, <2>4, TablesSaved DEF CreateChat
<1>7. CASE SaveMention(p) /\ posts[p].chat # Null
  <2> DEFINE ch == posts[p].chat
  <2>1. ch \in used /\ ch \in Chats
    BY <1>1, <1>7 DEF TablesHold, PostHolds
  <2>2. UpsertMessage(p, ch) /\ posts[p].pc = "looked" /\ posts[p].chat = ch
    BY <1>7 DEF SaveMention, At
  <2> HIDE DEF ch
  <2>3. chats' = chats \cup {ch} /\ used' = used \cup {ch} /\ threadOf' = threadOf
        /\ Saved(p, ch) /\ ch \in chats
    BY <1>1, <2>2 DEF UpsertMessage
  <2> QED
    BY <1>1, <2>1, <2>2, <2>3, TablesSaved
<1> QED
  BY <1>4, <1>5, <1>6, <1>7

-----------------------------------------------------------------------------
(* Who answers *)

LEMMA RegistryBegins == Init => RegistryHolds
BY DEF Init, RegistryHolds, Idle, Active

\* A step that leaves the registry alone: no agent starts to run, and what is
\* registered stays in its chat.
LEMMA RegistryStays ==
    ASSUME RegistryHolds, UNCHANGED <<registry, overlapped>>, used \subseteq used',
           \A p \in Posts :
               \/ /\ posts'[p].chat = posts[p].chat
                  /\ posts[p].pc \in Registered => posts'[p].pc \in Registered
                  /\ posts'[p].pc \in Active => posts[p].pc \in Active
                  /\ posts'[p].pc \in Active \ {"creating"} =>
                        posts[p].pc \in Active \ {"creating"}
               \/ /\ posts[p].pc \notin Active \cup Registered
                  /\ posts'[p].pc \notin Active
    PROVE  RegistryHolds'
<1> USE DEF RegistryHolds
<1>1. DOMAIN registry' \subseteq used' /\ overlapped' \subseteq used'
  OBVIOUS
<1>2. ASSUME NEW ch \in DOMAIN registry'
      PROVE  /\ registry'[ch] \in Posts
             /\ posts'[registry'[ch]].chat = ch
             /\ posts'[registry'[ch]].pc \in Registered
  BY <1>2
<1>3. ASSUME NEW p \in Posts,
             posts'[p].pc \in Active \ {"creating"}, posts'[p].chat \notin overlapped'
      PROVE  posts'[p].chat \in DOMAIN registry' /\ registry'[posts'[p].chat] = p
  BY <1>3
<1>4. ASSUME NEW p \in Posts, NEW q \in Posts,
             posts'[p].pc \in Active, posts'[q].pc \in Active,
             posts'[p].chat = posts'[q].chat, posts'[p].chat \notin overlapped'
      PROVE  p = q
  BY <1>4
<1> QED
  BY <1>1, <1>2, <1>3, <1>4

\* create() forgets the agent of the chat; a chat in which another still runs is
\* marked, so that nothing is said of it any more.
LEMMA RegistryCreate ==
    ASSUME TablesHold, RegistryHolds, NEW p \in Posts, Create(p)
    PROVE  RegistryHolds'
<1> DEFINE ch == posts[p].chat
<1>1. /\ posts \in [Posts -> PostStates] /\ posts[p].pc = "loaded" /\ used' = used
      /\ ch \in used
  <2>1. posts[p].pc = "loaded" /\ p \in Posts
    BY DEF Create, At
  <2> QED
    BY <2>1 DEF TablesHold, Types, PostHolds, Create, tables
<1>2. ASSUME NEW q \in Posts
      PROVE  /\ posts'[q].chat = posts[q].chat
             /\ posts'[q].pc = IF q = p THEN "creating" ELSE posts[q].pc
  <2>1. posts[q] \in PostStates
    BY <1>1
  <2>2. \/ posts'[q] = [posts[q] EXCEPT !.pc = "creating"] /\ q = p
        \/ posts'[q] \in {posts[q], [posts[q] EXCEPT !.aborted = TRUE]} /\ q # p
    BY DEF Create
  <2> QED
    BY <2>1, <2>2 DEF PostStates
<1>3. /\ DOMAIN registry' = DOMAIN registry \ {ch}
      /\ \A c \in DOMAIN registry' : registry'[c] = registry[c]
  BY DEF Create, Without
<1>4. /\ overlapped \subseteq overlapped' /\ overlapped' \subseteq overlapped \cup {ch}
      /\ ch \notin overlapped' =>
            \A q \in Posts : posts[q].chat = ch => posts[q].pc \notin Active
  BY DEF Create
<1> HIDE DEF ch
<1>5. DOMAIN registry' \subseteq used' /\ overlapped' \subseteq used'
  BY <1>1, <1>3, <1>4 DEF RegistryHolds
<1>6. ASSUME NEW c \in DOMAIN registry'
      PROVE  /\ registry'[c] \in Posts
             /\ posts'[registry'[c]].chat = c
             /\ posts'[registry'[c]].pc \in Registered
  BY <1>1, <1>2, <1>3, <1>6 DEF RegistryHolds, Registered, Active
<1>7. ASSUME NEW q \in Posts,
             posts'[q].pc \in Active \ {"creating"}, posts'[q].chat \notin overlapped'
      PROVE  posts'[q].chat \in DOMAIN registry' /\ registry'[posts'[q].chat] = q
  <2>1. q # p /\ posts[q].pc \in Active \ {"creating"} /\ posts[q].chat \notin overlapped
    BY <1>2, <1>4, <1>7
  <2>2. posts[q].chat # ch
    BY <1>2, <1>4, <1>7, <2>1
  <2> QED
    BY <1>2, <1>3, <2>1, <2>2 DEF RegistryHolds
<1>8. ASSUME NEW q \in Posts, NEW r \in Posts,
             posts'[q].pc \in Active, posts'[r].pc \in Active,
             posts'[q].chat = posts'[r].chat, posts'[q].chat \notin overlapped'
      PROVE  q = r
  <2>1. CASE posts[q].chat = ch
    <3>1. posts[r].chat = ch /\ ch \notin overlapped'
      BY <1>2, <1>8, <2>1
    <3> QED
      BY <1>2, <1>4, <1>8, <2>1, <3>1
  <2>2. CASE posts[q].chat # ch
    <3>1. q # p /\ r # p
      BY <1>2, <1>8, <2>2 DEF ch
    <3> QED
      BY <1>2, <1>4, <1>8, <3>1 DEF RegistryHolds
  <2> QED
    BY <2>1, <2>2
<1> QED
  BY <1>5, <1>6, <1>7, <1>8 DEF RegistryHolds

LEMMA RegistryRegister ==
    ASSUME TablesHold, RegistryHolds, NEW p \in Posts, Register(p)
    PROVE  RegistryHolds'
<1> DEFINE ch == posts[p].chat
<1>1. /\ posts \in [Posts -> PostStates] /\ posts[p].pc = "creating" /\ used' = used
      /\ overlapped' = overlapped
      /\ ch \in used
  <2>1. posts[p].pc = "creating" /\ p \in Posts
    BY DEF Register, At
  <2> QED
    BY <2>1 DEF TablesHold, Types, PostHolds, Register, tables
<1>2. ASSUME NEW q \in Posts
      PROVE  /\ posts'[q].chat = posts[q].chat
             /\ posts'[q].pc = IF q = p THEN "streaming" ELSE posts[q].pc
  BY <1>1 DEF PostStates, Register, Goes
<1>3. /\ DOMAIN registry' = DOMAIN registry \cup {ch}
      /\ \A c \in DOMAIN registry' : registry'[c] = IF c = ch THEN p ELSE registry[c]
  BY DEF Register
<1>4. posts[p].chat = ch
  OBVIOUS
<1> HIDE DEF ch
<1>5. DOMAIN registry' \subseteq used' /\ overlapped' \subseteq used'
  BY <1>1, <1>3 DEF RegistryHolds
<1>6. ASSUME NEW c \in DOMAIN registry'
      PROVE  /\ registry'[c] \in Posts
             /\ posts'[registry'[c]].chat = c
             /\ posts'[registry'[c]].pc \in Registered
  BY <1>1, <1>2, <1>3, <1>4, <1>6 DEF RegistryHolds, Registered, Active
<1>7. ASSUME NEW q \in Posts,
             posts'[q].pc \in Active \ {"creating"}, posts'[q].chat \notin overlapped'
      PROVE  posts'[q].chat \in DOMAIN registry' /\ registry'[posts'[q].chat] = q
  <2>1. CASE q = p
    BY <1>2, <1>3, <1>4, <2>1
  <2>2. CASE q # p
    <3>1. posts[q].pc \in Active \ {"creating"} /\ posts[q].chat \notin overlapped
      BY <1>1, <1>2, <1>7, <2>2
    <3>2. posts[q].chat # ch
      BY <1>1, <1>4, <2>2, <3>1 DEF RegistryHolds, Active
    <3> QED
      BY <1>2, <1>3, <3>1, <3>2 DEF RegistryHolds
  <2> QED
    BY <2>1, <2>2
<1>8. ASSUME NEW q \in Posts, NEW r \in Posts,
             posts'[q].pc \in Active, posts'[r].pc \in Active,
             posts'[q].chat = posts'[r].chat, posts'[q].chat \notin overlapped'
      PROVE  q = r
  BY <1>1, <1>2, <1>8 DEF RegistryHolds, Active
<1> QED
  BY <1>5, <1>6, <1>7, <1>8 DEF RegistryHolds

\* _onDispose takes whatever agent the chat has: its own, unless the chat is marked.
LEMMA RegistryDispose ==
    ASSUME TablesHold, RegistryHolds, NEW p \in Posts, Dispose(p)
    PROVE  RegistryHolds'
<1> DEFINE ch == posts[p].chat
<1>1. /\ posts \in [Posts -> PostStates] /\ posts[p].pc = "answered" /\ used' = used
      /\ overlapped' = overlapped
  BY DEF TablesHold, Types, Dispose, At, tables
<1>2. ASSUME NEW q \in Posts
      PROVE  /\ posts'[q].chat = posts[q].chat
             /\ posts'[q].pc = IF q = p THEN "over" ELSE posts[q].pc
  BY <1>1 DEF PostStates, Dispose, Goes
<1>3. /\ DOMAIN registry' = DOMAIN registry \ {ch}
      /\ \A c \in DOMAIN registry' : registry'[c] = registry[c]
  BY DEF Dispose, Without
<1>4. posts[p].chat = ch
  OBVIOUS
<1> HIDE DEF ch
<1>5. DOMAIN registry' \subseteq used' /\ overlapped' \subseteq used'
  BY <1>1, <1>3 DEF RegistryHolds
<1>6. ASSUME NEW c \in DOMAIN registry'
      PROVE  /\ registry'[c] \in Posts
             /\ posts'[registry'[c]].chat = c
             /\ posts'[registry'[c]].pc \in Registered
  BY <1>2, <1>3, <1>4, <1>6 DEF RegistryHolds
<1>7. ASSUME NEW q \in Posts,
             posts'[q].pc \in Active \ {"creating"}, posts'[q].chat \notin overlapped'
      PROVE  posts'[q].chat \in DOMAIN registry' /\ registry'[posts'[q].chat] = q
  <2>1. q # p /\ posts[q].pc \in Active \ {"creating"} /\ posts[q].chat \notin overlapped
    BY <1>1, <1>2, <1>7 DEF Active
  <2>2. posts[q].chat # ch
    BY <1>1, <1>4, <2>1 DEF RegistryHolds, Active
  <2> QED
    BY <1>2, <1>3, <2>1, <2>2 DEF RegistryHolds
<1>8. ASSUME NEW q \in Posts, NEW r \in Posts,
             posts'[q].pc \in Active, posts'[r].pc \in Active,
             posts'[q].chat = posts'[r].chat, posts'[q].chat \notin overlapped'
      PROVE  q = r
  BY <1>1, <1>2, <1>8 DEF RegistryHolds, Active
<1> QED
  BY <1>5, <1>6, <1>7, <1>8 DEF RegistryHolds

\* After a restart nobody answers and nobody is registered.
LEMMA RegistryRestart ==
    ASSUME TablesHold, RegistryHolds, Restart PROVE RegistryHolds'
<1>1. /\ registry' = [ch \in {} |-> Null]
      /\ UNCHANGED <<used, overlapped>>
  BY DEF Restart, tables
<1>2. ASSUME NEW q \in Posts PROVE posts'[q].pc \notin Active
  <2>1. posts[q] \in PostStates
    BY DEF TablesHold, Types
  <2>2. posts'[q] = IF posts[q].pc \in {"idle", "over"} THEN posts[q]
                    ELSE [posts[q] EXCEPT !.pc = "failed"]
    BY DEF Restart
  <2> QED
    BY <2>1, <2>2 DEF PostStates, Active
<1> QED
  BY <1>1, <1>2 DEF RegistryHolds

\* One post's pc moves, and its agent neither starts to run nor is forgotten.
LEMMA RegistryGoes ==
    ASSUME TablesHold, RegistryHolds, NEW p \in Posts, NEW pc, Goes(p, pc),
           UNCHANGED <<registry, overlapped, used>>,
           posts[p].pc \in Registered => pc \in Registered,
           pc \in Active => posts[p].pc \in Active,
           pc \in Active \ {"creating"} => posts[p].pc \in Active \ {"creating"}
    PROVE  RegistryHolds'
<1>1. ASSUME NEW q \in Posts
      PROVE  /\ posts'[q].chat = posts[q].chat
             /\ posts'[q].pc = IF q = p THEN pc ELSE posts[q].pc
  BY DEF TablesHold, Types, PostStates, Goes
<1> QED
  BY <1>1, RegistryStays

\* A question is saved or looked for, or a chat is read: no agent runs yet.
LEMMA RegistryBefore ==
    ASSUME TablesHold, RegistryHolds, NEW p \in Posts, NEW pc,
           posts[p].pc \notin Active \cup Registered, pc \notin Active,
           posts'[p].pc = pc,
           \A q \in Posts \ {p} : posts'[q] = posts[q],
           UNCHANGED <<registry, overlapped>>, used \subseteq used'
    PROVE  RegistryHolds'
<1>1. ASSUME NEW q \in Posts
      PROVE  \/ /\ posts'[q].chat = posts[q].chat
                /\ posts[q].pc \in Registered => posts'[q].pc \in Registered
                /\ posts'[q].pc \in Active => posts[q].pc \in Active
                /\ posts'[q].pc \in Active \ {"creating"} =>
                      posts[q].pc \in Active \ {"creating"}
             \/ /\ posts[q].pc \notin Active \cup Registered
                /\ posts'[q].pc \notin Active
  <2>1. CASE q = p
    BY <2>1
  <2>2. CASE q # p
    <3>1. posts'[q] = posts[q]
      BY <2>2
    <3> QED
      BY <3>1
  <2> QED
    BY <2>1, <2>2
<1> QED
  BY <1>1, RegistryStays

LEMMA RegistrySaved ==
    ASSUME TablesHold, RegistryHolds, NEW p \in Posts, NEW ch,
           posts[p].pc \in {"idle", "looked"}, Saved(p, ch),
           UNCHANGED <<registry, overlapped>>, used \subseteq used'
    PROVE  RegistryHolds'
<1>1. posts' = [posts EXCEPT ![p] = [posts[p] EXCEPT !.pc = "saved", !.chat = ch,
                                                     !.before = MessagesOf(ch)]]
  BY DEF TablesHold, Types, PostStates, Saved
<1>2. posts'[p].pc = "saved" /\ \A q \in Posts \ {p} : posts'[q] = posts[q]
  BY <1>1 DEF TablesHold, Types, PostStates
<1> QED
  BY <1>2, RegistryBefore DEF Active, Registered

LEMMA RegistryOthers ==
    ASSUME TablesHold, RegistryHolds, NEW p \in Posts,
           \/ NewChat(p) \/ (\E ch \in Chats : PostToChat(p, ch)) \/ SaveMention(p)
           \/ PostFails(p) \/ Load(p) \/ StreamEnds(p) \/ SaveAnswer(p) \/ AnswerIsLost(p)
    PROVE  RegistryHolds'
<1>1. posts \in [Posts -> PostStates]
  BY DEF TablesHold, Types
<1>2. CASE NewChat(p)
  <2>1. PICK c \in Chats : CreateChat(p, c, Null)
    BY <1>2 DEF NewChat
  <2> QED
    BY <1>2, <2>1, RegistrySaved DEF NewChat, CreateChat, At
<1>3. CASE \E ch \in Chats : PostToChat(p, ch)
  BY <1>3, RegistrySaved DEF PostToChat, UpsertMessage, At
<1>4. CASE SaveMention(p)
  <2>1. UNCHANGED <<registry, overlapped>> /\ posts[p].pc = "looked"
    BY <1>4 DEF SaveMention, At
  <2>2. CASE posts[p].chat = Null
    <3>1. PICK c \in Chats : CreateChat(p, c, posts[p].thread)
      BY <1>4, <2>2 DEF SaveMention
    <3>2. Saved(p, c) /\ used \subseteq used'
      BY <3>1 DEF CreateChat
    <3> QED
      BY <2>1, <3>2, RegistrySaved
  <2>3. CASE posts[p].chat # Null
    <3> DEFINE c == posts[p].chat
    <3>1. UpsertMessage(p, c)
      BY <1>4, <2>3 DEF SaveMention
    <3> HIDE DEF c
    <3>2. Saved(p, c) /\ used \subseteq used'
      BY <3>1 DEF UpsertMessage
    <3> QED
      BY <2>1, <3>2, RegistrySaved
  <2> QED
    BY <2>2, <2>3
<1>5. CASE PostFails(p)
  BY <1>5, RegistryGoes DEF PostFails, Active, Registered, tables
<1>6. CASE Load(p)
  <2>1. /\ posts' = [posts EXCEPT ![p] = [posts[p] EXCEPT !.pc = "loaded",
                                              !.history = MessagesOf(posts[p].chat)]]
        /\ posts[p].pc = "saved"
        /\ UNCHANGED <<registry, overlapped, used>>
    BY <1>1, <1>6 DEF Load, At, tables, PostStates
  <2>2. posts'[p].pc = "loaded" /\ \A q \in Posts \ {p} : posts'[q] = posts[q]
    BY <1>1, <2>1 DEF PostStates
  <2> QED
    BY <2>1, <2>2, RegistryBefore DEF Active, Registered
<1>7. CASE StreamEnds(p)
  BY <1>7, RegistryGoes DEF StreamEnds, At, Active, Registered, tables
<1>8. CASE SaveAnswer(p)
  BY <1>8, RegistryGoes DEF SaveAnswer, At, Active, Registered
<1>9. CASE AnswerIsLost(p)
  BY <1>9, RegistryGoes DEF AnswerIsLost, At, Active, Registered, tables
<1> QED
  BY <1>2, <1>3, <1>4, <1>5, <1>6, <1>7, <1>8, <1>9

-----------------------------------------------------------------------------
(* The theorems *)

LEMMA StepKeeps == IInv /\ [Next]_vars => IInv'
<1> SUFFICES ASSUME TablesHold, RegistryHolds, [Next]_vars PROVE TablesHold' /\ RegistryHolds'
  BY DEF IInv
<1>1. CASE \E p \in Posts : NewChat(p) \/ SaveMention(p) \/ PostFails(p)
  <2>1. PICK p \in Posts : NewChat(p) \/ SaveMention(p) \/ PostFails(p)
    BY <1>1
  <2>2. TablesHold'
    BY <2>1, TablesQuestion, TablesGoes
  <2>3. RegistryHolds'
    BY <2>1, RegistryOthers
  <2> QED
    BY <2>2, <2>3
<1>2. CASE \E p \in Posts : Answering(p)
  <2>1. PICK p \in Posts : Answering(p)
    BY <1>2
  <2>2. TablesHold'
    BY <2>1, TablesLoad, TablesCreate, TablesSaveAnswer, TablesGoes DEF Answering
  <2>3. RegistryHolds'
    BY <2>1, RegistryOthers, RegistryCreate, RegistryRegister, RegistryDispose
       DEF Answering
  <2> QED
    BY <2>2, <2>3
<1>3. CASE \E p \in Posts, ch \in Chats : PostToChat(p, ch)
  BY <1>3, TablesQuestion, RegistryOthers
<1>4. CASE \E p \in Posts, t \in Threads : Mention(p, t)
  <2>1. PICK p \in Posts, t \in Threads : Mention(p, t)
    BY <1>4
  <2>2. TablesHold'
    BY <2>1, TablesMention
  <2>3. RegistryHolds'
    <3>1. PICK c \in chats \cup {Null} :
              /\ posts' = [posts EXCEPT ![p].pc = "looked", ![p].chat = c,
                                        ![p].thread = t]
              /\ posts[p].pc = "idle"
              /\ UNCHANGED <<registry, overlapped, used>>
      BY <2>1 DEF Mention, At, tables
    <3>2. posts'[p].pc = "looked" /\ \A q \in Posts \ {p} : posts'[q] = posts[q]
      BY <3>1 DEF TablesHold, Types, PostStates
    <3> QED
      BY <3>1, <3>2, RegistryBefore DEF Active, Registered
  <2> QED
    BY <2>2, <2>3
<1>5. CASE \E ch \in Chats : Stop(ch) \/ DeleteChat(ch)
  <2>1. PICK ch \in Chats : Stop(ch) \/ DeleteChat(ch)
    BY <1>5
  <2>2. TablesHold'
    BY <2>1, TablesStop, TablesDelete
  <2>3. RegistryHolds'
    <3>1. CASE Stop(ch)
      <4>1. \A q \in Posts : posts'[q].chat = posts[q].chat /\ posts'[q].pc = posts[q].pc
        BY <3>1 DEF Stop, TablesHold, Types, PostStates
      <4> QED
        BY <3>1, <4>1, RegistryStays DEF Stop, tables
    <3>2. CASE DeleteChat(ch)
      BY <3>2, RegistryStays DEF DeleteChat
    <3> QED
      BY <2>1, <3>1, <3>2
  <2> QED
    BY <2>2, <2>3
<1>6. CASE Restart
  BY <1>6, TablesRestart, RegistryRestart
<1>7. CASE UNCHANGED vars
  <2>1. \A p \in Posts : Onward(p)
    BY <1>7 DEF vars, Onward, Same
  <2> QED
    BY <1>7, <2>1, TablesOnward, RegistryStays DEF vars, tables, TablesHold, Types
<1> QED
  BY <1>1, <1>2, <1>3, <1>4, <1>5, <1>6, <1>7 DEF Next

\* The invariant, for any number of posts, chats, restarts and failures.
THEOREM ChatAgentsInvariant == Spec => []IInv
<1>1. Init => IInv
  BY TablesBegin, RegistryBegins DEF IInv
<1> QED
  BY <1>1, StepKeeps, PTL DEF Spec

\* Types; messages and agents belong to chats that were created.
THEOREM ChatAgentsTypes == Spec => []TypeOK
<1>1. IInv => TypeOK
  <2> SUFFICES ASSUME IInv PROVE TypeOK
    OBVIOUS
  <2>1. \A m \in messages : m.chat \in chats /\ m.post \in Posts
    BY DEF IInv, TablesHold, Types, Messages, MessageHolds
  <2>2. \A p \in Posts : posts[p].pc \in PCs /\ posts[p].chat \in used \cup {Null}
    BY DEF IInv, TablesHold, Types, PostStates, PostHolds
  <2> QED
    BY <2>1, <2>2 DEF IInv, TablesHold, Types, RegistryHolds, TypeOK
<1> QED
  BY <1>1, ChatAgentsInvariant, PTL

\* The registry of running agents is what stop() and the next post go by: an entry
\* belongs to its chat and has not ended, and an agent that runs is found in it,
\* unless it was made while another agent of the chat ran (agent.service.ts).
THEOREM RegistryStaysTrue == Spec => []RegistryIsTrue
<1>1. IInv => RegistryIsTrue
  BY DEF IInv, RegistryHolds, RegistryIsTrue, Registered, Active
<1> QED
  BY <1>1, ChatAgentsInvariant, PTL

\* An answer stands in the chat of its question, and its agent had read the question
\* and all before it (routes/chat.ts, queries/chat.queries.ts).
THEOREM AnswersFollow == Spec => []AnswersFollowQuestions
<1>1. IInv => AnswersFollowQuestions
  <2> SUFFICES ASSUME IInv, NEW m \in messages
               PROVE  /\ m.chat \in chats
                      /\ m.role = "assistant" =>
                            LET post == posts[m.post]
                                asked == {q \in MessagesOf(m.chat) :
                                             q.role = "user" /\ q.post = m.post}
                            IN asked # {} /\ asked \cup post.before \subseteq post.history
    BY DEF AnswersFollowQuestions
  <2>1. MessageHolds(m)
    BY DEF IInv, TablesHold
  <2>2. Asked(m.post) = {q \in MessagesOf(m.chat) : q.role = "user" /\ q.post = m.post}
    <3>1. \A q \in messages : q.post = m.post => q.chat = m.chat
      BY DEF IInv, TablesHold, MessageHolds
    <3> QED
      BY <3>1 DEF Asked, MessagesOf
  <2> QED
    BY <2>1, <2>2 DEF MessageHolds, Read
<1> QED
  BY <1>1, ChatAgentsInvariant, PTL
===============================================================================
