----------------------------- MODULE SlackThread ------------------------------
(***************************************************************************)
(* What a thread in Slack shows of a mention and of its answer               *)
(* (apps/backend/src/services/slack.service.ts, extractLastTextFromMessage   *)
(* of utils/chat.ts), as pure functions.  How two mentions of a thread meet  *)
(* is in ChatAgents.                                                        *)
(*                                                                          *)
(*   text    a sequence of characters, NewLine one of them                   *)
(*   parts   of a message as it grows: <<type, text>>                        *)
(*   chats   [thread -> [owner, texts]]: the chats of threads and what was    *)
(*           asked in them                                                  *)
(***************************************************************************)
EXTENDS Integers, Sequences, FiniteSets, SequencesExt, TLC

NewLine == "n"

\* extractLastTextFromMessage
LastText(parts) ==
    LET texts == SelectSeq(parts, LAMBDA p : p[1] = "text" /\ p[2] # <<>>)
    IN IF texts = <<>> THEN <<>> ELSE Last(texts)[2]

\* _readStreamAndUpdateSlackMessage: the texts the answer's message is given, in order.
Updates(messages) ==
    LET Next(acc, parts) ==
            LET text == LastText(parts)
                news == SubSeq(text, Len(acc.sent) + 1, Len(text))
            IN IF text = <<>> THEN acc
               ELSE IF NewLine \in ToSet(news)
               THEN [sent |-> text, current |-> text, updates |-> Append(acc.updates, text)]
               ELSE [acc EXCEPT !.current = text]
        end == FoldLeft(Next, [sent |-> <<>>, current |-> <<>>, updates |-> <<>>], messages)
    IN IF end.current # end.sent THEN Append(end.updates, end.current) ELSE end.updates

\* _validateUserAccess: what is posted instead of an answer, or "access"; email is "" when
\* Slack tells none, users is [email -> role in the project, "none" without one].
Access(users, email) ==
    IF email = "" THEN "silence"
    ELSE IF email \notin DOMAIN users THEN "no user"
    ELSE IF users[email] \notin {"admin", "user"} THEN "no permission"
    ELSE "access"

\* _saveOrUpdateUserMessage
Saved(chats, thread, email, text) ==
    IF thread \in DOMAIN chats THEN [chats EXCEPT ![thread].texts = Append(@, text)]
    ELSE thread :> [owner |-> email, texts |-> <<text>>] @@ chats

\* handleWorkFlow, with the answer as it is streamed: the chats and the posts of the
\* thread, each by what it says last.
Mention(users, chats, thread, email, text, messages) ==
    LET access == Access(users, email)
        saved == Saved(chats, thread, email, text)
        updates == Updates(messages)
        answer == IF updates = <<>> THEN <<"answering">> ELSE <<"answer", Last(updates)>>
    IN CASE access = "silence" -> [chats |-> chats, posts |-> <<>>]
         [] access \in {"no user", "no permission"} -> [chats |-> chats, posts |-> <<<<access>>>>]
         [] access = "access" /\ saved[thread].owner # email ->
              [chats |-> saved, posts |-> <<<<"answering">>>>]
         [] OTHER -> [chats |-> saved, posts |-> <<answer, <<"link", thread>>>>]

-----------------------------------------------------------------------------
(***************************************************************************)
(* Facts                                                                    *)
(***************************************************************************)

\* The thread ends with the last text of the answer, sees nothing but texts of it, none
\* twice in a row, and at most one update for each of them.
ThreadShowsAnswer(messages) ==
    LET updates == Updates(messages)
        texts == SelectSeq([i \in DOMAIN messages |-> LastText(messages[i])], LAMBDA t : t # <<>>)
    IN /\ (updates = <<>>) = (texts = <<>>)
       /\ texts # <<>> => Last(updates) = Last(texts)
       /\ messages # <<>> /\ Last(messages) # <<>> /\ Last(Last(messages))[2] # <<>> =>
             Last(updates) = Last(Last(messages))[2]
       /\ ToSet(updates) \subseteq ToSet(texts) /\ Len(updates) <= Len(texts)
       /\ \A i \in 1 .. Len(updates) - 1 : updates[i] # updates[i + 1]

\* While an answer of one text grows, Slack is asked at most once for each line.
UpdatesAreFew(messages) ==
    LET texts == [i \in DOMAIN messages |-> LastText(messages[i])]
        lines == Cardinality({i \in DOMAIN Last(texts) : Last(texts)[i] = NewLine})
    IN messages # <<>> /\ (\A i \in 1 .. Len(texts) - 1 : IsPrefix(texts[i], texts[i + 1])) =>
          Len(Updates(messages)) <= lines + 1

\* Only a member who may use the project leaves anything in a chat, in the chat of the
\* thread and behind what was there; only its owner is answered.  The mention of another
\* member is kept in the owner's chat all the same, and the thread shows an answer being
\* made that never comes.
MentionsAreKept(users, chats, thread, email, text, messages) ==
    LET done == Mention(users, chats, thread, email, text, messages)
        member == email \in DOMAIN users /\ users[email] \in {"admin", "user"}
        foreign == thread \in DOMAIN chats /\ chats[thread].owner # email
    IN /\ \A t \in DOMAIN chats : done.chats[t].owner = chats[t].owner
       /\ \A t \in DOMAIN chats \ {thread} : done.chats[t] = chats[t]
       /\ (done.chats # chats) = member
       /\ member => done.chats[thread].texts =
                       (IF thread \in DOMAIN chats THEN chats[thread].texts ELSE <<>>) \o <<text>>
       /\ (\E i \in DOMAIN done.posts : done.posts[i][1] = "link") = (member /\ ~foreign)
       /\ member /\ foreign => done.posts = <<<<"answering">>>>
=============================================================================
