----------------------------- MODULE MCChatAgents -----------------------------
(* Instance of ChatAgents: a post and its retry, and a mention in a thread.     *)
EXTENDS ChatAgents, ChatFacts

CONSTANTS p1, p2, s1, first

MCKind == [p \in Posts |-> IF p \in {p1, p2} THEN "chat" ELSE "slack"]

MCMessageId == [p \in Posts |-> first]
=============================================================================
