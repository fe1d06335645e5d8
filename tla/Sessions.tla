------------------------------- MODULE Sessions -------------------------------
(***************************************************************************)
(* Who a caller of the harness is: the start of the process and the HTTP    *)
(* sessions of server.ts, the verification of a token (auth/verify.ts), and *)
(* the identity that a tool call reads before its first await and writes    *)
(* into its row after it (auth/context.ts, tools/control.ts).               *)
(*                                                                          *)
(* In HTTP mode every session has a transport and a context of its own, in  *)
(* two maps; a context lives TTL, a transport until it is closed.  In stdio *)
(* mode the process has one identity, the singleton.                        *)
(*                                                                          *)
(* scenario.yml and agents.yml are not edited here, and a session has the   *)
(* name of the initialize request that opened it (its id is a fresh UUID).  *)
(* External: the clients, the issuer of tokens, the clock.                  *)
(***************************************************************************)
EXTENDS Naturals, Sequences, SequencesExt

CONSTANTS
    Deployments,    \* [transport, mode, strategy, delegation, production,
                    \* localhost, ack, env]: env is a credential
    Agents,         \* agents.yml in its order: <<[id, bot]>>
    Requests,       \* initialize requests
    Credential,     \* [Requests -> [token, agent]], each may be Null
    Calls,          \* tool calls that read the identity
    Null,
    TTL,            \* SESSION_TTL_MS
    MaxTime,        \* bound: sessions open early enough to expire before it
    MaxRestarts     \* bound

ASSUME SessionsAssumptions == TTL \in Nat /\ MaxTime \in Nat /\ MaxRestarts \in Nat

\* Null stands for what is absent: it is no string, so no id of an agent.
ASSUME NullIsNoName ==
    Null \notin {"", "unlisted"} \cup {Agents[i].id : i \in DOMAIN Agents}

VARIABLES
    deployment, now,
    requests,       \* idle, verifying, verified, refused, or open since a time
    transports,     \* sessions: the ids in the map of server.ts
    contexts,       \* sessionMap: session -> [agent, expires]
    gc,             \* gcInterval: "none", or a timer that is "set" or "cleared"
    singleton,      \* the agent of the process; "" is not bound, Null in HTTP mode
    calls,          \* idle, or [pc, session, agent, begun]
    rows,           \* what the calls wrote: [session, agent, begun]
    restarts

vars == <<deployment, now, requests, transports, contexts, gc, singleton,
          calls, rows, restarts>>

Http == deployment.transport = "http"
AgentIds == {Agents[i].id : i \in DOMAIN Agents}

-----------------------------------------------------------------------------
(* Credentials *)

\* The three strategies.  Only jwks looks at the issuer; introspection still
\* takes a token in the instant in which it expires.
Verifies(strategy, token, time) ==
    /\ token.genuine
    /\ token.audience
    /\ strategy = "jwks" => token.issuer
    /\ \/ token.expires = Null
       \/ time < token.expires
       \/ strategy = "introspection" /\ time = token.expires

\* resolveAgentIdFromSubject: the first agent whose catalog_bot it is.
AgentOfBot(bot) ==
    LET i == SelectInSeq(Agents, LAMBDA a : a.bot = bot)
    IN IF i = 0 THEN Null ELSE Agents[i].id

\* The agent a credential stands for.
AgentOf(mode, credential) ==
    CASE mode = "jwt" /\ credential.token # Null -> AgentOfBot(credential.token.claim)
      [] mode # "jwt" /\ credential.agent \in AgentIds -> credential.agent
      [] OTHER -> Null

\* verifyAndBuildContext, buildConfigOnlyContext
Authentic(d, credential, time) ==
    /\ AgentOf(d.mode, credential) # Null
    /\ d.mode = "jwt" =>
          /\ Verifies(d.strategy, credential.token, time)
          /\ d.delegation => credential.token.act

-----------------------------------------------------------------------------
(* The start of the process *)

\* enforceHardeningGuardrails
Guarded(d) ==
    /\ d.production => d.mode = "jwt"
    /\ d.transport = "http" /\ d.mode = "config-only" => d.localhost /\ d.ack

\* A stdio process in config-only mode may start without an agent.
Starts(d) ==
    /\ Guarded(d)
    /\ \/ d.transport = "http"
       \/ Authentic(d, d.env, 0)
       \/ d.mode = "config-only" /\ d.env.agent = Null

Singleton(d) ==
    IF d.transport = "http" THEN Null
    ELSE IF Authentic(d, d.env, 0) THEN AgentOf(d.mode, d.env) ELSE ""

Idle == [pc |-> "idle"]
NoContexts == [s \in {} |-> Null]

Init ==
    /\ deployment \in {d \in Deployments : Starts(d)}
    /\ singleton = Singleton(deployment)
    /\ now = 0
    /\ requests = [r \in Requests |-> Idle]
    /\ transports = {} /\ contexts = NoContexts /\ gc = "none"
    /\ calls = [c \in Calls |-> Idle]
    /\ rows = {}
    /\ restarts = 0

Tick ==
    /\ now < MaxTime
    /\ now' = now + 1
    /\ UNCHANGED <<deployment, requests, transports, contexts, gc, singleton, calls,
                   rows, restarts>>

-----------------------------------------------------------------------------
(* A session opens and closes *)

Initialize(r) ==
    /\ Http
    /\ requests[r] = Idle
    /\ requests' = [requests EXCEPT ![r] = [pc |-> "verifying"]]
    /\ UNCHANGED <<deployment, now, transports, contexts, gc, singleton, calls, rows,
                   restarts>>

\* The issuer is asked, in the strategies that ask it, and may not answer.
Authenticate(r) ==
    /\ requests[r].pc = "verifying"
    /\ \E reached \in IF deployment.mode = "jwt" /\ deployment.strategy # "shared_secret"
                      THEN BOOLEAN ELSE {TRUE} :
          requests' = [requests EXCEPT ![r] =
              [pc |-> IF reached /\ Authentic(deployment, Credential[r], now)
                      THEN "verified" ELSE "refused"]]
    /\ UNCHANGED <<deployment, now, transports, contexts, gc, singleton, calls, rows,
                   restarts>>

\* setSessionAuthContext
WithContext(s, agent) ==
    [t \in DOMAIN contexts \cup {s} |->
        IF t = s THEN [agent |-> agent, expires |-> now + TTL] ELSE contexts[t]]

\* startSessionGcIfNeeded
StartedGc == IF gc = "none" THEN "set" ELSE gc

\* onsessioninitialized
Open(r) ==
    /\ requests[r].pc = "verified"
    /\ now + TTL <= MaxTime
    /\ contexts' = WithContext(r, AgentOf(deployment.mode, Credential[r]))
    /\ transports' = transports \cup {r}
    /\ gc' = StartedGc
    /\ requests' = [requests EXCEPT ![r] = [pc |-> "open", since |-> now]]
    /\ UNCHANGED <<deployment, now, singleton, calls, rows, restarts>>

\* Mutant of Close: the context stays behind.
CloseTransport(s) ==
    /\ s \in transports
    /\ transports' = transports \ {s}
    /\ UNCHANGED <<deployment, now, requests, contexts, gc, singleton, calls, rows,
                   restarts>>

\* transport.onclose
Close(s) ==
    /\ s \in transports
    /\ transports' = transports \ {s}
    /\ contexts' = Restrict(contexts, DOMAIN contexts \ {s})
    /\ UNCHANGED <<deployment, now, requests, gc, singleton, calls, rows, restarts>>

Live(s) == contexts[s].expires > now

\* Mutant of CollectGarbage: gcInterval keeps the timer that was cleared.
CollectGarbageOnce ==
    /\ gc = "set"
    /\ contexts' = Restrict(contexts, {s \in DOMAIN contexts : Live(s)})
    /\ gc' = IF DOMAIN contexts' = {} THEN "cleared" ELSE gc
    /\ UNCHANGED <<deployment, now, requests, transports, singleton, calls, rows,
                   restarts>>

\* The timer fires, again and again, until the map is empty.
CollectGarbage ==
    /\ gc = "set"
    /\ contexts' = Restrict(contexts, {s \in DOMAIN contexts : Live(s)})
    /\ gc' = IF DOMAIN contexts' = {} THEN "none" ELSE gc
    /\ UNCHANGED <<deployment, now, requests, transports, singleton, calls, rows,
                   restarts>>

\* What is in memory is lost; clients keep the ids of their sessions.
Restart ==
    /\ Http
    /\ restarts < MaxRestarts
    /\ restarts' = restarts + 1
    /\ transports' = {} /\ contexts' = NoContexts /\ gc' = "none"
    /\ requests' = [r \in Requests |->
                       IF requests[r].pc \in {"verifying", "verified"}
                       THEN [pc |-> "refused"] ELSE requests[r]]
    /\ calls' = [c \in Calls |->
                    IF calls[c].pc = "running" THEN [pc |-> "lost"] ELSE calls[c]]
    /\ UNCHANGED <<deployment, now, singleton, rows>>

-----------------------------------------------------------------------------
(* A call *)

\* initialize_agent binds a process that has no identity, to an agent that
\* agents.yml need not know.
InitializeAgent(agent) ==
    /\ singleton = ""
    /\ singleton' = agent
    /\ UNCHANGED <<deployment, now, requests, transports, contexts, gc, calls, rows,
                   restarts>>

Running(c, s, agent) ==
    calls' = [calls EXCEPT ![c] =
                 [pc |-> "running", session |-> s, agent |-> agent, begun |-> now]]

\* Mutant of CallTool: getCurrentAuthContext leaves expiry to the collector.
CallToolUntilCollected(c, s) ==
    /\ s \in transports \cap DOMAIN contexts
    /\ calls[c] = Idle
    /\ Running(c, s, contexts[s].agent)
    /\ UNCHANGED <<deployment, now, requests, transports, contexts, gc, singleton, rows,
                   restarts>>

\* Route 1, and getCurrentAuthContext with a session that has not expired.
CallTool(c, s) ==
    /\ s \in transports \cap DOMAIN contexts
    /\ Live(s)
    /\ calls[c] = Idle
    /\ Running(c, s, contexts[s].agent)
    /\ UNCHANGED <<deployment, now, requests, transports, contexts, gc, singleton, rows,
                   restarts>>

\* getCurrentAuthContext evicts an expired one; from then on the session has a
\* transport and no identity.
CallExpired(s) ==
    /\ s \in transports \cap DOMAIN contexts
    /\ ~Live(s)
    /\ contexts' = Restrict(contexts, DOMAIN contexts \ {s})
    /\ UNCHANGED <<deployment, now, requests, transports, gc, singleton, calls, rows,
                   restarts>>

CallSingleton(c) ==
    /\ singleton # Null
    /\ calls[c] = Idle
    /\ Running(c, Null, singleton)
    /\ UNCHANGED <<deployment, now, requests, transports, contexts, gc, singleton, rows,
                   restarts>>

\* The row is written after the await, whatever became of the session.
WriteRow(c) ==
    /\ calls[c].pc = "running"
    /\ rows' = rows \cup {[session |-> calls[c].session, agent |-> calls[c].agent,
                           begun |-> calls[c].begun]}
    /\ calls' = [calls EXCEPT ![c] = [pc |-> "done"]]
    /\ UNCHANGED <<deployment, now, requests, transports, contexts, gc, singleton,
                   restarts>>

-----------------------------------------------------------------------------

Next ==
    \/ Tick
    \/ \E r \in Requests : Initialize(r) \/ Authenticate(r) \/ Open(r)
    \/ \E s \in Requests : Close(s) \/ CallExpired(s)
    \/ \E c \in Calls, s \in Requests : CallTool(c, s)
    \/ \E c \in Calls : CallSingleton(c) \/ WriteRow(c)
    \/ \E a \in AgentIds \cup {"unlisted"} : InitializeAgent(a)
    \/ CollectGarbage
    \/ Restart

Spec == Init /\ [][Next]_vars

\* Time passes, and a timer that is set fires.
FairSpec == Spec /\ WF_vars(Tick) /\ WF_vars(CollectGarbage)

-----------------------------------------------------------------------------
(***************************************************************************)
(* Properties                                                               *)
(***************************************************************************)

RequestOK(request) ==
    \/ request.pc \in {"idle", "verifying", "verified", "refused"}
    \/ request.pc = "open" /\ request.since \in 0 .. MaxTime

CallOK(call) ==
    \/ call.pc \in {"idle", "done", "lost"}
    \/ call.pc = "running" /\ call.begun \in 0 .. MaxTime

TypeOK ==
    /\ deployment \in Deployments /\ Starts(deployment)
    /\ now \in 0 .. MaxTime /\ restarts \in 0 .. MaxRestarts
    /\ DOMAIN requests = Requests /\ \A r \in Requests : RequestOK(requests[r])
    /\ DOMAIN calls = Calls /\ \A c \in Calls : CallOK(calls[c])
    /\ gc \in {"none", "set"}
    /\ Http <=> singleton = Null

\* An identity that was read: of a session, it is the agent its own credential
\* stands for, and was read while the session had been open for less than TTL; of
\* a process, it is the agent the process is bound to, if any.
OwnAgent(call) ==
    IF Http
    THEN /\ call.agent = AgentOf(deployment.mode, Credential[call.session])
         /\ call.agent # Null
         /\ call.begun < requests[call.session].since + TTL
    ELSE call.agent \in {"", singleton}

\* Whatever opens, closes, expires, is collected or restarts while calls wait,
\* each row carries the identity of its own caller, and none a stale one.
RowsCarryOwnIdentity == \A row \in rows : OwnAgent(row)

\* A context has a transport: closing one end closes the other, and a timer is
\* set as long as there is a context.
ContextsAreKept ==
    /\ DOMAIN contexts \subseteq transports
    /\ DOMAIN contexts # {} => gc = "set"

\* No context stays for ever, although a client may never call or close.
EveryContextEnds ==
    \A s \in Requests : s \in DOMAIN contexts ~> s \notin DOMAIN contexts
=============================================================================
