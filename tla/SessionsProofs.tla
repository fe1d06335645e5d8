---------------------------- MODULE SessionsProofs ----------------------------
(***************************************************************************)
(* Proofs about Sessions.                                                   *)
(*                                                                          *)
(* An identity is copied three times on its way into a row: from the        *)
(* credential of the initialize request into the context of the session,    *)
(* from there into the call, and from the call, after its await, into the   *)
(* row.  IInv says of each copy what it was taken from and how long that    *)
(* may be believed, in words that no close, expiry or restart can falsify.  *)
(***************************************************************************)
EXTENDS Sessions, TLAPS

\* A request that is not idle came in over HTTP; one that was verified has an
\* agent, and an open one has it since a time.
RequestsHold ==
    \A r \in Requests :
        /\ RequestOK(requests[r])
        /\ requests[r].pc # "idle" => Http
        /\ requests[r].pc \in {"verified", "open"} =>
              AgentOf(deployment.mode, Credential[r]) # Null

\* A context is the one its request was opened with.
ContextsHold ==
    /\ transports \subseteq {r \in Requests : requests[r].pc = "open"}
    /\ \A s \in DOMAIN contexts :
          /\ contexts[s].agent = AgentOf(deployment.mode, Credential[s])
          /\ contexts[s].expires = requests[s].since + TTL

\* An identity that was read: it belongs to its caller, and the session of an
\* HTTP caller is one that was opened.
Read(call) ==
    /\ call.begun \in 0 .. MaxTime
    /\ Http => call.session \in Requests /\ requests[call.session].pc = "open"
    /\ OwnAgent(call)

CallsHold ==
    /\ DOMAIN calls = Calls
    /\ \A c \in Calls :
          \/ calls[c].pc \in {"idle", "done", "lost"}
          \/ calls[c].pc = "running" /\ Read(calls[c])

RowsHold == \A row \in rows : Read(row)

IInv ==
    /\ TypeOK
    /\ RequestsHold
    /\ ContextsHold
    /\ ContextsAreKept
    /\ CallsHold
    /\ RowsHold

-----------------------------------------------------------------------------
(* What was read stays true *)

\* Nothing moves an open request, the deployment or a bound identity: what was
\* read before a step is a caller's own after it.
LEMMA ReadStays ==
    ASSUME NEW call, Read(call),
           UNCHANGED deployment,
           singleton' = singleton \/ (singleton = "" /\ ~Http),
           \A r \in Requests : requests[r].pc = "open" => requests'[r] = requests[r]
    PROVE  Read(call)'
BY DEF Read, OwnAgent, Http

\* Before the first session nothing was opened.
LEMMA Begins == Init => IInv
<1> SUFFICES ASSUME Init PROVE IInv
  OBVIOUS
<1> USE DEF Init
<1>1. deployment \in Deployments /\ Starts(deployment)
  OBVIOUS
<1>2. Http <=> singleton = Null
  <2>1. CASE Http
    <3>1. Singleton(deployment) = Null
      BY <2>1 DEF Http, Singleton
    <3> QED
      BY <2>1, <3>1
  <2>2. CASE ~Http /\ Authentic(deployment, deployment.env, 0)
    BY <2>2 DEF Http, Singleton, Authentic
  <2>3. CASE ~Http /\ ~Authentic(deployment, deployment.env, 0)
    <3>1. singleton = ""
      BY <2>3 DEF Http, Singleton
    <3> QED
      BY <2>3, <3>1, NullIsNoName
  <2> QED
    BY <2>1, <2>2, <2>3
<1>3. TypeOK
  BY <1>1, <1>2, SessionsAssumptions DEF TypeOK, RequestOK, CallOK, Idle
<1>4. RequestsHold
  BY DEF RequestsHold, RequestOK, Idle
<1>5. ContextsHold /\ ContextsAreKept
  BY DEF ContextsHold, ContextsAreKept, NoContexts
<1>6. CallsHold /\ RowsHold
  BY DEF CallsHold, RowsHold, Idle
<1> QED
  BY <1>3, <1>4, <1>5, <1>6 DEF IInv

-----------------------------------------------------------------------------
(* The clock and the requests *)

LEMMA TickKeeps == IInv /\ Tick => IInv'
<1> SUFFICES ASSUME IInv, Tick PROVE IInv'
  OBVIOUS
<1> USE DEF IInv, Tick
<1>1. TypeOK'
  BY SessionsAssumptions DEF TypeOK, Http, RequestOK, CallOK
<1>2. RequestsHold'
  BY DEF RequestsHold, RequestOK, Http
<1>3. ContextsHold' /\ ContextsAreKept'
  BY DEF ContextsHold, ContextsAreKept
<1>4. CallsHold' /\ RowsHold'
  BY DEF CallsHold, RowsHold, Read, OwnAgent, Http
<1> QED
  BY <1>1, <1>2, <1>3, <1>4

\* A request that is not open yet moves: nothing that was read depends on it.
LEMMA RequestMoves ==
    ASSUME IInv, NEW r \in Requests, NEW request,
           requests[r].pc # "open",
           request.pc \in {"verifying", "verified", "refused"},
           Http,
           request.pc = "verified" => AgentOf(deployment.mode, Credential[r]) # Null,
           requests' = [requests EXCEPT ![r] = request],
           UNCHANGED <<deployment, now, transports, contexts, gc, singleton, calls,
                       rows, restarts>>
    PROVE  IInv'
<1> USE DEF IInv
<1>1. /\ DOMAIN requests' = Requests
      /\ \A q \in Requests : requests'[q] = IF q = r THEN request ELSE requests[q]
  BY DEF TypeOK
<1>2. TypeOK'
  BY <1>1 DEF TypeOK, Http, RequestOK, CallOK
<1>3. RequestsHold'
  BY <1>1 DEF RequestsHold, RequestOK, Http
<1>4. ContextsHold' /\ ContextsAreKept'
  BY <1>1 DEF ContextsHold, ContextsAreKept
<1>5. CallsHold' /\ RowsHold'
  BY <1>1 DEF CallsHold, RowsHold, Read, OwnAgent, Http
<1> QED
  BY <1>2, <1>3, <1>4, <1>5

LEMMA InitializeKeeps == ASSUME IInv, NEW r \in Requests, Initialize(r) PROVE IInv'
<1>1. requests[r].pc # "open"
  BY DEF Initialize, Idle
<1> QED
  BY <1>1, RequestMoves DEF Initialize

LEMMA AuthenticateKeeps ==
    ASSUME IInv, NEW r \in Requests, Authenticate(r) PROVE IInv'
<1>1. PICK reached \in BOOLEAN :
          requests' = [requests EXCEPT ![r] =
              [pc |-> IF reached /\ Authentic(deployment, Credential[r], now)
                      THEN "verified" ELSE "refused"]]
  BY DEF Authenticate
<1>2. Http
  BY DEF IInv, RequestsHold, Authenticate
<1>3. CASE reached /\ Authentic(deployment, Credential[r], now)
  <2>1. requests' = [requests EXCEPT ![r] = [pc |-> "verified"]]
    BY <1>1, <1>3
  <2>2. AgentOf(deployment.mode, Credential[r]) # Null
    BY <1>3 DEF Authentic
  <2> QED
    BY <1>2, <2>1, <2>2, RequestMoves DEF Authenticate
<1>4. CASE ~(reached /\ Authentic(deployment, Credential[r], now))
  <2>1. requests' = [requests EXCEPT ![r] = [pc |-> "refused"]]
    BY <1>1, <1>4
  <2> QED
    BY <1>2, <2>1, RequestMoves DEF Authenticate
<1> QED
  BY <1>3, <1>4

\* A session opens: its context is made of the credential it was opened with,
\* and the timer is set.
LEMMA OpenKeeps == ASSUME IInv, NEW r \in Requests, Open(r) PROVE IInv'
<1> USE DEF IInv, Open
<1>1. /\ DOMAIN requests' = Requests
      /\ \A q \in Requests : requests'[q] = IF q = r THEN [pc |-> "open", since |-> now]
                                            ELSE requests[q]
  BY DEF TypeOK
<1>2. \A q \in Requests : requests[q].pc = "open" => requests'[q] = requests[q]
  BY <1>1
<1>3. r \notin transports
  BY DEF ContextsHold
<1>4. /\ DOMAIN contexts' = DOMAIN contexts \cup {r}
      /\ \A s \in DOMAIN contexts' :
            contexts'[s] = IF s = r THEN [agent |-> AgentOf(deployment.mode, Credential[r]),
                                          expires |-> now + TTL]
                           ELSE contexts[s]
  BY DEF WithContext
<1>5. TypeOK'
  <2>1. gc' \in {"none", "set"}
    BY DEF TypeOK, StartedGc
  <2>2. \A q \in Requests : RequestOK(requests'[q])
    BY <1>1, SessionsAssumptions DEF TypeOK, RequestOK
  <2>3. \A q \in Requests : RequestOK(requests[q])'
    BY <2>2 DEF RequestOK
  <2> QED
    BY <1>1, <2>1, <2>3 DEF TypeOK, Http, CallOK
<1>6. RequestsHold'
  BY <1>1, <1>5 DEF RequestsHold, TypeOK, RequestOK, Http
<1>7. ContextsHold'
  <2>1. transports' \subseteq {q \in Requests : requests'[q].pc = "open"}
    BY <1>1 DEF ContextsHold
  <2>2. ASSUME NEW s \in DOMAIN contexts'
        PROVE  /\ contexts'[s].agent = AgentOf(deployment.mode, Credential[s])
               /\ contexts'[s].expires = requests'[s].since + TTL
    <3>1. CASE s = r
      BY <1>1, <1>4, <3>1
    <3>2. CASE s # r
      BY <1>1, <1>4, <3>2 DEF ContextsHold, ContextsAreKept
    <3> QED
      BY <3>1, <3>2
  <2> QED
    BY <2>1, <2>2 DEF ContextsHold
<1>8. ContextsAreKept'
  BY <1>4 DEF ContextsAreKept, StartedGc, TypeOK
<1>9. CallsHold' /\ RowsHold'
  BY <1>2, ReadStays DEF CallsHold, RowsHold
<1> QED
  BY <1>5, <1>6, <1>7, <1>8, <1>9

-----------------------------------------------------------------------------
(* Sessions end *)

\* Contexts that are taken away, with the transport or without it.
LEMMA FewerContexts ==
    ASSUME IInv,
           DOMAIN contexts' \subseteq DOMAIN contexts,
           \A s \in DOMAIN contexts' : contexts'[s] = contexts[s],
           transports' \subseteq transports,
           DOMAIN contexts' \subseteq transports',
           gc' \in {"none", "set"},
           DOMAIN contexts' # {} => gc' = "set",
           UNCHANGED <<deployment, now, requests, singleton, calls, rows, restarts>>
    PROVE  IInv'
<1> USE DEF IInv
<1>1. TypeOK'
  BY DEF TypeOK, Http, RequestOK, CallOK
<1>2. RequestsHold'
  BY DEF RequestsHold, RequestOK, Http
<1>3. ContextsHold'
  BY DEF ContextsHold
<1>4. ContextsAreKept'
  BY DEF ContextsAreKept
<1>5. CallsHold' /\ RowsHold'
  BY ReadStays DEF CallsHold, RowsHold
<1> QED
  BY <1>1, <1>2, <1>3, <1>4, <1>5

LEMMA CloseKeeps == ASSUME IInv, NEW s \in Requests, Close(s) PROVE IInv'
<1>1. /\ DOMAIN contexts' = DOMAIN contexts \ {s}
      /\ \A t \in DOMAIN contexts' : contexts'[t] = contexts[t]
  BY DEF Close, Restrict
<1>2. /\ transports' \subseteq transports
      /\ DOMAIN contexts' \subseteq transports'
      /\ gc' \in {"none", "set"}
      /\ DOMAIN contexts' # {} => gc' = "set"
  BY <1>1 DEF Close, IInv, TypeOK, ContextsAreKept
<1> QED
  BY <1>1, <1>2, FewerContexts DEF Close

LEMMA CallExpiredKeeps == ASSUME IInv, NEW s \in Requests, CallExpired(s) PROVE IInv'
<1>1. /\ DOMAIN contexts' = DOMAIN contexts \ {s}
      /\ \A t \in DOMAIN contexts' : contexts'[t] = contexts[t]
  BY DEF CallExpired, Restrict
<1>2. /\ transports' \subseteq transports
      /\ DOMAIN contexts' \subseteq transports'
      /\ gc' \in {"none", "set"}
      /\ DOMAIN contexts' # {} => gc' = "set"
  BY <1>1 DEF CallExpired, IInv, TypeOK, ContextsAreKept
<1> QED
  BY <1>1, <1>2, FewerContexts DEF CallExpired

LEMMA CollectGarbageKeeps == ASSUME IInv, CollectGarbage PROVE IInv'
<1>1. /\ DOMAIN contexts' \subseteq DOMAIN contexts
      /\ \A t \in DOMAIN contexts' : contexts'[t] = contexts[t]
  BY DEF CollectGarbage, Restrict
<1>2. /\ transports' \subseteq transports
      /\ DOMAIN contexts' \subseteq transports'
      /\ gc' \in {"none", "set"}
      /\ DOMAIN contexts' # {} => gc' = "set"
  BY <1>1 DEF CollectGarbage, IInv, TypeOK, ContextsAreKept
<1> QED
  BY <1>1, <1>2, FewerContexts DEF CollectGarbage

\* A restart forgets sessions and waiting calls; the requests that were open stay
\* the past of the rows.
LEMMA RestartKeeps == ASSUME IInv, Restart PROVE IInv'
<1> USE DEF IInv, Restart
<1>1. /\ DOMAIN requests' = Requests
      /\ \A q \in Requests :
            requests'[q] = IF requests[q].pc \in {"verifying", "verified"}
                           THEN [pc |-> "refused"] ELSE requests[q]
  OBVIOUS
<1>2. /\ DOMAIN calls' = Calls
      /\ \A c \in Calls :
            calls'[c] = IF calls[c].pc = "running" THEN [pc |-> "lost"] ELSE calls[c]
  OBVIOUS
<1>3. \A q \in Requests : requests[q].pc = "open" => requests'[q] = requests[q]
  BY <1>1
<1>4. TypeOK'
  <2>1. \A q \in Requests : RequestOK(requests[q])'
    BY <1>1 DEF TypeOK, RequestOK
  <2>2. \A c \in Calls : CallOK(calls[c])'
    BY <1>2 DEF TypeOK, CallOK
  <2>3. restarts' \in 0 .. MaxRestarts
    BY SessionsAssumptions DEF TypeOK
  <2> QED
    BY <1>1, <1>2, <2>1, <2>2, <2>3 DEF TypeOK, Http
<1>5. RequestsHold'
  BY <1>1 DEF RequestsHold, RequestOK, Http
<1>6. ContextsHold' /\ ContextsAreKept'
  BY DEF ContextsHold, ContextsAreKept, NoContexts
<1>7. CallsHold'
  BY <1>2 DEF CallsHold
<1>8. RowsHold'
  BY <1>3, ReadStays DEF RowsHold
<1> QED
  BY <1>4, <1>5, <1>6, <1>7, <1>8

-----------------------------------------------------------------------------
(* A call *)

\* The process is bound: what was read before was read without an identity.
LEMMA InitializeAgentKeeps ==
    ASSUME IInv, NEW a \in AgentIds \cup {"unlisted"}, InitializeAgent(a)
    PROVE  IInv'
<1> USE DEF IInv, InitializeAgent
<1>1. ~Http /\ a # Null
  BY NullIsNoName DEF TypeOK, AgentIds
<1>2. TypeOK'
  BY <1>1 DEF TypeOK, Http, RequestOK, CallOK
<1>3. RequestsHold'
  BY DEF RequestsHold, RequestOK, Http
<1>4. ContextsHold' /\ ContextsAreKept'
  BY DEF ContextsHold, ContextsAreKept
<1>5. CallsHold' /\ RowsHold'
  BY <1>1, ReadStays DEF CallsHold, RowsHold
<1> QED
  BY <1>2, <1>3, <1>4, <1>5

\* A call moves, to an end or to an identity that is its caller's own.
LEMMA CallMoves ==
    ASSUME IInv, NEW c \in Calls, NEW call,
           \/ call.pc = "done"
           \/ call.pc = "running" /\ Read(call),
           calls' = [calls EXCEPT ![c] = call],
           \A row \in rows' : Read(row),
           UNCHANGED <<deployment, now, requests, transports, contexts, gc, singleton,
                       restarts>>
    PROVE  IInv'
<1> USE DEF IInv
<1>1. /\ DOMAIN calls' = Calls
      /\ \A d \in Calls : calls'[d] = IF d = c THEN call ELSE calls[d]
  BY DEF CallsHold
<1>2. TypeOK'
  BY <1>1 DEF TypeOK, Http, RequestOK, CallOK, Read
<1>3. RequestsHold'
  BY DEF RequestsHold, RequestOK, Http
<1>4. ContextsHold' /\ ContextsAreKept'
  BY DEF ContextsHold, ContextsAreKept
<1>5. CallsHold'
  <2>1. ASSUME NEW d \in Calls
        PROVE  \/ calls'[d].pc \in {"idle", "done", "lost"}
               \/ calls'[d].pc = "running" /\ Read(calls'[d])
    BY <1>1 DEF CallsHold
  <2>2. \A read : Read(read) => Read(read)'
    BY DEF Read, OwnAgent, Http
  <2> QED
    BY <1>1, <2>1, <2>2 DEF CallsHold
<1>6. RowsHold'
  BY ReadStays DEF RowsHold
<1> QED
  BY <1>2, <1>3, <1>4, <1>5, <1>6

\* A call of a session takes the agent of a context that has not expired.
LEMMA CallToolKeeps ==
    ASSUME IInv, NEW c \in Calls, NEW s \in Requests, CallTool(c, s)
    PROVE  IInv'
<1> DEFINE call == [pc |-> "running", session |-> s, agent |-> contexts[s].agent,
                    begun |-> now]
<1>1. Http /\ requests[s].pc = "open" /\ AgentOf(deployment.mode, Credential[s]) # Null
  BY DEF IInv, RequestsHold, ContextsHold, CallTool
<1>2. /\ contexts[s].agent = AgentOf(deployment.mode, Credential[s])
      /\ now < requests[s].since + TTL
  BY DEF IInv, ContextsHold, CallTool, Live
<1>3. now \in 0 .. MaxTime
  BY DEF IInv, TypeOK
<1>4. call.pc = "running" /\ Read(call)
  BY <1>1, <1>2, <1>3 DEF Read, OwnAgent
<1>5. calls' = [calls EXCEPT ![c] = call]
  BY DEF CallTool, Running
<1>6. \A row \in rows' : Read(row)
  BY DEF IInv, RowsHold, CallTool
<1> HIDE DEF call
<1> QED
  BY <1>4, <1>5, <1>6, CallMoves DEF CallTool

\* A call of the process takes the agent it is bound to, or none.
LEMMA CallSingletonKeeps ==
    ASSUME IInv, NEW c \in Calls, CallSingleton(c) PROVE IInv'
<1> DEFINE call == [pc |-> "running", session |-> Null, agent |-> singleton,
                    begun |-> now]
<1>1. ~Http /\ now \in 0 .. MaxTime
  BY DEF IInv, TypeOK, CallSingleton
<1>2. call.pc = "running" /\ Read(call)
  BY <1>1 DEF Read, OwnAgent
<1>3. calls' = [calls EXCEPT ![c] = call]
  BY DEF CallSingleton, Running
<1>4. \A row \in rows' : Read(row)
  BY DEF IInv, RowsHold, CallSingleton
<1> HIDE DEF call
<1> QED
  BY <1>2, <1>3, <1>4, CallMoves DEF CallSingleton

\* The row is what the call had read.
LEMMA WriteRowKeeps == ASSUME IInv, NEW c \in Calls, WriteRow(c) PROVE IInv'
<1> DEFINE row == [session |-> calls[c].session, agent |-> calls[c].agent,
                   begun |-> calls[c].begun]
<1>1. Read(calls[c])
  BY DEF IInv, CallsHold, WriteRow
<1>2. Read(row)
  BY <1>1 DEF Read, OwnAgent
<1>3. rows' = rows \cup {row}
  BY DEF WriteRow
<1> HIDE DEF row
<1>4. \A r \in rows' : Read(r)
  BY <1>2, <1>3 DEF IInv, RowsHold
<1> QED
  BY <1>4, CallMoves DEF WriteRow

-----------------------------------------------------------------------------
(* The theorems *)

LEMMA StepKeeps == IInv /\ [Next]_vars => IInv'
<1> SUFFICES ASSUME IInv, [Next]_vars PROVE IInv'
  OBVIOUS
<1>1. CASE Tick
  BY <1>1, TickKeeps
<1>2. CASE \E r \in Requests : Initialize(r) \/ Authenticate(r) \/ Open(r)
  BY <1>2, InitializeKeeps, AuthenticateKeeps, OpenKeeps
<1>3. CASE \E s \in Requests : Close(s) \/ CallExpired(s)
  BY <1>3, CloseKeeps, CallExpiredKeeps
<1>4. CASE \E c \in Calls, s \in Requests : CallTool(c, s)
  BY <1>4, CallToolKeeps
<1>5. CASE \E c \in Calls : CallSingleton(c) \/ WriteRow(c)
  BY <1>5, CallSingletonKeeps, WriteRowKeeps
<1>6. CASE \E a \in AgentIds \cup {"unlisted"} : InitializeAgent(a)
  BY <1>6, InitializeAgentKeeps
<1>7. CASE CollectGarbage
  BY <1>7, CollectGarbageKeeps
<1>8. CASE Restart
  BY <1>8, RestartKeeps
<1>9. CASE UNCHANGED vars
  BY <1>9, FewerContexts DEF vars, IInv, TypeOK, ContextsAreKept
<1> QED
  BY <1>1, <1>2, <1>3, <1>4, <1>5, <1>6, <1>7, <1>8, <1>9 DEF Next

\* The invariant: whatever opens, closes, expires, is collected or restarts while
\* calls wait, each copy of an identity is what it was taken from.
THEOREM SessionsInvariant == Spec => []IInv
BY Begins, StepKeeps, PTL DEF Spec

\* Types; a process has an identity of its own exactly when it is not a server of
\* HTTP sessions.
THEOREM SessionsTypes == Spec => []TypeOK
<1>1. IInv => TypeOK
  BY DEF IInv
<1> QED
  BY <1>1, SessionsInvariant, PTL

\* A row carries the identity of the caller that made the call, read before its
\* session had been open for TTL, although it is written after an await in which
\* the session may have ended (auth/context.ts, tools/control.ts).
THEOREM RowsAreOwn == Spec => []RowsCarryOwnIdentity
<1>1. IInv => RowsCarryOwnIdentity
  BY DEF IInv, RowsHold, Read, RowsCarryOwnIdentity
<1> QED
  BY <1>1, SessionsInvariant, PTL

\* No context outlives its transport, and none is without a timer that will take
\* it away (the two maps of server.ts and auth/context.ts, gcInterval).
THEOREM ContextsStayKept == Spec => []ContextsAreKept
<1>1. IInv => ContextsAreKept
  BY DEF IInv
<1> QED
  BY <1>1, SessionsInvariant, PTL
===============================================================================
