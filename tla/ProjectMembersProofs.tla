------------------------ MODULE ProjectMembersProofs -------------------------
(***************************************************************************)
(* Proofs about ProjectMembers, for any number of users, overlapping calls   *)
(* and restarts: the project keeps an admin but for a race, the start leaves *)
(* a complete organization, and only those become members who are added.     *)
(***************************************************************************)
EXTENDS ProjectMembers, FiniteSetTheorems, TLAPS

-----------------------------------------------------------------------------
(* The inductive invariant *)

Kinds == {"signUp", "modify", "remove", "add"}

CallRecords ==
    [pc : {"count", "org", "init", "role", "target", "admins", "write", "create", "member"},
     kind : Kinds, actor : Users \cup {Null}, target : Users, role : Roles \cup {Null},
     stale : BOOLEAN]

StartSteps == {"first", "org", "orgMember", "adopt", "project", "member", "up", "down"}

Types ==
    /\ users \subseteq Users
    /\ org \in BOOLEAN
    /\ project \in {"none", "orphan", "owned"}
    /\ members \in [DOMAIN members -> Roles]
    /\ server \in [pc : StartSteps, first : Users \cup {Null}]
    /\ calls \in [Calls -> {Idle, Done, Failed} \cup CallRecords]
    /\ lost \in BOOLEAN
    /\ restarts \in Nat

\* Members are users, and members of a project.
MembersHold ==
    /\ DOMAIN members \subseteq users
    /\ project = "none" => DOMAIN members = {}

\* The start has done what is behind it, for a user it found.
StartHolds ==
    /\ server.pc = "first" => server.first = Null
    /\ server.pc \in {"org", "orgMember", "adopt", "project", "member"} => server.first \in users
    /\ server.first # Null =>
          /\ server.pc \in {"orgMember", "adopt", "project", "member", "up"} => org
          /\ server.pc \in {"adopt", "project", "member", "up"} => server.first \in orgAdmins
          /\ server.pc \in {"project", "member", "up"} => project # "orphan"
          /\ server.pc \in {"member", "up"} => project = "owned"

\* A project without an admin has lost the last one in a race, or has no member
\* yet and a start ahead that finds a user.
AdminsHold ==
    project # "none" /\ Admins = {} /\ ~lost =>
        /\ ~Up
        /\ DOMAIN members = {}
        /\ users # {}

\* What a call has found out, and what it saw of the members while that is fresh.
CallHolds(c) ==
    LET call == calls[c]
    IN Running(c) =>
          /\ Up
          /\ call.kind = "signUp" => call.target \in users
          /\ call.kind # "signUp" => project # "none"
          /\ call.kind = "modify" => call.role \in Roles
          /\ call.kind = "add" /\ call.pc \in {"member", "write"} => call.target \in users
          /\ call.kind = "modify" /\ call.pc = "write" /\ ~call.stale =>
                RoleOf(call.target) # "admin" \/ \E a \in Admins : a # call.target
          /\ call.kind = "remove" /\ call.pc = "write" /\ ~call.stale =>
                RoleOf(call.target) # "admin"

IInv ==
    /\ Types
    /\ MembersHold
    /\ StartHolds
    /\ AdminsHold
    /\ \A c \in Calls : CallHolds(c)

-----------------------------------------------------------------------------
(* What a step does to the calls *)

\* A running call is one of the records.
LEMMA RunningIs ==
    ASSUME NEW S, NEW x \in {Idle, Done, Failed} \cup S, S = CallRecords
    PROVE  x \notin {Idle, Done, Failed} <=> x \in S
BY DEF Idle, Done, Failed, CallRecords

LEMMA AtRecord ==
    ASSUME Types, NEW c \in Calls, NEW kind, NEW pc, At(c, kind, pc),
           pc \notin {"idle", "done", "failed"}
    PROVE  /\ calls[c] \in CallRecords /\ Running(c) /\ Up
           /\ calls[c].pc = pc /\ calls[c].kind = kind
<1>1. calls[c] \in {Idle, Done, Failed} \cup CallRecords /\ calls[c].pc = pc
  BY DEF Types, At
<1>2. calls[c] \notin {Idle, Done, Failed}
  BY <1>1 DEF Idle, Done, Failed
<1> QED
  BY <1>1, <1>2 DEF Running, At

\* A call that goes on, ends or begins, while the tables stay as they are.
LEMMA CallMoves ==
    ASSUME IInv, NEW c \in Calls, NEW r \in {Idle, Done, Failed} \cup CallRecords,
           calls' = [calls EXCEPT ![c] = r], UNCHANGED <<tables, server, lost, restarts>>,
           CallHolds(c)'
    PROVE  IInv'
<1>1. Types'
  BY DEF IInv, Types, tables
<1>2. MembersHold' /\ StartHolds' /\ AdminsHold'
  BY DEF IInv, MembersHold, StartHolds, AdminsHold, Admins, Up, tables
<1>3. ASSUME NEW d \in Calls \ {c} PROVE CallHolds(d)'
  <2>1. calls'[d] = calls[d]
    BY DEF IInv, Types
  <2> QED
    BY <2>1 DEF IInv, CallHolds, Running, Up, RoleOf, Admins, tables
<1> QED
  BY <1>1, <1>2, <1>3 DEF IInv

\* One that ends has nothing to keep.
LEMMA CallEnds ==
    ASSUME IInv, NEW c \in Calls, NEW r \in {Done, Failed}, Becomes(c, r)
    PROVE  IInv'
<1>1. calls' = [calls EXCEPT ![c] = r] /\ UNCHANGED <<tables, server, lost, restarts>>
  BY DEF Becomes, Stays
<1>2. calls'[c] = r
  BY <1>1 DEF IInv, Types
<1>3. CallHolds(c)'
  BY <1>2 DEF CallHolds, Running
<1> QED
  BY <1>1, <1>3, CallMoves

\* One that goes on to this step knows what the step rests on.
LEMMA CallGoes ==
    ASSUME IInv, NEW c \in Calls, NEW kind \in Kinds,
           NEW from \in {"count", "org", "target", "admins", "member"}, At(c, kind, from),
           NEW pc \in {"org", "init", "admins", "write", "create", "member"}, Goes(c, pc),
           kind = "add" /\ pc \in {"member", "write"} => calls[c].target \in users,
           kind = "modify" /\ pc = "write" =>
               RoleOf(calls[c].target) # "admin" \/ \E a \in Admins : a # calls[c].target,
           kind = "remove" /\ pc = "write" => RoleOf(calls[c].target) # "admin"
    PROVE  IInv'
<1>1. calls[c] \in CallRecords /\ calls[c].kind = kind /\ Running(c)
  BY AtRecord DEF IInv
<1>2. [calls[c] EXCEPT !.pc = pc] \in CallRecords
  BY <1>1 DEF CallRecords
<1>3. calls' = [calls EXCEPT ![c] = [calls[c] EXCEPT !.pc = pc]]
      /\ UNCHANGED <<tables, server, lost, restarts>>
  BY DEF Goes, Stays
<1>4. calls'[c] = [calls[c] EXCEPT !.pc = pc]
  BY <1>3 DEF IInv, Types
<1>5. CallHolds(c)'
  <2>1. /\ calls'[c].pc = pc /\ calls'[c].kind = kind /\ calls'[c].target = calls[c].target
        /\ calls'[c].role = calls[c].role
    BY <1>1, <1>4 DEF CallRecords
  <2> QED
    BY <1>1, <1>3, <2>1 DEF IInv, CallHolds, Up, RoleOf, Admins, tables
<1> QED
  BY <1>2, <1>3, <1>5, CallMoves

\* A write of a call to the members makes the others out of date.
LEMMA WritesEffect ==
    ASSUME Types, NEW c \in Calls, NEW M, Writes(c, M)
    PROVE  /\ members' = M /\ UNCHANGED <<server, restarts>>
           /\ calls' \in [Calls -> {Idle, Done, Failed} \cup CallRecords]
           /\ calls'[c] = Done
           /\ \A d \in Calls \ {c} :
                 \/ calls'[d] = calls[d] /\ M = members
                 \/ calls'[d] = calls[d] /\ calls[d].pc \notin {"admins", "member", "write"}
                 \/ calls[d] \in CallRecords /\ calls'[d] = [calls[d] EXCEPT !.stale = TRUE]
           /\ lost' = (lost \/ (calls[c].stale /\ Admins # {} /\ Admins' = {}))
<1> DEFINE ended == [calls EXCEPT ![c] = Done]
           cs == IF M = members THEN ended ELSE Outdated(ended)
<1>1. /\ members' = M /\ UNCHANGED <<server, restarts>> /\ calls' = cs
      /\ lost' = (lost \/ (calls[c].stale /\ Admins # {} /\ Admins' = {}))
  BY DEF Writes
<1>2. ended \in [Calls -> {Idle, Done, Failed} \cup CallRecords] /\ ended[c] = Done
      /\ \A d \in Calls \ {c} : ended[d] = calls[d]
  BY DEF Types
<1> HIDE DEF ended
<1>3. CASE M = members
  BY <1>1, <1>2, <1>3
<1>4. CASE M # members
  <2>1. calls' = Outdated(ended)
    BY <1>1, <1>4
  <2>2. ASSUME NEW d \in Calls
        PROVE  /\ Outdated(ended)[d] \in {Idle, Done, Failed} \cup CallRecords
               /\ \/ /\ Outdated(ended)[d] = ended[d]
                     /\ ended[d].pc \notin {"admins", "member", "write"}
                  \/ /\ ended[d] \in CallRecords
                     /\ Outdated(ended)[d] = [ended[d] EXCEPT !.stale = TRUE]
    <3>1. ended[d] \in {Idle, Done, Failed} \cup CallRecords
      BY <1>2
    <3>2. CASE ended[d].pc \in {"admins", "member", "write"}
      <4>1. ended[d] \in CallRecords
        BY <3>1, <3>2 DEF Idle, Done, Failed
      <4>2. [ended[d] EXCEPT !.stale = TRUE] \in CallRecords
        BY <4>1 DEF CallRecords
      <4> QED
        BY <3>2, <4>1, <4>2 DEF Outdated
    <3>3. CASE ended[d].pc \notin {"admins", "member", "write"}
      BY <3>1, <3>3 DEF Outdated
    <3> QED
      BY <3>2, <3>3
  <2>3. Outdated(ended) \in [Calls -> {Idle, Done, Failed} \cup CallRecords]
    <3>1. Outdated(ended) = [d \in Calls |-> Outdated(ended)[d]]
      BY DEF Outdated
    <3> QED
      BY <2>2, <3>1
  <2>4. Outdated(ended)[c] = Done
    <3>1. Done.pc \notin {"admins", "member", "write"}
      BY DEF Done
    <3> QED
      BY <1>2, <3>1 DEF Outdated
  <2> QED
    BY <1>1, <1>2, <2>1, <2>2, <2>3, <2>4
<1> QED
  BY <1>1, <1>3, <1>4

\* What an out of date call knows is no more than that it is out of date.
LEMMA OthersAfterWrite ==
    ASSUME IInv, NEW c \in Calls, NEW M, Writes(c, M), users \subseteq users',
           project # "none" => project' # "none", NEW d \in Calls \ {c}
    PROVE  CallHolds(d)'
<1>1. /\ members' = M /\ server' = server
      /\ \/ calls'[d] = calls[d] /\ M = members
         \/ calls'[d] = calls[d] /\ calls[d].pc \notin {"admins", "member", "write"}
         \/ calls[d] \in CallRecords /\ calls'[d] = [calls[d] EXCEPT !.stale = TRUE]
  BY WritesEffect DEF IInv
<1>2. CallHolds(d)
  BY DEF IInv
<1>3. CASE calls'[d] = calls[d] /\ M = members
  BY <1>1, <1>2, <1>3 DEF CallHolds, Running, Up, RoleOf, Admins
<1>4. CASE calls'[d] = calls[d] /\ calls[d].pc \notin {"admins", "member", "write"}
  BY <1>1, <1>2, <1>4 DEF CallHolds, Running, Up
<1>5. CASE calls[d] \in CallRecords /\ calls'[d] = [calls[d] EXCEPT !.stale = TRUE]
  <2>1. /\ calls'[d].pc = calls[d].pc /\ calls'[d].kind = calls[d].kind
        /\ calls'[d].target = calls[d].target /\ calls'[d].role = calls[d].role
        /\ calls'[d].stale
    BY <1>5 DEF CallRecords
  <2>2. Running(d)
    BY <1>5 DEF Running, Idle, Done, Failed, CallRecords
  <2> QED
    BY <1>1, <1>2, <2>1, <2>2 DEF CallHolds, Up
<1> QED
  BY <1>1, <1>3, <1>4, <1>5

\* A write of a running call, which leaves an admin or loses the last one late.
LEMMA WriteHolds ==
    ASSUME IInv, NEW c \in Calls, Running(c), NEW M, M \in [DOMAIN M -> Roles], Writes(c, M),
           users \subseteq users', users' \subseteq Users,
           org' \in BOOLEAN, org => org', orgAdmins \subseteq orgAdmins',
           project' = project \/ (project = "none" /\ project' = "owned"),
           DOMAIN M \subseteq users', project' = "none" => DOMAIN M = {},
           project' = "none" \/ lost' \/ Admins' # {}
    PROVE  IInv'
<1>1. /\ members' = M /\ UNCHANGED <<server, restarts>>
      /\ calls' \in [Calls -> {Idle, Done, Failed} \cup CallRecords]
      /\ calls'[c] = Done
      /\ lost' = (lost \/ (calls[c].stale /\ Admins # {} /\ Admins' = {}))
  BY WritesEffect DEF IInv
<1>2. Up
  BY DEF IInv, CallHolds
<1>3. lost' \in BOOLEAN
  BY <1>1 DEF IInv, Types
<1>4. Types'
  BY <1>1, <1>3 DEF IInv, Types
<1>5. MembersHold'
  BY <1>1 DEF MembersHold
<1>6. StartHolds'
  BY <1>1, <1>2 DEF IInv, StartHolds, Up, Types
<1>7. AdminsHold'
  BY DEF AdminsHold
<1>8. CallHolds(c)'
  BY <1>1 DEF CallHolds, Running
<1>9. ASSUME NEW d \in Calls \ {c} PROVE CallHolds(d)'
  BY <1>9, OthersAfterWrite
<1> QED
  BY <1>4, <1>5, <1>6, <1>7, <1>8, <1>9 DEF IInv

\* Before the write of an administrator there is an admin, or the last one is lost.
LEMMA AdminsBefore ==
    ASSUME IInv, NEW c \in Calls, calls[c] \in CallRecords, Running(c), calls[c].kind # "signUp"
    PROVE  lost \/ Admins # {}
BY DEF IInv, CallHolds, AdminsHold

-----------------------------------------------------------------------------
(* The calls *)

LEMMA SignUpHolds ==
    ASSUME IInv, NEW c \in Calls, NEW u \in Users, SignUp(c, u)
    PROVE  IInv'
<1> DEFINE r == [pc |-> "count", kind |-> "signUp", actor |-> Null, target |-> u,
                 role |-> Null, stale |-> FALSE]
<1>1. /\ Up /\ u \notin users /\ users' = users \cup {u} /\ calls' = [calls EXCEPT ![c] = r]
      /\ UNCHANGED <<org, orgAdmins, project, members, server, lost, restarts>>
  BY DEF SignUp, Call
<1>2. r \in CallRecords
  BY DEF CallRecords, Kinds
<1>3. Types'
  BY <1>1, <1>2 DEF IInv, Types
<1>4. MembersHold' /\ StartHolds' /\ AdminsHold'
  BY <1>1 DEF IInv, MembersHold, StartHolds, AdminsHold, Admins, Up
<1>5. ASSUME NEW d \in Calls PROVE CallHolds(d)'
  <2>1. CASE d = c
    <3>1. calls'[d] = r
      BY <1>1, <2>1 DEF IInv, Types
    <3> QED
      BY <1>1, <3>1 DEF CallHolds, Up
  <2>2. CASE d # c
    <3>1. calls'[d] = calls[d]
      BY <1>1, <2>2 DEF IInv, Types
    <3> QED
      BY <1>1, <3>1 DEF IInv, CallHolds, Running, Up, RoleOf, Admins
  <2> QED
    BY <2>1, <2>2
<1> QED
  BY <1>3, <1>4, <1>5 DEF IInv

LEMMA InitializeDefaultHolds ==
    ASSUME IInv, NEW c \in Calls, InitializeDefault(c)
    PROVE  IInv'
<1> DEFINE u == calls[c].target
           M == IF project = "none" THEN WithMember(u, "admin") ELSE members
<1>1. calls[c] \in CallRecords /\ Running(c) /\ Up /\ calls[c].kind = "signUp"
  BY AtRecord DEF IInv, InitializeDefault
<1>2. u \in users
  BY <1>1 DEF IInv, CallHolds
<1>3. /\ ~org /\ org' = TRUE /\ orgAdmins' = orgAdmins \cup {u}
      /\ project' = IF project = "none" THEN "owned" ELSE project
      /\ Writes(c, M) /\ UNCHANGED users
  BY DEF InitializeDefault
<1> HIDE DEF u
<1>4. "admin" \in Roles
  BY DEF Roles
<1>5. /\ M \in [DOMAIN M -> Roles] /\ DOMAIN M \subseteq users
      /\ project = "none" => u \in DOMAIN M /\ M[u] = "admin"
  <2>1. CASE project = "none"
    <3>1. M = WithMember(u, "admin") /\ Types /\ DOMAIN members \subseteq users
      BY <2>1 DEF IInv, MembersHold
    <3> HIDE DEF M
    <3> QED
      BY <1>2, <1>4, <3>1 DEF WithMember, Types
  <2>2. CASE project # "none"
    BY <2>2 DEF IInv, Types, MembersHold
  <2> QED
    BY <2>1, <2>2
<1>6. members' = M /\ (lost => lost')
  BY <1>3, WritesEffect DEF IInv
<1>7. project' = "none" \/ lost' \/ Admins' # {}
  <2>1. CASE project = "none"
    BY <1>5, <1>6, <2>1 DEF Admins
  <2>2. CASE project # "none"
    BY <1>1, <1>6, <2>2 DEF IInv, AdminsHold, Admins
  <2> QED
    BY <2>1, <2>2
<1> HIDE DEF M
<1> QED
  BY <1>1, <1>3, <1>5, <1>7, WriteHolds DEF IInv, Types

LEMMA SigningUpHolds ==
    ASSUME IInv, NEW c \in Calls, SigningUp(c)
    PROVE  IInv'
<1>2. CASE CountUsers(c)
  <2>1. At(c, "signUp", "count") /\ "signUp" \in Kinds
    BY <1>2 DEF CountUsers, Kinds
  <2>2. Goes(c, "org") \/ Becomes(c, Done)
    BY <1>2 DEF CountUsers
  <2> QED
    BY <2>1, <2>2, CallEnds, CallGoes
<1>3. CASE FindOrg(c)
  <2>1. At(c, "signUp", "org") /\ "signUp" \in Kinds
    BY <1>3 DEF FindOrg, Kinds
  <2>2. Goes(c, "init") \/ Becomes(c, Done)
    BY <1>3 DEF FindOrg
  <2> QED
    BY <2>1, <2>2, CallEnds, CallGoes
<1> QED
  BY <1>2, <1>3, SignUpHolds, InitializeDefaultHolds DEF SigningUp

LEMMA RequestHolds ==
    ASSUME IInv, NEW c \in Calls, NEW kind \in {"modify", "remove", "add"},
           NEW actor \in Users, NEW target \in Users,
           NEW role, kind = "modify" => role \in Roles, role \in Roles \cup {Null},
           Request(c, kind, actor, target, role)
    PROVE  IInv'
<1> DEFINE r == [pc |-> "role", kind |-> kind, actor |-> actor, target |-> target,
                 role |-> role, stale |-> FALSE]
<1>1. /\ Up /\ project # "none" /\ calls' = [calls EXCEPT ![c] = r]
      /\ UNCHANGED <<tables, server, lost, restarts>>
  BY DEF Request, Call
<1>2. r \in CallRecords
  BY DEF CallRecords, Kinds
<1>3. CallHolds(c)'
  <2>1. calls'[c] = r
    BY <1>1 DEF IInv, Types
  <2> QED
    BY <1>1, <2>1 DEF CallHolds, Up, tables
<1> QED
  BY <1>1, <1>2, <1>3, CallMoves

LEMMA AuthorizeHolds ==
    ASSUME IInv, NEW c \in Calls, NEW kind \in {"modify", "remove", "add"}, Authorize(c, kind)
    PROVE  IInv'
<1> DEFINE r == [calls[c] EXCEPT !.pc = "target", !.actor = Null]
<1>1. calls[c] \in CallRecords /\ Running(c) /\ calls[c].kind = kind
  BY AtRecord DEF IInv, Authorize
<1>2. CASE Becomes(c, Failed)
  BY <1>2, CallEnds
<1>3. CASE Becomes(c, r)
  <2>1. /\ r \in CallRecords /\ r.pc = "target" /\ r.kind = kind /\ r.target = calls[c].target
        /\ r.role = calls[c].role
    BY <1>1 DEF CallRecords
  <2>2. calls' = [calls EXCEPT ![c] = r] /\ UNCHANGED <<tables, server, lost, restarts>>
    BY <1>3 DEF Becomes, Stays
  <2>3. calls'[c] = r
    BY <2>2 DEF IInv, Types
  <2> HIDE DEF r
  <2>4. CallHolds(c)'
    BY <1>1, <2>1, <2>2, <2>3 DEF IInv, CallHolds, Up, tables
  <2> QED
    BY <2>1, <2>2, <2>4, CallMoves
<1> QED
  BY <1>2, <1>3 DEF Authorize

\* More than one admin is one besides any other user.
LEMMA AnotherAdmin ==
    ASSUME NEW S, NEW u, Cardinality(S) > 1
    PROVE  \E a \in S : a # u
<1>1. SUFFICES ASSUME \A a \in S : a = u PROVE FALSE
  OBVIOUS
<1>2. S = {} \/ S = {u}
  BY <1>1
<1> QED
  <2>1. Cardinality({}) = 0 /\ Cardinality({u}) = 1
    BY FS_EmptySet, FS_Singleton
  <2> QED
    BY <1>2, <2>1

LEMMA ModifyReadsHold ==
    ASSUME IInv, NEW c \in Calls, ModifyLooks(c) \/ CountAdmins(c)
    PROVE  IInv'
<1>1. CASE ModifyLooks(c)
  <2>1. At(c, "modify", "target") /\ "modify" \in Kinds
    BY <1>1 DEF ModifyLooks, Kinds
  <2>2. \/ Becomes(c, Done)
        \/ Goes(c, "admins")
        \/ Goes(c, "write") /\ RoleOf(calls[c].target) # "admin"
    BY <1>1 DEF ModifyLooks
  <2> QED
    BY <2>1, <2>2, CallEnds, CallGoes
<1>2. CASE CountAdmins(c)
  <2>1. At(c, "modify", "admins") /\ "modify" \in Kinds
    BY <1>2 DEF CountAdmins, Kinds
  <2>2. Becomes(c, Failed) \/ (Goes(c, "write") /\ \E a \in Admins : a # calls[c].target)
    BY <1>2, AnotherAdmin DEF CountAdmins
  <2> QED
    BY <2>1, <2>2, CallEnds, CallGoes
<1> QED
  BY <1>1, <1>2

LEMMA OtherReadsHold ==
    ASSUME IInv, NEW c \in Calls,
           RemoveLooks(c) \/ AddLooks(c) \/ AddFindsMember(c) \/ InsertConflicts(c)
    PROVE  IInv'
<1>1. CASE RemoveLooks(c)
  <2>1. At(c, "remove", "target") /\ "remove" \in Kinds
    BY <1>1 DEF RemoveLooks, Kinds
  <2>2. Becomes(c, Failed) \/ (Goes(c, "write") /\ RoleOf(calls[c].target) # "admin")
    BY <1>1 DEF RemoveLooks
  <2> QED
    BY <2>1, <2>2, CallEnds, CallGoes
<1>2. CASE AddLooks(c)
  <2>1. At(c, "add", "target") /\ "add" \in Kinds
    BY <1>2 DEF AddLooks, Kinds
  <2>2. Goes(c, "create") \/ (Goes(c, "member") /\ calls[c].target \in users)
    BY <1>2 DEF AddLooks
  <2> QED
    BY <2>1, <2>2, CallGoes
<1>3. CASE AddFindsMember(c)
  <2>1. At(c, "add", "member") /\ "add" \in Kinds
    BY <1>3 DEF AddFindsMember, Kinds
  <2>2. calls[c].target \in users
    BY <2>1, AtRecord DEF IInv, CallHolds
  <2>3. Becomes(c, Failed) \/ Goes(c, "write")
    BY <1>3 DEF AddFindsMember
  <2> QED
    BY <2>1, <2>2, <2>3, CallEnds, CallGoes
<1>4. CASE InsertConflicts(c)
  BY <1>4, CallEnds DEF InsertConflicts
<1> QED
  BY <1>1, <1>2, <1>3, <1>4

\* The demotion of the last admin is out of date.
LEMMA ModifyWritesHolds ==
    ASSUME IInv, NEW c \in Calls, ModifyWrites(c)
    PROVE  IInv'
<1> DEFINE u == calls[c].target
           role == calls[c].role
           M == IF u \in DOMAIN members THEN WithMember(u, role) ELSE members
<1>1. calls[c] \in CallRecords /\ Running(c) /\ calls[c].kind = "modify" /\ calls[c].pc = "write"
  BY AtRecord DEF IInv, ModifyWrites
<1>2. /\ role \in Roles /\ project # "none"
      /\ ~calls[c].stale => RoleOf(u) # "admin" \/ \E a \in Admins : a # u
  BY <1>1 DEF IInv, CallHolds
<1>3. Writes(c, M) /\ UNCHANGED <<users, org, orgAdmins, project>>
  BY DEF ModifyWrites
<1> HIDE DEF role
<1>4. /\ M \in [DOMAIN M -> Roles] /\ DOMAIN M = DOMAIN members
      /\ \A v \in DOMAIN members \ {u} : M[v] = members[v]
  <2>1. CASE u \in DOMAIN members
    BY <1>2, <2>1 DEF WithMember, IInv, Types
  <2>2. CASE u \notin DOMAIN members
    BY <2>2 DEF IInv, Types
  <2> QED
    BY <2>1, <2>2
<1> HIDE DEF u, M
<1>5. members' = M /\ (lost \/ (calls[c].stale /\ Admins # {} /\ Admins' = {}) => lost')
  BY <1>3, WritesEffect DEF IInv
<1>6. lost' \/ Admins' # {}
  <2>1. \A a \in Admins : a # u => a \in Admins'
    BY <1>4, <1>5 DEF Admins
  <2>2. RoleOf(u) # "admin" => u \notin Admins
    BY DEF RoleOf, Admins
  <2> QED
    BY <1>1, <1>2, <1>5, <2>1, <2>2, AdminsBefore
<1> QED
  BY <1>1, <1>2, <1>3, <1>4, <1>6, WriteHolds DEF IInv, Types, MembersHold

\* So is the removal of the last admin.
LEMMA RemoveWritesHolds ==
    ASSUME IInv, NEW c \in Calls, RemoveWrites(c)
    PROVE  IInv'
<1> DEFINE u == calls[c].target
           M == Restrict(members, DOMAIN members \ {u})
<1>1. calls[c] \in CallRecords /\ Running(c) /\ calls[c].kind = "remove" /\ calls[c].pc = "write"
  BY AtRecord DEF IInv, RemoveWrites
<1>2. project # "none" /\ (~calls[c].stale => RoleOf(u) # "admin")
  BY <1>1 DEF IInv, CallHolds
<1>3. Writes(c, M) /\ UNCHANGED <<users, org, orgAdmins, project>>
  BY DEF RemoveWrites
<1>4. /\ M \in [DOMAIN M -> Roles] /\ DOMAIN M = DOMAIN members \ {u}
      /\ \A v \in DOMAIN members \ {u} : M[v] = members[v]
  BY DEF Restrict, IInv, Types
<1> HIDE DEF u, M
<1>5. members' = M /\ (lost \/ (calls[c].stale /\ Admins # {} /\ Admins' = {}) => lost')
  BY <1>3, WritesEffect DEF IInv
<1>6. lost' \/ Admins' # {}
  <2>1. \A a \in Admins : a # u => a \in Admins'
    BY <1>4, <1>5 DEF Admins
  <2>2. RoleOf(u) # "admin" => u \notin Admins
    BY DEF RoleOf, Admins
  <2> QED
    BY <1>1, <1>2, <1>5, <2>1, <2>2, AdminsBefore
<1> QED
  BY <1>1, <1>2, <1>3, <1>4, <1>6, WriteHolds DEF IInv, Types, MembersHold

\* Both ways to add somebody leave the others as they are.
LEMMA AddsHold ==
    ASSUME IInv, NEW c \in Calls, AddCreates(c) \/ AddWrites(c)
    PROVE  IInv'
<1> DEFINE u == calls[c].target
           M == WithMember(u, "user")
<1>1. calls[c] \in CallRecords /\ Running(c) /\ calls[c].kind = "add"
  BY AtRecord DEF IInv, AddCreates, AddWrites
<1>2. project # "none"
  BY <1>1 DEF IInv, CallHolds
<1>3. Writes(c, M) /\ UNCHANGED <<org, orgAdmins, project>>
  BY DEF AddCreates, AddWrites
<1>4. /\ users' = users \/ users' = users \cup {u}
      /\ u \in users' /\ u \in Users /\ u \notin DOMAIN members
  <2>1. u \in Users
    BY <1>1 DEF CallRecords
  <2>2. CASE AddCreates(c)
    BY <2>1, <2>2 DEF AddCreates, IInv, MembersHold
  <2>3. CASE AddWrites(c)
    <3>1. calls[c].pc = "write"
      BY <2>3, AtRecord DEF IInv, AddWrites
    <3>2. u \in users
      BY <1>1, <3>1 DEF IInv, CallHolds
    <3> QED
      BY <2>1, <2>3, <3>2 DEF AddWrites
  <2> QED
    BY <2>2, <2>3
<1>5. /\ M \in [DOMAIN M -> Roles] /\ DOMAIN M = DOMAIN members \cup {u}
      /\ \A v \in DOMAIN members : M[v] = members[v]
  <2>1. "user" \in Roles
    BY DEF Roles
  <2> QED
    BY <1>4, <2>1 DEF WithMember, IInv, Types
<1> HIDE DEF u, M
<1>6. members' = M /\ (lost => lost')
  BY <1>3, WritesEffect DEF IInv
<1>7. lost' \/ Admins' # {}
  <2>1. Admins \subseteq Admins'
    BY <1>5, <1>6 DEF Admins
  <2> QED
    BY <1>1, <1>6, <2>1, AdminsBefore
<1>8. users \subseteq users' /\ users' \subseteq Users /\ DOMAIN M \subseteq users'
  BY <1>4, <1>5 DEF IInv, Types, MembersHold
<1> QED
  BY <1>1, <1>2, <1>3, <1>5, <1>7, <1>8, WriteHolds DEF IInv, Types

LEMMA AdministrationHolds ==
    ASSUME IInv, NEW c \in Calls, Administration(c)
    PROVE  IInv'
BY RequestHolds, AuthorizeHolds, ModifyReadsHold, ModifyWritesHolds, RemoveWritesHolds,
   OtherReadsHold, AddsHold DEF Administration

-----------------------------------------------------------------------------
(* The start *)

\* No call runs while the process starts.
LEMMA NobodyServed ==
    ASSUME IInv, ~Up, NEW c \in Calls
    PROVE  ~Running(c)
BY DEF IInv, CallHolds

LEMMA IdleCallsHold ==
    ASSUME IInv, ~Up, calls' = calls, NEW c \in Calls
    PROVE  CallHolds(c)'
BY NobodyServed DEF CallHolds, Running

LEMMA ServerGoes ==
    ASSUME Types, NEW pc \in StartSteps, StartGoes(pc)
    PROVE  /\ server'.pc = pc /\ server'.first = server.first
           /\ server' \in [pc : StartSteps, first : Users \cup {Null}]
BY DEF Types, StartGoes

\* One of the steps that ensure a part of the organization.
LEMMA StartStepHolds ==
    ASSUME IInv,
           EnsureOrg \/ EnsureOrgMember \/ AdoptProjects \/ EnsureProject \/ EnsureMember
    PROVE  IInv'
<1> DEFINE f == server.first
<1> USE DEF StartStep
<1>0. {"orgMember", "adopt", "project", "member", "up"} \subseteq StartSteps
  BY DEF StartSteps
<1>1. /\ server.pc \in {"org", "orgMember", "adopt", "project", "member"} /\ ~Up
      /\ UNCHANGED <<users, calls, lost, restarts>>
  BY DEF EnsureOrg, EnsureOrgMember, AdoptProjects, EnsureProject, EnsureMember, Up
<1>2. f \in users /\ f \in Users
  BY <1>1 DEF IInv, StartHolds, Types
<1>3. f # Null
  BY <1>2, ProjectMembersAssumptions
<1>4. server' \in [pc : StartSteps, first : Users \cup {Null}] /\ server'.first = f
  BY <1>0, ServerGoes DEF IInv, EnsureOrg, EnsureOrgMember, AdoptProjects, EnsureProject, EnsureMember
<1>5. ASSUME NEW c \in Calls PROVE CallHolds(c)'
  BY <1>1, IdleCallsHold
<1>6. CASE EnsureOrg
  <2>1. server.pc = "org" /\ server'.pc = "orgMember" /\ org' = TRUE
        /\ UNCHANGED <<orgAdmins, project, members>>
    BY <1>0, <1>6, ServerGoes DEF EnsureOrg, IInv
  <2>2. Types' /\ MembersHold'
    BY <1>1, <1>4, <2>1 DEF IInv, Types, MembersHold
  <2>3. StartHolds'
    BY <1>1, <1>2, <1>4, <2>1 DEF IInv, StartHolds
  <2>4. AdminsHold'
    BY <1>1, <2>1 DEF IInv, AdminsHold, Admins, Up
  <2> QED
    BY <1>5, <2>2, <2>3, <2>4 DEF IInv
<1>7. CASE EnsureOrgMember
  <2>1. server.pc = "orgMember" /\ server'.pc = "adopt" /\ orgAdmins' = orgAdmins \cup {f}
        /\ UNCHANGED <<org, project, members>>
    BY <1>0, <1>7, ServerGoes DEF EnsureOrgMember, IInv
  <2>2. Types' /\ MembersHold'
    BY <1>1, <1>4, <2>1 DEF IInv, Types, MembersHold
  <2>3. StartHolds'
    BY <1>1, <1>2, <1>3, <1>4, <2>1 DEF IInv, StartHolds
  <2>4. AdminsHold'
    BY <1>1, <2>1 DEF IInv, AdminsHold, Admins, Up
  <2> QED
    BY <1>5, <2>2, <2>3, <2>4 DEF IInv
<1>8. CASE AdoptProjects
  <2>1. server.pc = "adopt" /\ server'.pc = "project"
        /\ project' = (IF project = "orphan" THEN "owned" ELSE project)
        /\ UNCHANGED <<org, orgAdmins, members>>
    BY <1>0, <1>8, ServerGoes DEF AdoptProjects, IInv
  <2>2. Types' /\ MembersHold'
    BY <1>1, <1>4, <2>1 DEF IInv, Types, MembersHold
  <2>3. StartHolds'
    BY <1>1, <1>2, <1>3, <1>4, <2>1 DEF IInv, StartHolds
  <2>4. AdminsHold'
    BY <1>1, <2>1 DEF IInv, AdminsHold, Admins, Up
  <2> QED
    BY <1>5, <2>2, <2>3, <2>4 DEF IInv
<1>9. CASE EnsureProject
  <2>1. server.pc = "project" /\ server'.pc = "member"
        /\ project' = (IF project = "none" THEN "owned" ELSE project)
        /\ UNCHANGED <<org, orgAdmins, members>>
    BY <1>0, <1>9, ServerGoes DEF EnsureProject, IInv
  <2>2. Types' /\ MembersHold'
    BY <1>1, <1>4, <2>1 DEF IInv, Types, MembersHold
  <2>3. StartHolds'
    BY <1>1, <1>2, <1>3, <1>4, <2>1 DEF IInv, Types, StartHolds
  <2>4. AdminsHold'
    BY <1>1, <1>2, <2>1 DEF IInv, AdminsHold, MembersHold, Admins, Up
  <2> QED
    BY <1>5, <2>2, <2>3, <2>4 DEF IInv
<1>10. CASE EnsureMember
  <2>1. server.pc = "member" /\ server'.pc = "up"
        /\ members' = (IF f \in DOMAIN members THEN members ELSE WithMember(f, "admin"))
        /\ UNCHANGED <<org, orgAdmins, project>>
    BY <1>0, <1>10, ServerGoes DEF EnsureMember, IInv
  <2>2. project = "owned"
    BY <1>3, <2>1 DEF IInv, StartHolds
  <2>3. /\ members' \in [DOMAIN members' -> Roles] /\ DOMAIN members' = DOMAIN members \cup {f}
        /\ f \notin DOMAIN members => members'[f] = "admin"
        /\ \A v \in DOMAIN members : members'[v] = members[v]
    <3>1. CASE f \in DOMAIN members
      BY <2>1, <3>1 DEF IInv, Types
    <3>2. CASE f \notin DOMAIN members
      BY <2>1, <3>2 DEF WithMember, Roles, IInv, Types
    <3> QED
      BY <3>1, <3>2
  <2>4. Types' /\ MembersHold'
    BY <1>1, <1>2, <1>4, <2>1, <2>2, <2>3 DEF IInv, Types, MembersHold
  <2>5. StartHolds'
    BY <1>1, <1>2, <1>3, <1>4, <2>1 DEF IInv, StartHolds
  <2>6. AdminsHold'
    <3>1. Admins \subseteq Admins'
      BY <2>3 DEF Admins
    <3>2. DOMAIN members = {} => Admins' # {}
      BY <2>3 DEF Admins
    <3> QED
      BY <1>1, <2>2, <3>1, <3>2 DEF IInv, AdminsHold
  <2> QED
    BY <1>5, <2>4, <2>5, <2>6 DEF IInv
<1> QED
  BY <1>6, <1>7, <1>8, <1>9, <1>10

LEMMA FindFirstHolds ==
    ASSUME IInv, FindFirst
    PROVE  IInv'
<1>1. server.pc = "first" /\ server.first = Null /\ ~Up /\ UNCHANGED tables
      /\ UNCHANGED <<calls, lost, restarts>>
  BY DEF FindFirst, StartStep, IInv, StartHolds, Up
<1>2. \/ users = {} /\ server'.pc = "up" /\ server'.first = Null
      \/ server'.pc = "org" /\ server'.first \in users
  <2>1. CASE users = {}
    <3>1. StartGoes("up") /\ "up" \in StartSteps
      BY <2>1 DEF FindFirst, StartSteps
    <3> QED
      BY <1>1, <2>1, <3>1, ServerGoes DEF IInv
  <2>2. CASE users # {}
    BY <2>2 DEF FindFirst
  <2> QED
    BY <2>1, <2>2
<1>3. server' \in [pc : StartSteps, first : Users \cup {Null}]
  BY DEF FindFirst, StartGoes, StartSteps, IInv, Types
<1>4. Types' /\ MembersHold'
  BY <1>1, <1>3 DEF IInv, Types, MembersHold, tables
<1>5. StartHolds'
  BY <1>1, <1>2 DEF StartHolds, tables
<1>6. AdminsHold'
  BY <1>1, <1>2 DEF IInv, AdminsHold, Admins, Up, tables
<1>7. ASSUME NEW c \in Calls PROVE CallHolds(c)'
  BY <1>1, IdleCallsHold
<1> QED
  BY <1>4, <1>5, <1>6, <1>7 DEF IInv

LEMMA StopHolds ==
    ASSUME IInv, Stop
    PROVE  IInv'
<1>1. /\ StartGoes("down") /\ "down" \in StartSteps
      /\ calls' = [c \in Calls |-> IF Running(c) THEN Failed ELSE calls[c]]
      /\ UNCHANGED <<tables, lost, restarts>>
  BY DEF Stop, StartSteps
<1>2. server' \in [pc : StartSteps, first : Users \cup {Null}] /\ server'.pc = "down"
  BY <1>1, ServerGoes DEF IInv
<1>3. calls' \in [Calls -> {Idle, Done, Failed} \cup CallRecords]
  BY <1>1 DEF IInv, Types
<1>4. Types' /\ MembersHold' /\ StartHolds'
  BY <1>1, <1>2, <1>3 DEF IInv, Types, MembersHold, StartHolds, tables
<1>5. AdminsHold'
  BY <1>1, <1>2 DEF IInv, AdminsHold, Admins, Up, tables
<1>6. ASSUME NEW c \in Calls PROVE CallHolds(c)'
  <2>1. ~Running(c)'
    BY <1>1 DEF Running
  <2> QED
    BY <2>1 DEF CallHolds
<1> QED
  BY <1>4, <1>5, <1>6 DEF IInv

LEMMA RestartHolds ==
    ASSUME IInv, Restart
    PROVE  IInv'
<1>1. /\ server.pc = "down" /\ ~Up /\ server' = Starting /\ restarts' = restarts + 1
      /\ UNCHANGED <<tables, calls, lost>>
  BY DEF Restart, Up
<1>2. Types' /\ MembersHold' /\ StartHolds'
  BY <1>1 DEF IInv, Types, MembersHold, StartHolds, StartSteps, Starting, tables
<1>3. AdminsHold'
  BY <1>1 DEF IInv, AdminsHold, Admins, Up, Starting, tables
<1>4. ASSUME NEW c \in Calls PROVE CallHolds(c)'
  BY <1>1, IdleCallsHold
<1> QED
  BY <1>2, <1>3, <1>4 DEF IInv

-----------------------------------------------------------------------------
(* The invariant of the specification, and the properties *)

LEMMA InitHolds == Init => IInv
<1> SUFFICES ASSUME Init PROVE IInv
  OBVIOUS
<1>1. /\ users \subseteq Users /\ project \in {"none", "orphan"}
      /\ members \in [DOMAIN members -> Roles] /\ DOMAIN members \subseteq users
      /\ project = "none" => DOMAIN members = {}
      /\ project # "none" => Admins # {}
  <2>1. CASE users = {} /\ project = "none" /\ members = Nobody
    BY <2>1 DEF Nobody
  <2>2. CASE /\ users \in SUBSET Users /\ project = "orphan"
             /\ \E those \in SUBSET users : members \in [those -> Roles]
             /\ Admins # {}
    BY <2>2
  <2> QED
    BY <2>1, <2>2 DEF Init
<1>2. server.pc = "first" /\ server.first = Null /\ server = Starting
      /\ org = FALSE /\ lost = FALSE /\ restarts = 0 /\ calls = [c \in Calls |-> Idle]
  BY DEF Init, Starting
<1>3. Types
  BY <1>1, <1>2 DEF Types, Starting, StartSteps
<1>4. MembersHold /\ StartHolds /\ AdminsHold
  BY <1>1, <1>2 DEF MembersHold, StartHolds, AdminsHold
<1>5. \A c \in Calls : CallHolds(c)
  BY <1>2 DEF CallHolds, Running
<1> QED
  BY <1>3, <1>4, <1>5 DEF IInv

LEMMA StutterHolds ==
    ASSUME IInv, UNCHANGED vars
    PROVE  IInv'
<1>1. UNCHANGED <<users, org, orgAdmins, project, members, server, calls, lost, restarts>>
  BY DEF vars, tables
<1>2. Types' /\ MembersHold' /\ StartHolds' /\ AdminsHold'
  BY <1>1 DEF IInv, Types, MembersHold, StartHolds, AdminsHold, Admins, Up
<1>3. ASSUME NEW c \in Calls PROVE CallHolds(c)'
  BY <1>1 DEF IInv, CallHolds, Running, Up, RoleOf, Admins
<1> QED
  BY <1>2, <1>3 DEF IInv

\* Tables, start and calls agree, whatever calls overlap and wherever the
\* process stops.
THEOREM MembersInvariant == Spec => []IInv
<1>1. ASSUME IInv, [Next]_vars PROVE IInv'
  BY <1>1, FindFirstHolds, StartStepHolds, StopHolds, RestartHolds, SigningUpHolds,
     AdministrationHolds, StutterHolds DEF Next, Start
<1> QED
  BY <1>1, InitHolds, PTL DEF Spec

\* A project that is served without an admin lost the last one to a call whose
\* reading of the members was out of date: no sign-up, no crash of a start and
\* no call by itself leaves it without one.
THEOREM AdminsStay == Spec => []AdminLostOnlyInRace
<1>1. IInv => AdminLostOnlyInRace
  BY DEF IInv, AdminsHold, AdminLostOnlyInRace
<1> QED
  BY <1>1, MembersInvariant, PTL

\* A start that found a user leaves an organization with that user as an admin,
\* and the project in it, however earlier starts and sign-ups were cut short.
THEOREM SetupCompletes == Spec => []SetupIsComplete
<1>1. IInv => SetupIsComplete
  BY DEF IInv, StartHolds, SetupIsComplete, Up
<1> QED
  BY <1>1, MembersInvariant, PTL

\* A new member is one whom the start, the first sign-up or a call that adds
\* members wrote in this very step: no change of a role undoes a removal.
THEOREM MembersOnlyAdded == Spec => MembersAreAdded
<1> DEFINE Added == \A u \in Users : u \notin DOMAIN members /\ u \in DOMAIN members' =>
                       \/ ~Up
                       \/ \E c \in Calls : /\ calls[c].pc \in {"init", "create", "write"}
                                           /\ calls'[c] = Done
                                           /\ calls[c].kind \in {"signUp", "add"}
                                           /\ calls[c].target = u
<1>1. ASSUME IInv, [Next]_vars PROVE Added
  <2>1. CASE UNCHANGED members
    BY <2>1
  <2>2. CASE EnsureMember
    BY <2>2 DEF EnsureMember, Up
  <2>3. ASSUME NEW c \in Calls, InitializeDefault(c) \/ AddCreates(c) \/ AddWrites(c) PROVE Added
    <3>1. /\ calls[c].pc \in {"init", "create", "write"}
          /\ calls[c].kind \in {"signUp", "add"}
      BY <2>3 DEF InitializeDefault, AddCreates, AddWrites, At
    <3>2. PICK M : /\ Writes(c, M)
                   /\ DOMAIN M \subseteq DOMAIN members \cup {calls[c].target}
      BY <2>3 DEF InitializeDefault, AddCreates, AddWrites, WithMember
    <3>3. calls'[c] = Done /\ members' = M
      BY <1>1, <3>2, WritesEffect DEF IInv
    <3> QED
      BY <3>1, <3>2, <3>3
  <2>4. ASSUME NEW c \in Calls, ModifyWrites(c) \/ RemoveWrites(c) PROVE Added
    <3>1. PICK M : Writes(c, M) /\ DOMAIN M \subseteq DOMAIN members
      BY <2>4 DEF ModifyWrites, RemoveWrites, WithMember, Restrict
    <3>2. members' = M
      BY <3>1 DEF Writes
    <3> QED
      BY <3>1, <3>2
  <2>5. ASSUME NEW c \in Calls, SigningUp(c) \/ Administration(c)
        PROVE  \/ UNCHANGED members
               \/ InitializeDefault(c) \/ AddCreates(c) \/ AddWrites(c)
               \/ ModifyWrites(c) \/ RemoveWrites(c)
    BY <2>5 DEF SigningUp, SignUp, CountUsers, FindOrg, Administration, Request, Authorize,
       ModifyLooks, CountAdmins, RemoveLooks, AddLooks, AddFindsMember, InsertConflicts,
       Goes, Becomes, Stays, tables
  <2>6. CASE Start
    BY <2>1, <2>2, <2>6 DEF Start, FindFirst, EnsureOrg, EnsureOrgMember, AdoptProjects,
       EnsureProject, Stop, Restart, tables
  <2> QED
    BY <1>1, <2>1, <2>3, <2>4, <2>5, <2>6 DEF Next, vars, tables
<1> HIDE DEF Added
<1>2. IInv /\ [Next]_vars => [Added]_vars
  BY <1>1
<1>3. Spec => [][Added]_vars
  BY <1>2, MembersInvariant, PTL DEF Spec
<1> QED
  BY <1>3 DEF MembersAreAdded, Added
===============================================================================
