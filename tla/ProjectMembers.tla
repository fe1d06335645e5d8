---------------------------- MODULE ProjectMembers ----------------------------
(***************************************************************************)
(* Who belongs to the organization and to the project of a chat backend:    *)
(* the check at its start (ensureOrganizationSetup), the hook of a sign-up   *)
(* (initializeDefaultOrganizationForFirstUser), and the tRPC procedures that *)
(* add, remove and change members.                                          *)
(*                                                                          *)
(* A procedure is cut at every await; its statements are atomic, and so are  *)
(* its transactions.  A call may stop anywhere, which is also what a failing *)
(* statement does to it.  The path of the default project is configured,     *)
(* which makes it the one project.  Names, passwords and mail are left out;  *)
(* an email address stands for its user.                                    *)
(* External: the database, better-auth, the mail.                           *)
(***************************************************************************)
EXTENDS Naturals, FiniteSets, Functions

CONSTANTS
    Users,          \* ids of users
    Calls,          \* sign-ups and procedure calls
    Null,
    MaxRestarts     \* bound

ASSUME ProjectMembersAssumptions ==
    MaxRestarts \in Nat /\ Null \notin Users

\* A viewer is a "user" here: no step tells the two apart.
Roles == {"admin", "user"}

VARIABLES
    users,          \* table user
    org,            \* whether the default organization is there (its slug is unique)
    orgAdmins,      \* table org_member: all of them are admins
    project,        \* "none", "orphan" (no org_id) or "owned"
    members,        \* table project_member: user -> role
    server,         \* [pc, first]: the start, "up" or "down"
    calls,          \* idle, done, failed, or [pc, kind, actor, target, role, stale]
    lost,           \* history: a stale write took away the last admin
    restarts

tables == <<users, org, orgAdmins, project, members>>
vars == <<tables, server, calls, lost, restarts>>

Idle == [pc |-> "idle"]
Done == [pc |-> "done"]
Failed == [pc |-> "failed"]
Starting == [pc |-> "first", first |-> Null]
Nobody == [u \in {} |-> Null]

Up == server.pc = "up"
Running(c) == calls[c] \notin {Idle, Done, Failed}
RoleOf(u) == IF u \in DOMAIN members THEN members[u] ELSE Null
Admins == {u \in DOMAIN members : members[u] = "admin"}
WithMember(u, role) == [v \in DOMAIN members \cup {u} |-> IF v = u THEN role ELSE members[v]]

\* A new database, or one from before there were organizations.
Init ==
    /\ \/ users = {} /\ project = "none" /\ members = Nobody
       \/ /\ users \in SUBSET Users /\ project = "orphan"
          /\ \E those \in SUBSET users : members \in [those -> Roles]
          /\ Admins # {}
    /\ org = FALSE /\ orgAdmins = {}
    /\ server = Starting
    /\ calls = [c \in Calls |-> Idle]
    /\ lost = FALSE
    /\ restarts = 0

-----------------------------------------------------------------------------
(* The start; nobody is served before it has ended *)

StartGoes(pc) == server' = [server EXCEPT !.pc = pc]
StartStep == UNCHANGED <<calls, lost, restarts>>

\* getFirst: a SELECT without an order.
FindFirst ==
    /\ server.pc = "first"
    /\ IF users = {} THEN StartGoes("up")
       ELSE \E u \in users : server' = [pc |-> "org", first |-> u]
    /\ UNCHANGED tables /\ StartStep

\* Mutant of EnsureOrg: the admin of an organization that is there is not looked for.
EnsureOrgOnce ==
    /\ server.pc = "org"
    /\ org' = TRUE
    /\ StartGoes(IF org THEN "adopt" ELSE "orgMember")
    /\ UNCHANGED <<users, orgAdmins, project, members>> /\ StartStep

EnsureOrg ==
    /\ server.pc = "org"
    /\ org' = TRUE
    /\ StartGoes("orgMember")
    /\ UNCHANGED <<users, orgAdmins, project, members>> /\ StartStep

EnsureOrgMember ==
    /\ server.pc = "orgMember"
    /\ orgAdmins' = orgAdmins \cup {server.first}
    /\ StartGoes("adopt")
    /\ UNCHANGED <<users, org, project, members>> /\ StartStep

AdoptProjects ==
    /\ server.pc = "adopt"
    /\ project' = IF project = "orphan" THEN "owned" ELSE project
    /\ StartGoes("project")
    /\ UNCHANGED <<users, org, orgAdmins, members>> /\ StartStep

EnsureProject ==
    /\ server.pc = "project"
    /\ project' = IF project = "none" THEN "owned" ELSE project
    /\ StartGoes("member")
    /\ UNCHANGED <<users, org, orgAdmins, members>> /\ StartStep

EnsureMember ==
    /\ server.pc = "member"
    /\ members' = IF server.first \in DOMAIN members THEN members
                  ELSE WithMember(server.first, "admin")
    /\ StartGoes("up")
    /\ UNCHANGED <<users, org, orgAdmins, project>> /\ StartStep

\* The process ends, at a statement of the start that fails or at any time.
Stop ==
    /\ restarts < MaxRestarts
    /\ server.pc # "down"
    /\ StartGoes("down")
    /\ calls' = [c \in Calls |-> IF Running(c) THEN Failed ELSE calls[c]]
    /\ UNCHANGED <<tables, lost, restarts>>

Restart ==
    /\ server.pc = "down"
    /\ server' = Starting
    /\ restarts' = restarts + 1
    /\ UNCHANGED <<tables, calls, lost>>

-----------------------------------------------------------------------------
(* Steps of calls *)

At(c, kind, pc) == Up /\ calls[c].pc = pc /\ calls[c].kind = kind
Stays == UNCHANGED <<tables, server, lost, restarts>>
Goes(c, pc) == calls' = [calls EXCEPT ![c].pc = pc] /\ Stays
Becomes(c, record) == calls' = [calls EXCEPT ![c] = record] /\ Stays

\* The others that have looked at the members now hold something old.
Outdated(cs) ==
    [d \in Calls |-> IF cs[d].pc \in {"admins", "member", "write"}
                     THEN [cs[d] EXCEPT !.stale = TRUE] ELSE cs[d]]

\* A write of c to project_member.
Writes(c, membership) ==
    /\ members' = membership
    /\ LET ended == [calls EXCEPT ![c] = Done]
       IN calls' = IF membership = members THEN ended ELSE Outdated(ended)
    /\ lost' = (lost \/ (calls[c].stale /\ Admins # {} /\ Admins' = {}))
    /\ UNCHANGED <<server, restarts>>

Call(c, kind, actor, target, role) ==
    calls' = [calls EXCEPT ![c] =
        [pc |-> IF kind = "signUp" THEN "count" ELSE "role", kind |-> kind,
         actor |-> actor, target |-> target, role |-> role, stale |-> FALSE]]

-----------------------------------------------------------------------------
(* Sign-up: better-auth stores the user and calls the hook *)

SignUp(c, u) ==
    /\ Up /\ calls[c] = Idle
    /\ u \in Users \ users
    /\ users' = users \cup {u}
    /\ Call(c, "signUp", Null, u, Null)
    /\ UNCHANGED <<org, orgAdmins, project, members, server, lost, restarts>>

CountUsers(c) ==
    /\ At(c, "signUp", "count")
    /\ IF Cardinality(users) = 1 THEN Goes(c, "org") ELSE Becomes(c, Done)

FindOrg(c) ==
    /\ At(c, "signUp", "org")
    /\ IF org THEN Becomes(c, Done) ELSE Goes(c, "init")

\* The transaction; a project that is there already is left as it is.
InitializeDefault(c) ==
    /\ At(c, "signUp", "init")
    /\ ~org /\ org' = TRUE
    /\ orgAdmins' = orgAdmins \cup {calls[c].target}
    /\ project' = IF project = "none" THEN "owned" ELSE project
    /\ Writes(c, IF project = "none" THEN WithMember(calls[c].target, "admin") ELSE members)
    /\ UNCHANGED users

-----------------------------------------------------------------------------
(* projectProtectedProcedure and adminProtectedProcedure *)

\* checkUserHasProject
Request(c, kind, actor, target, role) ==
    /\ Up /\ calls[c] = Idle
    /\ project # "none" /\ actor \in DOMAIN members
    /\ Call(c, kind, actor, target, role)
    /\ UNCHANGED <<tables, server, lost, restarts>>

Authorize(c, kind) ==
    /\ At(c, kind, "role")
    /\ IF kind = "modify" \/ RoleOf(calls[c].actor) = "admin"
       THEN Becomes(c, [calls[c] EXCEPT !.pc = "target", !.actor = Null])
       ELSE Becomes(c, Failed)

-----------------------------------------------------------------------------
(* modify *)

\* A role that the target has is not written; a demotion needs another admin.
ModifyLooks(c) ==
    /\ At(c, "modify", "target")
    /\ LET had == RoleOf(calls[c].target)
       IN IF had = calls[c].role THEN Becomes(c, Done)
          ELSE Goes(c, IF had = "admin" THEN "admins" ELSE "write")

\* Mutant of CountAdmins: the one who is demoted counts.
CountAnyAdmin(c) ==
    /\ At(c, "modify", "admins")
    /\ IF Cardinality(Admins) >= 1 THEN Goes(c, "write") ELSE Becomes(c, Failed)

\* checkProjectHasMoreThanOneAdmin
CountAdmins(c) ==
    /\ At(c, "modify", "admins")
    /\ IF Cardinality(Admins) > 1 THEN Goes(c, "write") ELSE Becomes(c, Failed)

\* Mutant of ModifyWrites: the UPDATE is an upsert.
ModifyUpserts(c) ==
    /\ At(c, "modify", "write")
    /\ Writes(c, WithMember(calls[c].target, calls[c].role))
    /\ UNCHANGED <<users, org, orgAdmins, project>>

\* The UPDATE of a row that may have gone.
ModifyWrites(c) ==
    /\ At(c, "modify", "write")
    /\ Writes(c, IF calls[c].target \in DOMAIN members
                 THEN WithMember(calls[c].target, calls[c].role) ELSE members)
    /\ UNCHANGED <<users, org, orgAdmins, project>>

-----------------------------------------------------------------------------
(* removeProjectMember *)

RemoveLooks(c) ==
    /\ At(c, "remove", "target")
    /\ IF RoleOf(calls[c].target) = "admin" THEN Becomes(c, Failed) ELSE Goes(c, "write")

RemoveWrites(c) ==
    /\ At(c, "remove", "write")
    /\ Writes(c, Restrict(members, DOMAIN members \ {calls[c].target}))
    /\ UNCHANGED <<users, org, orgAdmins, project>>

-----------------------------------------------------------------------------
(* addUserToProject *)

AddLooks(c) ==
    /\ At(c, "add", "target")
    /\ Goes(c, IF calls[c].target \in users THEN "member" ELSE "create")

\* userQueries.create, one transaction: the address may have been taken since.
AddCreates(c) ==
    /\ At(c, "add", "create")
    /\ calls[c].target \notin users
    /\ users' = users \cup {calls[c].target}
    /\ Writes(c, WithMember(calls[c].target, "user"))
    /\ UNCHANGED <<org, orgAdmins, project>>

AddFindsMember(c) ==
    /\ At(c, "add", "member")
    /\ IF calls[c].target \in DOMAIN members THEN Becomes(c, Failed) ELSE Goes(c, "write")

\* The primary key (project_id, user_id).
AddWrites(c) ==
    /\ At(c, "add", "write")
    /\ calls[c].target \notin DOMAIN members
    /\ Writes(c, WithMember(calls[c].target, "user"))
    /\ UNCHANGED <<users, org, orgAdmins, project>>

\* An INSERT that violates a key.
InsertConflicts(c) ==
    /\ \/ At(c, "add", "create") /\ calls[c].target \in users
       \/ At(c, "add", "write") /\ calls[c].target \in DOMAIN members
    /\ Becomes(c, Failed)

-----------------------------------------------------------------------------

Start ==
    \/ FindFirst \/ EnsureOrg \/ EnsureOrgMember \/ AdoptProjects \/ EnsureProject
    \/ EnsureMember \/ Stop \/ Restart

SigningUp(c) ==
    \/ \E u \in Users : SignUp(c, u)
    \/ CountUsers(c) \/ FindOrg(c) \/ InitializeDefault(c)

Administration(c) ==
    \/ \E actor, target \in Users :
          \/ \E kind \in {"remove", "add"} : Request(c, kind, actor, target, Null)
          \/ \E role \in Roles : Request(c, "modify", actor, target, role)
    \/ \E kind \in {"modify", "remove", "add"} : Authorize(c, kind)
    \/ ModifyLooks(c) \/ CountAdmins(c) \/ ModifyWrites(c)
    \/ RemoveLooks(c) \/ RemoveWrites(c)
    \/ AddLooks(c) \/ AddCreates(c) \/ AddFindsMember(c) \/ AddWrites(c)
    \/ InsertConflicts(c)

Next == Start \/ \E c \in Calls : SigningUp(c) \/ Administration(c)

Spec == Init /\ [][Next]_vars

-----------------------------------------------------------------------------
(***************************************************************************)
(* Properties                                                               *)
(***************************************************************************)

\* user.routes.ts:41, "The project must have at least one admin user", as far as
\* it holds: a project that is served without an admin lost the last one to a
\* call whose reading of the members was out of date when it wrote.  No crash
\* of a start, no sign-up and no call by itself leaves a project without one.
AdminLostOnlyInRace ==
    Up /\ project # "none" /\ Admins = {} => lost

\* organization.queries.ts:126, "Ensures organization structure is valid": once a
\* start that found a user has ended, however earlier starts or sign-ups were cut
\* short, there is an organization with that user as an admin, and it has the
\* project.
SetupIsComplete ==
    Up /\ server.first # Null =>
        org /\ server.first \in orgAdmins /\ project = "owned"

\* Nobody becomes a member but by a start, the first sign-up or a call that adds
\* them: a change of role that comes after a removal does not undo it.
MembersAreAdded ==
    [][\A u \in Users : u \notin DOMAIN members /\ u \in DOMAIN members' =>
          \/ ~Up
          \/ \E c \in Calls : /\ calls[c].pc \in {"init", "create", "write"}
                              /\ calls'[c] = Done
                              /\ calls[c].kind \in {"signUp", "add"}
                              /\ calls[c].target = u]_vars
=============================================================================
