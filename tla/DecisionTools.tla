---------------------------- MODULE DecisionTools ----------------------------
(***************************************************************************)
(* The decision tools of the harness MCP server: propose_decision,          *)
(* approve_decision, execute_decision_action and record_outcome             *)
(* (tools/persist.ts) and execute_action (tools/action.ts).                 *)
(*                                                                          *)
(* A call is an async handler that awaits its statements one by one, so the *)
(* statements of concurrent calls interleave freely.  A call is one-shot: a  *)
(* retry is another call.  Any await may throw (or the process may die);    *)
(* the handler then stops where it is and what it committed stays.          *)
(***************************************************************************)
EXTENDS DecisionStore, FiniteSets

CONSTANTS
    Calls,          \* tool calls
    Offered,        \* the tools called in this instance
    Risks,          \* the risk classes callers name in this instance
    Humans,         \* principals written "human:<name>"
    AutoApprover,   \* the principal "auto"
    CanPropose,     \* agents.yml permissions: agent -> risk classes
    CanApprove,
    CanExecute,
    AutoRisks,      \* risk classes execute_action approves by itself
    MaxFailures     \* bound on calls that stop half-way

ToolNames == {"propose_decision", "approve_decision",
              "execute_decision_action", "execute_action", "record_outcome"}

\* Agents with an entry under "permissions" in agents.yml.
Listed == DOMAIN CanApprove

ASSUME ToolAssumptions ==
    /\ Offered \subseteq ToolNames
    /\ Risks \subseteq RiskClasses
    /\ AutoRisks \subseteq RiskClasses
    /\ Humans \subseteq Principals
    /\ AutoApprover \in Principals \ Humans
    /\ Listed \subseteq Principals \ (Humans \cup {AutoApprover})
    /\ CanPropose \in [Listed -> SUBSET RiskClasses]
    /\ CanApprove \in [Listed -> SUBSET RiskClasses]
    /\ CanExecute \in [Listed -> SUBSET RiskClasses]

VARIABLES
    memories,       \* episodic memory_entries, by source_outcome_id
    autonomy,       \* autonomy_stats.total_decisions per risk class
    pc,             \* the next statement of each call
    arg             \* what each call holds across its awaits

toolVars == <<memories, autonomy, pc, arg>>
vars == <<tables, toolVars>>

Stages == {"idle", "done", "failed",
           "approve_insert", "approve_update",
           "execute_insert", "execute_update",
           "auto_approval", "auto_action", "auto_update", "auto_stats",
           "outcome_insert", "outcome_update", "outcome_memory"}

InFlight(c) == pc[c] \notin {"idle", "done", "failed"}

NoArg == [target |-> 0, who |-> Null, verdict |-> FALSE,
          key |-> Null, cites |-> {}, outcome |-> 0]

Args == [target: Nat, who: Principals \cup {Null}, verdict: BOOLEAN,
         key: Keys \cup {Null}, cites: SUBSET Nat, outcome: Nat]

TypeOK ==
    /\ TablesOK
    /\ memories \in Seq(Nat)
    /\ autonomy \in [RiskClasses -> Nat]
    /\ pc \in [Calls -> Stages]
    /\ arg \in [Calls -> Args]

Init ==
    /\ EmptyTables
    /\ memories = <<>>
    /\ autonomy = [r \in RiskClasses |-> 0]
    /\ pc = [c \in Calls |-> "idle"]
    /\ arg = [c \in Calls |-> NoArg]

-----------------------------------------------------------------------------
(* Control of a call *)

Receives(c, tool) == pc[c] = "idle" /\ tool \in Offered

Goto(c, stage) == pc' = [pc EXCEPT ![c] = stage]

Hold(c, a) == arg' = [arg EXCEPT ![c] = a]

Return(c) == Goto(c, "done") /\ Hold(c, NoArg)

\* The catch block of a handler: an error reply, nothing undone.
Throw(c) == Goto(c, "failed") /\ UNCHANGED arg

\* Proposal ids a caller may name: those in the table, and one that is not.
NamedIds == 1 .. Len(proposals) + 1

Exists(p) == p \in DOMAIN proposals

\* An agent that permissions does not list is not restricted.
MayPropose(agent, risk) == agent \in Listed => risk \in CanPropose[agent]
MayApprove(by, risk) == by \in Listed => risk \in CanApprove[by]
MayExecute(by, risk) == by \in Listed => risk \in CanExecute[by]

\* Mutant of Approvable: the permission check is forgotten.
ApprovableByAnyone(p, by) == Exists(p)

\* approve_decision goes on to its INSERT.
Approvable(p, by) == Exists(p) /\ MayApprove(by, proposals[p].risk)

\* Mutant of Executable: the status check is forgotten.
ExecutableAnyStatus(p, by) == Exists(p) /\ MayExecute(by, proposals[p].risk)

\* execute_decision_action goes on to its INSERT.
Executable(p, by) ==
    /\ Exists(p)
    /\ proposals[p].status = "approved"
    /\ MayExecute(by, proposals[p].risk)

\* Mutants of Decision: a status that no CHECK admits; a rejection that is not
\* written; a verdict that is not looked at.
DecisionVerb(verdict) == IF verdict THEN "approve" ELSE "reject"
DecisionOnlyApproves(verdict) == IF verdict THEN "approved" ELSE "pending"
DecisionIgnoresVerdict(verdict) == "approved"

\* The status that approve_decision writes.
Decision(verdict) == IF verdict THEN "approved" ELSE "rejected"

-----------------------------------------------------------------------------
(* propose_decision *)

ProposeDecision(c, risk, evidenceValid) ==
    /\ Receives(c, "propose_decision")
    /\ IF evidenceValid THEN InsertProposal(risk, "pending", Null)
                        ELSE UNCHANGED proposals
    /\ Return(c)
    /\ UNCHANGED <<approvals, actions, outcomes, memories, autonomy>>

(* approve_decision *)

ApproveCheck(c, p, by, verdict) ==
    /\ Receives(c, "approve_decision")
    /\ IF Approvable(p, by)
       THEN /\ Goto(c, "approve_insert")
            /\ Hold(c, [NoArg EXCEPT !.target = p, !.who = by, !.verdict = verdict])
       ELSE Return(c)
    /\ UNCHANGED <<tables, memories, autonomy>>

ApproveInsert(c) ==
    /\ pc[c] = "approve_insert"
    /\ IF HasVoted(arg[c].target, arg[c].who)
       THEN Throw(c) /\ UNCHANGED approvals
       ELSE /\ InsertApproval(arg[c].target, arg[c].who, arg[c].verdict)
            /\ Goto(c, "approve_update")
            /\ UNCHANGED arg
    /\ UNCHANGED <<proposals, actions, outcomes, memories, autonomy>>

ApproveUpdate(c) ==
    /\ pc[c] = "approve_update"
    /\ SetStatus({arg[c].target}, Decision(arg[c].verdict))
    /\ Return(c)
    /\ UNCHANGED <<approvals, actions, outcomes, memories, autonomy>>

(* execute_decision_action *)

ExecuteCheck(c, p, by) ==
    /\ Receives(c, "execute_decision_action")
    /\ IF Executable(p, by)
       THEN Goto(c, "execute_insert") /\ Hold(c, [NoArg EXCEPT !.target = p])
       ELSE Return(c)
    /\ UNCHANGED <<tables, memories, autonomy>>

\* Mutant of ExecuteInsert: the status is written before the action row.
ExecuteInsertStatusFirst(c) ==
    /\ pc[c] = "execute_insert"
    /\ SetStatus({arg[c].target}, "executed")
    /\ Goto(c, "execute_update")
    /\ UNCHANGED <<arg, approvals, actions, outcomes, memories, autonomy>>

ExecuteInsert(c) ==
    /\ pc[c] = "execute_insert"
    /\ InsertAction(arg[c].target, Null)
    /\ Goto(c, "execute_update")
    /\ UNCHANGED <<arg, proposals, approvals, outcomes, memories, autonomy>>

ExecuteUpdate(c) ==
    /\ pc[c] = "execute_update"
    /\ SetStatus({arg[c].target}, "executed")
    /\ Return(c)
    /\ UNCHANGED <<approvals, actions, outcomes, memories, autonomy>>

-----------------------------------------------------------------------------
(* execute_action: classify, propose and, for an automatic risk class,       *)
(* approve and execute in the same handler.                                  *)

ActionPropose(c, agent, risk) ==
    /\ Receives(c, "execute_action")
    /\ IF ~MayPropose(agent, risk)
       THEN Return(c) /\ UNCHANGED proposals
       ELSE IF risk \in AutoRisks
       THEN /\ InsertProposal(risk, "approved", Null)
            /\ Goto(c, "auto_approval")
            /\ Hold(c, [NoArg EXCEPT !.target = Len(proposals) + 1])
       ELSE InsertProposal(risk, "pending", Null) /\ Return(c)
    /\ UNCHANGED <<approvals, actions, outcomes, memories, autonomy>>

AutoApproval(c) ==
    /\ pc[c] = "auto_approval"
    /\ IF HasVoted(arg[c].target, AutoApprover)
       THEN Throw(c) /\ UNCHANGED approvals
       ELSE /\ InsertApproval(arg[c].target, AutoApprover, TRUE)
            /\ Goto(c, "auto_action")
            /\ UNCHANGED arg
    /\ UNCHANGED <<proposals, actions, outcomes, memories, autonomy>>

\* Mutant of AutoAction: the decision is counted where the action is recorded.
AutoActionCountsFirst(c) ==
    /\ pc[c] = "auto_action"
    /\ autonomy' = [autonomy EXCEPT ![proposals[arg[c].target].risk] = @ + 1]
    /\ Goto(c, "auto_update")
    /\ UNCHANGED <<arg, tables, memories>>

AutoAction(c) ==
    /\ pc[c] = "auto_action"
    /\ InsertAction(arg[c].target, Null)
    /\ Goto(c, "auto_update")
    /\ UNCHANGED <<arg, proposals, approvals, outcomes, memories, autonomy>>

AutoUpdate(c) ==
    /\ pc[c] = "auto_update"
    /\ SetStatus({arg[c].target}, "executed")
    /\ Goto(c, "auto_stats")
    /\ UNCHANGED <<arg, approvals, actions, outcomes, memories, autonomy>>

AutoStats(c) ==
    /\ pc[c] = "auto_stats"
    /\ autonomy' = [autonomy EXCEPT ![proposals[arg[c].target].risk] = @ + 1]
    /\ Return(c)
    /\ UNCHANGED <<tables, memories>>

-----------------------------------------------------------------------------
(* record_outcome *)

OutcomeCheck(c, key, cites) ==
    /\ Receives(c, "record_outcome")
    /\ IF \A p \in cites : Exists(p)
       THEN /\ Goto(c, "outcome_insert")
            /\ Hold(c, [NoArg EXCEPT !.key = key, !.cites = cites])
       ELSE Return(c)
    /\ UNCHANGED <<tables, memories, autonomy>>

\* Mutant of OutcomeWithKey: no ON CONFLICT.
OutcomeNeverFound(key) == {}

OutcomeWithKey(key) == {i \in DOMAIN outcomes : outcomes[i].key = key}

\* INSERT ... ON CONFLICT (idempotency_key) DO NOTHING, and on a conflict the
\* SELECT of the row that is already there.
OutcomeInsert(c) ==
    /\ pc[c] = "outcome_insert"
    /\ LET old == OutcomeWithKey(arg[c].key)
       IN IF old = {}
          THEN /\ InsertOutcome(arg[c].key, Null, arg[c].cites)
               /\ Hold(c, [arg[c] EXCEPT !.outcome = Len(outcomes) + 1])
          ELSE /\ \E i \in old : Hold(c, [arg[c] EXCEPT !.outcome = i])
               /\ UNCHANGED outcomes
    /\ Goto(c, IF arg[c].cites = {} THEN "outcome_memory" ELSE "outcome_update")
    /\ UNCHANGED <<proposals, approvals, actions, memories, autonomy>>

OutcomeUpdate(c) ==
    /\ pc[c] = "outcome_update"
    /\ SetStatus(arg[c].cites, "completed")
    /\ Goto(c, "outcome_memory")
    /\ UNCHANGED <<arg, approvals, actions, outcomes, memories, autonomy>>

\* The episodic memory; its own try block swallows a failure.
OutcomeMemory(c) ==
    /\ pc[c] = "outcome_memory"
    /\ \/ memories' = Append(memories, arg[c].outcome)
       \/ UNCHANGED memories
    /\ Return(c)
    /\ UNCHANGED <<tables, autonomy>>

-----------------------------------------------------------------------------

\* A statement throws or the process dies: the call stops, its commits stay.
CallFails(c) ==
    /\ InFlight(c)
    /\ Cardinality({d \in Calls : pc[d] = "failed"}) < MaxFailures
    /\ Throw(c)
    /\ UNCHANGED <<tables, memories, autonomy>>

Arrives(c) ==
    \/ \E risk \in Risks, valid \in BOOLEAN : ProposeDecision(c, risk, valid)
    \/ \E p \in NamedIds, by \in Principals, verdict \in BOOLEAN :
            ApproveCheck(c, p, by, verdict)
    \/ \E p \in NamedIds, by \in Principals : ExecuteCheck(c, p, by)
    \/ \E agent \in Principals, risk \in Risks : ActionPropose(c, agent, risk)
    \/ \E key \in Keys, cites \in SUBSET NamedIds : OutcomeCheck(c, key, cites)

Continues(c) ==
    \/ ApproveInsert(c) \/ ApproveUpdate(c)
    \/ ExecuteInsert(c) \/ ExecuteUpdate(c)
    \/ AutoApproval(c) \/ AutoAction(c) \/ AutoUpdate(c) \/ AutoStats(c)
    \/ OutcomeInsert(c) \/ OutcomeUpdate(c) \/ OutcomeMemory(c)

Next == \E c \in Calls : Arrives(c) \/ Continues(c) \/ CallFails(c)

Spec == Init /\ [][Next]_vars

\* The event loop runs every awaiting handler on; callers need not call.
FairSpec == Spec /\ \A c \in Calls : WF_vars(Continues(c))

-----------------------------------------------------------------------------
(* What a handler found out before an await and relies on after it. *)

AutoStages == {"auto_approval", "auto_action", "auto_update", "auto_stats"}

\* Stages that write a row that names arg.target, or the row of arg.target.
TargetStages == {"approve_insert", "approve_update",
                 "execute_insert", "execute_update"} \cup AutoStages

Backed(c) ==
    /\ pc[c] \in TargetStages => arg[c].target \in DOMAIN proposals
    /\ pc[c] = "approve_insert" =>
          /\ arg[c].who \in Principals
          /\ MayApprove(arg[c].who, proposals[arg[c].target].risk)
    /\ pc[c] = "approve_update" =>
          \E i \in DOMAIN approvals : /\ approvals[i].proposal = arg[c].target
                                      /\ approvals[i].approved = arg[c].verdict
    /\ pc[c] = "execute_insert" =>
          proposals[arg[c].target].risk \in AutoRisks \/ Approved(arg[c].target)
    /\ pc[c] \in AutoStages =>
          /\ proposals[arg[c].target].risk \in AutoRisks
          /\ proposals[arg[c].target].status # "pending"
    /\ pc[c] \in {"execute_update", "auto_update"} => Acted(arg[c].target)

ActionsNameProposals ==
    \A i \in DOMAIN actions : actions[i].proposal \in DOMAIN proposals

-----------------------------------------------------------------------------
(***************************************************************************)
(* Properties                                                               *)
(***************************************************************************)

\* Concurrent and retried approve_decision and execute_action calls never
\* leave two votes of one approver on one proposal (the unique index is what
\* stops them: the handlers do not look first).
VoteOnce ==
    \A i, j \in DOMAIN approvals :
        /\ approvals[i].proposal = approvals[j].proposal
        /\ approvals[i].by = approvals[j].by
        => i = j

\* However calls interleave, a listed agent never has a vote on a proposal of
\* a risk class outside its can_approve: the check of approve_decision is made
\* statements earlier, on a value that later calls must not invalidate.
ApproverRights ==
    \A i \in DOMAIN approvals :
        MayApprove(approvals[i].by, proposals[approvals[i].proposal].risk)

\* A proposal of a risk class that is not approved automatically has an action
\* row, or stands approved or executed, only after somebody voted for it.
VoteBeforeEffect ==
    \A p \in DOMAIN proposals :
        /\ proposals[p].risk \notin AutoRisks
        /\ Acted(p) \/ proposals[p].status \in {"approved", "executed"}
        => Approved(p)

\* The audit trail is written before the status: a proposal stands executed
\* only with an action row and rejected only with a vote against it, also when
\* handlers die between the two statements or overwrite each other's status.
StatusHasEvidence ==
    \A p \in DOMAIN proposals :
        /\ proposals[p].status = "executed" => Acted(p)
        /\ proposals[p].status = "rejected" => Rejected(p)

\* A proposal that was voted on and still is pending is one whose
\* approve_decision call is between its two statements or died there (its
\* approver cannot vote again: VoteOnce).
PendingVoteIsUnfinished ==
    \A i \in DOMAIN approvals :
        LET p == approvals[i].proposal
        IN proposals[p].status = "pending" =>
             \E c \in Calls : /\ arg[c].target = p
                              /\ pc[c] \in {"approve_update", "failed"}

\* Retries of record_outcome, concurrent ones too, share one outcome row.
OneOutcomePerKey ==
    \A i, j \in DOMAIN outcomes : outcomes[i].key = outcomes[j].key => i = j

\* A handler that stops half-way may leave a decision uncounted, never one
\* counted that has no action: progressive autonomy is not promoted by
\* decisions that did not happen.
StatsNeverOvercount ==
    \A r \in RiskClasses :
        autonomy[r] <=
            Cardinality({i \in DOMAIN actions : proposals[actions[i].proposal].risk = r})

\* A step that makes a proposal approved, from whatever status (a rejected,
\* executed or completed one may be reopened), finds a vote for it.
ReopenedOnlyByVote ==
    [][\A p \in DOMAIN proposals :
          proposals[p].status # "approved" /\ proposals'[p].status = "approved"
             => Approved(p)]_vars

\* Whatever other calls commit while a handler awaits, what it found out at an
\* earlier statement and still builds on is true when the next statement runs:
\* the proposal exists, the approver may vote on it, the vote whose verdict it
\* copies is there, the proposal it executes was approved by somebody.
HandlersBacked == \A c \in Calls : Backed(c)

\* A vote on a proposal leads to a decision on it, unless a handler that works
\* on this proposal dies.
VoteLeadsToDecision ==
    \A p \in 1 .. Cardinality(Calls) :
        (Exists(p) /\ \E by \in Principals : HasVoted(p, by))
            ~> \/ Exists(p) /\ proposals[p].status # "pending"
               \/ \E c \in Calls : pc[c] = "failed" /\ arg[c].target = p

\* tools/persist.ts says of execute_decision_action "Only works on approved
\* proposals": the action row goes to a proposal that stands approved.
ExecutesOnlyApproved ==
    [][\A c \in Calls : ExecuteInsert(c) =>
          proposals[arg[c].target].status = "approved"]_vars

\* tools/persist.ts says of approve_decision "High/critical: human approval
\* required": an action of these classes has the vote of a human.
HighRiskNeedsHuman ==
    \A i \in DOMAIN actions :
        proposals[actions[i].proposal].risk \in {"high", "critical"} =>
            \E j \in DOMAIN approvals :
                /\ approvals[j].proposal = actions[i].proposal
                /\ approvals[j].approved
                /\ approvals[j].by \in Humans
=============================================================================
