---------------------------- MODULE DecisionStore ----------------------------
(***************************************************************************)
(* The decision tables of the harness database (Layer 4 of init.sql) and    *)
(* the SQL statements the harness sends to them.                            *)
(*                                                                          *)
(* executeQuery (harness/src/database/index.ts) takes a pooled connection   *)
(* for ONE statement and commits it, so the statement is the unit of        *)
(* atomicity: every operator below is one statement, and the modules that   *)
(* use them take one step per statement.                                    *)
(*                                                                          *)
(* A table is a sequence of rows; a SERIAL key is the position of the row.  *)
(* No statement of the harness deletes a row of these tables.               *)
(***************************************************************************)
EXTENDS Naturals, Sequences

CONSTANTS
    Principals,     \* who may stand in approved_by or executor_id
    Keys,           \* values of outcome idempotency keys
    Workflows,      \* durable workflow identifiers
    Null            \* SQL NULL

ASSUME NullAssumption == Null \notin Principals \cup Keys \cup Workflows

VARIABLES
    proposals,      \* decision_proposals
    approvals,      \* decision_approvals
    actions,        \* decision_actions
    outcomes        \* decision_outcomes

tables == <<proposals, approvals, actions, outcomes>>

RiskClasses == {"low", "medium", "high", "critical"}

Statuses == {"pending", "approved", "rejected", "executed", "completed"}

ProposalRows ==
    [risk: RiskClasses, status: Statuses, workflow: Workflows \cup {Null}]

ApprovalRows == [proposal: Nat, by: Principals, approved: BOOLEAN]

ActionRows == [proposal: Nat, workflow: Workflows \cup {Null}]

OutcomeRows ==
    [key: Keys \cup {Null}, workflow: Workflows \cup {Null}, cites: SUBSET Nat]

TablesOK ==
    /\ proposals \in Seq(ProposalRows)
    /\ approvals \in Seq(ApprovalRows)
    /\ actions \in Seq(ActionRows)
    /\ outcomes \in Seq(OutcomeRows)

EmptyTables ==
    /\ proposals = <<>>
    /\ approvals = <<>>
    /\ actions = <<>>
    /\ outcomes = <<>>

-----------------------------------------------------------------------------
(* Queries *)

Approved(p) == \E i \in DOMAIN approvals :
                  approvals[i].proposal = p /\ approvals[i].approved

Rejected(p) == \E i \in DOMAIN approvals :
                  approvals[i].proposal = p /\ ~approvals[i].approved

Acted(p) == \E i \in DOMAIN actions : actions[i].proposal = p

\* Mutant of HasVoted: init.sql without the unique index.
HasVotedNoIndex(p, by) == FALSE

\* uniq_approvals_proposal_approver: one row per (proposal, approver).
HasVoted(p, by) == \E i \in DOMAIN approvals :
                      approvals[i].proposal = p /\ approvals[i].by = by

-----------------------------------------------------------------------------
(* Statements: the INSERTs and the UPDATE of the status column, which never  *)
(* looks at the status it overwrites.                                       *)

InsertProposal(risk, status, workflow) ==
    proposals' = Append(proposals,
                        [risk |-> risk, status |-> status, workflow |-> workflow])

InsertApproval(p, by, verdict) ==
    approvals' = Append(approvals,
                        [proposal |-> p, by |-> by, approved |-> verdict])

InsertAction(p, workflow) ==
    actions' = Append(actions, [proposal |-> p, workflow |-> workflow])

InsertOutcome(key, workflow, cites) ==
    outcomes' = Append(outcomes,
                       [key |-> key, workflow |-> workflow, cites |-> cites])

SetStatus(ids, status) ==
    proposals' = [i \in DOMAIN proposals |->
                    IF i \in ids THEN [proposals[i] EXCEPT !.status = status]
                                 ELSE proposals[i]]
=============================================================================
