-------------------------- MODULE DecisionWorkflow --------------------------
(***************************************************************************)
(* The durable decision workflow (workflows/decision.ts), started by the    *)
(* start_decision_workflow tool (tools/workflow.ts) and run by DBOS, which   *)
(* dbos-init.ts launches.                                                    *)
(*                                                                          *)
(* A workflow is six DBOS.runStep steps.  The body of a step sends its       *)
(* statements to the decision tables one by one; DBOS then checkpoints the   *)
(* value the body returned.  A crash loses everything but the tables and     *)
(* the checkpoints; launch() runs each pending workflow again, and the steps *)
(* that are checkpointed return their recorded value instead of running.     *)
(* A crash after a statement and before the checkpoint of its step makes the *)
(* body run again: the ON CONFLICT clauses are there for that.               *)
(*                                                                          *)
(* DBOS is external; what is modelled of it is what decision.ts, workflow.ts *)
(* and dbos-init.ts rely on.                                                 *)
(***************************************************************************)
EXTENDS DecisionStore, FiniteSets

CONSTANTS
    AutoApprover,   \* the approver "auto"
    Risks,          \* the risk classes callers name in this instance
    MaxCrashes,     \* bound on crashes of the harness
    MaxErrors       \* bound on steps that throw

ASSUME WorkflowAssumptions ==
    /\ AutoApprover \in Principals
    /\ Risks \subseteq RiskClasses
    /\ MaxCrashes \in Nat
    /\ MaxErrors \in Nat

VARIABLES
    runs,           \* decision_workflow_runs
    status,         \* DBOS: workflow status ("absent": never started)
    risk,           \* DBOS: the recorded input (its riskClass)
    ckpt,           \* DBOS: the last step with a checkpoint, 0 if none
    out,            \* DBOS: the value each checkpointed step returned
    at,             \* volatile: where the running execution is in its step
    row,            \* volatile: the row id the running body will return
    up,             \* the harness process runs and DBOS is launched
    crashes, errors

durable == <<runs, status, risk, ckpt, out>>
volatile == <<at, row, up>>
wfVars == <<durable, volatile, crashes, errors>>
vars == <<tables, wfVars>>

\* The steps, by number.
RecordRun == 1
Propose == 2
Approve == 3
Execute == 4
RecordOutcome == 5
CompleteRun == 6

\* Where an execution is: not running; before the first or the second write
\* of the step; the body returned and its value is not checkpointed yet.
Positions == {"idle", "first", "second", "return"}

RunRows == [workflow: Workflows, status: {"running", "completed"}]

WorkflowStatuses == {"absent", "PENDING", "SUCCESS", "ERROR"}

NoRow == 0

TypeOK ==
    /\ TablesOK
    /\ runs \in Seq(RunRows)
    /\ status \in [Workflows -> WorkflowStatuses]
    /\ risk \in [Workflows -> RiskClasses]
    /\ ckpt \in [Workflows -> 0 .. 6]
    /\ out \in [Workflows -> [RecordRun .. CompleteRun -> Nat]]
    /\ at \in [Workflows -> Positions]
    /\ row \in [Workflows -> Nat]
    /\ up \in BOOLEAN
    /\ crashes \in 0 .. MaxCrashes
    /\ errors \in 0 .. MaxErrors

Init ==
    /\ EmptyTables
    /\ runs = <<>>
    /\ status = [w \in Workflows |-> "absent"]
    /\ risk = [w \in Workflows |-> "low"]   \* no input before the start
    /\ ckpt = [w \in Workflows |-> 0]
    /\ out = [w \in Workflows |-> [s \in RecordRun .. CompleteRun |-> NoRow]]
    /\ at = [w \in Workflows |-> "idle"]
    /\ row = [w \in Workflows |-> NoRow]
    /\ up = TRUE
    /\ crashes = 0
    /\ errors = 0

-----------------------------------------------------------------------------

AutoApproved(w) == risk[w] = "low"

\* Mutant of Step: the execute step does not depend on the approval.
StepAlwaysExecutes(w) == ckpt[w] + 1

\* The step an execution is at: the one after the last checkpoint, where only
\* an approved decision has an execute step.
Step(w) == IF ckpt[w] = Approve /\ ~AutoApproved(w) THEN RecordOutcome
                                                    ELSE ckpt[w] + 1

Running(w, step, position) ==
    status[w] = "PENDING" /\ Step(w) = step /\ at[w] = position

Proposal(w) == out[w][Propose]

RowsOf(table, w) == {i \in DOMAIN table : table[i].workflow = w}

\* The body goes on; r is the row id it has to return.
Goto(w, position, r) ==
    /\ at' = [at EXCEPT ![w] = position]
    /\ row' = [row EXCEPT ![w] = r]
    /\ UNCHANGED <<status, risk, ckpt, out, up, crashes, errors>>

\* Mutants of InsertOnce: no ON CONFLICT; on a conflict, the newest id.
InsertAlways(table, w, insert, position) ==
    insert /\ Goto(w, position, Len(table) + 1)
InsertOrLast(table, w, insert, position) ==
    IF RowsOf(table, w) = {}
    THEN insert /\ Goto(w, position, Len(table) + 1)
    ELSE UNCHANGED table /\ Goto(w, position, Len(table))

\* INSERT ... ON CONFLICT (workflow_id) DO NOTHING RETURNING id, and on a
\* conflict the SELECT of the row that is there (rows are never deleted, so
\* that the two statements are apart makes no difference).
InsertOnce(table, w, insert, position) ==
    LET old == RowsOf(table, w)
    IN IF old = {}
       THEN insert /\ Goto(w, position, Len(table) + 1)
       ELSE /\ UNCHANGED table
            /\ \E i \in old : Goto(w, position, i)

-----------------------------------------------------------------------------
(* startWorkflow with a workflow id DBOS has not seen.  With one it has seen  *)
(* it returns the handle of that workflow and ignores the input: no step.     *)

Start(w, r) ==
    /\ up
    /\ status[w] = "absent"
    /\ status' = [status EXCEPT ![w] = "PENDING"]
    /\ risk' = [risk EXCEPT ![w] = r]
    /\ at' = [at EXCEPT ![w] = "first"]
    /\ UNCHANGED <<tables, runs, ckpt, out, row, up, crashes, errors>>

(* The bodies of the six steps *)

RecordWorkflowRun(w) ==
    /\ Running(w, RecordRun, "first")
    /\ InsertOnce(runs, w,
                  runs' = Append(runs, [workflow |-> w, status |-> "running"]),
                  "return")
    /\ UNCHANGED tables

ProposeDecision(w) ==
    /\ Running(w, Propose, "first")
    /\ InsertOnce(proposals, w, InsertProposal(risk[w], "pending", w), "return")
    /\ UNCHANGED <<approvals, actions, outcomes, runs>>

ApproveInsert(w) ==
    /\ Running(w, Approve, "first")
    /\ IF HasVoted(Proposal(w), AutoApprover)
       THEN UNCHANGED approvals
       ELSE InsertApproval(Proposal(w), AutoApprover, AutoApproved(w))
    /\ Goto(w, "second", NoRow)
    /\ UNCHANGED <<proposals, actions, outcomes, runs>>

ApproveUpdate(w) ==
    /\ Running(w, Approve, "second")
    /\ SetStatus({Proposal(w)}, IF AutoApproved(w) THEN "approved" ELSE "rejected")
    /\ Goto(w, "return", NoRow)
    /\ UNCHANGED <<approvals, actions, outcomes, runs>>

\* Mutant of ExecuteInsert: returns early when the action is already there.
ExecuteInsertReturnsEarly(w) ==
    /\ Running(w, Execute, "first")
    /\ InsertOnce(actions, w, InsertAction(Proposal(w), w),
                  IF RowsOf(actions, w) = {} THEN "second" ELSE "return")
    /\ UNCHANGED <<proposals, approvals, outcomes, runs>>

ExecuteInsert(w) ==
    /\ Running(w, Execute, "first")
    /\ InsertOnce(actions, w, InsertAction(Proposal(w), w), "second")
    /\ UNCHANGED <<proposals, approvals, outcomes, runs>>

ExecuteUpdate(w) ==
    /\ Running(w, Execute, "second")
    /\ SetStatus({Proposal(w)}, "executed")
    /\ Goto(w, "return", row[w])
    /\ UNCHANGED <<approvals, actions, outcomes, runs>>

RecordOutcomeRow(w) ==
    /\ Running(w, RecordOutcome, "first")
    /\ InsertOnce(outcomes, w, InsertOutcome(Null, w, {Proposal(w)}), "return")
    /\ UNCHANGED <<proposals, approvals, actions, runs>>

CompleteWorkflowRun(w) ==
    /\ Running(w, CompleteRun, "first")
    /\ runs' = [runs EXCEPT ![out[w][RecordRun]].status = "completed"]
    /\ Goto(w, "return", NoRow)
    /\ UNCHANGED tables

-----------------------------------------------------------------------------
(* DBOS and the process *)

\* DBOS stores the returned value; the workflow function goes on to its next
\* step, or returns and DBOS stores SUCCESS.
Checkpoint(w) ==
    /\ status[w] = "PENDING"
    /\ at[w] = "return"
    /\ ckpt' = [ckpt EXCEPT ![w] = Step(w)]
    /\ out' = [out EXCEPT ![w][Step(w)] = row[w]]
    /\ row' = [row EXCEPT ![w] = NoRow]
    /\ at' = [at EXCEPT ![w] = "first"]
    /\ UNCHANGED <<tables, runs, status, risk, up, crashes, errors>>

Succeed(w) ==
    /\ status[w] = "PENDING"
    /\ ckpt[w] = CompleteRun
    /\ at[w] = "first"
    /\ status' = [status EXCEPT ![w] = "SUCCESS"]
    /\ at' = [at EXCEPT ![w] = "idle"]
    /\ UNCHANGED <<tables, runs, risk, ckpt, out, row, up, crashes, errors>>

\* A statement throws (at "return": the SELECT after a conflict).  decision.ts
\* configures no retries, so the step and the workflow fail: DBOS stores ERROR,
\* and recovery leaves the workflow alone.
StepThrows(w) ==
    /\ errors < MaxErrors
    /\ at[w] # "idle"
    /\ ckpt[w] # CompleteRun
    /\ status' = [status EXCEPT ![w] = "ERROR"]
    /\ at' = [at EXCEPT ![w] = "idle"]
    /\ row' = [row EXCEPT ![w] = NoRow]
    /\ errors' = errors + 1
    /\ UNCHANGED <<tables, runs, risk, ckpt, out, up, crashes>>

Crash ==
    /\ up
    /\ crashes < MaxCrashes
    /\ up' = FALSE
    /\ at' = [w \in Workflows |-> "idle"]
    /\ row' = [w \in Workflows |-> NoRow]
    /\ crashes' = crashes + 1
    /\ UNCHANGED <<tables, durable, errors>>

\* Mutant of Resumed: pending workflows are not recovered.
ResumedNever(w) == "idle"

\* launch() runs the pending workflows again.
Resumed(w) == IF status[w] = "PENDING" THEN "first" ELSE "idle"

\* Mutant of Launch: recovery runs every step again.
LaunchFromScratch ==
    /\ ~up
    /\ up' = TRUE
    /\ at' = [w \in Workflows |-> Resumed(w)]
    /\ ckpt' = [w \in Workflows |-> 0]
    /\ UNCHANGED <<tables, runs, status, risk, out, row, crashes, errors>>

\* initDbos
Launch ==
    /\ ~up
    /\ up' = TRUE
    /\ at' = [w \in Workflows |-> Resumed(w)]
    /\ UNCHANGED <<tables, durable, row, crashes, errors>>

-----------------------------------------------------------------------------

Progress(w) ==
    \/ RecordWorkflowRun(w) \/ ProposeDecision(w)
    \/ ApproveInsert(w) \/ ApproveUpdate(w)
    \/ ExecuteInsert(w) \/ ExecuteUpdate(w)
    \/ RecordOutcomeRow(w) \/ CompleteWorkflowRun(w)
    \/ Checkpoint(w) \/ Succeed(w)

Next ==
    \/ \E w \in Workflows : Progress(w) \/ StepThrows(w) \/ \E r \in Risks : Start(w, r)
    \/ Crash
    \/ Launch

Spec == Init /\ [][Next]_vars

\* The event loop runs every execution on, and a harness that crashed is
\* started again.
FairSpec == Spec /\ WF_vars(Launch) /\ \A w \in Workflows : WF_vars(Progress(w))

-----------------------------------------------------------------------------
(***************************************************************************)
(* Properties                                                               *)
(***************************************************************************)

VotesOn(w) == {i \in DOMAIN approvals : approvals[i].proposal \in RowsOf(proposals, w)}

AtMostOne(S) == \A i, j \in S : i = j

\* init.sql: "Each workflow produces at most one row per table in this slice;
\* DBOS step replays during recovery-edge timing cannot duplicate these side
\* effects", whenever the crashes fall.
OneRowPerTable ==
    \A w \in Workflows :
        /\ AtMostOne(RowsOf(runs, w))
        /\ AtMostOne(RowsOf(proposals, w))
        /\ AtMostOne({i \in VotesOn(w) : approvals[i].by = AutoApprover})
        /\ AtMostOne(RowsOf(actions, w))
        /\ AtMostOne(RowsOf(outcomes, w))

\* The ids that the checkpoints carry across a crash are ids of rows of this
\* very workflow, also when the body that returned them found its row there.
CheckpointsNameOwnRows ==
    \A w \in Workflows :
        /\ ckpt[w] >= RecordRun => out[w][RecordRun] \in RowsOf(runs, w)
        /\ ckpt[w] >= Propose => out[w][Propose] \in RowsOf(proposals, w)
        /\ ckpt[w] >= Execute /\ AutoApproved(w) => out[w][Execute] \in RowsOf(actions, w)
        /\ ckpt[w] >= RecordOutcome => out[w][RecordOutcome] \in RowsOf(outcomes, w)

\* A result is returned only for a finished decision: the run is completed, the
\* outcome cites the proposal, and the proposal is executed with its action or,
\* if it is not low risk, rejected without one.
SuccessMeansDone ==
    \A w \in Workflows : status[w] = "SUCCESS" =>
        LET p == Proposal(w)
        IN /\ runs[out[w][RecordRun]].status = "completed"
           /\ outcomes[out[w][RecordOutcome]].cites = {p}
           /\ IF AutoApproved(w)
              THEN proposals[p].status = "executed" /\ Acted(p)
              ELSE proposals[p].status = "rejected" /\ ~Acted(p)

\* A body that runs again after a crash never takes back an execution.
ExecutionIsFinal ==
    [][\A p \in DOMAIN proposals :
          proposals[p].status = "executed" => proposals'[p].status = "executed"]_vars

\* A workflow that was started ends, with its result or with the error of a
\* step, if the harness is started again after each crash.
EveryWorkflowEnds ==
    \A w \in Workflows : status[w] = "PENDING" ~> status[w] \in {"SUCCESS", "ERROR"}

\* The ledger a reader of the tables sees.
VerdictOn(w) ==
    IF VotesOn(w) = {} THEN "none"
    ELSE IF \E i \in VotesOn(w) : approvals[i].approved THEN "approved" ELSE "rejected"

RowsOfKind(kind, w) ==
    CASE kind = "run" -> RowsOf(runs, w)
      [] kind = "proposal" -> RowsOf(proposals, w)
      [] kind = "vote" -> VotesOn(w)
      [] kind = "action" -> RowsOf(actions, w)
      [] kind = "outcome" -> RowsOf(outcomes, w)

EntryKinds == {"run", "proposal", "vote", "action", "outcome"}

LedgerEntries == [w \in Workflows |-> [k \in EntryKinds |-> Cardinality(RowsOfKind(k, w))]]

LedgerVerdicts == [w \in Workflows |-> VerdictOn(w)]

LedgerClosed == {w \in Workflows : \E i \in RowsOf(runs, w) : runs[i].status = "completed"}

Ledger == INSTANCE DecisionLedger WITH
    Decisions <- Workflows,
    entries <- LedgerEntries,
    verdict <- LedgerVerdicts,
    closed <- LedgerClosed

\* The workflow, with its crashes and re-executed bodies, writes the ledger of
\* DecisionLedger: every entry once, in order, closed at the end.
ImplementsLedger == Ledger!Spec
=============================================================================
