--------------------------- MODULE DecisionSystem ---------------------------
(***************************************************************************)
(* One harness process: the decision tools that clients call and the         *)
(* durable workflows that DBOS runs, on the same tables.  A client may name  *)
(* the proposal of a workflow in any call, so the statements of both          *)
(* interleave on one proposal, and a crash stops both.                       *)
(***************************************************************************)
EXTENDS DecisionStore, FiniteSets

CONSTANTS
    Calls, Offered, Humans, CanPropose, CanApprove, CanExecute, AutoRisks,
    MaxFailures,                            \* of DecisionTools
    MaxCrashes, MaxErrors,                  \* of DecisionWorkflow
    AutoApprover, Risks                     \* of both

VARIABLES
    memories, autonomy, pc, arg,            \* of DecisionTools
    runs, status, risk, ckpt, out,          \* of DecisionWorkflow
    at, row, up, crashes, errors

Tools == INSTANCE DecisionTools
Durable == INSTANCE DecisionWorkflow

toolVars == <<memories, autonomy, pc, arg>>
workflowVars == <<runs, status, risk, ckpt, out, at, row, up, crashes, errors>>
vars == <<proposals, approvals, actions, outcomes,
          memories, autonomy, pc, arg,
          runs, status, risk, ckpt, out, at, row, up, crashes, errors>>

\* initDbos runs before the server accepts calls, so that the tables are
\* there and no call is under way.
Init == Tools!Init /\ Durable!Init

ToolStep(c) ==
    /\ up
    /\ Tools!Arrives(c) \/ Tools!Continues(c) \/ Tools!CallFails(c)
    /\ UNCHANGED workflowVars

WorkflowStep(w) ==
    /\ \/ Durable!Progress(w)
       \/ Durable!StepThrows(w)
       \/ \E r \in Risks : Durable!Start(w, r)
    /\ UNCHANGED toolVars

\* The calls under way are lost with the process; a workflow is not.
Crash ==
    /\ Durable!Crash
    /\ pc' = [c \in Calls |-> IF Tools!InFlight(c) THEN "failed" ELSE pc[c]]
    /\ UNCHANGED <<memories, autonomy, arg>>

Launch == Durable!Launch /\ UNCHANGED toolVars

Next ==
    \/ \E c \in Calls : ToolStep(c)
    \/ \E w \in Workflows : WorkflowStep(w)
    \/ Crash
    \/ Launch

Spec == Init /\ [][Next]_vars

FairSpec ==
    /\ Spec
    /\ WF_vars(Launch)
    /\ \A w \in Workflows : WF_vars(Durable!Progress(w) /\ UNCHANGED toolVars)

-----------------------------------------------------------------------------
(***************************************************************************)
(* Properties                                                               *)
(***************************************************************************)

\* A client that votes as "auto" on the proposal of a workflow and the
\* workflow's own vote meet in one row, in either order, across crashes.
VoteOnce == Tools!VoteOnce

\* What clients do to the proposal of a workflow neither duplicates a row of
\* the workflow nor makes a recovered execution go on with a foreign row.
WorkflowRowsOnce == Durable!OneRowPerTable /\ Durable!CheckpointsNameOwnRows

\* A proposal stands executed only with an action row, whether a client, a
\* workflow or both (each may overwrite the other's status) worked on it.
ExecutedHasAction ==
    \A p \in DOMAIN proposals : proposals[p].status = "executed" => Acted(p)

\* Clients that vote on, execute or complete the proposal of a workflow do
\* not keep it from ending.
EveryWorkflowEnds == Durable!EveryWorkflowEnds

\* decision.ts says of step 4 "execute the action (only if approved)": the
\* workflow writes its action on a proposal that stands approved.
WorkflowExecutesOnlyApproved ==
    [][\A w \in Workflows :
          Durable!ExecuteInsert(w) /\ actions' # actions =>
              proposals[Durable!Proposal(w)].status = "approved"]_vars
=============================================================================
