------------------------ MODULE DecisionWorkflowProofs ------------------------
(***************************************************************************)
(* Proofs about DecisionWorkflow, for any number of workflows, crashes and   *)
(* failing steps: its invariants, and that it implements DecisionLedger.     *)
(***************************************************************************)
EXTENDS DecisionWorkflow, FiniteSetTheorems, TLAPS

-----------------------------------------------------------------------------
(* The inductive invariant *)

\* The unique indexes on workflow_id, and the one on the votes.
KeysHold ==
    /\ \A i, j \in DOMAIN runs : runs[i].workflow = runs[j].workflow => i = j
    /\ \A i, j \in DOMAIN proposals : proposals[i].workflow = proposals[j].workflow => i = j
    /\ \A i, j \in DOMAIN actions : actions[i].workflow = actions[j].workflow => i = j
    /\ \A i, j \in DOMAIN outcomes : outcomes[i].workflow = outcomes[j].workflow => i = j
    /\ \A i, j \in DOMAIN approvals : approvals[i].proposal = approvals[j].proposal => i = j

\* Each row was written by a workflow, which was by then behind the steps that
\* the row rests on; what the row says of it is still true.
ProposalsHold ==
    \A p \in DOMAIN proposals :
        /\ proposals[p].workflow \in Workflows
        /\ ckpt[proposals[p].workflow] >= RecordRun
        /\ proposals[p].status = "executed" => ckpt[proposals[p].workflow] >= Approve

VotesHold ==
    \A i \in DOMAIN approvals :
        /\ approvals[i].by = AutoApprover
        /\ approvals[i].proposal \in DOMAIN proposals
        /\ approvals[i].approved = AutoApproved(proposals[approvals[i].proposal].workflow)

ActionsHold ==
    \A i \in DOMAIN actions :
        /\ actions[i].workflow \in Workflows
        /\ AutoApproved(actions[i].workflow)
        /\ ckpt[actions[i].workflow] >= Approve
        /\ actions[i].proposal = Proposal(actions[i].workflow)

OutcomesHold ==
    \A i \in DOMAIN outcomes :
        /\ outcomes[i].workflow \in Workflows
        /\ ckpt[outcomes[i].workflow] >= Approve
        /\ outcomes[i].cites = {Proposal(outcomes[i].workflow)}

\* Row i of a table is there, and is of w.
IsRowOf(table, i, w) == i \in DOMAIN table /\ table[i].workflow = w

\* What a checkpoint recorded is a row of this workflow.
CheckpointsHold(w) ==
    /\ ckpt[w] >= RecordRun => IsRowOf(runs, out[w][RecordRun], w)
    /\ ckpt[w] >= Propose => IsRowOf(proposals, out[w][Propose], w)
    /\ ckpt[w] >= Execute /\ AutoApproved(w) => IsRowOf(actions, out[w][Execute], w)
    /\ ckpt[w] >= RecordOutcome => IsRowOf(outcomes, out[w][RecordOutcome], w)

\* So is what a body is about to return.
BodyHolds(w) ==
    /\ at[w] \in {"second", "return"} => ckpt[w] < CompleteRun
    /\ at[w] = "return" =>
          /\ Step(w) = RecordRun => IsRowOf(runs, row[w], w)
          /\ Step(w) = Propose => IsRowOf(proposals, row[w], w)
          /\ Step(w) = RecordOutcome => IsRowOf(outcomes, row[w], w)
    /\ at[w] \in {"second", "return"} /\ Step(w) = Execute => IsRowOf(actions, row[w], w)

\* The body of a step has come to one of these positions, or the step is recorded.
Reached(w, step, positions) ==
    (ckpt[w] = step - 1 /\ at[w] \in positions) \/ ckpt[w] >= step

\* What the writes behind an execution have brought about.
Voted(w) == \E i \in DOMAIN approvals : approvals[i].proposal = Proposal(w)

EffectsHold(w) ==
    /\ Reached(w, Approve, {"second", "return"}) => Voted(w)
    /\ ~AutoApproved(w) /\ Reached(w, Approve, {"return"}) =>
          proposals[Proposal(w)].status = "rejected"
    /\ AutoApproved(w) /\ Reached(w, Execute, {"return"}) =>
          proposals[Proposal(w)].status = "executed"
    /\ Reached(w, CompleteRun, {"return"}) => runs[out[w][RecordRun]].status = "completed"

StatusHolds(w) ==
    /\ status[w] = "absent" => ckpt[w] = 0
    /\ status[w] = "SUCCESS" => ckpt[w] = CompleteRun

RowsHold == KeysHold /\ ProposalsHold /\ VotesHold /\ ActionsHold /\ OutcomesHold

WorkflowHolds(w) ==
    CheckpointsHold(w) /\ BodyHolds(w) /\ EffectsHold(w) /\ StatusHolds(w)

IInv == TypeOK /\ RowsHold /\ \A w \in Workflows : WorkflowHolds(w)

-----------------------------------------------------------------------------
(* The statements *)

\* Row i is there for w, whether it was found or is the new row r; no other row
\* has changed.
Gains(old, new, w, i, r) ==
    /\ i \in Nat
    /\ IsRowOf(new, i, w)
    /\ DOMAIN new = DOMAIN old \cup {i}
    /\ \A j \in DOMAIN old : new[j] = old[j]
    /\ i \in DOMAIN old \/ (new[i] = r /\ \A j \in DOMAIN old : old[j].workflow # w)

\* INSERT ... ON CONFLICT DO NOTHING and the SELECT after a conflict.
LEMMA OnceGains ==
    ASSUME NEW S, NEW old \in Seq(S), NEW new, NEW r \in S, NEW w, r.workflow = w, NEW i,
           \/ new = Append(old, r) /\ i = Len(old) + 1 /\ RowsOf(old, w) = {}
           \/ new = old /\ i \in RowsOf(old, w)
    PROVE  new \in Seq(S) /\ Gains(old, new, w, i, r)
<1>1. CASE new = Append(old, r) /\ i = Len(old) + 1 /\ RowsOf(old, w) = {}
  <2>1. /\ new \in Seq(S) /\ i \in Nat
        /\ DOMAIN new = DOMAIN old \cup {i}
        /\ \A j \in DOMAIN old : new[j] = old[j]
        /\ new[i] = r
    BY <1>1
  <2>2. \A j \in DOMAIN old : old[j].workflow # w
    BY <1>1 DEF RowsOf
  <2> QED
    BY <2>1, <2>2 DEF Gains, IsRowOf
<1>2. CASE new = old /\ i \in RowsOf(old, w)
  <2>1. i \in DOMAIN old /\ i \in Nat /\ old[i].workflow = w
    BY <1>2 DEF RowsOf
  <2> QED
    BY <1>2, <2>1 DEF Gains, IsRowOf
<1> QED
  BY <1>1, <1>2

\* It keeps the unique index.
LEMMA GainsKeepsKey ==
    ASSUME NEW old, NEW new, NEW w, NEW i, NEW r, Gains(old, new, w, i, r),
           \A j, k \in DOMAIN old : old[j].workflow = old[k].workflow => j = k
    PROVE  \A j, k \in DOMAIN new : new[j].workflow = new[k].workflow => j = k
BY DEF Gains, IsRowOf

LEMMA GotoEffect ==
    ASSUME TypeOK, NEW w \in Workflows, NEW position \in Positions, NEW r \in Nat,
           Goto(w, position, r)
    PROVE  /\ at' \in [Workflows -> Positions] /\ row' \in [Workflows -> Nat]
           /\ at'[w] = position /\ row'[w] = r
           /\ \A v \in Workflows \ {w} : at'[v] = at[v] /\ row'[v] = row[v]
           /\ UNCHANGED <<status, risk, ckpt, out, up, crashes, errors>>
BY DEF Goto, TypeOK

\* What an UPDATE of the status of one proposal changes.
LEMMA SetStatusEffect ==
    ASSUME proposals \in Seq(ProposalRows), NEW p, NEW s \in Statuses, SetStatus({p}, s)
    PROVE  /\ proposals' \in Seq(ProposalRows)
           /\ DOMAIN proposals' = DOMAIN proposals
           /\ \A q \in DOMAIN proposals :
                 /\ proposals'[q].workflow = proposals[q].workflow
                 /\ proposals'[q].status = IF q = p THEN s ELSE proposals[q].status
                 /\ q # p => proposals'[q] = proposals[q]
<1> DEFINE rows == [i \in DOMAIN proposals |->
                      IF i \in {p} THEN [proposals[i] EXCEPT !.status = s]
                                   ELSE proposals[i]]
<1>1. \A i \in DOMAIN proposals : proposals[i] \in ProposalRows
  OBVIOUS
<1>2. \A i \in DOMAIN proposals : rows[i] \in ProposalRows
  BY <1>1 DEF ProposalRows
<1>3. rows \in Seq(ProposalRows) /\ DOMAIN rows = DOMAIN proposals
  <2>1. DOMAIN proposals = 1 .. Len(proposals) /\ Len(proposals) \in Nat
    OBVIOUS
  <2>2. rows \in [1 .. Len(proposals) -> ProposalRows]
    BY <1>2, <2>1
  <2> QED
    BY <2>1, <2>2
<1>4. \A q \in DOMAIN proposals :
         /\ rows[q].workflow = proposals[q].workflow
         /\ rows[q].status = IF q = p THEN s ELSE proposals[q].status
         /\ q # p => rows[q] = proposals[q]
  BY <1>1 DEF ProposalRows
<1>5. proposals' = rows
  BY DEF SetStatus
<1> HIDE DEF rows
<1> QED
  BY <1>3, <1>4, <1>5

-----------------------------------------------------------------------------
(* What a step leaves alone *)

\* The rows of v in this table are what they were.
Keeps(old, new, v) ==
    \A i \in DOMAIN old : old[i].workflow = v => i \in DOMAIN new /\ new[i] = old[i]

LEMMA GainsKeeps ==
    ASSUME NEW old, NEW new, NEW w, NEW i, NEW r, NEW v, Gains(old, new, w, i, r)
    PROVE  Keeps(old, new, v)
BY DEF Gains, Keeps

\* An execution that only stays where it is, stops or starts again.
LEMMA OthersHold ==
    ASSUME TypeOK, NEW v \in Workflows, WorkflowHolds(v),
           Keeps(runs, runs', v), Keeps(proposals, proposals', v),
           Keeps(actions, actions', v), Keeps(outcomes, outcomes', v),
           \A i \in DOMAIN approvals : i \in DOMAIN approvals' /\ approvals'[i] = approvals[i],
           ckpt'[v] = ckpt[v], out'[v] = out[v], risk'[v] = risk[v],
           status'[v] = status[v] \/ status'[v] \in {"PENDING", "ERROR"},
           (at'[v] = at[v] /\ row'[v] = row[v]) \/ at'[v] \in {"idle", "first"}
    PROVE  WorkflowHolds(v)'
<1> USE DEF RecordRun, Propose, Approve, Execute, RecordOutcome, CompleteRun
<1>0. ckpt[v] \in 0 .. 6
  BY DEF TypeOK
<1>1. AutoApproved(v)' = AutoApproved(v) /\ Step(v)' = Step(v) /\ Proposal(v)' = Proposal(v)
  BY DEF AutoApproved, Step, Proposal
<1>2. CheckpointsHold(v) /\ BodyHolds(v) /\ EffectsHold(v) /\ StatusHolds(v)
  BY DEF WorkflowHolds
<1>3. CheckpointsHold(v)'
  BY <1>1, <1>2 DEF CheckpointsHold, IsRowOf, Keeps
<1>4. BodyHolds(v)'
  BY <1>1, <1>2 DEF BodyHolds, IsRowOf, Keeps
<1>5. \A step, positions : Reached(v, step, positions)' /\ {"idle", "first"} \cap positions = {}
                             => Reached(v, step, positions)
  BY DEF Reached
<1>6. EffectsHold(v)'
  <2>1. Voted(v) => Voted(v)'
    BY <1>1 DEF Voted
  <2>2. ckpt[v] >= Propose =>
           proposals'[Proposal(v)] = proposals[Proposal(v)]
    BY <1>2 DEF CheckpointsHold, IsRowOf, Keeps, Proposal
  <2>3. ckpt[v] >= RecordRun => runs'[out[v][RecordRun]] = runs[out[v][RecordRun]]
    BY <1>2 DEF CheckpointsHold, IsRowOf, Keeps
  <2> QED
    BY <1>0, <1>1, <1>2, <2>1, <2>2, <2>3 DEF EffectsHold, Reached
<1>7. StatusHolds(v)'
  BY <1>2 DEF StatusHolds
<1> QED
  BY <1>3, <1>4, <1>6, <1>7 DEF WorkflowHolds

\* A step of a body: its own workflow and one table apart, nothing changes.
LEMMA BodyTypes ==
    ASSUME TypeOK, NEW w \in Workflows, NEW position \in Positions, NEW r \in Nat,
           Goto(w, position, r), TablesOK', runs' \in Seq(RunRows)
    PROVE  TypeOK'
BY GotoEffect DEF TypeOK

LEMMA BodyLeavesOthers ==
    ASSUME IInv, NEW w \in Workflows, NEW position \in Positions, NEW r \in Nat,
           Goto(w, position, r),
           NEW v \in Workflows \ {w},
           Keeps(runs, runs', v), Keeps(proposals, proposals', v),
           Keeps(actions, actions', v), Keeps(outcomes, outcomes', v),
           \A i \in DOMAIN approvals : i \in DOMAIN approvals' /\ approvals'[i] = approvals[i]
    PROVE  WorkflowHolds(v)'
<1>1. /\ ckpt'[v] = ckpt[v] /\ out'[v] = out[v] /\ risk'[v] = risk[v]
      /\ status'[v] = status[v] /\ at'[v] = at[v] /\ row'[v] = row[v]
  BY GotoEffect DEF IInv
<1> QED
  BY <1>1, OthersHold DEF IInv

\* What is recorded when a body of this step runs.
LEMMA RunningAt ==
    ASSUME TypeOK, NEW w \in Workflows, NEW step \in 1 .. 6, NEW position,
           Running(w, step, position)
    PROVE  /\ status[w] = "PENDING" /\ at[w] = position /\ Step(w) = step
           /\ step # RecordOutcome => ckpt[w] = step - 1
           /\ step = RecordOutcome => ckpt[w] = Execute \/ (ckpt[w] = Approve /\ ~AutoApproved(w))
           /\ step = Execute => AutoApproved(w)
<1>1. ckpt[w] \in 0 .. 6
  BY DEF TypeOK
<1> QED
  BY <1>1 DEF Running, Step, Approve, Execute, RecordOutcome

LEMMA UnchangedKeeps ==
    ASSUME NEW table, NEW v
    PROVE  Keeps(table, table, v)
BY DEF Keeps

-----------------------------------------------------------------------------
(* The bodies of the steps *)

LEMMA RecordWorkflowRunHolds ==
    ASSUME IInv, NEW w \in Workflows, RecordWorkflowRun(w)
    PROVE  IInv'
<1> DEFINE r == [workflow |-> w, status |-> "running"]
<1>1. r \in RunRows /\ r.workflow = w
  BY DEF RunRows
<1>2. PICK i : /\ \/ runs' = Append(runs, r) /\ i = Len(runs) + 1 /\ RowsOf(runs, w) = {}
                  \/ runs' = runs /\ i \in RowsOf(runs, w)
               /\ Goto(w, "return", i)
  BY DEF RecordWorkflowRun, InsertOnce
<1> HIDE DEF r
<1>3. runs' \in Seq(RunRows) /\ Gains(runs, runs', w, i, r)
  BY <1>1, <1>2, OnceGains DEF IInv, TypeOK
<1>4. i \in Nat /\ "return" \in Positions
  BY <1>3 DEF Gains, Positions
<1>5. UNCHANGED tables
  BY DEF RecordWorkflowRun
<1>6. TypeOK'
  BY <1>2, <1>3, <1>4, <1>5, BodyTypes DEF IInv, TypeOK, TablesOK, tables
<1>7. RowsHold'
  <2>1. UNCHANGED <<ckpt, out, risk>>
    BY <1>2 DEF Goto
  <2>2. \A j, k \in DOMAIN runs' : runs'[j].workflow = runs'[k].workflow => j = k
    BY <1>3, GainsKeepsKey DEF IInv, RowsHold, KeysHold
  <2> QED
    BY <1>5, <2>1, <2>2 DEF IInv, RowsHold, KeysHold, ProposalsHold, VotesHold, ActionsHold,
       OutcomesHold, tables, AutoApproved, Proposal
<1>8. ASSUME NEW v \in Workflows \ {w} PROVE WorkflowHolds(v)'
  BY <1>2, <1>3, <1>4, <1>5, <1>8, GainsKeeps, UnchangedKeeps, BodyLeavesOthers DEF tables
<1>9. WorkflowHolds(w)'
  <2>1. ckpt[w] = 0 /\ status[w] = "PENDING"
    BY RunningAt DEF RecordWorkflowRun, RecordRun, RecordOutcome, IInv
  <2>2. /\ ckpt'[w] = 0 /\ status'[w] = "PENDING" /\ at'[w] = "return" /\ row'[w] = i
    BY <1>2, <1>4, <2>1, GotoEffect DEF IInv
  <2>3. IsRowOf(runs', i, w)
    BY <1>3 DEF Gains
  <2> QED
    BY <2>2, <2>3 DEF WorkflowHolds, CheckpointsHold, BodyHolds, EffectsHold, StatusHolds,
       Reached, Step, RecordRun, Propose, Approve, Execute, RecordOutcome, CompleteRun
<1> QED
  BY <1>6, <1>7, <1>8, <1>9 DEF IInv

LEMMA ProposeDecisionHolds ==
    ASSUME IInv, NEW w \in Workflows, ProposeDecision(w)
    PROVE  IInv'
<1> DEFINE r == [risk |-> risk[w], status |-> "pending", workflow |-> w]
<1>1. r \in ProposalRows /\ r.workflow = w /\ r.status = "pending"
  BY DEF ProposalRows, Statuses, IInv, TypeOK
<1>2. PICK i : /\ \/ /\ proposals' = Append(proposals, r) /\ i = Len(proposals) + 1
                     /\ RowsOf(proposals, w) = {}
                  \/ proposals' = proposals /\ i \in RowsOf(proposals, w)
               /\ Goto(w, "return", i)
  BY DEF ProposeDecision, InsertOnce, InsertProposal
<1> HIDE DEF r
<1>3. proposals' \in Seq(ProposalRows) /\ Gains(proposals, proposals', w, i, r)
  BY <1>1, <1>2, OnceGains DEF IInv, TypeOK, TablesOK
<1>4. i \in Nat /\ "return" \in Positions
  BY <1>3 DEF Gains, Positions
<1>5. UNCHANGED <<approvals, actions, outcomes, runs>>
  BY DEF ProposeDecision
<1>6. TypeOK'
  BY <1>2, <1>3, <1>4, <1>5, BodyTypes DEF IInv, TypeOK, TablesOK
<1>0. ckpt[w] = RecordRun /\ status[w] = "PENDING"
  BY RunningAt DEF ProposeDecision, Propose, RecordRun, RecordOutcome, IInv
<1>7. RowsHold'
  <2>1. UNCHANGED <<ckpt, out, risk>>
    BY <1>2 DEF Goto
  <2>2. \A j, k \in DOMAIN proposals' : proposals'[j].workflow = proposals'[k].workflow => j = k
    BY <1>3, GainsKeepsKey DEF IInv, RowsHold, KeysHold
  <2>3. KeysHold'
    BY <1>5, <2>2 DEF IInv, RowsHold, KeysHold
  <2>4. ProposalsHold'
    BY <1>0, <1>1, <1>3, <2>1 DEF Gains, IsRowOf, IInv, RowsHold, ProposalsHold, RecordRun
  <2>5. VotesHold'
    BY <1>3, <1>5, <2>1 DEF Gains, IInv, RowsHold, VotesHold, AutoApproved
  <2> QED
    BY <1>5, <2>1, <2>3, <2>4, <2>5 DEF IInv, RowsHold, ActionsHold, OutcomesHold,
       AutoApproved, Proposal
<1>8. ASSUME NEW v \in Workflows \ {w} PROVE WorkflowHolds(v)'
  BY <1>2, <1>3, <1>4, <1>5, <1>8, GainsKeeps, UnchangedKeeps, BodyLeavesOthers
<1>9. WorkflowHolds(w)'
  <2>2. ckpt'[w] = 1 /\ status'[w] = "PENDING" /\ at'[w] = "return" /\ row'[w] = i
        /\ out'[w] = out[w]
    BY <1>0, <1>2, <1>4, GotoEffect DEF IInv, RecordRun
  <2>3. IsRowOf(proposals', i, w)
    BY <1>3 DEF Gains
  <2>4. IsRowOf(runs', out[w][RecordRun], w)
    BY <1>0, <1>5 DEF IInv, WorkflowHolds, CheckpointsHold, RecordRun, IsRowOf
  <2> QED
    BY <2>2, <2>3, <2>4 DEF WorkflowHolds, CheckpointsHold, BodyHolds, EffectsHold, StatusHolds,
       Reached, Step, RecordRun, Propose, Approve, Execute, RecordOutcome, CompleteRun
<1> QED
  BY <1>6, <1>7, <1>8, <1>9 DEF IInv

LEMMA PositionsAre == {"idle", "first", "second", "return"} \subseteq Positions /\ NoRow \in Nat
BY DEF Positions, NoRow

LEMMA ApproveInsertHolds ==
    ASSUME IInv, NEW w \in Workflows, ApproveInsert(w)
    PROVE  IInv'
<1> DEFINE p == Proposal(w)
           r == [proposal |-> p, by |-> AutoApprover, approved |-> AutoApproved(w)]
<1>0. ckpt[w] = Propose /\ status[w] = "PENDING"
  BY RunningAt DEF ApproveInsert, Propose, Approve, RecordOutcome, IInv
<1>1. IsRowOf(proposals, p, w) /\ p \in Nat
  <2>1. IsRowOf(proposals, p, w)
    BY <1>0 DEF IInv, WorkflowHolds, CheckpointsHold, Proposal, Propose
  <2> QED
    BY <2>1 DEF IsRowOf, IInv, TypeOK, TablesOK
<1>2. r \in ApprovalRows
  BY <1>1, WorkflowAssumptions DEF ApprovalRows, AutoApproved
<1>3. \/ approvals' = approvals /\ HasVoted(p, AutoApprover)
      \/ approvals' = Append(approvals, r) /\ ~HasVoted(p, AutoApprover)
  BY DEF ApproveInsert, InsertApproval
<1>4. Goto(w, "second", NoRow) /\ UNCHANGED <<proposals, actions, outcomes, runs>>
  BY DEF ApproveInsert
<1> HIDE DEF r
<1>5. approvals \in Seq(ApprovalRows)
  BY DEF IInv, TypeOK, TablesOK
<1>6. /\ approvals' \in Seq(ApprovalRows)
      /\ \A i \in DOMAIN approvals : i \in DOMAIN approvals' /\ approvals'[i] = approvals[i]
      /\ \A i \in DOMAIN approvals' : i \in DOMAIN approvals \/ approvals'[i] = r
  BY <1>2, <1>3, <1>5
<1>7. TypeOK'
  BY <1>4, <1>6, PositionsAre, BodyTypes DEF IInv, TypeOK, TablesOK
<1>8. r.proposal = p /\ r.by = AutoApprover /\ r.approved = AutoApproved(w)
  BY DEF r
<1>9. RowsHold'
  <2>1. UNCHANGED <<ckpt, out, risk>>
    BY <1>4 DEF Goto
  <2>2. VotesHold'
    BY <1>1, <1>4, <1>6, <1>8, <2>1 DEF IInv, RowsHold, VotesHold, AutoApproved, IsRowOf
  <2>3. \A i, j \in DOMAIN approvals' : approvals'[i].proposal = approvals'[j].proposal => i = j
    <3>1. CASE approvals' = approvals
      BY <3>1 DEF IInv, RowsHold, KeysHold
    <3>2. CASE approvals' = Append(approvals, r) /\ ~HasVoted(p, AutoApprover)
      <4>1. \A i \in DOMAIN approvals : approvals[i].proposal # p
        BY <3>2 DEF HasVoted, IInv, RowsHold, VotesHold
      <4>2. \A i, j \in DOMAIN approvals : approvals[i].proposal = approvals[j].proposal => i = j
        BY DEF IInv, RowsHold, KeysHold
      <4>3. /\ DOMAIN approvals' = DOMAIN approvals \cup {Len(approvals) + 1}
            /\ approvals'[Len(approvals) + 1] = r
        BY <1>2, <1>5, <3>2
      <4> QED
        BY <1>6, <1>8, <4>1, <4>2, <4>3
    <3> QED
      BY <1>3, <3>1, <3>2
  <2> QED
    BY <1>4, <2>1, <2>2, <2>3 DEF IInv, RowsHold, KeysHold, ProposalsHold, ActionsHold,
       OutcomesHold, AutoApproved, Proposal
<1>10. ASSUME NEW v \in Workflows \ {w} PROVE WorkflowHolds(v)'
  BY <1>4, <1>6, <1>10, PositionsAre, UnchangedKeeps, BodyLeavesOthers
<1>11. WorkflowHolds(w)'
  <2>1. /\ ckpt'[w] = Propose /\ status'[w] = "PENDING" /\ at'[w] = "second"
        /\ out'[w] = out[w] /\ risk'[w] = risk[w]
    BY <1>0, <1>4, PositionsAre, GotoEffect DEF IInv
  <2>2. CheckpointsHold(w)'
    BY <1>4, <2>1 DEF IInv, WorkflowHolds, CheckpointsHold, IsRowOf, AutoApproved, Propose,
       RecordRun, Execute, RecordOutcome, Goto
  <2>3. Voted(w)'
    <3>1. \E i \in DOMAIN approvals' : approvals'[i].proposal = p
      <4>1. CASE approvals' = approvals /\ HasVoted(p, AutoApprover)
        BY <4>1 DEF HasVoted
      <4>2. CASE approvals' = Append(approvals, r)
        <5>1. Len(approvals) + 1 \in DOMAIN approvals' /\ approvals'[Len(approvals) + 1] = r
          BY <1>2, <1>5, <4>2
        <5> QED
          BY <1>8, <5>1
      <4> QED
        BY <1>3, <4>1, <4>2
    <3> QED
      BY <2>1, <3>1 DEF Voted, Proposal
  <2> QED
    BY <2>1, <2>2, <2>3 DEF WorkflowHolds, BodyHolds, EffectsHold, StatusHolds,
       Reached, Step, RecordRun, Propose, Approve, Execute, RecordOutcome, CompleteRun
<1> QED
  BY <1>7, <1>9, <1>10, <1>11 DEF IInv

\* The UPDATE of the status of a proposal of w: the rows of others stay.
LEMMA OwnStatusKeeps ==
    ASSUME IInv, NEW w \in Workflows, IsRowOf(proposals, Proposal(w), w),
           NEW s \in Statuses, SetStatus({Proposal(w)}, s)
    PROVE  /\ \A v \in Workflows \ {w} : Keeps(proposals, proposals', v)
           /\ proposals'[Proposal(w)].status = s
           /\ IsRowOf(proposals', Proposal(w), w)
<1>1. proposals \in Seq(ProposalRows)
  BY DEF IInv, TypeOK, TablesOK
<1> QED
  BY <1>1, SetStatusEffect DEF Keeps, IsRowOf

LEMMA ApproveUpdateHolds ==
    ASSUME IInv, NEW w \in Workflows, ApproveUpdate(w)
    PROVE  IInv'
<1> DEFINE s == IF AutoApproved(w) THEN "approved" ELSE "rejected"
<1>0. ckpt[w] = Propose /\ status[w] = "PENDING" /\ at[w] = "second"
  BY RunningAt DEF ApproveUpdate, Propose, Approve, RecordOutcome, IInv
<1>1. IsRowOf(proposals, Proposal(w), w)
  BY <1>0 DEF IInv, WorkflowHolds, CheckpointsHold, Proposal, Propose
<1>2. s \in Statuses /\ SetStatus({Proposal(w)}, s) /\ s # "executed"
  BY DEF ApproveUpdate, Statuses
<1>3. Goto(w, "return", NoRow) /\ UNCHANGED <<approvals, actions, outcomes, runs>>
  BY DEF ApproveUpdate
<1>4. s = "rejected" \/ AutoApproved(w)
  OBVIOUS
<1> HIDE DEF s
<1>5. /\ proposals' \in Seq(ProposalRows)
      /\ DOMAIN proposals' = DOMAIN proposals
      /\ \A q \in DOMAIN proposals :
            /\ proposals'[q].workflow = proposals[q].workflow
            /\ proposals'[q].status = "executed" => proposals[q].status = "executed"
  BY <1>2, SetStatusEffect DEF IInv, TypeOK, TablesOK
<1>6. TypeOK'
  BY <1>3, <1>5, PositionsAre, BodyTypes DEF IInv, TypeOK, TablesOK
<1>7. RowsHold'
  <2>1. UNCHANGED <<ckpt, out, risk>>
    BY <1>3 DEF Goto
  <2>2. ProposalsHold'
    BY <1>5, <2>1 DEF IInv, RowsHold, ProposalsHold
  <2>3. VotesHold'
    BY <1>3, <1>5, <2>1 DEF IInv, RowsHold, VotesHold, AutoApproved
  <2>4. KeysHold'
    BY <1>3, <1>5 DEF IInv, RowsHold, KeysHold
  <2> QED
    BY <1>3, <2>1, <2>2, <2>3, <2>4 DEF IInv, RowsHold, ActionsHold, OutcomesHold,
       AutoApproved, Proposal
<1>8. ASSUME NEW v \in Workflows \ {w} PROVE WorkflowHolds(v)'
  BY <1>1, <1>2, <1>3, <1>8, PositionsAre, UnchangedKeeps, OwnStatusKeeps, BodyLeavesOthers
<1>9. WorkflowHolds(w)'
  <2>1. /\ ckpt'[w] = Propose /\ status'[w] = "PENDING" /\ at'[w] = "return"
        /\ out'[w] = out[w] /\ risk'[w] = risk[w]
    BY <1>0, <1>3, PositionsAre, GotoEffect DEF IInv
  <2>2. proposals'[Proposal(w)].status = s /\ IsRowOf(proposals', Proposal(w), w)
    BY <1>1, <1>2, OwnStatusKeeps
  <2>3. CheckpointsHold(w)'
    BY <1>3, <2>1, <2>2 DEF IInv, WorkflowHolds, CheckpointsHold, IsRowOf, AutoApproved, Propose,
       RecordRun, Execute, RecordOutcome, Goto, Proposal
  <2>4. Voted(w)'
    BY <1>0, <1>3, <2>1 DEF IInv, WorkflowHolds, EffectsHold, Reached, Propose, Approve, Voted,
       Proposal
  <2>5. Proposal(w)' = Proposal(w) /\ AutoApproved(w)' = AutoApproved(w)
    BY <2>1 DEF Proposal, AutoApproved
  <2> QED
    BY <1>4, <2>1, <2>2, <2>3, <2>4, <2>5 DEF WorkflowHolds, BodyHolds, EffectsHold, StatusHolds,
       Reached, Step, RecordRun, Propose, Approve, Execute, RecordOutcome, CompleteRun
<1> QED
  BY <1>6, <1>7, <1>8, <1>9 DEF IInv

LEMMA ExecuteInsertHolds ==
    ASSUME IInv, NEW w \in Workflows, ExecuteInsert(w)
    PROVE  IInv'
<1> DEFINE r == [proposal |-> Proposal(w), workflow |-> w]
<1>0. ckpt[w] = Approve /\ status[w] = "PENDING" /\ AutoApproved(w)
  BY RunningAt DEF ExecuteInsert, Execute, Approve, RecordOutcome, IInv
<1>1. IsRowOf(proposals, Proposal(w), w) /\ Proposal(w) \in Nat
  <2>1. IsRowOf(proposals, Proposal(w), w)
    BY <1>0 DEF IInv, WorkflowHolds, CheckpointsHold, Proposal, Propose, Approve
  <2> QED
    BY <2>1 DEF IsRowOf, IInv, TypeOK, TablesOK
<1>2. r \in ActionRows /\ r.workflow = w /\ r.proposal = Proposal(w)
  BY <1>1 DEF ActionRows
<1>3. PICK i : /\ \/ actions' = Append(actions, r) /\ i = Len(actions) + 1 /\ RowsOf(actions, w) = {}
                  \/ actions' = actions /\ i \in RowsOf(actions, w)
               /\ Goto(w, "second", i)
  BY DEF ExecuteInsert, InsertOnce, InsertAction
<1> HIDE DEF r
<1>4. actions' \in Seq(ActionRows) /\ Gains(actions, actions', w, i, r)
  BY <1>2, <1>3, OnceGains DEF IInv, TypeOK, TablesOK
<1>5. i \in Nat
  BY <1>4 DEF Gains
<1>6. UNCHANGED <<proposals, approvals, outcomes, runs>>
  BY DEF ExecuteInsert
<1>7. TypeOK'
  BY <1>3, <1>4, <1>5, <1>6, PositionsAre, BodyTypes DEF IInv, TypeOK, TablesOK
<1>8. RowsHold'
  <2>1. UNCHANGED <<ckpt, out, risk>>
    BY <1>3 DEF Goto
  <2>2. \A j, k \in DOMAIN actions' : actions'[j].workflow = actions'[k].workflow => j = k
    BY <1>4, GainsKeepsKey DEF IInv, RowsHold, KeysHold
  <2>3. KeysHold'
    BY <1>6, <2>2 DEF IInv, RowsHold, KeysHold
  <2>4. ActionsHold'
    BY <1>0, <1>2, <1>4, <2>1 DEF Gains, IsRowOf, IInv, RowsHold, ActionsHold, AutoApproved,
       Proposal, Approve
  <2> QED
    BY <1>6, <2>1, <2>3, <2>4 DEF IInv, RowsHold, ProposalsHold, VotesHold, OutcomesHold,
       AutoApproved, Proposal
<1>9. ASSUME NEW v \in Workflows \ {w} PROVE WorkflowHolds(v)'
  BY <1>3, <1>4, <1>5, <1>6, <1>9, PositionsAre, GainsKeeps, UnchangedKeeps, BodyLeavesOthers
<1>10. WorkflowHolds(w)'
  <2>1. /\ ckpt'[w] = Approve /\ status'[w] = "PENDING" /\ at'[w] = "second" /\ row'[w] = i
        /\ out'[w] = out[w] /\ risk'[w] = risk[w]
    BY <1>0, <1>3, <1>5, PositionsAre, GotoEffect DEF IInv
  <2>2. IsRowOf(actions', i, w)
    BY <1>4 DEF Gains
  <2>3. CheckpointsHold(w)'
    BY <1>0, <1>6, <2>1 DEF IInv, WorkflowHolds, CheckpointsHold, IsRowOf, AutoApproved, Propose,
       RecordRun, Execute, RecordOutcome, Approve, Goto
  <2>4. EffectsHold(w)'
    BY <1>0, <1>6, <2>1 DEF IInv, WorkflowHolds, EffectsHold, Reached, Voted, Proposal,
       AutoApproved, Approve, Execute, CompleteRun
  <2> QED
    BY <2>1, <2>2, <2>3, <2>4 DEF WorkflowHolds, BodyHolds, StatusHolds,
       Step, RecordRun, Propose, Approve, Execute, RecordOutcome, CompleteRun
<1> QED
  BY <1>7, <1>8, <1>9, <1>10 DEF IInv

LEMMA ExecuteUpdateHolds ==
    ASSUME IInv, NEW w \in Workflows, ExecuteUpdate(w)
    PROVE  IInv'
<1>0. ckpt[w] = Approve /\ status[w] = "PENDING" /\ at[w] = "second" /\ AutoApproved(w)
      /\ Step(w) = Execute
  BY RunningAt DEF ExecuteUpdate, Execute, Approve, RecordOutcome, IInv
<1>1. IsRowOf(proposals, Proposal(w), w)
  BY <1>0 DEF IInv, WorkflowHolds, CheckpointsHold, Proposal, Propose, Approve
<1>2. SetStatus({Proposal(w)}, "executed") /\ "executed" \in Statuses
  BY DEF ExecuteUpdate, Statuses
<1>3. Goto(w, "return", row[w]) /\ row[w] \in Nat
      /\ UNCHANGED <<approvals, actions, outcomes, runs>>
  BY DEF ExecuteUpdate, IInv, TypeOK
<1>4. /\ proposals' \in Seq(ProposalRows)
      /\ DOMAIN proposals' = DOMAIN proposals
      /\ \A q \in DOMAIN proposals :
            /\ proposals'[q].workflow = proposals[q].workflow
            /\ q # Proposal(w) => proposals'[q] = proposals[q]
  BY <1>2, SetStatusEffect DEF IInv, TypeOK, TablesOK
<1>5. TypeOK'
  BY <1>3, <1>4, PositionsAre, BodyTypes DEF IInv, TypeOK, TablesOK
<1>6. RowsHold'
  <2>1. UNCHANGED <<ckpt, out, risk>>
    BY <1>3 DEF Goto
  <2>2. ProposalsHold'
    BY <1>0, <1>1, <1>4, <2>1 DEF IInv, RowsHold, ProposalsHold, IsRowOf, Approve
  <2>3. VotesHold'
    BY <1>3, <1>4, <2>1 DEF IInv, RowsHold, VotesHold, AutoApproved
  <2>4. KeysHold'
    BY <1>3, <1>4 DEF IInv, RowsHold, KeysHold
  <2> QED
    BY <1>3, <2>1, <2>2, <2>3, <2>4 DEF IInv, RowsHold, ActionsHold, OutcomesHold,
       AutoApproved, Proposal
<1>7. ASSUME NEW v \in Workflows \ {w} PROVE WorkflowHolds(v)'
  BY <1>1, <1>2, <1>3, <1>7, PositionsAre, UnchangedKeeps, OwnStatusKeeps, BodyLeavesOthers
<1>8. WorkflowHolds(w)'
  <2>1. /\ ckpt'[w] = Approve /\ status'[w] = "PENDING" /\ at'[w] = "return" /\ row'[w] = row[w]
        /\ out'[w] = out[w] /\ risk'[w] = risk[w]
    BY <1>0, <1>3, PositionsAre, GotoEffect DEF IInv
  <2>2. proposals'[Proposal(w)].status = "executed" /\ IsRowOf(proposals', Proposal(w), w)
    BY <1>1, <1>2, OwnStatusKeeps
  <2>3. CheckpointsHold(w)'
    BY <1>3, <2>1, <2>2 DEF IInv, WorkflowHolds, CheckpointsHold, IsRowOf, AutoApproved, Propose,
       RecordRun, Execute, RecordOutcome, Approve, Goto, Proposal
  <2>4. Proposal(w)' = Proposal(w) /\ AutoApproved(w)'
    BY <1>0, <2>1 DEF Proposal, AutoApproved
  <2>5. Voted(w)'
    BY <1>0, <1>3, <2>4 DEF IInv, WorkflowHolds, EffectsHold, Reached, Approve, Voted
  <2>6. IsRowOf(actions', row'[w], w)
    BY <1>0, <1>3, <2>1 DEF IInv, WorkflowHolds, BodyHolds, IsRowOf
  <2> QED
    BY <2>1, <2>2, <2>3, <2>4, <2>5, <2>6 DEF WorkflowHolds, BodyHolds, EffectsHold, StatusHolds,
       Reached, Step, RecordRun, Propose, Approve, Execute, RecordOutcome, CompleteRun
<1> QED
  BY <1>5, <1>6, <1>7, <1>8 DEF IInv

LEMMA RecordOutcomeRowHolds ==
    ASSUME IInv, NEW w \in Workflows, RecordOutcomeRow(w)
    PROVE  IInv'
<1> DEFINE r == [key |-> Null, workflow |-> w, cites |-> {Proposal(w)}]
<1>0. /\ status[w] = "PENDING" /\ Step(w) = RecordOutcome
      /\ ckpt[w] = Execute \/ (ckpt[w] = Approve /\ ~AutoApproved(w))
  BY RunningAt DEF RecordOutcomeRow, RecordOutcome, IInv
<1>1. IsRowOf(proposals, Proposal(w), w) /\ Proposal(w) \in Nat
  <2>1. IsRowOf(proposals, Proposal(w), w)
    BY <1>0 DEF IInv, WorkflowHolds, CheckpointsHold, Proposal, Propose, Approve, Execute
  <2> QED
    BY <2>1 DEF IsRowOf, IInv, TypeOK, TablesOK
<1>2. r \in OutcomeRows /\ r.workflow = w /\ r.cites = {Proposal(w)}
  BY <1>1 DEF OutcomeRows
<1>3. PICK i : /\ \/ outcomes' = Append(outcomes, r) /\ i = Len(outcomes) + 1 /\ RowsOf(outcomes, w) = {}
                  \/ outcomes' = outcomes /\ i \in RowsOf(outcomes, w)
               /\ Goto(w, "return", i)
  BY DEF RecordOutcomeRow, InsertOnce, InsertOutcome
<1> HIDE DEF r
<1>4. outcomes' \in Seq(OutcomeRows) /\ Gains(outcomes, outcomes', w, i, r)
  BY <1>2, <1>3, OnceGains DEF IInv, TypeOK, TablesOK
<1>5. i \in Nat
  BY <1>4 DEF Gains
<1>6. UNCHANGED <<proposals, approvals, actions, runs>>
  BY DEF RecordOutcomeRow
<1>7. TypeOK'
  BY <1>3, <1>4, <1>5, <1>6, PositionsAre, BodyTypes DEF IInv, TypeOK, TablesOK
<1>8. RowsHold'
  <2>1. UNCHANGED <<ckpt, out, risk>>
    BY <1>3 DEF Goto
  <2>2. \A j, k \in DOMAIN outcomes' : outcomes'[j].workflow = outcomes'[k].workflow => j = k
    BY <1>4, GainsKeepsKey DEF IInv, RowsHold, KeysHold
  <2>3. KeysHold'
    BY <1>6, <2>2 DEF IInv, RowsHold, KeysHold
  <2>4. OutcomesHold'
    BY <1>0, <1>2, <1>4, <2>1 DEF Gains, IsRowOf, IInv, RowsHold, OutcomesHold,
       Proposal, Approve, Execute
  <2> QED
    BY <1>6, <2>1, <2>3, <2>4 DEF IInv, RowsHold, ProposalsHold, VotesHold, ActionsHold,
       AutoApproved, Proposal
<1>9. ASSUME NEW v \in Workflows \ {w} PROVE WorkflowHolds(v)'
  BY <1>3, <1>4, <1>5, <1>6, <1>9, PositionsAre, GainsKeeps, UnchangedKeeps, BodyLeavesOthers
<1>10. WorkflowHolds(w)'
  <2>1. /\ ckpt'[w] = ckpt[w] /\ status'[w] = "PENDING" /\ at'[w] = "return" /\ row'[w] = i
        /\ out'[w] = out[w] /\ risk'[w] = risk[w]
    BY <1>0, <1>3, <1>5, PositionsAre, GotoEffect DEF IInv
  <2>2. IsRowOf(outcomes', i, w)
    BY <1>4 DEF Gains
  <2>3. CheckpointsHold(w)'
    BY <1>0, <1>6, <2>1 DEF IInv, WorkflowHolds, CheckpointsHold, IsRowOf, AutoApproved, Propose,
       RecordRun, Execute, RecordOutcome, Approve, Goto
  <2>4. EffectsHold(w)'
    BY <1>0, <1>6, <2>1 DEF IInv, WorkflowHolds, EffectsHold, Reached, Voted, Proposal,
       AutoApproved, Approve, Execute, RecordOutcome, CompleteRun
  <2>5. Step(w)' = RecordOutcome
    BY <1>0, <2>1 DEF Step, AutoApproved
  <2> QED
    BY <1>0, <2>1, <2>2, <2>3, <2>4, <2>5 DEF WorkflowHolds, BodyHolds, StatusHolds,
       RecordRun, Propose, Approve, Execute, RecordOutcome, CompleteRun
<1> QED
  BY <1>7, <1>8, <1>9, <1>10 DEF IInv

LEMMA CompleteWorkflowRunHolds ==
    ASSUME IInv, NEW w \in Workflows, CompleteWorkflowRun(w)
    PROVE  IInv'
<1> DEFINE n == out[w][RecordRun]
<1>0. ckpt[w] = RecordOutcome /\ status[w] = "PENDING"
  BY RunningAt DEF CompleteWorkflowRun, CompleteRun, RecordOutcome, IInv
<1>1. IsRowOf(runs, n, w)
  BY <1>0 DEF IInv, WorkflowHolds, CheckpointsHold, RecordRun, RecordOutcome
<1>2. runs' = [runs EXCEPT ![n].status = "completed"]
  BY DEF CompleteWorkflowRun
<1>3. Goto(w, "return", NoRow) /\ UNCHANGED tables
  BY DEF CompleteWorkflowRun
<1>4. /\ runs' \in Seq(RunRows) /\ DOMAIN runs' = DOMAIN runs
      /\ \A i \in DOMAIN runs : runs'[i].workflow = runs[i].workflow
      /\ \A i \in DOMAIN runs \ {n} : runs'[i] = runs[i]
      /\ runs'[n].status = "completed"
  <2>1. runs \in Seq(RunRows) /\ n \in DOMAIN runs
    BY <1>1 DEF IInv, TypeOK, IsRowOf
  <2>2. \A i \in DOMAIN runs : runs[i] \in RunRows
    BY <2>1
  <2>3. [runs[n] EXCEPT !.status = "completed"] \in RunRows
    BY <2>1, <2>2 DEF RunRows
  <2> QED
    BY <1>2, <2>1, <2>2, <2>3 DEF RunRows
<1>5. TypeOK'
  BY <1>3, <1>4, PositionsAre, BodyTypes DEF IInv, TypeOK, TablesOK, tables
<1>6. RowsHold'
  <2>1. UNCHANGED <<ckpt, out, risk>>
    BY <1>3 DEF Goto
  <2>2. KeysHold'
    BY <1>3, <1>4 DEF IInv, RowsHold, KeysHold, tables
  <2> QED
    BY <1>3, <2>1, <2>2 DEF IInv, RowsHold, ProposalsHold, VotesHold, ActionsHold, OutcomesHold,
       tables, AutoApproved, Proposal
<1>7. ASSUME NEW v \in Workflows \ {w} PROVE WorkflowHolds(v)'
  <2>1. Keeps(runs, runs', v)
    BY <1>1, <1>4 DEF Keeps, IsRowOf
  <2> QED
    BY <1>3, <1>7, <2>1, PositionsAre, UnchangedKeeps, BodyLeavesOthers DEF tables
<1>8. WorkflowHolds(w)'
  <2>1. /\ ckpt'[w] = RecordOutcome /\ status'[w] = "PENDING" /\ at'[w] = "return"
        /\ out'[w] = out[w] /\ risk'[w] = risk[w]
    BY <1>0, <1>3, PositionsAre, GotoEffect DEF IInv
  <2>2. IsRowOf(runs', n, w)
    BY <1>1, <1>4 DEF IsRowOf
  <2>3. CheckpointsHold(w)'
    BY <1>0, <1>3, <2>1, <2>2 DEF IInv, WorkflowHolds, CheckpointsHold, IsRowOf, AutoApproved,
       Propose, RecordRun, Execute, RecordOutcome, tables
  <2>4. EffectsHold(w)'
    BY <1>0, <1>3, <1>4, <2>1 DEF IInv, WorkflowHolds, EffectsHold, Reached, Voted, Proposal,
       AutoApproved, Approve, Execute, RecordOutcome, CompleteRun, tables
  <2> QED
    BY <2>1, <2>2, <2>3, <2>4 DEF WorkflowHolds, BodyHolds, StatusHolds,
       Step, RecordRun, Propose, Approve, Execute, RecordOutcome, CompleteRun
<1> QED
  BY <1>5, <1>6, <1>7, <1>8 DEF IInv

-----------------------------------------------------------------------------
(* DBOS and the process *)

LEMMA CheckpointHolds ==
    ASSUME IInv, NEW w \in Workflows, Checkpoint(w)
    PROVE  IInv'
<1> DEFINE s == Step(w)
<1> USE DEF RecordRun, Propose, Approve, Execute, RecordOutcome, CompleteRun
<1>1. ckpt[w] \in 0 .. 5 /\ row[w] \in Nat /\ at[w] = "return" /\ status[w] = "PENDING"
  BY DEF IInv, TypeOK, WorkflowHolds, BodyHolds, Checkpoint
<1>2. /\ s \in 1 .. 6 /\ s > ckpt[w]
      /\ \/ s = ckpt[w] + 1
         \/ ckpt[w] = Approve /\ s = RecordOutcome /\ ~AutoApproved(w)
      /\ s = Execute => AutoApproved(w)
  BY <1>1 DEF Step
<1>3. /\ ckpt' = [ckpt EXCEPT ![w] = s]
      /\ out' = [out EXCEPT ![w] = [out[w] EXCEPT ![s] = row[w]]]
      /\ at' = [at EXCEPT ![w] = "first"]
      /\ row' = [row EXCEPT ![w] = NoRow]
      /\ UNCHANGED <<tables, runs, status, risk, up, crashes, errors>>
  BY DEF Checkpoint
<1> HIDE DEF s
<1>4. TypeOK'
  <2>1. [out[w] EXCEPT ![s] = row[w]] \in [RecordRun .. CompleteRun -> Nat]
    BY <1>1 DEF IInv, TypeOK
  <2>2. out' \in [Workflows -> [RecordRun .. CompleteRun -> Nat]]
    BY <1>3, <2>1 DEF IInv, TypeOK
  <2>3. /\ ckpt' \in [Workflows -> 0 .. 6] /\ at' \in [Workflows -> Positions]
        /\ row' \in [Workflows -> Nat]
    BY <1>2, <1>3, PositionsAre DEF IInv, TypeOK
  <2> QED
    BY <1>3, <2>2, <2>3 DEF IInv, TypeOK, TablesOK, tables
<1>5. /\ ckpt'[w] = s /\ out'[w][s] = row[w] /\ at'[w] = "first"
      /\ \A k \in 1 .. 6 : k # s => out'[w][k] = out[w][k]
      /\ \A v \in Workflows \ {w} : /\ ckpt'[v] = ckpt[v] /\ out'[v] = out[v]
                                    /\ at'[v] = at[v] /\ row'[v] = row[v]
  BY <1>2, <1>3 DEF IInv, TypeOK
<1>6. \A v \in Workflows : /\ ckpt[v] \in Nat /\ ckpt'[v] \in Nat /\ ckpt'[v] >= ckpt[v]
                           /\ ckpt[v] >= Propose => Proposal(v)' = Proposal(v)
  <2>1. \A v \in Workflows : ckpt[v] \in Nat
    <3>1. ckpt \in [Workflows -> 0 .. 6]
      BY DEF IInv, TypeOK
    <3> QED
      BY <3>1
  <2> QED
    BY <1>2, <1>5, <2>1 DEF Proposal
<1>7. \A v \in Workflows : AutoApproved(v)' = AutoApproved(v)
  BY <1>3 DEF AutoApproved
<1>8. RowsHold'
  <2>1. KeysHold'
    BY <1>3 DEF IInv, RowsHold, KeysHold, tables
  <2>2. ProposalsHold'
    BY <1>3, <1>6 DEF IInv, RowsHold, ProposalsHold, tables
  <2>3. VotesHold'
    BY <1>3 DEF IInv, RowsHold, VotesHold, tables, AutoApproved
  <2>4. ActionsHold'
    BY <1>3, <1>6, <1>7 DEF IInv, RowsHold, ActionsHold, tables
  <2>5. OutcomesHold'
    BY <1>3, <1>6 DEF IInv, RowsHold, OutcomesHold, tables
  <2> QED
    BY <2>1, <2>2, <2>3, <2>4, <2>5 DEF RowsHold
<1>9. ASSUME NEW v \in Workflows \ {w} PROVE WorkflowHolds(v)'
  BY <1>3, <1>5, <1>9, UnchangedKeeps, OthersHold DEF IInv, tables
<1>10. WorkflowHolds(w)'
  <2>1. CheckpointsHold(w) /\ BodyHolds(w) /\ EffectsHold(w)
    BY DEF IInv, WorkflowHolds
  <2>2. CheckpointsHold(w)'
    <3>1. \A table, k : (k = s /\ IsRowOf(table, row[w], w)) => IsRowOf(table, out'[w][k], w)
      BY <1>5
    <3>2. ckpt'[w] >= RecordRun => IsRowOf(runs, out'[w][RecordRun], w)
      BY <1>1, <1>2, <1>5, <2>1 DEF CheckpointsHold, BodyHolds, s
    <3>3. ckpt'[w] >= Propose => IsRowOf(proposals, out'[w][Propose], w)
      BY <1>1, <1>2, <1>5, <2>1 DEF CheckpointsHold, BodyHolds, s
    <3>4. ckpt'[w] >= Execute /\ AutoApproved(w) => IsRowOf(actions, out'[w][Execute], w)
      BY <1>1, <1>2, <1>5, <2>1 DEF CheckpointsHold, BodyHolds, s
    <3>5. ckpt'[w] >= RecordOutcome => IsRowOf(outcomes, out'[w][RecordOutcome], w)
      BY <1>1, <1>2, <1>5, <2>1 DEF CheckpointsHold, BodyHolds, s
    <3> QED
      BY <1>3, <1>7, <3>2, <3>3, <3>4, <3>5 DEF CheckpointsHold, IsRowOf, tables
  <2>3. \A step, positions : step \in {Approve, Execute, CompleteRun} /\ "return" \in positions /\ "first" \notin positions =>
           (Reached(w, step, positions)' /\ (step # Execute \/ AutoApproved(w))
              => Reached(w, step, positions))
    <3>1. SUFFICES ASSUME NEW step \in {Approve, Execute, CompleteRun}, NEW positions,
                          "return" \in positions, "first" \notin positions,
                          Reached(w, step, positions)', step # Execute \/ AutoApproved(w)
                   PROVE  Reached(w, step, positions)
      OBVIOUS
    <3>2. s >= step
      BY <1>5, <3>1 DEF Reached
    <3> QED
      BY <1>1, <1>2, <3>1, <3>2 DEF Reached
  <2>4. EffectsHold(w)'
    <3>1. Reached(w, Approve, {"second", "return"})' => Voted(w)'
      <4>1. SUFFICES ASSUME Reached(w, Approve, {"second", "return"})' PROVE Voted(w)'
        OBVIOUS
      <4>2. Reached(w, Approve, {"second", "return"})
        BY <2>3, <4>1
      <4>3. Voted(w) /\ ckpt[w] >= Propose
        BY <1>1, <2>1, <4>2 DEF EffectsHold, Reached
      <4> QED
        BY <1>3, <1>6, <4>3 DEF Voted, tables
    <3>2. ~AutoApproved(w) /\ Reached(w, Approve, {"return"})' =>
             proposals[Proposal(w)'].status = "rejected"
      <4>1. Reached(w, Approve, {"return"})' => Reached(w, Approve, {"return"})
        BY <2>3
      <4> QED
        BY <1>1, <1>6, <2>1, <4>1 DEF EffectsHold, Reached
    <3>3. AutoApproved(w) /\ Reached(w, Execute, {"return"})' =>
             proposals[Proposal(w)'].status = "executed"
      <4>1. AutoApproved(w) /\ Reached(w, Execute, {"return"})' => Reached(w, Execute, {"return"})
        BY <2>3
      <4> QED
        BY <1>1, <1>6, <2>1, <4>1 DEF EffectsHold, Reached
    <3>4. Reached(w, CompleteRun, {"return"})' => runs[out'[w][RecordRun]].status = "completed"
      BY <1>1, <1>2, <1>5, <2>1, <2>3 DEF EffectsHold, Reached
    <3> QED
      BY <1>3, <1>7, <3>1, <3>2, <3>3, <3>4 DEF EffectsHold, tables
  <2> QED
    BY <1>1, <1>3, <1>5, <2>2, <2>4 DEF WorkflowHolds, BodyHolds, StatusHolds
<1> QED
  BY <1>4, <1>8, <1>9, <1>10 DEF IInv

\* The rows say the same of a workflow whose checkpoints and input are the same.
LEMMA RowsStay ==
    ASSUME RowsHold, UNCHANGED <<tables, runs, ckpt, out, risk>>
    PROVE  RowsHold'
BY DEF RowsHold, KeysHold, ProposalsHold, VotesHold, ActionsHold, OutcomesHold, tables,
   AutoApproved, Proposal

LEMMA SucceedHolds ==
    ASSUME IInv, NEW w \in Workflows, Succeed(w)
    PROVE  IInv'
<1>1. TypeOK'
  BY PositionsAre DEF IInv, TypeOK, TablesOK, tables, Succeed, WorkflowStatuses
<1>2. RowsHold'
  BY RowsStay DEF IInv, Succeed
<1>3. ASSUME NEW v \in Workflows \ {w} PROVE WorkflowHolds(v)'
  BY <1>3, UnchangedKeeps, OthersHold DEF IInv, TypeOK, tables, Succeed
<1>4. WorkflowHolds(w)'
  <2>1. /\ ckpt'[w] = CompleteRun /\ status'[w] = "SUCCESS" /\ at'[w] = "idle"
        /\ UNCHANGED <<ckpt, out, risk, tables, runs>>
    BY DEF Succeed, IInv, TypeOK
  <2>2. CheckpointsHold(w)'
    BY <2>1 DEF IInv, WorkflowHolds, CheckpointsHold, IsRowOf, AutoApproved, tables
  <2>3. EffectsHold(w)'
    BY <2>1 DEF IInv, WorkflowHolds, EffectsHold, Reached, Voted, Proposal, AutoApproved, tables
  <2> QED
    BY <2>1, <2>2, <2>3 DEF WorkflowHolds, BodyHolds, StatusHolds
<1> QED
  BY <1>1, <1>2, <1>3, <1>4 DEF IInv

LEMMA StepThrowsHolds ==
    ASSUME IInv, NEW w \in Workflows, StepThrows(w)
    PROVE  IInv'
<1>1. TypeOK'
  BY PositionsAre, WorkflowAssumptions
     DEF IInv, TypeOK, TablesOK, tables, StepThrows, WorkflowStatuses
<1>2. RowsHold'
  BY RowsStay DEF IInv, StepThrows
<1>3. ASSUME NEW v \in Workflows PROVE WorkflowHolds(v)'
  <2>1. /\ ckpt'[v] = ckpt[v] /\ out'[v] = out[v] /\ risk'[v] = risk[v]
        /\ status'[v] = status[v] \/ status'[v] = "ERROR"
        /\ (at'[v] = at[v] /\ row'[v] = row[v]) \/ at'[v] = "idle"
    BY DEF StepThrows, IInv, TypeOK
  <2> QED
    BY <1>3, <2>1, UnchangedKeeps, OthersHold DEF IInv, tables, StepThrows
<1> QED
  BY <1>1, <1>2, <1>3 DEF IInv

LEMMA CrashHolds ==
    ASSUME IInv, Crash
    PROVE  IInv'
<1>1. TypeOK'
  <2>1. at' \in [Workflows -> Positions] /\ row' \in [Workflows -> Nat] /\ up' \in BOOLEAN
    BY PositionsAre DEF Crash
  <2>2. crashes' \in 0 .. MaxCrashes
    BY WorkflowAssumptions DEF IInv, TypeOK, Crash
  <2> QED
    BY <2>1, <2>2 DEF IInv, TypeOK, TablesOK, tables, durable, Crash
<1>2. RowsHold'
  BY RowsStay DEF IInv, Crash, durable
<1>3. ASSUME NEW v \in Workflows PROVE WorkflowHolds(v)'
  BY <1>3, UnchangedKeeps, OthersHold DEF IInv, tables, durable, Crash
<1> QED
  BY <1>1, <1>2, <1>3 DEF IInv

LEMMA LaunchHolds ==
    ASSUME IInv, Launch
    PROVE  IInv'
<1>1. \A w \in Workflows : Resumed(w) \in {"idle", "first"}
  BY DEF Resumed
<1>2. at' = [w \in Workflows |-> Resumed(w)] /\ up' = TRUE
      /\ UNCHANGED <<tables, durable, row, crashes, errors>>
  BY DEF Launch
<1>3. TypeOK'
  BY <1>1, <1>2, PositionsAre DEF IInv, TypeOK, TablesOK, tables, durable
<1>4. RowsHold'
  BY <1>2, RowsStay DEF IInv, durable
<1>5. ASSUME NEW v \in Workflows PROVE WorkflowHolds(v)'
  BY <1>1, <1>2, <1>5, UnchangedKeeps, OthersHold DEF IInv, tables, durable
<1> QED
  BY <1>3, <1>4, <1>5 DEF IInv

\* The input is recorded before any row of the workflow is written.
LEMMA StartHolds ==
    ASSUME IInv, NEW w \in Workflows, NEW r \in Risks, Start(w, r)
    PROVE  IInv'
<1>1. ckpt[w] = 0
  BY DEF Start, IInv, WorkflowHolds, StatusHolds
<1>2. /\ UNCHANGED <<tables, runs, ckpt, out, row, up, crashes, errors>>
      /\ status' = [status EXCEPT ![w] = "PENDING"]
      /\ risk' = [risk EXCEPT ![w] = r]
      /\ at' = [at EXCEPT ![w] = "first"]
  BY DEF Start
<1>3. TypeOK'
  BY <1>2, PositionsAre, WorkflowAssumptions
     DEF IInv, TypeOK, TablesOK, tables, WorkflowStatuses
<1>4. /\ \A v \in Workflows \ {w} : AutoApproved(v)' = AutoApproved(v)
      /\ \A v \in Workflows : Proposal(v)' = Proposal(v)
  BY <1>2 DEF IInv, TypeOK, AutoApproved, Proposal
<1>5. RowsHold'
  <2>1. KeysHold' /\ ProposalsHold' /\ OutcomesHold'
    BY <1>2, <1>4 DEF IInv, RowsHold, KeysHold, ProposalsHold, OutcomesHold, tables
  <2>2. ActionsHold'
    BY <1>1, <1>2, <1>4 DEF IInv, RowsHold, ActionsHold, tables, Approve
  <2>3. VotesHold'
    <3>1. \A p \in DOMAIN proposals : proposals[p].workflow \in Workflows \ {w}
      BY <1>1 DEF IInv, RowsHold, ProposalsHold, RecordRun
    <3> QED
      BY <1>2, <1>4, <3>1 DEF IInv, RowsHold, VotesHold, tables
  <2> QED
    BY <2>1, <2>2, <2>3 DEF RowsHold
<1>6. ASSUME NEW v \in Workflows \ {w} PROVE WorkflowHolds(v)'
  <2>1. risk'[v] = risk[v] /\ status'[v] = status[v] /\ at'[v] = at[v]
    BY <1>2 DEF IInv, TypeOK
  <2> QED
    BY <1>2, <1>6, <2>1, UnchangedKeeps, OthersHold DEF IInv, tables
<1>7. WorkflowHolds(w)'
  <2>1. ckpt'[w] = 0 /\ at'[w] = "first" /\ status'[w] = "PENDING"
    BY <1>1, <1>2 DEF IInv, TypeOK
  <2> QED
    BY <2>1 DEF WorkflowHolds, CheckpointsHold, BodyHolds, EffectsHold, StatusHolds, Reached,
       RecordRun, Propose, Approve, Execute, RecordOutcome, CompleteRun
<1> QED
  BY <1>3, <1>5, <1>6, <1>7 DEF IInv

-----------------------------------------------------------------------------
(* The invariant of the specification *)

LEMMA InitHolds == Init => IInv
<1> SUFFICES ASSUME Init PROVE IInv
  OBVIOUS
<1>1. TypeOK
  BY PositionsAre, WorkflowAssumptions DEF Init, EmptyTables, TypeOK, TablesOK, WorkflowStatuses,
     RiskClasses, RecordRun, CompleteRun
<1>2. RowsHold
  BY DEF Init, EmptyTables, RowsHold, KeysHold, ProposalsHold, VotesHold, ActionsHold, OutcomesHold
<1>3. ASSUME NEW w \in Workflows PROVE WorkflowHolds(w)
  <2>1. ckpt[w] = 0 /\ at[w] = "idle" /\ status[w] = "absent"
    BY DEF Init
  <2> QED
    BY <2>1 DEF WorkflowHolds, CheckpointsHold, BodyHolds, EffectsHold, StatusHolds, Reached,
       RecordRun, Propose, Approve, Execute, RecordOutcome, CompleteRun
<1> QED
  BY <1>1, <1>2, <1>3 DEF IInv

LEMMA ProgressHolds ==
    ASSUME IInv, NEW w \in Workflows, Progress(w)
    PROVE  IInv'
BY RecordWorkflowRunHolds, ProposeDecisionHolds, ApproveInsertHolds, ApproveUpdateHolds,
   ExecuteInsertHolds, ExecuteUpdateHolds, RecordOutcomeRowHolds, CompleteWorkflowRunHolds,
   CheckpointHolds, SucceedHolds DEF Progress

LEMMA StutterHolds ==
    ASSUME IInv, UNCHANGED vars
    PROVE  IInv'
<1>1. TypeOK'
  BY DEF IInv, TypeOK, TablesOK, vars, wfVars, durable, volatile, tables
<1>2. RowsHold'
  BY RowsStay DEF IInv, vars, wfVars, durable
<1>3. ASSUME NEW v \in Workflows PROVE WorkflowHolds(v)'
  BY <1>3, UnchangedKeeps, OthersHold DEF IInv, vars, wfVars, durable, volatile, tables
<1> QED
  BY <1>1, <1>2, <1>3 DEF IInv

\* The tables, the checkpoints and the positions of the executions agree, after
\* any interleaving of statements, checkpoints, failing steps and crashes.
THEOREM WorkflowInvariant == Spec => []IInv
<1>1. ASSUME IInv, [Next]_vars PROVE IInv'
  BY <1>1, ProgressHolds, StepThrowsHolds, StartHolds, CrashHolds, LaunchHolds, StutterHolds
     DEF Next
<1> QED
  BY <1>1, InitHolds, PTL DEF Spec

-----------------------------------------------------------------------------
(* The properties *)

\* The state has the shape TypeOK gives it: ids are ids, checkpoints are steps,
\* and the counters of crashes and errors stay within their bounds.
THEOREM WorkflowTypes == Spec => []TypeOK
BY WorkflowInvariant, PTL DEF IInv

LEMMA RowsAreUnique ==
    ASSUME IInv, NEW w \in Workflows
    PROVE  /\ AtMostOne(RowsOf(runs, w)) /\ AtMostOne(RowsOf(proposals, w))
           /\ AtMostOne(VotesOn(w)) /\ AtMostOne(RowsOf(actions, w))
           /\ AtMostOne(RowsOf(outcomes, w))
BY DEF IInv, RowsHold, KeysHold, AtMostOne, RowsOf, VotesOn

\* Wherever the crashes fall, and however often a body runs again, a workflow
\* has at most one row in each table (init.sql's promise about the ON CONFLICT
\* clauses of decision.ts).
THEOREM WorkflowRowsAreUnique == Spec => []OneRowPerTable
<1>1. IInv => OneRowPerTable
  BY RowsAreUnique DEF OneRowPerTable, AtMostOne
<1> QED
  BY <1>1, WorkflowInvariant, PTL

\* The row ids that DBOS recorded for a workflow are ids of its own rows, those
\* of a body that found its row already there included.
THEOREM CheckpointsAreOwnRows == Spec => []CheckpointsNameOwnRows
<1>1. IInv => CheckpointsNameOwnRows
  BY DEF IInv, WorkflowHolds, CheckpointsHold, CheckpointsNameOwnRows, IsRowOf, RowsOf
<1> QED
  BY <1>1, WorkflowInvariant, PTL

\* A workflow that returned its result has left the tables of a finished
\* decision behind: a completed run, an outcome that cites the proposal, and
\* an execution with its action exactly when the approver approved.
THEOREM SuccessIsDone == Spec => []SuccessMeansDone
<1>1. ASSUME IInv, NEW w \in Workflows, status[w] = "SUCCESS"
      PROVE  /\ runs[out[w][RecordRun]].status = "completed"
             /\ outcomes[out[w][RecordOutcome]].cites = {Proposal(w)}
             /\ IF AutoApproved(w)
                THEN proposals[Proposal(w)].status = "executed" /\ Acted(Proposal(w))
                ELSE proposals[Proposal(w)].status = "rejected" /\ ~Acted(Proposal(w))
  <2> USE DEF RecordRun, Propose, Approve, Execute, RecordOutcome, CompleteRun
  <2>1. /\ ckpt[w] = CompleteRun /\ WorkflowHolds(w)
    BY <1>1 DEF IInv, WorkflowHolds, StatusHolds
  <2>2. /\ IsRowOf(proposals, Proposal(w), w)
        /\ IsRowOf(outcomes, out[w][RecordOutcome], w)
        /\ AutoApproved(w) => IsRowOf(actions, out[w][Execute], w)
    BY <2>1 DEF WorkflowHolds, CheckpointsHold, Proposal
  <2>3. /\ runs[out[w][RecordRun]].status = "completed"
        /\ AutoApproved(w) => proposals[Proposal(w)].status = "executed"
        /\ ~AutoApproved(w) => proposals[Proposal(w)].status = "rejected"
    BY <2>1 DEF WorkflowHolds, EffectsHold, Reached
  <2>4. outcomes[out[w][RecordOutcome]].cites = {Proposal(w)}
    BY <1>1, <2>2 DEF IInv, RowsHold, OutcomesHold, IsRowOf
  <2>5. AutoApproved(w) => Acted(Proposal(w))
    BY <1>1, <2>2 DEF IInv, RowsHold, ActionsHold, IsRowOf, Acted
  <2>6. ASSUME NEW i \in DOMAIN actions, actions[i].proposal = Proposal(w)
        PROVE  AutoApproved(w)
    <3> DEFINE v == actions[i].workflow
    <3>1. v \in Workflows /\ AutoApproved(v) /\ ckpt[v] >= Approve /\ Proposal(v) = Proposal(w)
      BY <1>1, <2>6 DEF IInv, RowsHold, ActionsHold
    <3> HIDE DEF v
    <3>2. ckpt[v] >= Propose
      <4>1. ckpt \in [Workflows -> 0 .. 6]
        BY <1>1 DEF IInv, TypeOK
      <4> QED
        BY <3>1, <4>1
    <3>3. IsRowOf(proposals, Proposal(v), v)
      BY <1>1, <3>1, <3>2 DEF IInv, WorkflowHolds, CheckpointsHold, Proposal
    <3> QED
      BY <2>2, <3>1, <3>3 DEF IsRowOf
  <2> QED
    BY <2>3, <2>4, <2>5, <2>6 DEF Acted
<1>2. IInv => SuccessMeansDone
  BY <1>1 DEF SuccessMeansDone
<1> QED
  BY <1>2, WorkflowInvariant, PTL

\* Running the body of an earlier step again after a crash does not take back
\* the status "executed": the approving UPDATE, which never looks at the status
\* it overwrites, does not run any more once the approval is recorded.
THEOREM ExecutionStays == Spec => ExecutionIsFinal
<1> DEFINE Stays == \A p \in DOMAIN proposals :
                      proposals[p].status = "executed" => proposals'[p].status = "executed"
<1>1. ASSUME IInv, [Next]_vars PROVE Stays
  <2>1. CASE UNCHANGED proposals
    BY <2>1
  <2>2. ASSUME NEW w \in Workflows, ProposeDecision(w) PROVE Stays
    <3>1. proposals' = proposals \/ \E r : proposals' = Append(proposals, r)
      BY <2>2 DEF ProposeDecision, InsertOnce, InsertProposal
    <3>2. proposals \in Seq(ProposalRows)
      BY <1>1 DEF IInv, TypeOK, TablesOK
    <3> QED
      BY <3>1, <3>2
  <2>3. ASSUME NEW w \in Workflows, ApproveUpdate(w) PROVE Stays
    <3>1. ckpt[w] = Propose
      BY <1>1, <2>3, RunningAt DEF ApproveUpdate, Propose, Approve, RecordOutcome, IInv
    <3>2. IsRowOf(proposals, Proposal(w), w)
      BY <1>1, <3>1 DEF IInv, WorkflowHolds, CheckpointsHold, Proposal, Propose
    <3>3. proposals[Proposal(w)].status # "executed"
      BY <1>1, <3>1, <3>2 DEF IInv, RowsHold, ProposalsHold, IsRowOf, Propose, Approve
    <3>4. PICK s \in Statuses : SetStatus({Proposal(w)}, s)
      BY <2>3 DEF ApproveUpdate, Statuses
    <3>5. proposals \in Seq(ProposalRows)
      BY <1>1 DEF IInv, TypeOK, TablesOK
    <3> QED
      BY <3>3, <3>4, <3>5, SetStatusEffect
  <2>4. ASSUME NEW w \in Workflows, ExecuteUpdate(w) PROVE Stays
    <3>1. SetStatus({Proposal(w)}, "executed") /\ "executed" \in Statuses
      BY <2>4 DEF ExecuteUpdate, Statuses
    <3>2. proposals \in Seq(ProposalRows)
      BY <1>1 DEF IInv, TypeOK, TablesOK
    <3> QED
      BY <3>1, <3>2, SetStatusEffect
  <2>5. \/ UNCHANGED proposals
        \/ \E w \in Workflows : ProposeDecision(w) \/ ApproveUpdate(w) \/ ExecuteUpdate(w)
    BY <1>1 DEF Next, Progress, RecordWorkflowRun, ApproveInsert, ExecuteInsert, RecordOutcomeRow,
       CompleteWorkflowRun, Checkpoint, Succeed, StepThrows, Start, Crash, Launch, vars, tables
  <2> QED
    BY <2>1, <2>2, <2>3, <2>4, <2>5
<1> HIDE DEF Stays
<1>2. IInv /\ [Next]_vars => [Stays]_vars
  BY <1>1
<1>3. Spec => [][Stays]_vars
  BY <1>2, WorkflowInvariant, PTL DEF Spec
<1> QED
  BY <1>3 DEF ExecutionIsFinal, Stays

-----------------------------------------------------------------------------
(* The workflow implements the ledger *)

\* Workflow w has a row of this kind; its run is completed.
Has(kind, w) == RowsOfKind(kind, w) # {}
Done(w) == \E i \in RowsOf(runs, w) : runs[i].status = "completed"

LEMMA CountOfOne ==
    ASSUME NEW S, AtMostOne(S)
    PROVE  Cardinality(S) = IF S # {} THEN 1 ELSE 0
<1>1. CASE S = {}
  BY <1>1, FS_EmptySet
<1>2. CASE S # {}
  <2>1. PICK x \in S : TRUE
    BY <1>2
  <2>2. S = {x}
    BY <2>1 DEF AtMostOne
  <2> QED
    BY <1>2, <2>2, FS_Singleton
<1> QED
  BY <1>1, <1>2

\* What the reader of the tables sees, under the invariant.
LEMMA LedgerIs == IInv =>
    /\ LedgerEntries = [w \in Workflows |-> [k \in EntryKinds |-> IF Has(k, w) THEN 1 ELSE 0]]
    /\ LedgerVerdicts = [w \in Workflows |-> IF ~Has("vote", w) THEN "none"
                                             ELSE IF AutoApproved(w) THEN "approved"
                                             ELSE "rejected"]
    /\ LedgerClosed = {w \in Workflows : Done(w)}
<1> SUFFICES ASSUME IInv
             PROVE  /\ LedgerEntries = [w \in Workflows |-> [k \in EntryKinds |->
                                                               IF Has(k, w) THEN 1 ELSE 0]]
                    /\ LedgerVerdicts = [w \in Workflows |-> IF ~Has("vote", w) THEN "none"
                                             ELSE IF AutoApproved(w) THEN "approved"
                                             ELSE "rejected"]
                    /\ LedgerClosed = {w \in Workflows : Done(w)}
  OBVIOUS
<1>1. ASSUME NEW w \in Workflows, NEW k \in EntryKinds
      PROVE  Cardinality(RowsOfKind(k, w)) = IF Has(k, w) THEN 1 ELSE 0
  <2>1. AtMostOne(RowsOfKind(k, w))
    BY <1>1, RowsAreUnique DEF RowsOfKind, EntryKinds
  <2> QED
    BY <2>1, CountOfOne DEF Has
<1>2. ASSUME NEW w \in Workflows
      PROVE  VerdictOn(w) = IF ~Has("vote", w) THEN "none"
                            ELSE IF AutoApproved(w) THEN "approved" ELSE "rejected"
  <2>1. Has("vote", w) <=> VotesOn(w) # {}
    BY DEF Has, RowsOfKind
  <2>2. \A i \in VotesOn(w) : approvals[i].approved = AutoApproved(w)
    BY DEF VotesOn, RowsOf, IInv, RowsHold, VotesHold
  <2> QED
    BY <2>1, <2>2 DEF VerdictOn
<1> QED
  BY <1>1, <1>2 DEF LedgerEntries, LedgerVerdicts, LedgerClosed, Done

\* The same of the state after a step.
LEMMA LedgerIsNext == (IInv =>
    /\ LedgerEntries = [w \in Workflows |-> [k \in EntryKinds |-> IF Has(k, w) THEN 1 ELSE 0]]
    /\ LedgerVerdicts = [w \in Workflows |-> IF ~Has("vote", w) THEN "none"
                                             ELSE IF AutoApproved(w) THEN "approved"
                                             ELSE "rejected"]
    /\ LedgerClosed = {w \in Workflows : Done(w)})'
BY LedgerIs, PTL

\* A step that enters one row.
LEMMA EnterStep ==
    ASSUME IInv, IInv', NEW w \in Workflows, NEW kind \in EntryKinds,
           ~Has(kind, w), Has(kind, w)',
           \A v \in Workflows, k \in EntryKinds :
               v # w \/ k # kind => (Has(k, v)' <=> Has(k, v)),
           \A v \in Workflows : Done(v)' <=> Done(v),
           \A v \in Workflows : AutoApproved(v)' <=> AutoApproved(v),
           \A k \in Ledger!Basis(kind, LedgerVerdicts[w]) : k \in EntryKinds /\ Has(k, w),
           kind = "action" => AutoApproved(w) /\ Has("vote", w)
    PROVE  Ledger!Enter(w, kind)
<1> USE LedgerIs, LedgerIsNext
<1>1. LedgerEntries[w][kind] = 0
  OBVIOUS
<1>2. \A k \in Ledger!Basis(kind, LedgerVerdicts[w]) : LedgerEntries[w][k] = 1
  OBVIOUS
<1>3. kind = "action" => LedgerVerdicts[w] = "approved"
  OBVIOUS
<1>4. LedgerEntries' = [LedgerEntries EXCEPT ![w][kind] = 1]
  <2>1. ASSUME NEW v \in Workflows, NEW k \in EntryKinds
        PROVE  LedgerEntries'[v][k] = IF v = w /\ k = kind THEN 1 ELSE LedgerEntries[v][k]
    BY <2>1
  <2>2. LedgerEntries \in [Workflows -> [EntryKinds -> {0, 1}]]
    OBVIOUS
  <2>3. LedgerEntries' \in [Workflows -> [EntryKinds -> {0, 1}]]
    OBVIOUS
  <2> QED
    BY ONLY <2>1, <2>2, <2>3
<1>5. IF kind = "vote"
      THEN \E v \in {"approved", "rejected"} : LedgerVerdicts' = [LedgerVerdicts EXCEPT ![w] = v]
      ELSE LedgerVerdicts' = LedgerVerdicts
  <2>0. "vote" \in EntryKinds
    BY DEF EntryKinds
  <2>1. CASE kind = "vote"
    <3> DEFINE v == IF AutoApproved(w) THEN "approved" ELSE "rejected"
    <3>1. LedgerVerdicts' = [LedgerVerdicts EXCEPT ![w] = v]
      BY <2>0, <2>1
    <3>2. v \in {"approved", "rejected"}
      OBVIOUS
    <3> QED
      BY <2>1, <3>1, <3>2
  <2>2. CASE kind # "vote"
    BY <2>0, <2>2
  <2> QED
    BY <2>1, <2>2
<1>6. LedgerClosed' = LedgerClosed
  OBVIOUS
<1> QED
  BY <1>1, <1>2, <1>3, <1>4, <1>5, <1>6 DEF Ledger!Enter

\* A step after which the reader sees what it saw before.
LEMMA SameLedger ==
    ASSUME IInv, IInv',
           \A v \in Workflows, k \in EntryKinds : Has(k, v)' <=> Has(k, v),
           \A v \in Workflows : Done(v)' <=> Done(v),
           \A v \in Workflows : Has("vote", v) => (AutoApproved(v)' <=> AutoApproved(v))
    PROVE  UNCHANGED Ledger!vars
<1>0. "vote" \in EntryKinds
  BY DEF EntryKinds
<1>1. LedgerEntries' = LedgerEntries
  BY LedgerIs, LedgerIsNext
<1>2. LedgerVerdicts' = LedgerVerdicts
  BY <1>0, LedgerIs, LedgerIsNext
<1>3. LedgerClosed' = LedgerClosed
  BY LedgerIs, LedgerIsNext
<1> QED
  BY <1>1, <1>2, <1>3 DEF Ledger!vars

LEMMA HasIs ==
    ASSUME NEW w
    PROVE  /\ Has("run", w) <=> RowsOf(runs, w) # {}
           /\ Has("proposal", w) <=> RowsOf(proposals, w) # {}
           /\ Has("vote", w) <=> VotesOn(w) # {}
           /\ Has("action", w) <=> RowsOf(actions, w) # {}
           /\ Has("outcome", w) <=> RowsOf(outcomes, w) # {}
BY DEF Has, RowsOfKind

LEMMA HasIsNext ==
    ASSUME NEW w
    PROVE  /\ Has("run", w)' <=> RowsOf(runs', w) # {}
           /\ Has("proposal", w)' <=> RowsOf(proposals', w) # {}
           /\ Has("vote", w)' <=> VotesOn(w)' # {}
           /\ Has("action", w)' <=> RowsOf(actions', w) # {}
           /\ Has("outcome", w)' <=> RowsOf(outcomes', w) # {}
BY DEF Has, RowsOfKind, RowsOf

\* Nothing in the tables changes for the reader.
LEMMA TablesStay ==
    ASSUME IInv, IInv', UNCHANGED <<approvals, actions, outcomes>>,
           \A v \in Workflows : RowsOf(runs', v) = RowsOf(runs, v)
                             /\ RowsOf(proposals', v) = RowsOf(proposals, v),
           \A v \in Workflows : Done(v)' <=> Done(v),
           \A v \in Workflows : Has("vote", v) => (AutoApproved(v)' <=> AutoApproved(v))
    PROVE  UNCHANGED Ledger!vars
<1>1. ASSUME NEW v \in Workflows, NEW k \in EntryKinds
      PROVE  Has(k, v)' <=> Has(k, v)
  <2>1. VotesOn(v)' = VotesOn(v)
    BY DEF VotesOn, RowsOf
  <2>2. RowsOf(actions', v) = RowsOf(actions, v) /\ RowsOf(outcomes', v) = RowsOf(outcomes, v)
    OBVIOUS
  <2> QED
    BY <2>1, <2>2, HasIs, HasIsNext DEF EntryKinds
<1> QED
  BY <1>1, SameLedger

LEMMA RunEntered ==
    ASSUME IInv, IInv', NEW w \in Workflows, RecordWorkflowRun(w)
    PROVE  Ledger!Enter(w, "run") \/ UNCHANGED Ledger!vars
<1> DEFINE r == [workflow |-> w, status |-> "running"]
<1>1. /\ \/ runs' = Append(runs, r) /\ RowsOf(runs, w) = {}
         \/ runs' = runs
      /\ UNCHANGED tables /\ UNCHANGED risk
  BY DEF RecordWorkflowRun, InsertOnce, Goto
<1>2. r \in RunRows /\ r.workflow = w /\ r.status = "running"
  BY DEF RunRows
<1> HIDE DEF r
<1>3. \A v \in Workflows : AutoApproved(v)' <=> AutoApproved(v)
  BY <1>1 DEF AutoApproved
<1>4. CASE runs' = runs
  BY <1>1, <1>3, <1>4, TablesStay DEF tables, Done
<1>5. CASE runs' = Append(runs, r) /\ RowsOf(runs, w) = {}
  <2>1. /\ \A v : v # w => RowsOf(runs', v) = RowsOf(runs, v)
        /\ RowsOf(runs', w) = {Len(runs) + 1}
        /\ \A j \in DOMAIN runs : runs'[j] = runs[j]
        /\ runs'[Len(runs) + 1] = r
    <3>1. runs \in Seq(RunRows)
      BY DEF IInv, TypeOK
    <3>2. runs' = Append(runs, r) /\ r \in RunRows /\ r.workflow = w
      BY <1>2, <1>5
    <3>3. /\ DOMAIN runs' = DOMAIN runs \cup {Len(runs) + 1}
          /\ \A j \in DOMAIN runs : runs'[j] = runs[j]
          /\ runs'[Len(runs) + 1] = r
          /\ Len(runs) + 1 \notin DOMAIN runs
      BY ONLY <3>1, <3>2
    <3>4. /\ \A v : v # w => RowsOf(runs', v) = RowsOf(runs, v)
          /\ RowsOf(runs', w) = RowsOf(runs, w) \cup {Len(runs) + 1}
      BY <3>2, <3>3 DEF RowsOf
    <3> QED
      BY <1>5, <3>3, <3>4
  <2>2. ASSUME NEW v \in Workflows, NEW k \in EntryKinds, v # w \/ k # "run"
        PROVE  Has(k, v)' <=> Has(k, v)
    <3>1. VotesOn(v)' = VotesOn(v)
      BY <1>1 DEF VotesOn, RowsOf, tables
    <3> QED
      BY <1>1, <2>1, <2>2, <3>1, HasIs, HasIsNext DEF EntryKinds, tables
  <2>3. \A v \in Workflows : Done(v)' <=> Done(v)
    <3>1. \A v : RowsOf(runs, v) \subseteq DOMAIN runs
      BY DEF RowsOf
    <3> QED
      BY <1>2, <1>5, <2>1, <3>1 DEF Done
  <2>4. Ledger!Basis("run", LedgerVerdicts[w]) = {}
    BY DEF Ledger!Basis
  <2>5. ~Has("run", w) /\ Has("run", w)'
    BY <1>5, <2>1, HasIs, HasIsNext
  <2>6. "run" \in EntryKinds
    BY DEF EntryKinds
  <2> QED
    BY <1>3, <2>2, <2>3, <2>4, <2>5, <2>6, EnterStep
<1> QED
  BY <1>1, <1>4, <1>5

LEMMA ProposalEntered ==
    ASSUME IInv, IInv', NEW w \in Workflows, ProposeDecision(w)
    PROVE  Ledger!Enter(w, "proposal") \/ UNCHANGED Ledger!vars
<1> DEFINE r == [risk |-> risk[w], status |-> "pending", workflow |-> w]
<1>1. /\ \/ proposals' = Append(proposals, r) /\ RowsOf(proposals, w) = {}
         \/ proposals' = proposals
      /\ UNCHANGED <<approvals, actions, outcomes, runs>> /\ UNCHANGED risk
  BY DEF ProposeDecision, InsertOnce, InsertProposal, Goto
<1>2. r \in ProposalRows /\ r.workflow = w
  BY DEF ProposalRows, Statuses, IInv, TypeOK
<1> HIDE DEF r
<1>3. \A v \in Workflows : (AutoApproved(v)' <=> AutoApproved(v)) /\ (Done(v)' <=> Done(v))
  BY <1>1 DEF AutoApproved, Done, RowsOf
<1>4. CASE proposals' = proposals
  BY <1>1, <1>3, <1>4, TablesStay
<1>5. CASE proposals' = Append(proposals, r) /\ RowsOf(proposals, w) = {}
  <2>1. /\ \A v : v # w => RowsOf(proposals', v) = RowsOf(proposals, v)
        /\ RowsOf(proposals', w) = {Len(proposals) + 1}
        /\ Len(proposals) + 1 \notin DOMAIN proposals
    <3>1. proposals \in Seq(ProposalRows)
      BY DEF IInv, TypeOK, TablesOK
    <3>2. proposals' = Append(proposals, r) /\ r \in ProposalRows /\ r.workflow = w
      BY <1>2, <1>5
    <3>3. /\ DOMAIN proposals' = DOMAIN proposals \cup {Len(proposals) + 1}
          /\ \A j \in DOMAIN proposals : proposals'[j] = proposals[j]
          /\ proposals'[Len(proposals) + 1] = r
          /\ Len(proposals) + 1 \notin DOMAIN proposals
      BY ONLY <3>1, <3>2
    <3>4. /\ \A v : v # w => RowsOf(proposals', v) = RowsOf(proposals, v)
          /\ RowsOf(proposals', w) = RowsOf(proposals, w) \cup {Len(proposals) + 1}
      BY <3>2, <3>3 DEF RowsOf
    <3> QED
      BY <1>5, <3>3, <3>4
  <2>2. \A v \in Workflows : VotesOn(v)' = VotesOn(v)
    <3>1. \A i \in DOMAIN approvals : approvals[i].proposal \in DOMAIN proposals
      BY DEF IInv, RowsHold, VotesHold
    <3>2. \A v \in Workflows : VotesOn(v)' =
             {i \in DOMAIN approvals : approvals[i].proposal \in RowsOf(proposals', v)}
      BY <1>1 DEF VotesOn, RowsOf
    <3> QED
      BY <1>5, <2>1, <3>1, <3>2 DEF VotesOn
  <2>3. ASSUME NEW v \in Workflows, NEW k \in EntryKinds, v # w \/ k # "proposal"
        PROVE  Has(k, v)' <=> Has(k, v)
    BY <1>1, <2>1, <2>2, <2>3, HasIs, HasIsNext DEF EntryKinds
  <2>4. Has("run", w)
    <3>1. ckpt[w] = RecordRun
      BY RunningAt DEF ProposeDecision, Propose, RecordRun, RecordOutcome, IInv
    <3> QED
      BY <3>1, HasIs DEF IInv, WorkflowHolds, CheckpointsHold, IsRowOf, RowsOf, RecordRun
  <2>5. \A k \in Ledger!Basis("proposal", LedgerVerdicts[w]) : k \in EntryKinds /\ Has(k, w)
    BY <2>4 DEF Ledger!Basis, EntryKinds
  <2>6. ~Has("proposal", w) /\ Has("proposal", w)' /\ "proposal" \in EntryKinds
    BY <1>5, <2>1, HasIs, HasIsNext DEF EntryKinds
  <2> QED
    BY <1>3, <2>3, <2>5, <2>6, EnterStep
<1> QED
  BY <1>1, <1>4, <1>5

LEMMA VoteEntered ==
    ASSUME IInv, IInv', NEW w \in Workflows, ApproveInsert(w)
    PROVE  Ledger!Enter(w, "vote") \/ UNCHANGED Ledger!vars
<1> DEFINE p == Proposal(w)
           r == [proposal |-> p, by |-> AutoApprover, approved |-> AutoApproved(w)]
<1>0. ckpt[w] = Propose
  BY RunningAt DEF ApproveInsert, Propose, Approve, RecordOutcome, IInv
<1>1. IsRowOf(proposals, p, w) /\ p \in Nat
  <2>1. IsRowOf(proposals, p, w)
    BY <1>0 DEF IInv, WorkflowHolds, CheckpointsHold, Proposal, Propose
  <2> QED
    BY <2>1 DEF IsRowOf, IInv, TypeOK, TablesOK
<1>2. /\ \/ approvals' = approvals
         \/ approvals' = Append(approvals, r) /\ ~HasVoted(p, AutoApprover)
      /\ UNCHANGED <<proposals, actions, outcomes, runs>> /\ UNCHANGED risk
  BY DEF ApproveInsert, InsertApproval, Goto
<1>3. r \in ApprovalRows /\ r.proposal = p
  BY <1>1, WorkflowAssumptions DEF ApprovalRows, AutoApproved
<1> HIDE DEF r, p
<1>4. \A v \in Workflows : (AutoApproved(v)' <=> AutoApproved(v)) /\ (Done(v)' <=> Done(v))
  BY <1>2 DEF AutoApproved, Done, RowsOf
<1>5. CASE approvals' = approvals
  BY <1>2, <1>4, <1>5, TablesStay
<1>6. CASE approvals' = Append(approvals, r) /\ ~HasVoted(p, AutoApprover)
  <2>1. /\ DOMAIN approvals' = DOMAIN approvals \cup {Len(approvals) + 1}
        /\ \A j \in DOMAIN approvals : approvals'[j] = approvals[j]
        /\ approvals'[Len(approvals) + 1] = r
        /\ Len(approvals) + 1 \notin DOMAIN approvals
    <3>1. approvals \in Seq(ApprovalRows)
      BY DEF IInv, TypeOK, TablesOK
    <3> QED
      BY <1>3, <1>6, <3>1
  <2>2. \A v \in Workflows : VotesOn(v)' =
           {i \in DOMAIN approvals' : approvals'[i].proposal \in RowsOf(proposals, v)}
    BY <1>2 DEF VotesOn, RowsOf
  <2>3. VotesOn(w) = {}
    <3>1. RowsOf(proposals, w) = {p}
      BY <1>1 DEF IsRowOf, RowsOf, IInv, RowsHold, KeysHold
    <3> QED
      BY <1>6, <3>1 DEF VotesOn, HasVoted, IInv, RowsHold, VotesHold
  <2>4. Len(approvals) + 1 \in VotesOn(w)'
    BY <1>1, <1>3, <2>1, <2>2 DEF IsRowOf, RowsOf
  <2>5. \A v \in Workflows \ {w} : VotesOn(v)' = VotesOn(v)
    <3>1. \A v \in Workflows \ {w} : p \notin RowsOf(proposals, v)
      BY <1>1 DEF IsRowOf, RowsOf
    <3> QED
      BY <1>3, <2>1, <2>2, <3>1 DEF VotesOn
  <2>6. ASSUME NEW v \in Workflows, NEW k \in EntryKinds, v # w \/ k # "vote"
        PROVE  Has(k, v)' <=> Has(k, v)
    BY <1>2, <2>5, <2>6, HasIs, HasIsNext DEF EntryKinds
  <2>7. Has("run", w) /\ Has("proposal", w)
    BY <1>0, HasIs DEF IInv, WorkflowHolds, CheckpointsHold, IsRowOf, RowsOf, RecordRun, Propose
  <2>8. \A k \in Ledger!Basis("vote", LedgerVerdicts[w]) : k \in EntryKinds /\ Has(k, w)
    BY <2>7 DEF Ledger!Basis, EntryKinds
  <2>9. ~Has("vote", w) /\ Has("vote", w)' /\ "vote" \in EntryKinds
    BY <2>3, <2>4, HasIs, HasIsNext DEF EntryKinds
  <2> QED
    BY <1>4, <2>6, <2>8, <2>9, EnterStep
<1> QED
  BY <1>2, <1>5, <1>6

LEMMA ActionEntered ==
    ASSUME IInv, IInv', NEW w \in Workflows, ExecuteInsert(w)
    PROVE  Ledger!Enter(w, "action") \/ UNCHANGED Ledger!vars
<1> DEFINE r == [proposal |-> Proposal(w), workflow |-> w]
<1>0. ckpt[w] = Approve /\ AutoApproved(w)
  BY RunningAt DEF ExecuteInsert, Execute, Approve, RecordOutcome, IInv
<1>1. /\ \/ actions' = Append(actions, r) /\ RowsOf(actions, w) = {}
         \/ actions' = actions
      /\ UNCHANGED <<proposals, approvals, outcomes, runs>> /\ UNCHANGED risk
  BY DEF ExecuteInsert, InsertOnce, InsertAction, Goto
<1>2. IsRowOf(proposals, Proposal(w), w) /\ IsRowOf(runs, out[w][RecordRun], w)
  BY <1>0 DEF IInv, WorkflowHolds, CheckpointsHold, Proposal, Propose, Approve, RecordRun
<1>3. r \in ActionRows /\ r.workflow = w
  BY <1>2 DEF ActionRows, IsRowOf, IInv, TypeOK, TablesOK
<1> HIDE DEF r
<1>4. \A v \in Workflows : (AutoApproved(v)' <=> AutoApproved(v)) /\ (Done(v)' <=> Done(v))
  BY <1>1 DEF AutoApproved, Done, RowsOf
<1>5. CASE actions' = actions
  BY <1>1, <1>4, <1>5, TablesStay
<1>6. CASE actions' = Append(actions, r) /\ RowsOf(actions, w) = {}
  <2>1. actions \in Seq(ActionRows)
    BY DEF IInv, TypeOK, TablesOK
  <2>2. /\ DOMAIN actions' = DOMAIN actions \cup {Len(actions) + 1}
        /\ \A j \in DOMAIN actions : actions'[j] = actions[j]
        /\ actions'[Len(actions) + 1] = r
    BY <1>3, <1>6, <2>1
  <2>3. /\ \A v : v # w => RowsOf(actions', v) = RowsOf(actions, v)
        /\ RowsOf(actions', w) # {}
    BY <1>3, <2>2 DEF RowsOf
  <2>4. ASSUME NEW v \in Workflows, NEW k \in EntryKinds, v # w \/ k # "action"
        PROVE  Has(k, v)' <=> Has(k, v)
    <3>1. VotesOn(v)' = VotesOn(v)
      BY <1>1 DEF VotesOn, RowsOf
    <3> QED
      BY <1>1, <2>3, <2>4, <3>1, HasIs, HasIsNext DEF EntryKinds
  <2>5. Has("run", w) /\ Has("proposal", w) /\ Has("vote", w)
    <3>1. Voted(w)
      BY <1>0 DEF IInv, WorkflowHolds, EffectsHold, Reached, Approve
    <3> QED
      BY <1>2, <3>1, HasIs DEF Voted, VotesOn, IsRowOf, RowsOf
  <2>6. \A k \in Ledger!Basis("action", LedgerVerdicts[w]) : k \in EntryKinds /\ Has(k, w)
    BY <2>5 DEF Ledger!Basis, EntryKinds
  <2>7. ~Has("action", w) /\ Has("action", w)' /\ "action" \in EntryKinds
    BY <1>6, <2>3, HasIs, HasIsNext DEF EntryKinds
  <2> QED
    BY <1>0, <1>4, <2>4, <2>5, <2>6, <2>7, EnterStep
<1> QED
  BY <1>1, <1>5, <1>6

LEMMA OutcomeEntered ==
    ASSUME IInv, IInv', NEW w \in Workflows, RecordOutcomeRow(w)
    PROVE  Ledger!Enter(w, "outcome") \/ UNCHANGED Ledger!vars
<1> DEFINE r == [key |-> Null, workflow |-> w, cites |-> {Proposal(w)}]
<1>0. ckpt[w] = Execute \/ (ckpt[w] = Approve /\ ~AutoApproved(w))
  BY RunningAt DEF RecordOutcomeRow, RecordOutcome, IInv
<1>1. /\ \/ outcomes' = Append(outcomes, r) /\ RowsOf(outcomes, w) = {}
         \/ outcomes' = outcomes
      /\ UNCHANGED <<proposals, approvals, actions, runs>> /\ UNCHANGED risk
  BY DEF RecordOutcomeRow, InsertOnce, InsertOutcome, Goto
<1>2. /\ IsRowOf(proposals, Proposal(w), w) /\ IsRowOf(runs, out[w][RecordRun], w)
      /\ AutoApproved(w) => IsRowOf(actions, out[w][Execute], w)
  BY <1>0 DEF IInv, WorkflowHolds, CheckpointsHold, Proposal, Propose, Approve, RecordRun, Execute
<1>3. r \in OutcomeRows /\ r.workflow = w
  BY <1>2 DEF OutcomeRows, IsRowOf, IInv, TypeOK, TablesOK
<1> HIDE DEF r
<1>4. \A v \in Workflows : (AutoApproved(v)' <=> AutoApproved(v)) /\ (Done(v)' <=> Done(v))
  BY <1>1 DEF AutoApproved, Done, RowsOf
<1>5. CASE outcomes' = outcomes
  BY <1>1, <1>4, <1>5, TablesStay
<1>6. CASE outcomes' = Append(outcomes, r) /\ RowsOf(outcomes, w) = {}
  <2>1. outcomes \in Seq(OutcomeRows)
    BY DEF IInv, TypeOK, TablesOK
  <2>2. /\ DOMAIN outcomes' = DOMAIN outcomes \cup {Len(outcomes) + 1}
        /\ \A j \in DOMAIN outcomes : outcomes'[j] = outcomes[j]
        /\ outcomes'[Len(outcomes) + 1] = r
    BY <1>3, <1>6, <2>1
  <2>3. /\ \A v : v # w => RowsOf(outcomes', v) = RowsOf(outcomes, v)
        /\ RowsOf(outcomes', w) # {}
    BY <1>3, <2>2 DEF RowsOf
  <2>4. ASSUME NEW v \in Workflows, NEW k \in EntryKinds, v # w \/ k # "outcome"
        PROVE  Has(k, v)' <=> Has(k, v)
    <3>1. VotesOn(v)' = VotesOn(v)
      BY <1>1 DEF VotesOn, RowsOf
    <3> QED
      BY <1>1, <2>3, <2>4, <3>1, HasIs, HasIsNext DEF EntryKinds
  <2>5. Has("run", w) /\ Has("proposal", w) /\ Has("vote", w) /\ (AutoApproved(w) => Has("action", w))
    <3>1. Voted(w)
      BY <1>0 DEF IInv, WorkflowHolds, EffectsHold, Reached, Approve, Execute
    <3> QED
      BY <1>2, <3>1, HasIs DEF Voted, VotesOn, IsRowOf, RowsOf
  <2>6. LedgerVerdicts[w] = "approved" => AutoApproved(w)
    BY LedgerIs
  <2>7. \A k \in Ledger!Basis("outcome", LedgerVerdicts[w]) : k \in EntryKinds /\ Has(k, w)
    BY <2>5, <2>6 DEF Ledger!Basis, EntryKinds
  <2>8. ~Has("outcome", w) /\ Has("outcome", w)' /\ "outcome" \in EntryKinds
    BY <1>6, <2>3, HasIs, HasIsNext DEF EntryKinds
  <2> QED
    BY <1>4, <2>4, <2>7, <2>8, EnterStep
<1> QED
  BY <1>1, <1>5, <1>6

LEMMA RunClosed ==
    ASSUME IInv, IInv', NEW w \in Workflows, CompleteWorkflowRun(w)
    PROVE  Ledger!Close(w) \/ UNCHANGED Ledger!vars
<1> DEFINE n == out[w][RecordRun]
<1>0. ckpt[w] = RecordOutcome
  BY RunningAt DEF CompleteWorkflowRun, CompleteRun, RecordOutcome, IInv
<1>1. IsRowOf(runs, n, w) /\ IsRowOf(outcomes, out[w][RecordOutcome], w)
  BY <1>0 DEF IInv, WorkflowHolds, CheckpointsHold, RecordRun, RecordOutcome
<1>2. runs' = [runs EXCEPT ![n].status = "completed"] /\ UNCHANGED tables /\ UNCHANGED risk
  BY DEF CompleteWorkflowRun, Goto
<1>3. /\ DOMAIN runs' = DOMAIN runs
      /\ \A i \in DOMAIN runs : runs'[i].workflow = runs[i].workflow
      /\ \A i \in DOMAIN runs : i # n => runs'[i] = runs[i]
      /\ runs'[n].status = "completed"
  <2>1. runs \in Seq(RunRows) /\ n \in DOMAIN runs
    BY <1>1 DEF IInv, TypeOK, IsRowOf
  <2>2. \A i \in DOMAIN runs : runs[i] \in RunRows
    BY <2>1
  <2> QED
    BY <1>2, <2>1, <2>2 DEF RunRows
<1>4. \A v \in Workflows : RowsOf(runs', v) = RowsOf(runs, v)
  BY <1>3 DEF RowsOf
<1>5. Done(w)' /\ \A v \in Workflows \ {w} : Done(v)' <=> Done(v)
  BY <1>1, <1>3 DEF Done, RowsOf, IsRowOf
<1>6. \A v \in Workflows : AutoApproved(v)' <=> AutoApproved(v)
  BY <1>2 DEF AutoApproved
<1>7. CASE Done(w)
  BY <1>2, <1>4, <1>5, <1>6, <1>7, TablesStay DEF tables
<1>8. CASE ~Done(w)
  <2>1. ASSUME NEW v \in Workflows, NEW k \in EntryKinds
        PROVE  Has(k, v)' <=> Has(k, v)
    <3>1. VotesOn(v)' = VotesOn(v)
      BY <1>2 DEF VotesOn, RowsOf, tables
    <3> QED
      BY <1>2, <1>4, <3>1, HasIs, HasIsNext DEF EntryKinds, tables
  <2>2. "vote" \in EntryKinds /\ "outcome" \in EntryKinds
    BY DEF EntryKinds
  <2>3. UNCHANGED <<LedgerEntries, LedgerVerdicts>>
    BY <1>6, <2>1, <2>2, LedgerIs, LedgerIsNext
  <2>4. LedgerClosed' = LedgerClosed \cup {w} /\ w \notin LedgerClosed
    BY <1>5, <1>8, LedgerIs, LedgerIsNext
  <2>5. LedgerEntries[w]["outcome"] = 1
    <3>1. Has("outcome", w)
      BY <1>1, HasIs DEF IsRowOf, RowsOf
    <3> QED
      BY <2>2, <3>1, LedgerIs
  <2> QED
    BY <2>3, <2>4, <2>5 DEF Ledger!Close
<1> QED
  BY <1>7, <1>8

\* The UPDATEs of the status of a proposal are not entries.
LEMMA StatusIsNoEntry ==
    ASSUME IInv, IInv', NEW w \in Workflows, ApproveUpdate(w) \/ ExecuteUpdate(w)
    PROVE  UNCHANGED Ledger!vars
<1>1. PICK s \in Statuses : SetStatus({Proposal(w)}, s)
  BY DEF ApproveUpdate, ExecuteUpdate, Statuses
<1>2. UNCHANGED <<approvals, actions, outcomes, runs>> /\ UNCHANGED risk
  BY DEF ApproveUpdate, ExecuteUpdate, Goto
<1>3. proposals \in Seq(ProposalRows)
  BY DEF IInv, TypeOK, TablesOK
<1>4. \A v \in Workflows : RowsOf(proposals', v) = RowsOf(proposals, v)
  <2>1. DOMAIN proposals' = DOMAIN proposals
        /\ \A q \in DOMAIN proposals : proposals'[q].workflow = proposals[q].workflow
    BY <1>1, <1>3, SetStatusEffect
  <2> QED
    BY <2>1 DEF RowsOf
<1>5. \A v \in Workflows : (AutoApproved(v)' <=> AutoApproved(v)) /\ (Done(v)' <=> Done(v))
  BY <1>2 DEF AutoApproved, Done, RowsOf
<1> QED
  BY <1>2, <1>4, <1>5, TablesStay

\* Checkpoints, errors, crashes and recoveries are not seen in the tables, nor
\* is the input of a workflow that has not voted.
LEMMA RestIsNoEntry ==
    ASSUME IInv, IInv', UNCHANGED <<tables, runs>>,
           \A v \in Workflows : ckpt[v] > 0 => risk'[v] = risk[v]
    PROVE  UNCHANGED Ledger!vars
<1>1. \A v \in Workflows : RowsOf(runs', v) = RowsOf(runs, v)
                        /\ RowsOf(proposals', v) = RowsOf(proposals, v)
  BY DEF tables
<1>2. \A v \in Workflows : Done(v)' <=> Done(v)
  BY DEF Done, RowsOf
<1>3. ASSUME NEW v \in Workflows, Has("vote", v) PROVE AutoApproved(v)' <=> AutoApproved(v)
  <2>1. ckpt[v] >= RecordRun
    BY <1>3, HasIs DEF VotesOn, RowsOf, IInv, RowsHold, ProposalsHold
  <2>2. ckpt \in [Workflows -> 0 .. 6]
    BY DEF IInv, TypeOK
  <2> QED
    BY <2>1, <2>2 DEF AutoApproved, RecordRun
<1> QED
  BY <1>1, <1>2, <1>3, TablesStay DEF tables

\* Every step of the workflow, its crashes and re-executed bodies included,
\* enters one row in the ledger, closes it, or leaves it as it is.
LEMMA StepImplements ==
    ASSUME IInv, IInv', [Next]_vars
    PROVE  [Ledger!Next]_(Ledger!vars)
<1>0. EntryKinds = Ledger!Kinds
  BY DEF EntryKinds, Ledger!Kinds
<1>1. ASSUME NEW w \in Workflows, Progress(w) PROVE [Ledger!Next]_(Ledger!vars)
  <2>1. CASE \/ RecordWorkflowRun(w) \/ ProposeDecision(w) \/ ApproveInsert(w)
             \/ ExecuteInsert(w) \/ RecordOutcomeRow(w)
    <3>1. {"run", "proposal", "vote", "action", "outcome"} \subseteq Ledger!Kinds
      BY DEF Ledger!Kinds
    <3> QED
      BY <2>1, <3>1, RunEntered, ProposalEntered, VoteEntered, ActionEntered, OutcomeEntered
         DEF Ledger!Next
  <2>2. CASE CompleteWorkflowRun(w)
    BY <2>2, RunClosed DEF Ledger!Next
  <2>3. CASE ApproveUpdate(w) \/ ExecuteUpdate(w)
    BY <2>3, StatusIsNoEntry
  <2>4. CASE Checkpoint(w) \/ Succeed(w)
    BY <2>4, RestIsNoEntry DEF Checkpoint, Succeed
  <2> QED
    BY <1>1, <2>1, <2>2, <2>3, <2>4 DEF Progress
<1>2. ASSUME NEW w \in Workflows, NEW r \in Risks, Start(w, r)
      PROVE  UNCHANGED Ledger!vars
  <2>1. ckpt[w] = 0
    BY <1>2 DEF Start, IInv, WorkflowHolds, StatusHolds
  <2>2. \A v \in Workflows : ckpt[v] > 0 => risk'[v] = risk[v]
    BY <1>2, <2>1 DEF Start, IInv, TypeOK
  <2> QED
    BY <1>2, <2>2, RestIsNoEntry DEF Start
<1>3. CASE (\E w \in Workflows : StepThrows(w)) \/ Crash \/ Launch \/ UNCHANGED vars
  BY <1>3, RestIsNoEntry DEF StepThrows, Crash, Launch, durable, vars, wfVars
<1> QED
  BY <1>1, <1>2, <1>3 DEF Next

\* The durable workflow implements the ledger of DecisionLedger: with crashes
\* between any two statements and bodies that run again, every entry is made at
\* most once and after those it rests on, an action only under a favourable
\* verdict, and the run is completed only when its outcome is there.
THEOREM WorkflowImplementsLedger == Spec => ImplementsLedger
<1>1. Init => Ledger!Init
  <2> SUFFICES ASSUME Init PROVE Ledger!Init
    OBVIOUS
  <2>1. IInv
    BY InitHolds
  <2>2. ASSUME NEW w \in Workflows, NEW k \in EntryKinds PROVE ~Has(k, w)
    <3>1. RowsOf(runs, w) = {} /\ RowsOf(proposals, w) = {} /\ VotesOn(w) = {}
          /\ RowsOf(actions, w) = {} /\ RowsOf(outcomes, w) = {}
      BY DEF Init, EmptyTables, RowsOf, VotesOn
    <3> QED
      BY <3>1, HasIs DEF EntryKinds
  <2>3. \A w \in Workflows : ~Done(w)
    BY DEF Init, Done, RowsOf
  <2>4. EntryKinds = Ledger!Kinds /\ "vote" \in EntryKinds
    BY DEF EntryKinds, Ledger!Kinds
  <2> QED
    BY <2>1, <2>2, <2>3, <2>4, LedgerIs DEF Ledger!Init
<1>2. IInv /\ IInv' /\ [Next]_vars => [Ledger!Next]_(Ledger!vars)
  BY StepImplements
<1> QED
  BY <1>1, <1>2, WorkflowInvariant, PTL DEF Spec, ImplementsLedger, Ledger!Spec
===============================================================================
