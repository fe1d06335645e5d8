-------------------------- MODULE DecisionSystemProofs --------------------------
(***************************************************************************)
(* Proofs about DecisionSystem: what the tables promise when tool calls and   *)
(* durable workflows write to them at once, for any number of either.         *)
(*                                                                          *)
(* The invariants of the two components do not simply add up: a client may    *)
(* overwrite the status of a workflow's proposal, and a workflow may find the *)
(* vote of a client in the place of its own.  What holds together is weaker:  *)
(* IInv says of each row only who wrote it, and of each process only that      *)
(* what it is about to build on is there.                                    *)
(***************************************************************************)
EXTENDS DecisionSystem, TLAPS

-----------------------------------------------------------------------------
(* Tables *)

IsTable(table) == \E S : table \in Seq(S)

\* uniq_..._workflow_id: rows of clients have no workflow, and do not count.
OwnKey(table) ==
    \A i, j \in DOMAIN table :
        table[i].workflow = table[j].workflow /\ table[i].workflow # Null => i = j

\* Rows keep their place and their workflow.
Kept(old, new) ==
    \A i \in DOMAIN old : i \in DOMAIN new /\ new[i].workflow = old[i].workflow

\* An INSERT of a client's row, or of the first row of a workflow, or none.
Adds(old, new) ==
    \/ new = old
    \/ \E r : /\ new = Append(old, r)
              /\ r.workflow # Null => \A i \in DOMAIN old : old[i].workflow # r.workflow

LEMMA AppendEffect ==
    ASSUME NEW S, NEW table \in Seq(S), NEW r
    PROVE  LET new == Append(table, r)
               n == Len(table) + 1
           IN /\ new \in Seq(S \cup {r}) /\ n \in Nat /\ n \notin DOMAIN table
              /\ DOMAIN new = DOMAIN table \cup {n}
              /\ \A i \in DOMAIN table : new[i] = table[i]
              /\ new[n] = r
<1>1. table \in Seq(S \cup {r}) /\ r \in S \cup {r}
  OBVIOUS
<1> QED
  BY <1>1

LEMMA AddsKeeps ==
    ASSUME NEW old, IsTable(old), OwnKey(old), NEW new, Adds(old, new)
    PROVE  /\ IsTable(new) /\ OwnKey(new) /\ Kept(old, new)
           /\ \A i \in DOMAIN old : new[i] = old[i]
<1>1. CASE new = old
  BY <1>1 DEF Kept
<1>2. CASE \E r : /\ new = Append(old, r)
                  /\ r.workflow # Null => \A i \in DOMAIN old : old[i].workflow # r.workflow
  <2>1. PICK r : /\ new = Append(old, r)
                 /\ r.workflow # Null => \A i \in DOMAIN old : old[i].workflow # r.workflow
    BY <1>2
  <2>2. PICK S : old \in Seq(S)
    BY DEF IsTable
  <2>3. PICK n : /\ new \in Seq(S \cup {r}) /\ n \notin DOMAIN old
                 /\ DOMAIN new = DOMAIN old \cup {n}
                 /\ \A i \in DOMAIN old : new[i] = old[i]
                 /\ new[n] = r
    BY <2>1, <2>2, AppendEffect
  <2> QED
    BY <2>1, <2>3 DEF IsTable, OwnKey, Kept
<1> QED
  BY <1>1, <1>2 DEF Adds

-----------------------------------------------------------------------------
(* The invariant *)

AllRisks == Risks \cup RiskClasses

ProposalsOK ==
    [risk : AllRisks, status : Statuses, workflow : Workflows \cup {Null}]

\* uniq_approvals_proposal_approver
VotesHold ==
    \A i, j \in DOMAIN approvals :
        approvals[i].proposal = approvals[j].proposal /\ approvals[i].by = approvals[j].by
            => i = j

TablesHold ==
    /\ proposals \in Seq(ProposalsOK) /\ OwnKey(proposals)
    /\ IsTable(approvals) /\ VotesHold
    /\ IsTable(actions) /\ OwnKey(actions)
    /\ IsTable(outcomes) /\ OwnKey(outcomes)
    /\ runs \in Seq(Durable!RunRows) /\ OwnKey(runs)
    /\ ExecutedHasAction

\* A call that is about to write "executed" has its action.
CallsHold ==
    /\ DOMAIN pc = Calls /\ DOMAIN arg = Calls
    /\ \A c \in Calls : pc[c] \in {"execute_update", "auto_update"} => Acted(arg[c].target)

ExecutionsHold ==
    /\ status \in [Workflows -> Durable!WorkflowStatuses]
    /\ risk \in [Workflows -> AllRisks]
    /\ ckpt \in [Workflows -> 0 .. 6]
    /\ out \in [Workflows -> [1 .. 6 -> Nat]]
    /\ at \in [Workflows -> Durable!Positions]
    /\ row \in [Workflows -> Nat]

IsRowOf(table, i, w) == i \in DOMAIN table /\ table[i].workflow = w

\* What a checkpoint recorded is a row of this workflow.
CheckpointsHold(w) ==
    /\ ckpt[w] >= 1 => IsRowOf(runs, out[w][1], w)
    /\ ckpt[w] >= 2 => IsRowOf(proposals, out[w][2], w)
    /\ ckpt[w] >= 4 /\ Durable!AutoApproved(w) => IsRowOf(actions, out[w][4], w)
    /\ ckpt[w] >= 5 => IsRowOf(outcomes, out[w][5], w)

\* So is what a body is about to return.
BodyHolds(w) ==
    /\ at[w] \in {"second", "return"} => ckpt[w] < 6
    /\ at[w] = "return" =>
          /\ Durable!Step(w) = 1 => IsRowOf(runs, row[w], w)
          /\ Durable!Step(w) = 2 => IsRowOf(proposals, row[w], w)
          /\ Durable!Step(w) = 5 => IsRowOf(outcomes, row[w], w)
    /\ at[w] \in {"second", "return"} /\ Durable!Step(w) = 4 => IsRowOf(actions, row[w], w)

\* The action of a workflow is on its own proposal, which is recorded by then.
ActionsHold(w) ==
    \A i \in DOMAIN actions : actions[i].workflow = w =>
        ckpt[w] >= 3 /\ actions[i].proposal = Durable!Proposal(w)

\* A workflow that was never started has recorded nothing.
StatusHolds(w) == status[w] = "absent" => ckpt[w] = 0

WorkflowHolds(w) == CheckpointsHold(w) /\ BodyHolds(w) /\ ActionsHold(w) /\ StatusHolds(w)

IInv ==
    /\ TablesHold /\ CallsHold /\ ExecutionsHold
    /\ \A w \in Workflows : WorkflowHolds(w)

LEMMA Begins == Init => IInv
<1> SUFFICES ASSUME Init PROVE IInv
  OBVIOUS
<1> USE DEF Init, Tools!Init, Durable!Init, Tools!EmptyTables, Durable!EmptyTables
<1>1. TablesHold
  BY DEF TablesHold, OwnKey, IsTable, VotesHold, ExecutedHasAction
<1>2. CallsHold
  BY DEF CallsHold
<1>3. ExecutionsHold
  BY DEF ExecutionsHold, Durable!WorkflowStatuses, Durable!Positions, Durable!NoRow,
         Durable!RecordRun, Durable!CompleteRun, AllRisks, RiskClasses
<1>4. \A w \in Workflows : WorkflowHolds(w)
  BY DEF WorkflowHolds, CheckpointsHold, BodyHolds, ActionsHold, StatusHolds
<1> QED
  BY <1>1, <1>2, <1>3, <1>4 DEF IInv

-----------------------------------------------------------------------------
(* What a step may do to the tables *)

\* An UPDATE of the status column.
StatusSet(ids, s) ==
    proposals' = [i \in DOMAIN proposals |->
                    IF i \in ids THEN [proposals[i] EXCEPT !.status = s] ELSE proposals[i]]

ProposalsMove ==
    \/ /\ Adds(proposals, proposals')
       /\ proposals' # proposals =>
             \E r \in ProposalsOK : proposals' = Append(proposals, r) /\ r.status # "executed"
    \/ \E ids, s : /\ StatusSet(ids, s) /\ s \in Statuses
                   /\ s = "executed" => \A p \in ids : Acted(p)

VotesMove ==
    \/ UNCHANGED approvals
    \/ \E r : /\ approvals' = Append(approvals, r)
              /\ \A i \in DOMAIN approvals :
                    ~(approvals[i].proposal = r.proposal /\ approvals[i].by = r.by)

Moves ==
    /\ ProposalsMove /\ VotesMove
    /\ Adds(actions, actions') /\ Adds(outcomes, outcomes')

LEMMA MovesKeep ==
    ASSUME IInv, Moves
    PROVE  /\ proposals' \in Seq(ProposalsOK) /\ OwnKey(proposals') /\ Kept(proposals, proposals')
           /\ IsTable(approvals') /\ VotesHold'
           /\ IsTable(actions') /\ OwnKey(actions') /\ Kept(actions, actions')
           /\ \A i \in DOMAIN actions : actions'[i] = actions[i]
           /\ IsTable(outcomes') /\ OwnKey(outcomes') /\ Kept(outcomes, outcomes')
           /\ \A p : Acted(p) => Acted(p)'
           /\ ExecutedHasAction'
<1>1. /\ IsTable(actions') /\ OwnKey(actions') /\ Kept(actions, actions')
      /\ \A i \in DOMAIN actions : actions'[i] = actions[i]
  BY AddsKeeps DEF Moves, IInv, TablesHold
<1>2. IsTable(outcomes') /\ OwnKey(outcomes') /\ Kept(outcomes, outcomes')
  BY AddsKeeps DEF Moves, IInv, TablesHold
<1>3. \A p : Acted(p) => Acted(p)'
  BY <1>1 DEF Acted, Kept
<1>4. IsTable(approvals') /\ VotesHold'
  <2>1. CASE UNCHANGED approvals
    BY <2>1 DEF IInv, TablesHold, VotesHold
  <2>2. CASE \E r : /\ approvals' = Append(approvals, r)
                    /\ \A i \in DOMAIN approvals :
                          ~(approvals[i].proposal = r.proposal /\ approvals[i].by = r.by)
    <3>1. PICK r : /\ approvals' = Append(approvals, r)
                   /\ \A i \in DOMAIN approvals :
                         ~(approvals[i].proposal = r.proposal /\ approvals[i].by = r.by)
      BY <2>2
    <3>2. PICK S : approvals \in Seq(S)
      BY DEF IInv, TablesHold, IsTable
    <3>3. PICK n : /\ approvals' \in Seq(S \cup {r}) /\ n \notin DOMAIN approvals
                   /\ DOMAIN approvals' = DOMAIN approvals \cup {n}
                   /\ \A i \in DOMAIN approvals : approvals'[i] = approvals[i]
                   /\ approvals'[n] = r
      BY <3>1, <3>2, AppendEffect
    <3> QED
      BY <3>1, <3>3 DEF IInv, TablesHold, VotesHold, IsTable
  <2> QED
    BY <2>1, <2>2 DEF Moves, VotesMove
<1>5. /\ proposals' \in Seq(ProposalsOK) /\ OwnKey(proposals') /\ Kept(proposals, proposals')
      /\ ExecutedHasAction'
  <2>0. proposals \in Seq(ProposalsOK) /\ OwnKey(proposals) /\ ExecutedHasAction
    BY DEF IInv, TablesHold
  <2>1. CASE UNCHANGED proposals
    BY <1>3, <2>0, <2>1 DEF OwnKey, Kept, ExecutedHasAction
  <2>2. CASE Adds(proposals, proposals') /\ \E r \in ProposalsOK :
                proposals' = Append(proposals, r) /\ r.status # "executed"
    <3>1. PICK r \in ProposalsOK : proposals' = Append(proposals, r) /\ r.status # "executed"
      BY <2>2
    <3>2. OwnKey(proposals') /\ Kept(proposals, proposals')
      BY <2>0, <2>2, AddsKeeps DEF IsTable
    <3>3. PICK n : /\ proposals' \in Seq(ProposalsOK)
                   /\ DOMAIN proposals' = DOMAIN proposals \cup {n}
                   /\ \A i \in DOMAIN proposals : proposals'[i] = proposals[i]
                   /\ proposals'[n] = r
      BY <2>0, <3>1, AppendEffect
    <3> QED
      BY <1>3, <2>0, <3>1, <3>2, <3>3 DEF ExecutedHasAction
  <2>3. CASE \E ids, s : /\ StatusSet(ids, s) /\ s \in Statuses
                         /\ s = "executed" => \A p \in ids : Acted(p)
    <3>1. PICK ids, s : /\ StatusSet(ids, s) /\ s \in Statuses
                        /\ s = "executed" => \A p \in ids : Acted(p)
      BY <2>3
    <3> DEFINE new == [i \in DOMAIN proposals |->
                 IF i \in ids THEN [proposals[i] EXCEPT !.status = s] ELSE proposals[i]]
    <3>2. \A i \in DOMAIN proposals :
             /\ new[i] \in ProposalsOK /\ new[i].workflow = proposals[i].workflow
             /\ new[i].status = IF i \in ids THEN s ELSE proposals[i].status
      <4>1. \A i \in DOMAIN proposals : proposals[i] \in ProposalsOK
        BY <2>0
      <4> QED
        BY <3>1, <4>1 DEF ProposalsOK
    <3>3. new \in Seq(ProposalsOK) /\ DOMAIN new = DOMAIN proposals
      <4>1. DOMAIN proposals = 1 .. Len(proposals) /\ Len(proposals) \in Nat
        BY <2>0
      <4>2. new \in [1 .. Len(proposals) -> ProposalsOK]
        BY <3>2, <4>1
      <4> QED
        BY <4>1, <4>2
    <3>4. proposals' = new
      BY <3>1 DEF StatusSet
    <3> HIDE DEF new
    <3>5. ExecutedHasAction'
      BY <1>3, <2>0, <3>1, <3>2, <3>3, <3>4 DEF ExecutedHasAction
    <3> QED
      BY <2>0, <3>2, <3>3, <3>4, <3>5 DEF OwnKey, Kept
  <2> QED
    BY <2>1, <2>2, <2>3 DEF Moves, ProposalsMove
<1> QED
  BY <1>1, <1>2, <1>3, <1>4, <1>5

LEMMA StillMoves == UNCHANGED <<proposals, approvals, actions, outcomes>> => Moves
BY DEF Moves, ProposalsMove, VotesMove, Adds

-----------------------------------------------------------------------------
(* The tool calls *)

\* The stages in which a call relies on an action.
ActedStages == {"execute_update", "auto_update"}

\* Call c goes on to this stage, the other calls stay where they are.
LEMMA CallsKeep ==
    ASSUME IInv, Moves, NEW c \in Calls, NEW stage, Tools!Goto(c, stage),
           UNCHANGED arg \/ \E a : Tools!Hold(c, a),
           stage \in ActedStages => Acted(arg[c].target)'
    PROVE  CallsHold'
<1>1. DOMAIN pc = Calls /\ DOMAIN arg = Calls
  BY DEF IInv, CallsHold
<1>2. DOMAIN pc' = Calls /\ pc'[c] = stage /\ \A d \in Calls \ {c} : pc'[d] = pc[d]
  BY <1>1 DEF Tools!Goto
<1>3. DOMAIN arg' = Calls /\ \A d \in Calls \ {c} : arg'[d] = arg[d]
  BY <1>1 DEF Tools!Hold
<1>4. \A d \in Calls \ {c} : pc[d] \in ActedStages => Acted(arg[d].target)'
  <2>1. \A p : Acted(p) => Acted(p)'
    BY MovesKeep
  <2>2. \A d \in Calls \ {c} : pc[d] \in ActedStages => Acted(arg[d].target)
    BY DEF IInv, CallsHold, ActedStages
  <2>3. ASSUME NEW d \in Calls \ {c}, pc[d] \in ActedStages
        PROVE  Acted(arg[d].target)'
    <3>1. PICK i \in DOMAIN actions : actions[i].proposal = arg[d].target
      BY <2>2, <2>3 DEF Acted
    <3>2. i \in DOMAIN actions' /\ actions'[i] = actions[i]
      BY MovesKeep DEF Kept
    <3> QED
      BY <1>3, <3>1, <3>2 DEF Acted
  <2> QED
    BY <2>3
<1> QED
  BY <1>2, <1>3, <1>4 DEF CallsHold, ActedStages

\* A call ends, or is in a stage that relies on no action.
LEMMA CallsKeepAnyway ==
    ASSUME IInv, Moves, NEW c \in Calls, NEW stage, stage \notin ActedStages, Tools!Goto(c, stage),
           UNCHANGED arg \/ \E a : Tools!Hold(c, a)
    PROVE  CallsHold'
BY CallsKeep

LEMMA EndKeeps ==
    ASSUME IInv, Moves, NEW c \in Calls, Tools!Return(c) \/ Tools!Throw(c)
    PROVE  CallsHold'
<1>1. "done" \notin ActedStages /\ "failed" \notin ActedStages
  BY DEF ActedStages
<1>2. CASE Tools!Return(c)
  BY <1>1, <1>2, CallsKeepAnyway DEF Tools!Return
<1>3. CASE Tools!Throw(c)
  BY <1>1, <1>3, CallsKeepAnyway DEF Tools!Throw
<1> QED
  BY <1>2, <1>3

LEMMA ProposalMoves ==
    ASSUME NEW r \in AllRisks, NEW s \in Statuses \ {"executed"},
           Tools!InsertProposal(r, s, Null),
           UNCHANGED <<approvals, actions, outcomes>>
    PROVE  Moves
<1> DEFINE new == [risk |-> r, status |-> s, workflow |-> Null]
<1>1. new \in ProposalsOK /\ new.status # "executed" /\ new.workflow = Null
  BY DEF ProposalsOK
<1>2. proposals' = Append(proposals, new)
  BY DEF Tools!InsertProposal
<1> HIDE DEF new
<1> QED
  BY <1>1, <1>2 DEF Moves, ProposalsMove, VotesMove, Adds

LEMMA StatusMoves ==
    ASSUME NEW ids, NEW s \in Statuses, Tools!SetStatus(ids, s),
           s = "executed" => \A p \in ids : Acted(p),
           UNCHANGED <<approvals, actions, outcomes>>
    PROVE  Moves
<1>1. StatusSet(ids, s)
  BY DEF StatusSet, Tools!SetStatus
<1> QED
  BY <1>1 DEF Moves, ProposalsMove, VotesMove, Adds

LEMMA VoteMoves ==
    ASSUME NEW p, NEW by, NEW verdict, ~Tools!HasVoted(p, by),
           Tools!InsertApproval(p, by, verdict),
           UNCHANGED <<proposals, actions, outcomes>>
    PROVE  Moves
<1> DEFINE new == [proposal |-> p, by |-> by, approved |-> verdict]
<1>1. new.proposal = p /\ new.by = by
  OBVIOUS
<1>2. approvals' = Append(approvals, new)
  BY DEF Tools!InsertApproval
<1> HIDE DEF new
<1>3. VotesMove
  BY <1>1, <1>2 DEF VotesMove, Tools!HasVoted
<1> QED
  BY <1>3 DEF Moves, ProposalsMove, Adds

LEMMA ActionMoves ==
    ASSUME IInv, NEW p, Tools!InsertAction(p, Null),
           UNCHANGED <<proposals, approvals, outcomes>>
    PROVE  Moves /\ (\E i \in DOMAIN actions' : actions'[i].proposal = p)
<1> DEFINE new == [proposal |-> p, workflow |-> Null]
<1>1. new.proposal = p /\ new.workflow = Null
  OBVIOUS
<1>2. actions' = Append(actions, new)
  BY DEF Tools!InsertAction
<1> HIDE DEF new
<1>3. Adds(actions, actions')
  BY <1>1, <1>2 DEF Adds
<1>4. PICK S : actions \in Seq(S)
  BY DEF IInv, TablesHold, IsTable
<1>5. \E n : n \in DOMAIN actions' /\ actions'[n] = new
  <2>1. PICK n : DOMAIN actions' = DOMAIN actions \cup {n} /\ actions'[n] = new
    BY <1>2, <1>4, AppendEffect
  <2> QED
    BY <2>1
<1> QED
  BY <1>1, <1>3, <1>5 DEF Moves, ProposalsMove, VotesMove, Adds

LEMMA OutcomeMoves ==
    ASSUME NEW key, NEW cites, Tools!InsertOutcome(key, Null, cites),
           UNCHANGED <<proposals, approvals, actions>>
    PROVE  Moves
<1> DEFINE new == [key |-> key, workflow |-> Null, cites |-> cites]
<1>1. new.workflow = Null
  OBVIOUS
<1>2. outcomes' = Append(outcomes, new)
  BY DEF Tools!InsertOutcome
<1> HIDE DEF new
<1> QED
  BY <1>1, <1>2 DEF Moves, ProposalsMove, VotesMove, Adds

LEMMA StatusesAre == {"pending", "approved", "rejected", "executed", "completed"} = Statuses
BY DEF Statuses

LEMMA ArrivesKeeps ==
    ASSUME IInv, NEW c \in Calls, Tools!Arrives(c)
    PROVE  Moves /\ CallsHold'
<1>1. ASSUME NEW r \in Risks, NEW valid \in BOOLEAN, Tools!ProposeDecision(c, r, valid)
      PROVE  Moves /\ CallsHold'
  <2>1. Moves
    <3>1. CASE valid
      BY <1>1, <3>1, ProposalMoves, StatusesAre DEF Tools!ProposeDecision, AllRisks
    <3>2. CASE ~valid
      BY <1>1, <3>2, StillMoves DEF Tools!ProposeDecision
    <3> QED
      BY <3>1, <3>2
  <2>2. Tools!Return(c)
    BY <1>1 DEF Tools!ProposeDecision
  <2> QED
    BY <2>1, <2>2, EndKeeps
<1>2. ASSUME NEW p, NEW by, NEW verdict, Tools!ApproveCheck(c, p, by, verdict)
      PROVE  Moves /\ CallsHold'
  <2>1. Moves
    BY <1>2, StillMoves DEF Tools!ApproveCheck, Tools!tables
  <2>2. Tools!Return(c) \/ (Tools!Goto(c, "approve_insert") /\ \E a : Tools!Hold(c, a))
    BY <1>2, Zenon DEF Tools!ApproveCheck
  <2>3. "approve_insert" \notin ActedStages
    BY DEF ActedStages
  <2> QED
    BY <2>1, <2>2, <2>3, EndKeeps, CallsKeepAnyway
<1>3. ASSUME NEW p, NEW by, Tools!ExecuteCheck(c, p, by)
      PROVE  Moves /\ CallsHold'
  <2>1. Moves
    BY <1>3, StillMoves DEF Tools!ExecuteCheck, Tools!tables
  <2>2. Tools!Return(c) \/ (Tools!Goto(c, "execute_insert") /\ \E a : Tools!Hold(c, a))
    BY <1>3, Zenon DEF Tools!ExecuteCheck
  <2>3. "execute_insert" \notin ActedStages
    BY DEF ActedStages
  <2> QED
    BY <2>1, <2>2, <2>3, EndKeeps, CallsKeepAnyway
<1>4. ASSUME NEW agent, NEW r \in Risks, Tools!ActionPropose(c, agent, r)
      PROVE  Moves /\ CallsHold'
  <2>1. /\ \/ UNCHANGED proposals
           \/ Tools!InsertProposal(r, "approved", Null)
           \/ Tools!InsertProposal(r, "pending", Null)
        /\ Tools!Return(c) \/ (Tools!Goto(c, "auto_approval") /\ \E a : Tools!Hold(c, a))
        /\ UNCHANGED <<approvals, actions, outcomes>>
    BY <1>4, Zenon DEF Tools!ActionPropose
  <2>2. Moves
    BY <2>1, StillMoves, ProposalMoves, StatusesAre DEF AllRisks
  <2>3. "auto_approval" \notin ActedStages
    BY DEF ActedStages
  <2> QED
    BY <2>1, <2>2, <2>3, EndKeeps, CallsKeepAnyway
<1>5. ASSUME NEW key, NEW cites, Tools!OutcomeCheck(c, key, cites)
      PROVE  Moves /\ CallsHold'
  <2>1. Moves
    BY <1>5, StillMoves DEF Tools!OutcomeCheck, Tools!tables
  <2>2. Tools!Return(c) \/ (Tools!Goto(c, "outcome_insert") /\ \E a : Tools!Hold(c, a))
    BY <1>5, Zenon DEF Tools!OutcomeCheck
  <2>3. "outcome_insert" \notin ActedStages
    BY DEF ActedStages
  <2> QED
    BY <2>1, <2>2, <2>3, EndKeeps, CallsKeepAnyway
<1> QED
  BY <1>1, <1>2, <1>3, <1>4, <1>5 DEF Tools!Arrives

LEMMA ContinuesKeeps ==
    ASSUME IInv, NEW c \in Calls, Tools!Continues(c)
    PROVE  Moves /\ CallsHold'
<1>0. pc[c] \in ActedStages => Acted(arg[c].target)
  BY DEF IInv, CallsHold, ActedStages
<1>1. CASE Tools!ApproveInsert(c)
  <2>1. /\ \/ UNCHANGED approvals
           \/ /\ ~Tools!HasVoted(arg[c].target, arg[c].who)
              /\ Tools!InsertApproval(arg[c].target, arg[c].who, arg[c].verdict)
        /\ Tools!Throw(c) \/ (Tools!Goto(c, "approve_update") /\ UNCHANGED arg)
        /\ UNCHANGED <<proposals, actions, outcomes>>
    BY <1>1, Zenon DEF Tools!ApproveInsert
  <2>2. Moves
    BY <2>1, StillMoves, VoteMoves
  <2>3. "approve_update" \notin ActedStages
    BY DEF ActedStages
  <2> QED
    BY <2>1, <2>2, <2>3, EndKeeps, CallsKeepAnyway
<1>2. CASE Tools!ApproveUpdate(c)
  <2>1. /\ Tools!SetStatus({arg[c].target}, Tools!Decision(arg[c].verdict))
        /\ Tools!Return(c) /\ UNCHANGED <<approvals, actions, outcomes>>
    BY <1>2 DEF Tools!ApproveUpdate
  <2>2. Tools!Decision(arg[c].verdict) \in {"approved", "rejected"}
    BY DEF Tools!Decision
  <2>3. Moves
    BY <2>1, <2>2, StatusMoves, StatusesAre
  <2> QED
    BY <2>1, <2>3, EndKeeps
<1>3. CASE Tools!ExecuteInsert(c) \/ Tools!AutoAction(c)
  <2>1. PICK stage : /\ stage \in {"execute_update", "auto_update"}
                     /\ Tools!InsertAction(arg[c].target, Null)
                     /\ Tools!Goto(c, stage) /\ UNCHANGED arg
                     /\ UNCHANGED <<proposals, approvals, outcomes>>
    BY <1>3, Zenon DEF Tools!ExecuteInsert, Tools!AutoAction
  <2>2. Moves /\ \E i \in DOMAIN actions' : actions'[i].proposal = arg[c].target
    BY <2>1, ActionMoves
  <2>3. Acted(arg[c].target)'
    BY <2>1, <2>2 DEF Acted
  <2> QED
    BY <2>1, <2>2, <2>3, CallsKeep
<1>4. CASE Tools!ExecuteUpdate(c)
  <2>1. /\ Tools!SetStatus({arg[c].target}, "executed")
        /\ Tools!Return(c) /\ UNCHANGED <<approvals, actions, outcomes>>
        /\ Acted(arg[c].target)
    BY <1>0, <1>4 DEF Tools!ExecuteUpdate, ActedStages
  <2>2. Moves
    BY <2>1, StatusMoves, StatusesAre
  <2> QED
    BY <2>1, <2>2, EndKeeps
<1>5. CASE Tools!AutoApproval(c)
  <2>1. /\ \/ UNCHANGED approvals
           \/ /\ ~Tools!HasVoted(arg[c].target, AutoApprover)
              /\ Tools!InsertApproval(arg[c].target, AutoApprover, TRUE)
        /\ Tools!Throw(c) \/ (Tools!Goto(c, "auto_action") /\ UNCHANGED arg)
        /\ UNCHANGED <<proposals, actions, outcomes>>
    BY <1>5, Zenon DEF Tools!AutoApproval
  <2>2. Moves
    BY <2>1, StillMoves, VoteMoves
  <2>3. "auto_action" \notin ActedStages
    BY DEF ActedStages
  <2> QED
    BY <2>1, <2>2, <2>3, EndKeeps, CallsKeepAnyway
<1>6. CASE Tools!AutoUpdate(c)
  <2>1. /\ Tools!SetStatus({arg[c].target}, "executed")
        /\ Tools!Goto(c, "auto_stats") /\ UNCHANGED <<arg, approvals, actions, outcomes>>
        /\ Acted(arg[c].target)
    BY <1>0, <1>6 DEF Tools!AutoUpdate, ActedStages
  <2>2. Moves
    BY <2>1, StatusMoves, StatusesAre
  <2>3. "auto_stats" \notin ActedStages
    BY DEF ActedStages
  <2> QED
    BY <2>1, <2>2, <2>3, CallsKeepAnyway
<1>7. CASE Tools!AutoStats(c) \/ Tools!OutcomeMemory(c)
  <2>1. Tools!Return(c) /\ UNCHANGED <<proposals, approvals, actions, outcomes>>
    BY <1>7 DEF Tools!AutoStats, Tools!OutcomeMemory, Tools!tables
  <2> QED
    BY <2>1, StillMoves, EndKeeps
<1>8. CASE Tools!OutcomeInsert(c)
  <2>1. /\ \/ UNCHANGED outcomes
           \/ Tools!InsertOutcome(arg[c].key, Null, arg[c].cites)
        /\ \E a : Tools!Hold(c, a)
        /\ \/ Tools!Goto(c, "outcome_memory")
           \/ Tools!Goto(c, "outcome_update")
        /\ UNCHANGED <<proposals, approvals, actions>>
    BY <1>8, Zenon DEF Tools!OutcomeInsert
  <2>2. Moves
    BY <2>1, StillMoves, OutcomeMoves
  <2>3. "outcome_memory" \notin ActedStages /\ "outcome_update" \notin ActedStages
    BY DEF ActedStages
  <2> QED
    BY <2>1, <2>2, <2>3, CallsKeepAnyway
<1>9. CASE Tools!OutcomeUpdate(c)
  <2>1. /\ Tools!SetStatus(arg[c].cites, "completed")
        /\ Tools!Goto(c, "outcome_memory") /\ UNCHANGED <<arg, approvals, actions, outcomes>>
    BY <1>9 DEF Tools!OutcomeUpdate
  <2>2. Moves
    BY <2>1, StatusMoves, StatusesAre
  <2>3. "outcome_memory" \notin ActedStages
    BY DEF ActedStages
  <2> QED
    BY <2>1, <2>2, <2>3, CallsKeepAnyway
<1> QED
  BY <1>1, <1>2, <1>3, <1>4, <1>5, <1>6, <1>7, <1>8, <1>9 DEF Tools!Continues

\* A step of a client: a move on the tables, and its calls hold.
LEMMA ToolMoves ==
    ASSUME IInv, NEW c \in Calls, ToolStep(c)
    PROVE  Moves /\ CallsHold' /\ UNCHANGED workflowVars
<1>1. CASE Tools!CallFails(c)
  BY <1>1, StillMoves, EndKeeps DEF Tools!CallFails, Tools!tables, ToolStep
<1> QED
  BY <1>1, ArrivesKeeps, ContinuesKeeps DEF ToolStep

\* The actions of clients are of no workflow.
LEMMA ClientActions ==
    ASSUME IInv, NEW c \in Calls, ToolStep(c)
    PROVE  \A i \in DOMAIN actions' : i \in DOMAIN actions \/ actions'[i].workflow = Null
<1>1. UNCHANGED actions \/ \E p : Tools!InsertAction(p, Null)
  <2>1. Tools!Arrives(c) => UNCHANGED actions
    BY DEF Tools!Arrives, Tools!ProposeDecision, Tools!ApproveCheck, Tools!ExecuteCheck,
           Tools!ActionPropose, Tools!OutcomeCheck, Tools!tables
  <2>2. Tools!CallFails(c) => UNCHANGED actions
    BY DEF Tools!CallFails, Tools!tables
  <2>3. Tools!ExecuteInsert(c) \/ Tools!AutoAction(c) => \E p : Tools!InsertAction(p, Null)
    BY Zenon DEF Tools!ExecuteInsert, Tools!AutoAction
  <2>4. Tools!Continues(c) => UNCHANGED actions \/ Tools!ExecuteInsert(c) \/ Tools!AutoAction(c)
    BY Zenon DEF Tools!Continues, Tools!ApproveInsert, Tools!ApproveUpdate, Tools!ExecuteUpdate,
           Tools!AutoApproval, Tools!AutoUpdate, Tools!AutoStats, Tools!OutcomeInsert,
           Tools!OutcomeUpdate, Tools!OutcomeMemory, Tools!tables
  <2> QED
    BY <2>1, <2>2, <2>3, <2>4 DEF ToolStep
<1>2. CASE UNCHANGED actions
  BY <1>2
<1>3. CASE \E p : Tools!InsertAction(p, Null)
  <2>1. PICK r : actions' = Append(actions, r) /\ r.workflow = Null
    BY <1>3 DEF Tools!InsertAction
  <2>2. PICK S : actions \in Seq(S)
    BY DEF IInv, TablesHold, IsTable
  <2>3. PICK n : DOMAIN actions' = DOMAIN actions \cup {n} /\ actions'[n] = r
    BY <2>1, <2>2, AppendEffect
  <2> QED
    BY <2>1, <2>3
<1> QED
  BY <1>1, <1>2, <1>3

-----------------------------------------------------------------------------
(* What a step of another process leaves of the invariant *)

LEMMA TablesStay ==
    ASSUME IInv, Moves, runs' \in Seq(Durable!RunRows), OwnKey(runs')
    PROVE  TablesHold'
BY MovesKeep DEF TablesHold, OwnKey, IsTable

LEMMA CallsStay ==
    ASSUME IInv, Moves, UNCHANGED arg, DOMAIN pc' = Calls,
           \A c \in Calls : pc'[c] \in ActedStages => pc'[c] = pc[c]
    PROVE  CallsHold'
<1>1. ASSUME NEW c \in Calls, pc'[c] \in ActedStages
      PROVE  Acted(arg[c].target)'
  <2>1. PICK i \in DOMAIN actions : actions[i].proposal = arg[c].target
    BY <1>1 DEF IInv, CallsHold, ActedStages, Acted
  <2>2. i \in DOMAIN actions' /\ actions'[i] = actions[i]
    BY MovesKeep DEF Kept
  <2> QED
    BY <2>1, <2>2 DEF Acted
<1>2. DOMAIN arg' = Calls
  BY DEF IInv, CallsHold
<1> QED
  BY <1>1, <1>2 DEF CallsHold, ActedStages

\* An execution that stays where it is, starts, stops or is started again.
LEMMA WorkflowStays ==
    ASSUME IInv, Moves, Kept(runs, runs'), NEW v \in Workflows,
           \A i \in DOMAIN actions' : actions'[i].workflow = v => i \in DOMAIN actions,
           ckpt'[v] = ckpt[v], out'[v] = out[v],
           risk'[v] = risk[v] \/ ckpt[v] = 0,
           status'[v] = "absent" => status[v] = "absent",
           (at'[v] = at[v] /\ row'[v] = row[v] /\ risk'[v] = risk[v]) \/ at'[v] \in {"idle", "first"}
    PROVE  WorkflowHolds(v)'
<1>0. /\ Kept(proposals, proposals') /\ Kept(outcomes, outcomes') /\ Kept(actions, actions')
      /\ \A i \in DOMAIN actions : actions'[i] = actions[i]
  BY MovesKeep
<1>1. CheckpointsHold(v) /\ BodyHolds(v) /\ ActionsHold(v) /\ StatusHolds(v) /\ ckpt[v] \in 0 .. 6
  BY DEF IInv, WorkflowHolds, ExecutionsHold
<1>2. CheckpointsHold(v)'
  BY <1>0, <1>1 DEF CheckpointsHold, IsRowOf, Kept, Durable!AutoApproved
<1>3. BodyHolds(v)'
  BY <1>0, <1>1 DEF BodyHolds, IsRowOf, Kept, Durable!Step, Durable!AutoApproved, Durable!Approve
<1>4. ActionsHold(v)'
  BY <1>0, <1>1 DEF ActionsHold, Durable!Proposal
<1>5. StatusHolds(v)'
  BY <1>1 DEF StatusHolds
<1> QED
  BY <1>2, <1>3, <1>4, <1>5 DEF WorkflowHolds

LEMMA SameIsKept == \A table : Kept(table, table)
BY DEF Kept

LEMMA ToolKeeps ==
    ASSUME IInv, NEW c \in Calls, ToolStep(c)
    PROVE  IInv'
<1>1. Moves /\ CallsHold' /\ UNCHANGED workflowVars
  BY ToolMoves
<1>2. TablesHold'
  BY <1>1, TablesStay DEF workflowVars, IInv, TablesHold, OwnKey
<1>3. ExecutionsHold'
  BY <1>1 DEF workflowVars, IInv, ExecutionsHold
<1>4. ASSUME NEW v \in Workflows PROVE WorkflowHolds(v)'
  <2>1. \A i \in DOMAIN actions' : actions'[i].workflow = v => i \in DOMAIN actions
    BY ClientActions, NullAssumption
  <2> QED
    BY <1>1, <2>1, WorkflowStays, SameIsKept DEF workflowVars
<1> QED
  BY <1>1, <1>2, <1>3, <1>4 DEF IInv

-----------------------------------------------------------------------------
(* The bodies of the six steps *)

\* INSERT ... ON CONFLICT DO NOTHING and the SELECT after a conflict: row i is
\* there for w, found or new.
LEMMA OnceAdds ==
    ASSUME NEW old, IsTable(old), NEW new, NEW r, NEW w, r.workflow = w, NEW i,
           \/ new = Append(old, r) /\ i = Len(old) + 1 /\ Durable!RowsOf(old, w) = {}
           \/ new = old /\ i \in Durable!RowsOf(old, w)
    PROVE  /\ Adds(old, new) /\ IsRowOf(new, i, w) /\ i \in Nat
           /\ \A j \in DOMAIN new : j \in DOMAIN old \/ new[j] = r
<1>0. PICK S : old \in Seq(S)
  BY DEF IsTable
<1>1. CASE new = Append(old, r) /\ i = Len(old) + 1 /\ Durable!RowsOf(old, w) = {}
  <2>1. /\ i \in Nat
        /\ DOMAIN new = DOMAIN old \cup {i}
        /\ new[i] = r
    BY <1>0, <1>1, AppendEffect
  <2>2. \A j \in DOMAIN old : old[j].workflow # w
    BY <1>1 DEF Durable!RowsOf
  <2> QED
    BY <1>1, <2>1, <2>2 DEF Adds, IsRowOf
<1>2. CASE new = old /\ i \in Durable!RowsOf(old, w)
  <2>1. i \in DOMAIN old /\ i \in Nat /\ old[i].workflow = w
    BY <1>0, <1>2 DEF Durable!RowsOf
  <2> QED
    BY <1>2, <2>1 DEF Adds, IsRowOf
<1> QED
  BY <1>1, <1>2

LEMMA PositionsAre ==
    {"idle", "first", "second", "return"} = Durable!Positions /\ Durable!NoRow \in Nat
BY DEF Durable!Positions, Durable!NoRow

LEMMA GotoEffect ==
    ASSUME IInv, NEW w \in Workflows, NEW position \in Durable!Positions, NEW r \in Nat,
           Durable!Goto(w, position, r)
    PROVE  /\ ExecutionsHold'
           /\ at'[w] = position /\ row'[w] = r
           /\ \A v \in Workflows \ {w} : at'[v] = at[v] /\ row'[v] = row[v]
           /\ UNCHANGED <<status, risk, ckpt, out>>
BY DEF Durable!Goto, IInv, ExecutionsHold

\* What is recorded when a body of this step runs.
LEMMA RunningAt ==
    ASSUME IInv, NEW w \in Workflows, NEW step \in 1 .. 6, NEW position,
           Durable!Running(w, step, position)
    PROVE  /\ at[w] = position /\ Durable!Step(w) = step
           /\ step # 5 => ckpt[w] = step - 1
           /\ step = 5 => ckpt[w] = 4 \/ (ckpt[w] = 3 /\ ~Durable!AutoApproved(w))
<1>1. ckpt[w] \in 0 .. 6
  BY DEF IInv, ExecutionsHold
<1> QED
  BY <1>1 DEF Durable!Running, Durable!Step, Durable!Approve, Durable!RecordOutcome

\* A body that has come to this position in its step, with a row to return.
LEMMA BodyKeeps ==
    ASSUME IInv, Moves, UNCHANGED toolVars,
           runs' \in Seq(Durable!RunRows), OwnKey(runs'), Kept(runs, runs'),
           NEW w \in Workflows, NEW position \in Durable!Positions, NEW r \in Nat,
           Durable!Goto(w, position, r),
           \A i \in DOMAIN actions' : i \in DOMAIN actions \/ actions'[i].workflow = w,
           BodyHolds(w)', ActionsHold(w)'
    PROVE  IInv'
<1>0. Kept(proposals, proposals') /\ Kept(outcomes, outcomes') /\ Kept(actions, actions')
  BY MovesKeep
<1>1. TablesHold' /\ CallsHold'
  BY TablesStay, CallsStay DEF toolVars, IInv, CallsHold
<1>2. ExecutionsHold'
  BY GotoEffect
<1>3. ASSUME NEW v \in Workflows \ {w} PROVE WorkflowHolds(v)'
  <2>1. /\ ckpt'[v] = ckpt[v] /\ out'[v] = out[v] /\ risk'[v] = risk[v]
        /\ status'[v] = status[v] /\ at'[v] = at[v] /\ row'[v] = row[v]
    BY GotoEffect
  <2>2. \A i \in DOMAIN actions' : actions'[i].workflow = v => i \in DOMAIN actions
    OBVIOUS
  <2> QED
    BY <2>1, <2>2, WorkflowStays
<1>4. WorkflowHolds(w)'
  <2>1. CheckpointsHold(w) /\ StatusHolds(w)
    BY DEF IInv, WorkflowHolds
  <2>2. UNCHANGED <<status, risk, ckpt, out>>
    BY GotoEffect
  <2>3. CheckpointsHold(w)' /\ StatusHolds(w)'
    BY <1>0, <2>1, <2>2 DEF CheckpointsHold, StatusHolds, IsRowOf, Kept, Durable!AutoApproved
  <2> QED
    BY <2>3 DEF WorkflowHolds
<1> QED
  BY <1>1, <1>2, <1>3, <1>4 DEF IInv

\* A body that inserts no action.
LEMMA QuietBodyKeeps ==
    ASSUME IInv, Moves, UNCHANGED toolVars, UNCHANGED actions,
           runs' \in Seq(Durable!RunRows), OwnKey(runs'), Kept(runs, runs'),
           NEW w \in Workflows, NEW position \in Durable!Positions, NEW r \in Nat,
           Durable!Goto(w, position, r), BodyHolds(w)'
    PROVE  IInv'
<1>1. UNCHANGED <<ckpt, out>>
  BY GotoEffect
<1>2. ActionsHold(w)
  BY DEF IInv, WorkflowHolds
<1>3. ActionsHold(w)'
  BY <1>1, <1>2 DEF ActionsHold, Durable!Proposal
<1> QED
  BY <1>3, BodyKeeps

LEMMA RunsStay ==
    ASSUME IInv, UNCHANGED runs
    PROVE  runs' \in Seq(Durable!RunRows) /\ OwnKey(runs') /\ Kept(runs, runs')
BY SameIsKept DEF IInv, TablesHold, OwnKey

\* Where a body stands after a move inside its step.
LEMMA StepStays ==
    ASSUME IInv, UNCHANGED <<ckpt, risk>>, NEW w
    PROVE  Durable!Step(w)' = Durable!Step(w)
BY DEF Durable!Step, Durable!AutoApproved

LEMMA RecordWorkflowRunKeeps ==
    ASSUME IInv, NEW w \in Workflows, Durable!RecordWorkflowRun(w), UNCHANGED toolVars
    PROVE  IInv'
<1> DEFINE r == [workflow |-> w, status |-> "running"]
<1>1. r \in Durable!RunRows /\ r.workflow = w
  BY DEF Durable!RunRows
<1>2. PICK i : /\ \/ runs' = Append(runs, r) /\ i = Len(runs) + 1 /\ Durable!RowsOf(runs, w) = {}
                  \/ runs' = runs /\ i \in Durable!RowsOf(runs, w)
               /\ Durable!Goto(w, "return", i)
  BY DEF Durable!RecordWorkflowRun, Durable!InsertOnce
<1> HIDE DEF r
<1>3. runs \in Seq(Durable!RunRows) /\ IsTable(runs) /\ OwnKey(runs)
  BY DEF IInv, TablesHold, IsTable
<1>4. Adds(runs, runs') /\ IsRowOf(runs', i, w) /\ i \in Nat
  BY <1>1, <1>2, <1>3, OnceAdds
<1>5. runs' \in Seq(Durable!RunRows) /\ OwnKey(runs') /\ Kept(runs, runs')
  <2>1. runs' \in Seq(Durable!RunRows)
    BY <1>1, <1>2, <1>3
  <2> QED
    BY <1>3, <1>4, <2>1, AddsKeeps
<1>6. Moves /\ UNCHANGED actions
  BY StillMoves DEF Durable!RecordWorkflowRun, Durable!tables
<1>7. "return" \in Durable!Positions
  BY PositionsAre
<1>8. BodyHolds(w)'
  <2>1. ckpt[w] = 0 /\ Durable!Step(w) = 1
    BY RunningAt DEF Durable!RecordWorkflowRun, Durable!RecordRun
  <2>2. /\ ckpt'[w] = 0 /\ at'[w] = "return" /\ row'[w] = i
        /\ Durable!Step(w)' = 1
    BY <1>2, <1>4, <1>7, <2>1, GotoEffect, StepStays
  <2> QED
    BY <1>4, <2>2 DEF BodyHolds
<1> QED
  BY <1>2, <1>4, <1>5, <1>6, <1>7, <1>8, QuietBodyKeeps

LEMMA ProposeDecisionKeeps ==
    ASSUME IInv, NEW w \in Workflows, Durable!ProposeDecision(w), UNCHANGED toolVars
    PROVE  IInv'
<1> DEFINE r == [risk |-> risk[w], status |-> "pending", workflow |-> w]
<1>1. r \in ProposalsOK /\ r.workflow = w /\ r.status # "executed"
  BY DEF ProposalsOK, Statuses, IInv, ExecutionsHold
<1>2. PICK i : /\ \/ /\ proposals' = Append(proposals, r) /\ i = Len(proposals) + 1
                     /\ Durable!RowsOf(proposals, w) = {}
                  \/ proposals' = proposals /\ i \in Durable!RowsOf(proposals, w)
               /\ Durable!Goto(w, "return", i)
  BY DEF Durable!ProposeDecision, Durable!InsertOnce, Durable!InsertProposal
<1> HIDE DEF r
<1>3. IsTable(proposals)
  BY DEF IInv, TablesHold, IsTable
<1>4. Adds(proposals, proposals') /\ IsRowOf(proposals', i, w) /\ i \in Nat
  BY <1>1, <1>2, <1>3, OnceAdds
<1>5. UNCHANGED <<approvals, actions, outcomes, runs>>
  BY DEF Durable!ProposeDecision
<1>6. Moves
  <2>1. ProposalsMove
    BY <1>1, <1>2, <1>4 DEF ProposalsMove
  <2> QED
    BY <1>5, <2>1 DEF Moves, VotesMove, Adds
<1>7. "return" \in Durable!Positions
  BY PositionsAre
<1>8. BodyHolds(w)'
  <2>1. ckpt[w] = 1 /\ Durable!Step(w) = 2
    BY RunningAt DEF Durable!ProposeDecision, Durable!Propose
  <2>2. /\ ckpt'[w] = 1 /\ at'[w] = "return" /\ row'[w] = i
        /\ Durable!Step(w)' = 2
    BY <1>2, <1>4, <1>7, <2>1, GotoEffect, StepStays
  <2> QED
    BY <1>4, <2>2 DEF BodyHolds
<1> QED
  BY <1>2, <1>4, <1>5, <1>6, <1>7, <1>8, RunsStay, QuietBodyKeeps

LEMMA ApproveKeeps ==
    ASSUME IInv, NEW w \in Workflows, UNCHANGED toolVars,
           Durable!ApproveInsert(w) \/ Durable!ApproveUpdate(w)
    PROVE  IInv'
<1>1. PICK position \in {"second", "return"} :
         Durable!Goto(w, position, Durable!NoRow) /\ UNCHANGED <<actions, outcomes, runs>>
  BY DEF Durable!ApproveInsert, Durable!ApproveUpdate
<1>2. position \in Durable!Positions /\ Durable!NoRow \in Nat
  BY PositionsAre
<1>3. Moves
  <2>1. CASE Durable!ApproveInsert(w)
    <3>1. /\ \/ UNCHANGED approvals
             \/ /\ ~Durable!HasVoted(Durable!Proposal(w), AutoApprover)
                /\ Durable!InsertApproval(Durable!Proposal(w), AutoApprover, Durable!AutoApproved(w))
          /\ UNCHANGED <<proposals, actions, outcomes>>
      BY <2>1, Zenon DEF Durable!ApproveInsert
    <3> QED
      BY <3>1, StillMoves, VoteMoves
         DEF Durable!HasVoted, Durable!InsertApproval, Tools!HasVoted, Tools!InsertApproval
  <2>2. CASE Durable!ApproveUpdate(w)
    <3>1. PICK s \in {"approved", "rejected"} :
             /\ Tools!SetStatus({Durable!Proposal(w)}, s)
             /\ UNCHANGED <<approvals, actions, outcomes>>
      BY <2>2 DEF Durable!ApproveUpdate, Durable!SetStatus, Tools!SetStatus
    <3> QED
      BY <3>1, StatusMoves, StatusesAre
  <2> QED
    BY <2>1, <2>2
<1>4. BodyHolds(w)'
  <2>1. ckpt[w] = 2 /\ Durable!Step(w) = 3
    BY RunningAt DEF Durable!ApproveInsert, Durable!ApproveUpdate, Durable!Approve
  <2>2. ckpt'[w] = 2 /\ Durable!Step(w)' = 3
    BY <1>1, <1>2, <2>1, GotoEffect, StepStays
  <2> QED
    BY <2>2 DEF BodyHolds
<1> QED
  BY <1>1, <1>2, <1>3, <1>4, RunsStay, QuietBodyKeeps

LEMMA ExecuteInsertKeeps ==
    ASSUME IInv, NEW w \in Workflows, Durable!ExecuteInsert(w), UNCHANGED toolVars
    PROVE  IInv'
<1> DEFINE r == [proposal |-> Durable!Proposal(w), workflow |-> w]
<1>1. r.proposal = Durable!Proposal(w) /\ r.workflow = w
  OBVIOUS
<1>2. PICK i : /\ \/ actions' = Append(actions, r) /\ i = Len(actions) + 1
                     /\ Durable!RowsOf(actions, w) = {}
                  \/ actions' = actions /\ i \in Durable!RowsOf(actions, w)
               /\ Durable!Goto(w, "second", i)
  BY DEF Durable!ExecuteInsert, Durable!InsertOnce, Durable!InsertAction
<1> HIDE DEF r
<1>3. IsTable(actions)
  BY DEF IInv, TablesHold
<1>4. /\ Adds(actions, actions') /\ IsRowOf(actions', i, w) /\ i \in Nat
      /\ \A j \in DOMAIN actions' : j \in DOMAIN actions \/ actions'[j] = r
  BY <1>1, <1>2, <1>3, OnceAdds
<1>5. UNCHANGED <<proposals, approvals, outcomes, runs>>
  BY DEF Durable!ExecuteInsert
<1>6. Moves
  BY <1>4, <1>5 DEF Moves, ProposalsMove, VotesMove, Adds
<1>7. "second" \in Durable!Positions
  BY PositionsAre
<1>8. /\ ckpt[w] = 3 /\ Durable!Step(w) = 4
      /\ ckpt'[w] = 3 /\ Durable!Step(w)' = 4 /\ at'[w] = "second" /\ row'[w] = i
      /\ UNCHANGED <<ckpt, out>>
  <2>1. ckpt[w] = 3 /\ Durable!Step(w) = 4
    BY RunningAt DEF Durable!ExecuteInsert, Durable!Execute
  <2> QED
    BY <1>2, <1>4, <1>7, <2>1, GotoEffect, StepStays
<1>9. BodyHolds(w)'
  BY <1>4, <1>8 DEF BodyHolds
<1>10. ActionsHold(w)'
  <2>1. ActionsHold(w)
    BY DEF IInv, WorkflowHolds
  <2>2. \A j \in DOMAIN actions : actions'[j] = actions[j]
    BY <1>6, MovesKeep
  <2>3. Durable!Proposal(w)' = Durable!Proposal(w)
    BY <1>8 DEF Durable!Proposal
  <2> QED
    BY <1>1, <1>4, <1>8, <2>1, <2>2, <2>3 DEF ActionsHold
<1> QED
  BY <1>1, <1>2, <1>4, <1>6, <1>5, <1>7, <1>9, <1>10, RunsStay, BodyKeeps

LEMMA ExecuteUpdateKeeps ==
    ASSUME IInv, NEW w \in Workflows, Durable!ExecuteUpdate(w), UNCHANGED toolVars
    PROVE  IInv'
<1>1. ckpt[w] = 3 /\ Durable!Step(w) = 4 /\ at[w] = "second"
  BY RunningAt DEF Durable!ExecuteUpdate, Durable!Execute
<1>2. IsRowOf(actions, row[w], w)
  BY <1>1 DEF IInv, WorkflowHolds, BodyHolds
<1>3. Acted(Durable!Proposal(w))
  BY <1>2 DEF IInv, WorkflowHolds, ActionsHold, IsRowOf, Acted
<1>4. /\ Tools!SetStatus({Durable!Proposal(w)}, "executed")
      /\ Durable!Goto(w, "return", row[w])
      /\ UNCHANGED <<approvals, actions, outcomes, runs>>
  BY DEF Durable!ExecuteUpdate, Durable!SetStatus, Tools!SetStatus
<1>5. Moves
  BY <1>3, <1>4, StatusMoves, StatusesAre
<1>6. "return" \in Durable!Positions /\ row[w] \in Nat
  BY PositionsAre DEF IInv, ExecutionsHold
<1>7. /\ ckpt'[w] = 3 /\ Durable!Step(w)' = 4 /\ row'[w] = row[w]
  BY <1>1, <1>4, <1>6, GotoEffect, StepStays
<1>8. BodyHolds(w)'
  BY <1>2, <1>4, <1>7 DEF BodyHolds, IsRowOf
<1> QED
  BY <1>4, <1>5, <1>6, <1>8, RunsStay, QuietBodyKeeps

LEMMA RecordOutcomeRowKeeps ==
    ASSUME IInv, NEW w \in Workflows, Durable!RecordOutcomeRow(w), UNCHANGED toolVars
    PROVE  IInv'
<1> DEFINE r == [key |-> Null, workflow |-> w, cites |-> {Durable!Proposal(w)}]
<1>1. r.workflow = w
  OBVIOUS
<1>2. PICK i : /\ \/ /\ outcomes' = Append(outcomes, r) /\ i = Len(outcomes) + 1
                     /\ Durable!RowsOf(outcomes, w) = {}
                  \/ outcomes' = outcomes /\ i \in Durable!RowsOf(outcomes, w)
               /\ Durable!Goto(w, "return", i)
  BY DEF Durable!RecordOutcomeRow, Durable!InsertOnce, Durable!InsertOutcome
<1> HIDE DEF r
<1>3. IsTable(outcomes)
  BY DEF IInv, TablesHold
<1>4. Adds(outcomes, outcomes') /\ IsRowOf(outcomes', i, w) /\ i \in Nat
  BY <1>1, <1>2, <1>3, OnceAdds
<1>5. UNCHANGED <<proposals, approvals, actions, runs>>
  BY DEF Durable!RecordOutcomeRow
<1>6. Moves
  BY <1>4, <1>5 DEF Moves, ProposalsMove, VotesMove, Adds
<1>7. "return" \in Durable!Positions
  BY PositionsAre
<1>8. BodyHolds(w)'
  <2>1. (ckpt[w] = 3 \/ ckpt[w] = 4) /\ Durable!Step(w) = 5
    BY RunningAt DEF Durable!RecordOutcomeRow, Durable!RecordOutcome
  <2>2. /\ ckpt'[w] = ckpt[w] /\ at'[w] = "return" /\ row'[w] = i
        /\ Durable!Step(w)' = 5
    BY <1>2, <1>4, <1>7, <2>1, GotoEffect, StepStays
  <2> QED
    BY <1>4, <2>1, <2>2 DEF BodyHolds
<1> QED
  BY <1>2, <1>4, <1>5, <1>6, <1>7, <1>8, RunsStay, QuietBodyKeeps

LEMMA CompleteWorkflowRunKeeps ==
    ASSUME IInv, NEW w \in Workflows, Durable!CompleteWorkflowRun(w), UNCHANGED toolVars
    PROVE  IInv'
<1> DEFINE n == out[w][Durable!RecordRun]
<1>1. ckpt[w] = 5 /\ Durable!Step(w) = 6
  BY RunningAt DEF Durable!CompleteWorkflowRun, Durable!CompleteRun
<1>2. /\ runs' = [runs EXCEPT ![n].status = "completed"]
      /\ Durable!Goto(w, "return", Durable!NoRow)
      /\ UNCHANGED <<proposals, approvals, actions, outcomes>>
  BY DEF Durable!CompleteWorkflowRun, Durable!tables
<1> HIDE DEF n
<1>3. runs \in Seq(Durable!RunRows) /\ OwnKey(runs)
  BY DEF IInv, TablesHold
<1>4. runs' \in Seq(Durable!RunRows) /\ OwnKey(runs') /\ Kept(runs, runs')
  <2>1. \A i \in DOMAIN runs : runs[i] \in Durable!RunRows
    BY <1>3
  <2>2. /\ DOMAIN runs' = DOMAIN runs
        /\ \A i \in DOMAIN runs : /\ runs'[i] \in Durable!RunRows
                                  /\ runs'[i].workflow = runs[i].workflow
    BY <1>2, <1>3, <2>1 DEF Durable!RunRows
  <2>3. runs' \in Seq(Durable!RunRows)
    <3>1. DOMAIN runs = 1 .. Len(runs) /\ Len(runs) \in Nat
      BY <1>3
    <3>2. runs' \in [1 .. Len(runs) -> Durable!RunRows]
      BY <1>2, <2>2, <3>1
    <3> QED
      BY <3>1, <3>2
  <2> QED
    BY <1>3, <2>2, <2>3 DEF OwnKey, Kept
<1>5. Moves
  BY <1>2, StillMoves
<1>6. "return" \in Durable!Positions /\ Durable!NoRow \in Nat
  BY PositionsAre
<1>7. BodyHolds(w)'
  <2>1. ckpt'[w] = 5 /\ Durable!Step(w)' = 6
    BY <1>1, <1>2, <1>6, GotoEffect, StepStays
  <2> QED
    BY <2>1 DEF BodyHolds
<1> QED
  BY <1>2, <1>4, <1>5, <1>6, <1>7, QuietBodyKeeps

-----------------------------------------------------------------------------
(* DBOS and the process *)

\* A step that writes to no table.
LEMMA QuietKeeps ==
    ASSUME IInv, UNCHANGED <<proposals, approvals, actions, outcomes, runs>>, UNCHANGED arg,
           DOMAIN pc' = Calls, \A c \in Calls : pc'[c] \in ActedStages => pc'[c] = pc[c],
           ExecutionsHold', \A v \in Workflows : WorkflowHolds(v)'
    PROVE  IInv'
<1>1. Moves /\ runs' \in Seq(Durable!RunRows) /\ OwnKey(runs')
  BY StillMoves, RunsStay
<1> QED
  BY <1>1, TablesStay, CallsStay DEF IInv

LEMMA CheckpointKeeps ==
    ASSUME IInv, NEW w \in Workflows, Durable!Checkpoint(w), UNCHANGED toolVars
    PROVE  IInv'
<1> DEFINE s == Durable!Step(w)
<1>0. /\ CheckpointsHold(w) /\ BodyHolds(w) /\ ActionsHold(w)
      /\ status[w] = "PENDING" /\ at[w] = "return"
      /\ ckpt[w] \in 0 .. 5 /\ out[w] \in [1 .. 6 -> Nat] /\ row[w] \in Nat
  BY DEF Durable!Checkpoint, IInv, WorkflowHolds, BodyHolds, ExecutionsHold
<1>1. /\ s \in 1 .. 6
      /\ s # 5 => ckpt[w] = s - 1
      /\ s = 5 => ckpt[w] = 4 \/ (ckpt[w] = 3 /\ ~Durable!AutoApproved(w))
  BY <1>0 DEF Durable!Step, Durable!Approve, Durable!RecordOutcome
<1>2. /\ UNCHANGED <<proposals, approvals, actions, outcomes, runs, status, risk>>
      /\ ckpt' = [ckpt EXCEPT ![w] = s]
      /\ out' = [out EXCEPT ![w][s] = row[w]]
      /\ row' = [row EXCEPT ![w] = Durable!NoRow]
      /\ at' = [at EXCEPT ![w] = "first"]
  BY DEF Durable!Checkpoint, Durable!tables
<1>3. /\ s = 1 => IsRowOf(runs, row[w], w)
      /\ s = 2 => IsRowOf(proposals, row[w], w)
      /\ s = 4 => IsRowOf(actions, row[w], w)
      /\ s = 5 => IsRowOf(outcomes, row[w], w)
  BY <1>0 DEF BodyHolds
<1> HIDE DEF s
<1>4. /\ ckpt'[w] = s /\ at'[w] = "first"
      /\ out'[w] \in [1 .. 6 -> Nat] /\ out'[w][s] = row[w]
      /\ \A t \in 1 .. 6 : t # s => out'[w][t] = out[w][t]
  BY <1>0, <1>1, <1>2 DEF IInv, ExecutionsHold
<1>5. ASSUME NEW v \in Workflows \ {w}
      PROVE  /\ ckpt'[v] = ckpt[v] /\ out'[v] = out[v] /\ at'[v] = at[v] /\ row'[v] = row[v]
  BY <1>2 DEF IInv, ExecutionsHold
<1>6. ExecutionsHold'
  <2>1. out' \in [Workflows -> [1 .. 6 -> Nat]]
    BY <1>0, <1>1, <1>2 DEF IInv, ExecutionsHold
  <2>2. "first" \in Durable!Positions /\ Durable!NoRow \in Nat
    BY PositionsAre
  <2> QED
    BY <1>1, <1>2, <2>1, <2>2 DEF IInv, ExecutionsHold
<1>7. ASSUME NEW v \in Workflows \ {w} PROVE WorkflowHolds(v)'
  <2>1. Moves /\ Kept(runs, runs')
    BY <1>2, StillMoves, SameIsKept
  <2> QED
    BY <1>2, <1>5, <2>1, WorkflowStays
<1>8. WorkflowHolds(w)'
  <2>1. Durable!AutoApproved(w)' = Durable!AutoApproved(w)
    BY <1>2 DEF Durable!AutoApproved
  <2>2. CheckpointsHold(w)'
    <3>1. ckpt'[w] >= 1 => IsRowOf(runs, out'[w][1], w)
      BY <1>0, <1>1, <1>3, <1>4 DEF CheckpointsHold
    <3>2. ckpt'[w] >= 2 => IsRowOf(proposals, out'[w][2], w)
      BY <1>0, <1>1, <1>3, <1>4 DEF CheckpointsHold
    <3>3. ckpt'[w] >= 4 /\ Durable!AutoApproved(w) => IsRowOf(actions, out'[w][4], w)
      BY <1>0, <1>1, <1>3, <1>4 DEF CheckpointsHold
    <3>4. ckpt'[w] >= 5 => IsRowOf(outcomes, out'[w][5], w)
      BY <1>0, <1>1, <1>3, <1>4 DEF CheckpointsHold
    <3> QED
      BY <1>2, <2>1, <3>1, <3>2, <3>3, <3>4 DEF CheckpointsHold
  <2>3. ActionsHold(w)'
    <3>1. ckpt[w] >= 3 => ckpt'[w] >= 3 /\ Durable!Proposal(w)' = Durable!Proposal(w)
      BY <1>0, <1>1, <1>4 DEF Durable!Proposal, Durable!Propose
    <3> QED
      BY <1>0, <1>2, <3>1 DEF ActionsHold
  <2>4. BodyHolds(w)' /\ StatusHolds(w)'
    BY <1>0, <1>2, <1>4 DEF BodyHolds, StatusHolds
  <2> QED
    BY <2>2, <2>3, <2>4 DEF WorkflowHolds
<1> QED
  BY <1>2, <1>6, <1>7, <1>8, QuietKeeps DEF toolVars, IInv, CallsHold

\* A workflow is started, ends, fails; the process dies or is started again.
LEMMA MovedKeeps ==
    ASSUME IInv, UNCHANGED <<proposals, approvals, actions, outcomes, runs, ckpt, out>>,
           UNCHANGED arg,
           DOMAIN pc' = Calls, \A c \in Calls : pc'[c] \in ActedStages => pc'[c] = pc[c],
           ExecutionsHold',
           \A v \in Workflows :
              /\ risk'[v] = risk[v] \/ ckpt[v] = 0
              /\ status'[v] = "absent" => status[v] = "absent"
              /\ \/ at'[v] = at[v] /\ row'[v] = row[v] /\ risk'[v] = risk[v]
                 \/ at'[v] \in {"idle", "first"}
    PROVE  IInv'
<1>1. Moves /\ Kept(runs, runs')
  BY StillMoves, SameIsKept
<1>2. \A v \in Workflows : WorkflowHolds(v)'
  BY <1>1, WorkflowStays
<1> QED
  BY <1>2, QuietKeeps

LEMMA EndsKeep ==
    ASSUME IInv, NEW w \in Workflows, UNCHANGED toolVars,
           Durable!Succeed(w) \/ Durable!StepThrows(w)
    PROVE  IInv'
<1>1. PICK s, r : /\ s \in Durable!WorkflowStatuses /\ s # "absent"
                  /\ r \in Nat
                  /\ status' = [status EXCEPT ![w] = s]
                  /\ at' = [at EXCEPT ![w] = "idle"]
                  /\ row' = [row EXCEPT ![w] = r]
                  /\ UNCHANGED <<proposals, approvals, actions, outcomes, runs, ckpt, out, risk>>
  <2>1. CASE Durable!Succeed(w)
    <3>1. row' = [row EXCEPT ![w] = row[w]] /\ row[w] \in Nat
      BY <2>1 DEF Durable!Succeed, IInv, ExecutionsHold
    <3> QED
      BY <2>1, <3>1 DEF Durable!Succeed, Durable!tables, Durable!WorkflowStatuses
  <2>2. CASE Durable!StepThrows(w)
    BY <2>2, PositionsAre DEF Durable!StepThrows, Durable!tables, Durable!WorkflowStatuses
  <2> QED
    BY <2>1, <2>2
<1>2. ExecutionsHold'
  BY <1>1, PositionsAre DEF IInv, ExecutionsHold
<1>3. ASSUME NEW v \in Workflows
      PROVE  /\ status'[v] = "absent" => status[v] = "absent"
             /\ risk'[v] = risk[v]
             /\ (at'[v] = at[v] /\ row'[v] = row[v]) \/ at'[v] = "idle"
  BY <1>1 DEF IInv, ExecutionsHold
<1> QED
  BY <1>1, <1>2, <1>3, MovedKeeps DEF toolVars, IInv, CallsHold

LEMMA StartKeeps ==
    ASSUME IInv, NEW w \in Workflows, NEW r \in Risks, Durable!Start(w, r), UNCHANGED toolVars
    PROVE  IInv'
<1>1. /\ status[w] = "absent" /\ ckpt[w] = 0
      /\ status' = [status EXCEPT ![w] = "PENDING"]
      /\ risk' = [risk EXCEPT ![w] = r]
      /\ at' = [at EXCEPT ![w] = "first"]
      /\ UNCHANGED <<proposals, approvals, actions, outcomes, runs, ckpt, out, row>>
  BY DEF Durable!Start, Durable!tables, IInv, WorkflowHolds, StatusHolds
<1>2. ExecutionsHold'
  BY <1>1, PositionsAre DEF IInv, ExecutionsHold, AllRisks, Durable!WorkflowStatuses
<1>3. ASSUME NEW v \in Workflows
      PROVE  /\ status'[v] = "absent" => status[v] = "absent"
             /\ risk'[v] = risk[v] \/ ckpt[v] = 0
             /\ (at'[v] = at[v] /\ row'[v] = row[v] /\ risk'[v] = risk[v]) \/ at'[v] = "first"
  BY <1>1 DEF IInv, ExecutionsHold
<1> QED
  BY <1>1, <1>2, <1>3, MovedKeeps DEF toolVars, IInv, CallsHold

LEMMA CrashKeeps == ASSUME IInv, Crash PROVE IInv'
<1>1. /\ at' = [w \in Workflows |-> "idle"]
      /\ row' = [w \in Workflows |-> Durable!NoRow]
      /\ UNCHANGED <<proposals, approvals, actions, outcomes, runs, status, risk, ckpt, out, arg>>
  BY DEF Crash, Durable!Crash, Durable!tables, Durable!durable
<1>2. DOMAIN pc' = Calls /\ \A c \in Calls : pc'[c] \in ActedStages => pc'[c] = pc[c]
  BY DEF Crash, ActedStages
<1>3. ExecutionsHold'
  BY <1>1, PositionsAre DEF IInv, ExecutionsHold
<1> QED
  BY <1>1, <1>2, <1>3, MovedKeeps

LEMMA LaunchKeeps == ASSUME IInv, Launch PROVE IInv'
<1>1. /\ at' = [w \in Workflows |-> Durable!Resumed(w)]
      /\ UNCHANGED <<proposals, approvals, actions, outcomes, runs, status, risk, ckpt, out, row>>
      /\ UNCHANGED toolVars
  BY DEF Launch, Durable!Launch, Durable!tables, Durable!durable
<1>2. \A w : Durable!Resumed(w) \in {"idle", "first"}
  BY DEF Durable!Resumed
<1>3. ExecutionsHold'
  BY <1>1, <1>2, PositionsAre DEF IInv, ExecutionsHold
<1> QED
  BY <1>1, <1>2, <1>3, MovedKeeps DEF toolVars, IInv, CallsHold

LEMMA WorkflowKeeps ==
    ASSUME IInv, NEW w \in Workflows, WorkflowStep(w)
    PROVE  IInv'
<1>1. UNCHANGED toolVars
  BY DEF WorkflowStep
<1> QED
  BY <1>1, RecordWorkflowRunKeeps, ProposeDecisionKeeps, ApproveKeeps, ExecuteInsertKeeps,
     ExecuteUpdateKeeps, RecordOutcomeRowKeeps, CompleteWorkflowRunKeeps, CheckpointKeeps,
     EndsKeep, StartKeeps
     DEF WorkflowStep, Durable!Progress

LEMMA StutterKeeps == ASSUME IInv, UNCHANGED vars PROVE IInv'
<1>1. /\ UNCHANGED <<proposals, approvals, actions, outcomes, runs, ckpt, out>>
      /\ UNCHANGED <<arg, pc, risk, status, at, row>>
  BY DEF vars
<1>2. ExecutionsHold'
  BY <1>1 DEF IInv, ExecutionsHold
<1> QED
  BY <1>1, <1>2, MovedKeeps DEF IInv, CallsHold

-----------------------------------------------------------------------------
(* The theorems *)

\* With tool calls and workflows on the same rows, in any interleaving and
\* across crashes, what each process is about to build on stays there.
THEOREM SystemInvariant == Spec => []IInv
<1>1. Init => IInv
  BY Begins
<1>2. ASSUME IInv, [Next]_vars PROVE IInv'
  BY <1>2, ToolKeeps, WorkflowKeeps, CrashKeeps, LaunchKeeps, StutterKeeps DEF Next
<1>3. IInv /\ [Next]_vars => IInv'
  BY <1>2
<1> QED
  BY <1>1, <1>3, PTL DEF Spec

\* A proposal stands executed only with an action, whoever set the status: a
\* client, a workflow, or a body that runs again.
THEOREM ExecutionsHaveActions == Spec => []ExecutedHasAction
<1>1. IInv => ExecutedHasAction
  BY DEF IInv, TablesHold
<1> QED
  BY <1>1, SystemInvariant, PTL

LEMMA OneRowEach ==
    ASSUME NEW table, OwnKey(table), NEW w \in Workflows
    PROVE  Durable!AtMostOne(Durable!RowsOf(table, w))
BY NullAssumption DEF OwnKey, Durable!AtMostOne, Durable!RowsOf

\* A workflow has at most one row per table and recovers with the rows of its
\* own, whatever clients write to its proposal, also as the approver "auto".
THEOREM WorkflowRowsStayOnce == Spec => []WorkflowRowsOnce
<1>1. IInv => Durable!OneRowPerTable
  <2> SUFFICES ASSUME IInv, NEW w \in Workflows
               PROVE  /\ Durable!AtMostOne(Durable!RowsOf(runs, w))
                      /\ Durable!AtMostOne(Durable!RowsOf(proposals, w))
                      /\ Durable!AtMostOne({i \in Durable!VotesOn(w) : approvals[i].by = AutoApprover})
                      /\ Durable!AtMostOne(Durable!RowsOf(actions, w))
                      /\ Durable!AtMostOne(Durable!RowsOf(outcomes, w))
    BY DEF Durable!OneRowPerTable
  <2>1. /\ Durable!AtMostOne(Durable!RowsOf(runs, w))
        /\ Durable!AtMostOne(Durable!RowsOf(proposals, w))
        /\ Durable!AtMostOne(Durable!RowsOf(actions, w))
        /\ Durable!AtMostOne(Durable!RowsOf(outcomes, w))
    BY OneRowEach DEF IInv, TablesHold
  <2>2. Durable!AtMostOne({i \in Durable!VotesOn(w) : approvals[i].by = AutoApprover})
    BY <2>1 DEF IInv, TablesHold, VotesHold, Durable!AtMostOne, Durable!VotesOn
  <2> QED
    BY <2>1, <2>2
<1>2. IInv => Durable!CheckpointsNameOwnRows
  <2> SUFFICES ASSUME IInv, NEW w \in Workflows
               PROVE  /\ ckpt[w] >= 1 => out[w][1] \in Durable!RowsOf(runs, w)
                      /\ ckpt[w] >= 2 => out[w][2] \in Durable!RowsOf(proposals, w)
                      /\ ckpt[w] >= 4 /\ Durable!AutoApproved(w) =>
                            out[w][4] \in Durable!RowsOf(actions, w)
                      /\ ckpt[w] >= 5 => out[w][5] \in Durable!RowsOf(outcomes, w)
    BY DEF Durable!CheckpointsNameOwnRows, Durable!RecordRun, Durable!Propose, Durable!Execute,
           Durable!RecordOutcome
  <2> QED
    BY DEF IInv, WorkflowHolds, CheckpointsHold, IsRowOf, Durable!RowsOf
<1> QED
  BY <1>1, <1>2, SystemInvariant, PTL DEF WorkflowRowsOnce

\* Nor is there ever a second vote of one approver on one proposal, when a
\* client that votes as "auto" and the workflow's own vote race.
THEOREM VotesStaySingle == Spec => []VoteOnce
<1>1. IInv => VoteOnce
  BY DEF IInv, TablesHold, VotesHold, VoteOnce, Tools!VoteOnce
<1> QED
  BY <1>1, SystemInvariant, PTL
===============================================================================
