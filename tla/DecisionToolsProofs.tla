------------------------- MODULE DecisionToolsProofs -------------------------
(***************************************************************************)
(* Proofs about DecisionTools, for any number of calls, principals, risk     *)
(* class settings, permissions and failures.                                *)
(***************************************************************************)
EXTENDS DecisionTools, FiniteSetTheorems, TLAPS

-----------------------------------------------------------------------------
(* The statements on the tables *)

\* What an UPDATE of the status column changes, and that it changes no more.
LEMMA SetStatusEffect ==
    ASSUME proposals \in Seq(ProposalRows), NEW ids, NEW s \in Statuses,
           SetStatus(ids, s)
    PROVE  /\ proposals' \in Seq(ProposalRows)
           /\ DOMAIN proposals' = DOMAIN proposals
           /\ \A p \in DOMAIN proposals :
                 /\ proposals'[p].risk = proposals[p].risk
                 /\ proposals'[p].status = IF p \in ids THEN s ELSE proposals[p].status
<1> DEFINE rows == [i \in DOMAIN proposals |->
                      IF i \in ids THEN [proposals[i] EXCEPT !.status = s]
                                   ELSE proposals[i]]
<1>1. \A i \in DOMAIN proposals : proposals[i] \in ProposalRows
  OBVIOUS
<1>2. \A i \in DOMAIN proposals : rows[i] \in ProposalRows
  BY <1>1 DEF ProposalRows
<1>3. rows \in Seq(ProposalRows) /\ DOMAIN rows = DOMAIN proposals
  <2>1. DOMAIN proposals = 1 .. Len(proposals) /\ Len(proposals) \in Nat
    OBVIOUS
  <2>2. rows \in [1 .. Len(proposals) -> ProposalRows]
    BY <1>2, <2>1
  <2> QED
    BY <2>1, <2>2
<1>4. \A p \in DOMAIN proposals :
         /\ rows[p].risk = proposals[p].risk
         /\ rows[p].status = IF p \in ids THEN s ELSE proposals[p].status
  BY <1>1 DEF ProposalRows
<1>5. proposals' = rows
  BY DEF SetStatus
<1> QED
  BY <1>3, <1>4, <1>5

\* What an INSERT adds to a table: rows keep their place.
LEMMA AppendEffect ==
    ASSUME NEW S, NEW table \in Seq(S), NEW r \in S
    PROVE  LET new == Append(table, r)
           IN /\ new \in Seq(S)
              /\ DOMAIN new = DOMAIN table \cup {Len(table) + 1}
              /\ \A i \in DOMAIN table : new[i] = table[i]
              /\ new[Len(table) + 1] = r
              /\ Len(table) + 1 \notin DOMAIN table
  OBVIOUS

LEMMA InsertProposalEffect ==
    ASSUME proposals \in Seq(ProposalRows), NEW risk \in RiskClasses,
           NEW s \in Statuses, NEW w \in Workflows \cup {Null},
           InsertProposal(risk, s, w)
    PROVE  /\ proposals' \in Seq(ProposalRows)
           /\ DOMAIN proposals' = DOMAIN proposals \cup {Len(proposals) + 1}
           /\ \A p \in DOMAIN proposals : proposals'[p] = proposals[p]
           /\ proposals'[Len(proposals) + 1].risk = risk
           /\ proposals'[Len(proposals) + 1].status = s
           /\ Len(proposals) + 1 \notin DOMAIN proposals
<1> DEFINE r == [risk |-> risk, status |-> s, workflow |-> w]
<1>1. r \in ProposalRows
  BY DEF ProposalRows
<1>2. r.risk = risk /\ r.status = s
  OBVIOUS
<1>3. proposals' = Append(proposals, r)
  BY DEF InsertProposal
<1> HIDE DEF r
<1> QED
  BY <1>1, <1>2, <1>3, AppendEffect

LEMMA InsertApprovalEffect ==
    ASSUME approvals \in Seq(ApprovalRows), NEW p \in Nat, NEW by \in Principals,
           NEW v \in BOOLEAN, InsertApproval(p, by, v)
    PROVE  /\ approvals' \in Seq(ApprovalRows)
           /\ DOMAIN approvals' = DOMAIN approvals \cup {Len(approvals) + 1}
           /\ \A i \in DOMAIN approvals : approvals'[i] = approvals[i]
           /\ approvals'[Len(approvals) + 1] = [proposal |-> p, by |-> by, approved |-> v]
           /\ Len(approvals) + 1 \notin DOMAIN approvals
<1>1. [proposal |-> p, by |-> by, approved |-> v] \in ApprovalRows
  BY DEF ApprovalRows
<1> QED
  BY <1>1, AppendEffect DEF InsertApproval

LEMMA InsertActionEffect ==
    ASSUME actions \in Seq(ActionRows), NEW p \in Nat,
           NEW w \in Workflows \cup {Null}, InsertAction(p, w)
    PROVE  /\ actions' \in Seq(ActionRows)
           /\ DOMAIN actions' = DOMAIN actions \cup {Len(actions) + 1}
           /\ \A i \in DOMAIN actions : actions'[i] = actions[i]
           /\ actions'[Len(actions) + 1] = [proposal |-> p, workflow |-> w]
           /\ Len(actions) + 1 \notin DOMAIN actions
<1>1. [proposal |-> p, workflow |-> w] \in ActionRows
  BY DEF ActionRows
<1> QED
  BY <1>1, AppendEffect DEF InsertAction

LEMMA InsertOutcomeType ==
    ASSUME outcomes \in Seq(OutcomeRows), NEW key \in Keys \cup {Null},
           NEW w \in Workflows \cup {Null}, NEW cites \in SUBSET Nat,
           InsertOutcome(key, w, cites)
    PROVE  outcomes' \in Seq(OutcomeRows)
<1>1. [key |-> key, workflow |-> w, cites |-> cites] \in OutcomeRows
  BY DEF OutcomeRows
<1> QED
  BY <1>1, AppendEffect DEF InsertOutcome

-----------------------------------------------------------------------------
(* Types *)

USE NullAssumption, ToolAssumptions

LEMMA NoArgType == NoArg \in Args
  BY DEF NoArg, Args

\* Setting fields of what a call holds.
LEMMA FieldTypes ==
    ASSUME NEW a \in Args
    PROVE  /\ \A p \in Nat : [a EXCEPT !.target = p] \in Args
           /\ \A by \in Principals : [a EXCEPT !.who = by] \in Args
           /\ \A v \in BOOLEAN : [a EXCEPT !.verdict = v] \in Args
           /\ \A k \in Keys : [a EXCEPT !.key = k] \in Args
           /\ \A C \in SUBSET Nat : [a EXCEPT !.cites = C] \in Args
           /\ \A o \in Nat : [a EXCEPT !.outcome = o] \in Args
<1>1. \A p \in Nat : [a EXCEPT !.target = p] \in Args
  BY DEF Args
<1>2. \A by \in Principals : [a EXCEPT !.who = by] \in Args
  BY DEF Args
<1>3. \A v \in BOOLEAN : [a EXCEPT !.verdict = v] \in Args
  BY DEF Args
<1>4. \A k \in Keys : [a EXCEPT !.key = k] \in Args
  BY DEF Args
<1>5. \A C \in SUBSET Nat : [a EXCEPT !.cites = C] \in Args
  BY DEF Args
<1>6. \A o \in Nat : [a EXCEPT !.outcome = o] \in Args
  BY DEF Args
<1> QED
  BY <1>1, <1>2, <1>3, <1>4, <1>5, <1>6

LEMMA InitType == Init => TypeOK
  BY NoArgType
  DEF Init, TypeOK, EmptyTables, TablesOK, Stages, ProposalRows, ApprovalRows,
      ActionRows, OutcomeRows

\* What a call holds is of the type of Args whatever it puts in a field.
LEMMA HoldType ==
    ASSUME arg \in [Calls -> Args], NEW c \in Calls, NEW a \in Args, Hold(c, a)
    PROVE  arg' \in [Calls -> Args]
  BY DEF Hold

LEMMA GotoType ==
    ASSUME pc \in [Calls -> Stages], NEW c \in Calls, NEW stage \in Stages,
           Goto(c, stage)
    PROVE  pc' \in [Calls -> Stages]
  BY DEF Goto

LEMMA ControlType ==
    ASSUME TypeOK, NEW c \in Calls, Return(c) \/ Throw(c)
    PROVE  pc' \in [Calls -> Stages] /\ arg' \in [Calls -> Args]
<1>1. CASE Return(c)
  BY <1>1, NoArgType, HoldType, GotoType DEF TypeOK, Return, Stages
<1>2. CASE Throw(c)
  BY <1>2, GotoType DEF TypeOK, Throw, Stages
<1> QED
  BY <1>1, <1>2

\* The arrival of a call keeps the types.
LEMMA ArrivesType ==
    ASSUME TypeOK, NEW c \in Calls, Arrives(c)
    PROVE  TypeOK'
<1> USE DEF TypeOK, TablesOK
<1>1. ASSUME NEW risk \in Risks, NEW valid \in BOOLEAN, ProposeDecision(c, risk, valid)
      PROVE  TypeOK'
  <2>1. proposals' \in Seq(ProposalRows)
    <3>1. CASE valid
      <4>1. InsertProposal(risk, "pending", Null)
        BY <1>1, <3>1 DEF ProposeDecision
      <4> QED
        BY <4>1, InsertProposalEffect DEF Statuses
    <3>2. CASE ~valid
      BY <1>1, <3>2 DEF ProposeDecision
    <3> QED
      BY <3>1, <3>2
  <2> QED
    BY <1>1, <2>1, ControlType DEF ProposeDecision
<1>2. ASSUME NEW p \in NamedIds, NEW by \in Principals, NEW verdict \in BOOLEAN,
             ApproveCheck(c, p, by, verdict)
      PROVE  TypeOK'
  <2>1. [NoArg EXCEPT !.target = p, !.who = by, !.verdict = verdict] \in Args
    <3>1. p \in Nat
      BY DEF NamedIds
    <3>2. [NoArg EXCEPT !.target = p] \in Args
      BY <3>1, NoArgType, FieldTypes
    <3>3. [[NoArg EXCEPT !.target = p] EXCEPT !.who = by] \in Args
      BY <3>2, FieldTypes
    <3> QED
      BY <3>3, FieldTypes
  <2>2. pc' \in [Calls -> Stages] /\ arg' \in [Calls -> Args]
    <3>1. CASE Approvable(p, by)
      BY <1>2, <2>1, <3>1, HoldType, GotoType DEF ApproveCheck, Stages
    <3>2. CASE ~Approvable(p, by)
      BY <1>2, <3>2, ControlType DEF ApproveCheck
    <3> QED
      BY <3>1, <3>2
  <2> QED
    BY <1>2, <2>2 DEF ApproveCheck, tables
<1>3. ASSUME NEW p \in NamedIds, NEW by \in Principals, ExecuteCheck(c, p, by)
      PROVE  TypeOK'
  <2>1. [NoArg EXCEPT !.target = p] \in Args
    BY NoArgType, FieldTypes DEF NamedIds
  <2>2. pc' \in [Calls -> Stages] /\ arg' \in [Calls -> Args]
    <3>1. CASE Executable(p, by)
      BY <1>3, <2>1, <3>1, HoldType, GotoType DEF ExecuteCheck, Stages
    <3>2. CASE ~Executable(p, by)
      BY <1>3, <3>2, ControlType DEF ExecuteCheck
    <3> QED
      BY <3>1, <3>2
  <2> QED
    BY <1>3, <2>2 DEF ExecuteCheck, tables
<1>4. ASSUME NEW agent \in Principals, NEW risk \in Risks, ActionPropose(c, agent, risk)
      PROVE  TypeOK'
  <2>2. [NoArg EXCEPT !.target = Len(proposals) + 1] \in Args
    <3>1. Len(proposals) + 1 \in Nat
      OBVIOUS
    <3> QED
      BY <3>1, NoArgType, FieldTypes
  <2>3. CASE ~MayPropose(agent, risk)
    BY <1>4, <2>3, ControlType DEF ActionPropose
  <2>4. CASE MayPropose(agent, risk) /\ risk \in AutoRisks
    <3>1. proposals' \in Seq(ProposalRows)
      BY <1>4, <2>4, InsertProposalEffect DEF ActionPropose, Statuses
    <3>2. pc' \in [Calls -> Stages] /\ arg' \in [Calls -> Args]
      BY <1>4, <2>2, <2>4, HoldType, GotoType DEF ActionPropose, Stages
    <3> QED
      BY <1>4, <3>1, <3>2 DEF ActionPropose
  <2>5. CASE MayPropose(agent, risk) /\ risk \notin AutoRisks
    <3>1. proposals' \in Seq(ProposalRows)
      BY <1>4, <2>5, InsertProposalEffect DEF ActionPropose, Statuses
    <3> QED
      BY <1>4, <2>5, <3>1, ControlType DEF ActionPropose
  <2> QED
    BY <2>3, <2>4, <2>5
<1>5. ASSUME NEW key \in Keys, NEW cites \in SUBSET NamedIds, OutcomeCheck(c, key, cites)
      PROVE  TypeOK'
  <2>1. [NoArg EXCEPT !.key = key, !.cites = cites] \in Args
    <3>1. cites \in SUBSET Nat
      BY DEF NamedIds
    <3>2. [NoArg EXCEPT !.key = key] \in Args
      BY NoArgType, FieldTypes
    <3> QED
      BY <3>1, <3>2, FieldTypes
  <2>2. pc' \in [Calls -> Stages] /\ arg' \in [Calls -> Args]
    <3>1. CASE \A p \in cites : Exists(p)
      BY <1>5, <2>1, <3>1, HoldType, GotoType DEF OutcomeCheck, Stages
    <3>2. CASE ~(\A p \in cites : Exists(p))
      BY <1>5, <3>2, ControlType DEF OutcomeCheck
    <3> QED
      BY <3>1, <3>2
  <2> QED
    BY <1>5, <2>2 DEF OutcomeCheck, tables
<1> QED
  BY <1>1, <1>2, <1>3, <1>4, <1>5 DEF Arrives

LEMMA ArgFieldTypes ==
    ASSUME TypeOK, NEW c \in Calls
    PROVE  /\ arg[c] \in Args
           /\ arg[c].target \in Nat
           /\ arg[c].who \in Principals \cup {Null}
           /\ arg[c].verdict \in BOOLEAN
           /\ arg[c].key \in Keys \cup {Null}
           /\ arg[c].cites \in SUBSET Nat
           /\ arg[c].outcome \in Nat
<1>1. arg[c] \in Args
  BY DEF TypeOK
<1> QED
  BY <1>1 DEF Args

LEMMA DecisionType == \A v \in BOOLEAN : Decision(v) \in Statuses
  BY DEF Decision, Statuses

\* A later statement of a call keeps the types; a call that is about to insert
\* a vote holds a voter.
LEMMA ContinuesType ==
    ASSUME TypeOK, NEW c \in Calls, Continues(c) \/ CallFails(c),
           pc[c] = "approve_insert" => arg[c].who \in Principals
    PROVE  TypeOK'
<1> USE DEF TypeOK, TablesOK
<1> USE ArgFieldTypes
<1>1. CASE ApproveInsert(c)
  <2>1. CASE HasVoted(arg[c].target, arg[c].who)
    BY <1>1, <2>1, ControlType DEF ApproveInsert
  <2>2. CASE ~HasVoted(arg[c].target, arg[c].who)
    <3>1. InsertApproval(arg[c].target, arg[c].who, arg[c].verdict)
      BY <1>1, <2>2 DEF ApproveInsert
    <3>2. approvals' \in Seq(ApprovalRows)
      <4>1. arg[c].who \in Principals
        BY <1>1 DEF ApproveInsert
      <4>2. arg[c].target \in Nat /\ arg[c].verdict \in BOOLEAN
        OBVIOUS
      <4>3. [proposal |-> arg[c].target, by |-> arg[c].who,
             approved |-> arg[c].verdict] \in ApprovalRows
        BY <4>1, <4>2 DEF ApprovalRows
      <4> QED
        BY <3>1, <4>3, AppendEffect DEF InsertApproval
    <3>3. pc' \in [Calls -> Stages]
      BY <1>1, <2>2, GotoType DEF ApproveInsert, Stages
    <3> QED
      BY <1>1, <2>2, <3>2, <3>3 DEF ApproveInsert
  <2> QED
    BY <2>1, <2>2
<1>2. CASE ApproveUpdate(c)
  <2>1. proposals' \in Seq(ProposalRows)
    BY <1>2, SetStatusEffect, DecisionType DEF ApproveUpdate
  <2> QED
    BY <1>2, <2>1, ControlType DEF ApproveUpdate
<1>3. CASE ExecuteInsert(c)
  <2>1. actions' \in Seq(ActionRows)
    BY <1>3, InsertActionEffect DEF ExecuteInsert
  <2>2. pc' \in [Calls -> Stages]
    BY <1>3, GotoType DEF ExecuteInsert, Stages
  <2> QED
    BY <1>3, <2>1, <2>2 DEF ExecuteInsert
<1>4. CASE ExecuteUpdate(c)
  <2>1. proposals' \in Seq(ProposalRows)
    BY <1>4, SetStatusEffect DEF ExecuteUpdate, Statuses
  <2> QED
    BY <1>4, <2>1, ControlType DEF ExecuteUpdate
<1>5. CASE AutoApproval(c)
  <2>1. CASE HasVoted(arg[c].target, AutoApprover)
    BY <1>5, <2>1, ControlType DEF AutoApproval
  <2>2. CASE ~HasVoted(arg[c].target, AutoApprover)
    <3>1. InsertApproval(arg[c].target, AutoApprover, TRUE)
      BY <1>5, <2>2 DEF AutoApproval
    <3>2. approvals' \in Seq(ApprovalRows)
      BY <3>1, InsertApprovalEffect
    <3>3. pc' \in [Calls -> Stages]
      BY <1>5, <2>2, GotoType DEF AutoApproval, Stages
    <3> QED
      BY <1>5, <2>2, <3>2, <3>3 DEF AutoApproval
  <2> QED
    BY <2>1, <2>2
<1>6. CASE AutoAction(c)
  <2>1. actions' \in Seq(ActionRows)
    BY <1>6, InsertActionEffect DEF AutoAction
  <2>2. pc' \in [Calls -> Stages]
    BY <1>6, GotoType DEF AutoAction, Stages
  <2> QED
    BY <1>6, <2>1, <2>2 DEF AutoAction
<1>7. CASE AutoUpdate(c)
  <2>1. proposals' \in Seq(ProposalRows)
    BY <1>7, SetStatusEffect DEF AutoUpdate, Statuses
  <2>2. pc' \in [Calls -> Stages]
    BY <1>7, GotoType DEF AutoUpdate, Stages
  <2> QED
    BY <1>7, <2>1, <2>2 DEF AutoUpdate
<1>8. CASE AutoStats(c)
  <2>1. autonomy' \in [RiskClasses -> Nat]
    <3> DEFINE r == proposals[arg[c].target].risk
    <3>1. autonomy' = [autonomy EXCEPT ![r] = @ + 1]
      BY <1>8 DEF AutoStats
    <3> HIDE DEF r
    <3>2. CASE r \in RiskClasses
      BY <3>1, <3>2
    <3>3. CASE r \notin RiskClasses
      BY <3>1, <3>3
    <3> QED
      BY <3>2, <3>3
  <2> QED
    BY <1>8, <2>1, ControlType DEF AutoStats, tables
<1>9. CASE OutcomeInsert(c)
  <2>1. pc' \in [Calls -> Stages]
    BY <1>9, GotoType DEF OutcomeInsert, Stages
  <2>2. CASE OutcomeWithKey(arg[c].key) = {}
    <3>1. InsertOutcome(arg[c].key, Null, arg[c].cites)
      BY <1>9, <2>2 DEF OutcomeInsert
    <3>2. outcomes' \in Seq(OutcomeRows)
      BY <3>1, InsertOutcomeType
    <3>3. Len(outcomes) + 1 \in Nat
      OBVIOUS
    <3>4. arg' \in [Calls -> Args]
      BY <1>9, <2>2, <3>3, HoldType, FieldTypes DEF OutcomeInsert
    <3> QED
      BY <1>9, <2>1, <3>2, <3>4 DEF OutcomeInsert
  <2>3. CASE OutcomeWithKey(arg[c].key) # {}
    <3>1. PICK i \in OutcomeWithKey(arg[c].key) :
             Hold(c, [arg[c] EXCEPT !.outcome = i]) /\ UNCHANGED outcomes
      BY <1>9, <2>3 DEF OutcomeInsert
    <3>2. i \in Nat
      BY DEF OutcomeWithKey
    <3>3. arg' \in [Calls -> Args]
      BY <3>1, <3>2, HoldType, FieldTypes
    <3> QED
      BY <1>9, <2>1, <3>1, <3>3 DEF OutcomeInsert
  <2> QED
    BY <2>2, <2>3
<1>10. CASE OutcomeUpdate(c)
  <2>1. proposals' \in Seq(ProposalRows)
    BY <1>10, SetStatusEffect DEF OutcomeUpdate, Statuses
  <2>2. pc' \in [Calls -> Stages]
    BY <1>10, GotoType DEF OutcomeUpdate, Stages
  <2> QED
    BY <1>10, <2>1, <2>2 DEF OutcomeUpdate
<1>11. CASE OutcomeMemory(c)
  <2>1. memories' \in Seq(Nat)
    <3>1. arg[c].outcome \in Nat
      OBVIOUS
    <3>2. Append(memories, arg[c].outcome) \in Seq(Nat)
      BY <3>1
    <3> QED
      BY <1>11, <3>2 DEF OutcomeMemory
  <2> QED
    BY <1>11, <2>1, ControlType DEF OutcomeMemory, tables
<1>12. CASE CallFails(c)
  BY <1>12, ControlType DEF CallFails, tables
<1> QED
  BY <1>1, <1>2, <1>3, <1>4, <1>5, <1>6, <1>7, <1>8, <1>9, <1>10, <1>11, <1>12
  DEF Continues

-----------------------------------------------------------------------------
(***************************************************************************)
(* The inductive invariant.  VoteBeforeEffect and StatusHasEvidence are not  *)
(* inductive alone: a call writes what an earlier statement of it found out, *)
(* possibly long ago.  Backed says that what it found out still holds.       *)
(***************************************************************************)

Safe == VoteBeforeEffect /\ StatusHasEvidence /\ ActionsNameProposals

IInv == TypeOK /\ Safe /\ HandlersBacked

-----------------------------------------------------------------------------
(* What any step leaves in place: rows, and the risk class of a proposal. *)

Grows ==
    /\ \A p \in DOMAIN proposals :
          /\ p \in DOMAIN proposals'
          /\ proposals'[p].risk = proposals[p].risk
          /\ proposals[p].status # "pending" => proposals'[p].status # "pending"
    /\ \A i \in DOMAIN approvals :
          i \in DOMAIN approvals' /\ approvals'[i] = approvals[i]
    /\ \A i \in DOMAIN actions :
          i \in DOMAIN actions' /\ actions'[i] = actions[i]

LEMMA GrowsKeeps ==
    ASSUME Grows, NEW p
    PROVE  /\ Approved(p) => Approved(p)'
           /\ Rejected(p) => Rejected(p)'
           /\ Acted(p) => Acted(p)'
  BY DEF Grows, Approved, Rejected, Acted

LEMMA OthersBacked ==
    ASSUME Grows, NEW d \in Calls, Backed(d), pc'[d] = pc[d], arg'[d] = arg[d]
    PROVE  Backed(d)'
<1>1. Approved(arg[d].target) => Approved(arg[d].target)'
  BY GrowsKeeps
<1>2. Acted(arg[d].target) => Acted(arg[d].target)'
  BY GrowsKeeps
<1>3. (pc[d] = "approve_insert" =>
          /\ arg[d].who \in Principals
          /\ MayApprove(arg[d].who, proposals[arg[d].target].risk))'
  BY DEF Backed, Grows, TargetStages, MayApprove
<1>4. (pc[d] \in TargetStages => arg[d].target \in DOMAIN proposals)'
  BY DEF Backed, Grows, TargetStages
<1>5. (pc[d] = "approve_update" =>
          \E i \in DOMAIN approvals : /\ approvals[i].proposal = arg[d].target
                                      /\ approvals[i].approved = arg[d].verdict)'
  BY DEF Backed, Grows
<1>6. (pc[d] = "execute_insert" =>
          proposals[arg[d].target].risk \in AutoRisks \/ Approved(arg[d].target))'
  BY <1>1 DEF Backed, Grows, TargetStages, Approved
<1>7. (pc[d] \in AutoStages =>
          /\ proposals[arg[d].target].risk \in AutoRisks
          /\ proposals[arg[d].target].status # "pending")'
  BY DEF Backed, Grows, TargetStages, AutoStages
<1>8. (pc[d] \in {"execute_update", "auto_update"} => Acted(arg[d].target))'
  BY <1>2 DEF Backed, Acted
<1> QED
  BY <1>3, <1>4, <1>5, <1>6, <1>7, <1>8 DEF Backed

-----------------------------------------------------------------------------
(* What each kind of statement does to Safe. *)

LEMMA SafeWithoutWrite ==
    ASSUME Safe, UNCHANGED <<proposals, approvals, actions>>
    PROVE  Grows /\ Safe'
  BY DEF Grows, Safe, VoteBeforeEffect, StatusHasEvidence, ActionsNameProposals,
         Approved, Rejected, Acted

\* A new proposal has no action yet (ActionsNameProposals), so that only one that is
\* inserted as approved needs to be of an automatic risk class.
LEMMA SafeByProposal ==
    ASSUME TypeOK, Safe, NEW risk \in RiskClasses, NEW s \in {"pending", "approved"},
           s = "approved" => risk \in AutoRisks,
           InsertProposal(risk, s, Null), UNCHANGED <<approvals, actions>>
    PROVE  Grows /\ Safe'
<1> DEFINE n == Len(proposals) + 1
<1>1. /\ DOMAIN proposals' = DOMAIN proposals \cup {n}
      /\ \A p \in DOMAIN proposals : proposals'[p] = proposals[p]
      /\ proposals'[n].risk = risk
      /\ proposals'[n].status = s
      /\ n \notin DOMAIN proposals
  <2>1. proposals \in Seq(ProposalRows) /\ s \in Statuses
    BY DEF TypeOK, TablesOK, Statuses
  <2> QED
    BY <2>1, InsertProposalEffect
<1> HIDE DEF n
<1>2. Grows
  BY <1>1 DEF Grows
<1>3. ActionsNameProposals'
  BY <1>1 DEF Safe, ActionsNameProposals
<1>4. \A p : /\ Approved(p)' <=> Approved(p)
             /\ Rejected(p)' <=> Rejected(p)
             /\ Acted(p)' <=> Acted(p)
  BY DEF Approved, Rejected, Acted
<1>5. ~Acted(n)
  BY <1>1 DEF Acted, Safe, ActionsNameProposals
<1>6. VoteBeforeEffect'
  <2> SUFFICES ASSUME NEW p \in DOMAIN proposals', proposals'[p].risk \notin AutoRisks,
                      Acted(p)' \/ proposals'[p].status \in {"approved", "executed"}
               PROVE  Approved(p)'
    BY DEF VoteBeforeEffect
  <2>1. CASE p = n
    BY <1>1, <1>4, <1>5, <2>1
  <2>2. CASE p # n
    BY <1>1, <1>4, <2>2 DEF Safe, VoteBeforeEffect
  <2> QED
    BY <2>1, <2>2
<1>7. StatusHasEvidence'
  <2> SUFFICES ASSUME NEW p \in DOMAIN proposals'
               PROVE  /\ proposals'[p].status = "executed" => Acted(p)'
                      /\ proposals'[p].status = "rejected" => Rejected(p)'
    BY DEF StatusHasEvidence
  <2>1. CASE p = n
    BY <1>1, <2>1
  <2>2. CASE p # n
    BY <1>1, <1>4, <2>2 DEF Safe, StatusHasEvidence
  <2> QED
    BY <2>1, <2>2
<1> QED
  BY <1>2, <1>3, <1>6, <1>7 DEF Safe

LEMMA SafeByApproval ==
    ASSUME TypeOK, Safe, NEW r \in ApprovalRows, approvals' = Append(approvals, r),
           UNCHANGED <<proposals, actions>>
    PROVE  /\ Grows /\ Safe'
           /\ Len(approvals) + 1 \in DOMAIN approvals'
           /\ approvals'[Len(approvals) + 1] = r
<1>1. /\ \A i \in DOMAIN approvals :
            i \in DOMAIN approvals' /\ approvals'[i] = approvals[i]
      /\ Len(approvals) + 1 \in DOMAIN approvals'
      /\ approvals'[Len(approvals) + 1] = r
  BY AppendEffect DEF TypeOK, TablesOK
<1>2. Grows
  BY <1>1 DEF Grows
<1>3. \A p : /\ Approved(p) => Approved(p)'
             /\ Rejected(p) => Rejected(p)'
             /\ Acted(p)' <=> Acted(p)
  BY <1>1 DEF Approved, Rejected, Acted
<1>4. Safe'
  BY <1>3 DEF Safe, VoteBeforeEffect, StatusHasEvidence, ActionsNameProposals
<1> QED
  BY <1>1, <1>2, <1>4

LEMMA SafeByAction ==
    ASSUME TypeOK, Safe, NEW p \in DOMAIN proposals,
           proposals[p].risk \in AutoRisks \/ Approved(p),
           InsertAction(p, Null), UNCHANGED <<proposals, approvals>>
    PROVE  Grows /\ Safe' /\ Acted(p)'
<1> DEFINE n == Len(actions) + 1
<1>1. /\ DOMAIN actions' = DOMAIN actions \cup {n}
      /\ \A i \in DOMAIN actions : actions'[i] = actions[i]
      /\ actions'[n].proposal = p
  <2>1. actions \in Seq(ActionRows) /\ p \in Nat
    BY DEF TypeOK, TablesOK
  <2>2. /\ DOMAIN actions' = DOMAIN actions \cup {n}
        /\ \A i \in DOMAIN actions : actions'[i] = actions[i]
        /\ actions'[n] = [proposal |-> p, workflow |-> Null]
    BY <2>1, InsertActionEffect
  <2> QED
    BY <2>2
<1> HIDE DEF n
<1>2. Grows
  BY <1>1 DEF Grows
<1>3. \A q : /\ Approved(q)' <=> Approved(q)
             /\ Rejected(q)' <=> Rejected(q)
             /\ Acted(q) => Acted(q)'
             /\ Acted(q)' => Acted(q) \/ q = p
  BY <1>1 DEF Approved, Rejected, Acted
<1>4. Acted(p)'
  BY <1>1 DEF Acted
<1>5. VoteBeforeEffect' /\ StatusHasEvidence'
  BY <1>3 DEF Safe, VoteBeforeEffect, StatusHasEvidence
<1>6. ActionsNameProposals'
  BY <1>1 DEF Safe, ActionsNameProposals
<1> QED
  BY <1>2, <1>4, <1>5, <1>6 DEF Safe

\* An unconditional UPDATE is safe for what the caller knows of the rows.
LEMMA SafeByStatus ==
    ASSUME TypeOK, Safe, NEW ids, NEW s \in Statuses \ {"pending"}, SetStatus(ids, s),
           UNCHANGED <<approvals, actions>>,
           \A p \in ids : /\ s = "approved" => Approved(p)
                          /\ s = "executed" => Acted(p)
                          /\ s = "rejected" => Rejected(p)
    PROVE  Grows /\ Safe'
<1>1. /\ DOMAIN proposals' = DOMAIN proposals
      /\ \A p \in DOMAIN proposals :
            /\ proposals'[p].risk = proposals[p].risk
            /\ proposals'[p].status = IF p \in ids THEN s ELSE proposals[p].status
  BY SetStatusEffect DEF TypeOK, TablesOK
<1>2. Grows
  BY <1>1 DEF Grows
<1>3. \A p : /\ Approved(p)' <=> Approved(p)
             /\ Rejected(p)' <=> Rejected(p)
             /\ Acted(p)' <=> Acted(p)
  BY DEF Approved, Rejected, Acted
<1>4. VoteBeforeEffect'
  BY <1>1, <1>3 DEF Safe, VoteBeforeEffect
<1>5. StatusHasEvidence'
  BY <1>1, <1>3 DEF Safe, StatusHasEvidence
<1>6. ActionsNameProposals'
  BY <1>1 DEF Safe, ActionsNameProposals
<1> QED
  BY <1>2, <1>4, <1>5, <1>6 DEF Safe

-----------------------------------------------------------------------------
(* Every step of a call keeps Safe and backs the call's next statement. *)

\* A call that ended holds nothing to back.
LEMMA EndedIsBacked ==
    ASSUME TypeOK, NEW c \in Calls, Return(c) \/ Throw(c)
    PROVE  Backed(c)'
<1>1. pc'[c] \in {"done", "failed"}
  BY DEF TypeOK, Return, Throw, Goto
<1> QED
  BY <1>1 DEF Backed, TargetStages, AutoStages

LEMMA NextStage ==
    ASSUME TypeOK, NEW c \in Calls, NEW stage, Goto(c, stage)
    PROVE  pc'[c] = stage
  BY DEF TypeOK, Goto

LEMMA NextHeld ==
    ASSUME TypeOK, NEW c \in Calls, NEW a, Hold(c, a)
    PROVE  arg'[c] = a
  BY DEF TypeOK, Hold

LEMMA ArrivesSafe ==
    ASSUME TypeOK, Safe, NEW c \in Calls, Arrives(c)
    PROVE  Grows /\ Safe' /\ Backed(c)'
<1>1. ASSUME NEW risk \in Risks, NEW valid \in BOOLEAN, ProposeDecision(c, risk, valid)
      PROVE  Grows /\ Safe' /\ Backed(c)'
  <2>1. Backed(c)'
    BY <1>1, EndedIsBacked DEF ProposeDecision
  <2>2. CASE valid
    <3>1. InsertProposal(risk, "pending", Null) /\ UNCHANGED <<approvals, actions>>
      BY <1>1, <2>2 DEF ProposeDecision
    <3> QED
      BY <2>1, <3>1, SafeByProposal
  <2>3. CASE ~valid
    BY <1>1, <2>1, <2>3, SafeWithoutWrite DEF ProposeDecision
  <2> QED
    BY <2>2, <2>3
<1>2. ASSUME NEW p \in NamedIds, NEW by \in Principals, NEW verdict \in BOOLEAN,
             ApproveCheck(c, p, by, verdict)
      PROVE  Grows /\ Safe' /\ Backed(c)'
  <2>1. Grows /\ Safe'
    BY <1>2, SafeWithoutWrite DEF ApproveCheck, tables
  <2>2. CASE Approvable(p, by)
    <3> DEFINE a == [NoArg EXCEPT !.target = p, !.who = by, !.verdict = verdict]
    <3>1. pc'[c] = "approve_insert" /\ arg'[c] = a
      BY <1>2, <2>2, NextStage, NextHeld DEF ApproveCheck
    <3>2. a.target = p /\ a.who = by
      BY DEF NoArg
    <3>3. p \in DOMAIN proposals' /\ MayApprove(by, proposals'[p].risk)
      BY <1>2, <2>2 DEF ApproveCheck, Approvable, Exists, MayApprove, tables
    <3> HIDE DEF a
    <3>4. Backed(c)'
      BY <3>1, <3>2, <3>3 DEF Backed, AutoStages, MayApprove
    <3> QED
      BY <2>1, <3>4
  <2>3. CASE ~Approvable(p, by)
    BY <1>2, <2>1, <2>3, EndedIsBacked DEF ApproveCheck
  <2> QED
    BY <2>2, <2>3
<1>3. ASSUME NEW p \in NamedIds, NEW by \in Principals, ExecuteCheck(c, p, by)
      PROVE  Grows /\ Safe' /\ Backed(c)'
  <2>1. Grows /\ Safe'
    BY <1>3, SafeWithoutWrite DEF ExecuteCheck, tables
  <2>2. CASE Executable(p, by)
    <3> DEFINE a == [NoArg EXCEPT !.target = p]
    <3>1. pc'[c] = "execute_insert" /\ arg'[c] = a
      BY <1>3, <2>2, NextStage, NextHeld DEF ExecuteCheck
    <3>2. a.target = p
      BY DEF NoArg
    <3>3. p \in DOMAIN proposals /\ (proposals[p].risk \in AutoRisks \/ Approved(p))
      BY <2>2 DEF Executable, Exists, Safe, VoteBeforeEffect
    <3>4. p \in DOMAIN proposals' /\ (proposals'[p].risk \in AutoRisks \/ Approved(p)')
      BY <2>1, <3>3, GrowsKeeps DEF Grows
    <3> HIDE DEF a
    <3>5. Backed(c)'
      BY <3>1, <3>2, <3>4 DEF Backed, AutoStages, Approved
    <3> QED
      BY <2>1, <3>5
  <2>3. CASE ~Executable(p, by)
    BY <1>3, <2>1, <2>3, EndedIsBacked DEF ExecuteCheck
  <2> QED
    BY <2>2, <2>3
<1>4. ASSUME NEW agent \in Principals, NEW risk \in Risks, ActionPropose(c, agent, risk)
      PROVE  Grows /\ Safe' /\ Backed(c)'
  <2>1. UNCHANGED <<approvals, actions>>
    BY <1>4 DEF ActionPropose
  <2>2. CASE ~MayPropose(agent, risk)
    BY <1>4, <2>2, SafeWithoutWrite, EndedIsBacked DEF ActionPropose
  <2>3. CASE MayPropose(agent, risk) /\ risk \in AutoRisks
    <3> DEFINE n == Len(proposals) + 1
               a == [NoArg EXCEPT !.target = n]
    <3>1. InsertProposal(risk, "approved", Null)
      BY <1>4, <2>3 DEF ActionPropose
    <3>2. Grows /\ Safe'
      BY <2>1, <2>3, <3>1, SafeByProposal
    <3>3. n \in DOMAIN proposals' /\ proposals'[n].risk = risk /\ proposals'[n].status = "approved"
      <4>1. proposals \in Seq(ProposalRows) /\ "approved" \in Statuses
        BY DEF TypeOK, TablesOK, Statuses
      <4> QED
        BY <3>1, <4>1, InsertProposalEffect
    <3>4. pc'[c] = "auto_approval" /\ arg'[c] = a
      BY <1>4, <2>3, NextStage, NextHeld DEF ActionPropose
    <3>5. a.target = n
      BY DEF NoArg
    <3> HIDE DEF a, n
    <3>6. Backed(c)'
      BY <2>3, <3>3, <3>4, <3>5 DEF Backed, AutoStages
    <3> QED
      BY <3>2, <3>6
  <2>4. CASE MayPropose(agent, risk) /\ risk \notin AutoRisks
    <3>1. InsertProposal(risk, "pending", Null) /\ Return(c)
      BY <1>4, <2>4 DEF ActionPropose
    <3> QED
      BY <2>1, <3>1, SafeByProposal, EndedIsBacked
  <2> QED
    BY <2>2, <2>3, <2>4
<1>5. ASSUME NEW key \in Keys, NEW cites \in SUBSET NamedIds, OutcomeCheck(c, key, cites)
      PROVE  Grows /\ Safe' /\ Backed(c)'
  <2>1. Grows /\ Safe'
    BY <1>5, SafeWithoutWrite DEF OutcomeCheck, tables
  <2>2. CASE \A p \in cites : Exists(p)
    <3>1. pc'[c] = "outcome_insert"
      BY <1>5, <2>2, NextStage DEF OutcomeCheck
    <3>2. Backed(c)'
      BY <3>1 DEF Backed, TargetStages, AutoStages
    <3> QED
      BY <2>1, <3>2
  <2>3. CASE ~(\A p \in cites : Exists(p))
    BY <1>5, <2>1, <2>3, EndedIsBacked DEF OutcomeCheck
  <2> QED
    BY <2>2, <2>3
<1> QED
  BY <1>1, <1>2, <1>3, <1>4, <1>5 DEF Arrives

LEMMA ContinuesSafe ==
    ASSUME TypeOK, Safe, NEW c \in Calls, Backed(c), Continues(c) \/ CallFails(c)
    PROVE  Grows /\ Safe' /\ Backed(c)'
<1> DEFINE p == arg[c].target
<1>0. /\ p \in Nat
      /\ arg[c].verdict \in BOOLEAN
      /\ approvals \in Seq(ApprovalRows)
  BY ArgFieldTypes DEF TypeOK, TablesOK
<1>1. CASE ApproveInsert(c)
  <2>1. UNCHANGED <<proposals, actions>>
    BY <1>1 DEF ApproveInsert
  <2>2. CASE HasVoted(p, arg[c].who)
    BY <1>1, <2>1, <2>2, SafeWithoutWrite, EndedIsBacked DEF ApproveInsert
  <2>3. CASE ~HasVoted(p, arg[c].who)
    <3> DEFINE r == [proposal |-> p, by |-> arg[c].who, approved |-> arg[c].verdict]
               n == Len(approvals) + 1
    <3>1. arg[c].who \in Principals /\ p \in DOMAIN proposals
      BY <1>1 DEF ApproveInsert, Backed, TargetStages
    <3>2. r \in ApprovalRows
      BY <1>0, <3>1 DEF ApprovalRows
    <3>3. approvals' = Append(approvals, r)
      BY <1>1, <2>3 DEF ApproveInsert, InsertApproval
    <3>4. r.proposal = p /\ r.approved = arg[c].verdict
      OBVIOUS
    <3>5. pc'[c] = "approve_update" /\ arg'[c] = arg[c]
      BY <1>1, <2>3, NextStage DEF ApproveInsert
    <3> HIDE DEF r
    <3>6. Grows /\ Safe' /\ n \in DOMAIN approvals' /\ approvals'[n] = r
      BY <2>1, <3>2, <3>3, SafeByApproval
    <3> HIDE DEF n
    <3>7. Backed(c)'
      BY <2>1, <3>1, <3>4, <3>5, <3>6 DEF Backed, AutoStages
    <3> QED
      BY <3>6, <3>7
  <2> QED
    BY <2>2, <2>3
<1>2. CASE ApproveUpdate(c)
  <2>1. /\ SetStatus({p}, Decision(arg[c].verdict))
        /\ UNCHANGED <<approvals, actions>>
        /\ Return(c)
    BY <1>2 DEF ApproveUpdate
  <2>2. PICK i \in DOMAIN approvals :
           approvals[i].proposal = p /\ approvals[i].approved = arg[c].verdict
    BY <1>2 DEF ApproveUpdate, Backed
  <2>3. CASE arg[c].verdict
    <3>1. Approved(p)
      BY <2>2, <2>3 DEF Approved
    <3>2. SetStatus({p}, "approved")
      BY <2>1, <2>3 DEF Decision
    <3> QED
      BY <2>1, <3>1, <3>2, SafeByStatus, EndedIsBacked DEF Statuses
  <2>4. CASE ~arg[c].verdict
    <3>1. Rejected(p)
      BY <2>2, <2>4 DEF Rejected
    <3>2. SetStatus({p}, "rejected")
      BY <2>1, <2>4 DEF Decision
    <3> QED
      BY <2>1, <3>1, <3>2, SafeByStatus, EndedIsBacked DEF Statuses
  <2> QED
    BY <2>3, <2>4
<1>3. CASE ExecuteInsert(c)
  <2>1. InsertAction(p, Null) /\ UNCHANGED <<arg, proposals, approvals>>
    BY <1>3 DEF ExecuteInsert
  <2>2. p \in DOMAIN proposals /\ (proposals[p].risk \in AutoRisks \/ Approved(p))
    BY <1>3 DEF ExecuteInsert, Backed, TargetStages
  <2>3. Grows /\ Safe' /\ Acted(p)'
    BY <2>1, <2>2, SafeByAction
  <2>4. pc'[c] = "execute_update"
    BY <1>3, NextStage DEF ExecuteInsert
  <2>5. Backed(c)'
    BY <2>1, <2>2, <2>3, <2>4 DEF Backed, AutoStages, Acted
  <2> QED
    BY <2>3, <2>5
<1>4. CASE ExecuteUpdate(c)
  <2>1. Acted(p)
    BY <1>4 DEF ExecuteUpdate, Backed
  <2> QED
    BY <1>4, <2>1, SafeByStatus, EndedIsBacked DEF ExecuteUpdate, Statuses
<1>5. CASE AutoApproval(c)
  <2>1. UNCHANGED <<proposals, actions>>
    BY <1>5 DEF AutoApproval
  <2>2. CASE HasVoted(p, AutoApprover)
    BY <1>5, <2>1, <2>2, SafeWithoutWrite, EndedIsBacked DEF AutoApproval
  <2>3. CASE ~HasVoted(p, AutoApprover)
    <3> DEFINE r == [proposal |-> p, by |-> AutoApprover, approved |-> TRUE]
    <3>1. r \in ApprovalRows
      BY <1>0 DEF ApprovalRows
    <3>2. approvals' = Append(approvals, r)
      BY <1>5, <2>3 DEF AutoApproval, InsertApproval
    <3> HIDE DEF r
    <3>3. Grows /\ Safe'
      BY <2>1, <3>1, <3>2, SafeByApproval
    <3>4. /\ p \in DOMAIN proposals
          /\ proposals[p].risk \in AutoRisks /\ proposals[p].status # "pending"
      BY <1>5 DEF AutoApproval, Backed, TargetStages, AutoStages
    <3>5. pc'[c] = "auto_action" /\ arg'[c] = arg[c]
      BY <1>5, <2>3, NextStage DEF AutoApproval
    <3>6. Backed(c)'
      BY <2>1, <3>4, <3>5 DEF Backed, AutoStages
    <3> QED
      BY <3>3, <3>6
  <2> QED
    BY <2>2, <2>3
<1>6. CASE AutoAction(c)
  <2>1. InsertAction(p, Null) /\ UNCHANGED <<arg, proposals, approvals>>
    BY <1>6 DEF AutoAction
  <2>2. /\ p \in DOMAIN proposals
        /\ proposals[p].risk \in AutoRisks /\ proposals[p].status # "pending"
    BY <1>6 DEF AutoAction, Backed, TargetStages, AutoStages
  <2>3. Grows /\ Safe' /\ Acted(p)'
    BY <2>1, <2>2, SafeByAction
  <2>4. pc'[c] = "auto_update"
    BY <1>6, NextStage DEF AutoAction
  <2>5. Backed(c)'
    BY <2>1, <2>2, <2>3, <2>4 DEF Backed, AutoStages, Acted
  <2> QED
    BY <2>3, <2>5
<1>7. CASE AutoUpdate(c)
  <2>1. /\ Acted(p)
        /\ p \in DOMAIN proposals
        /\ proposals[p].risk \in AutoRisks /\ proposals[p].status # "pending"
    BY <1>7 DEF AutoUpdate, Backed, TargetStages, AutoStages
  <2>2. SetStatus({p}, "executed") /\ UNCHANGED <<arg, approvals, actions>>
    BY <1>7 DEF AutoUpdate
  <2>3. Grows /\ Safe'
    BY <2>1, <2>2, SafeByStatus DEF Statuses
  <2>4. pc'[c] = "auto_stats"
    BY <1>7, NextStage DEF AutoUpdate
  <2>5. Backed(c)'
    BY <2>1, <2>2, <2>3, <2>4 DEF Backed, Grows, AutoStages
  <2> QED
    BY <2>3, <2>5
<1>8. CASE AutoStats(c)
  BY <1>8, SafeWithoutWrite, EndedIsBacked DEF AutoStats, tables
<1>9. CASE OutcomeInsert(c)
  <2>1. Grows /\ Safe'
    BY <1>9, SafeWithoutWrite DEF OutcomeInsert
  <2>2. pc'[c] \in {"outcome_memory", "outcome_update"}
    BY <1>9, NextStage DEF OutcomeInsert
  <2>3. Backed(c)'
    BY <2>2 DEF Backed, TargetStages, AutoStages
  <2> QED
    BY <2>1, <2>3
<1>10. CASE OutcomeUpdate(c)
  <2>1. Grows /\ Safe'
    BY <1>10, SafeByStatus DEF OutcomeUpdate, Statuses
  <2>2. pc'[c] = "outcome_memory"
    BY <1>10, NextStage DEF OutcomeUpdate
  <2>3. Backed(c)'
    BY <2>2 DEF Backed, TargetStages, AutoStages
  <2> QED
    BY <2>1, <2>3
<1>11. CASE OutcomeMemory(c)
  BY <1>11, SafeWithoutWrite, EndedIsBacked DEF OutcomeMemory, tables
<1>12. CASE CallFails(c)
  BY <1>12, SafeWithoutWrite, EndedIsBacked DEF CallFails, tables
<1> QED
  BY <1>1, <1>2, <1>3, <1>4, <1>5, <1>6, <1>7, <1>8, <1>9, <1>10, <1>11, <1>12
  DEF Continues

\* A step of one call leaves what the others hold alone.
LEMMA OthersKept ==
    ASSUME TypeOK, NEW c \in Calls, Arrives(c) \/ Continues(c) \/ CallFails(c),
           NEW d \in Calls, d # c
    PROVE  pc'[d] = pc[d] /\ arg'[d] = arg[d]
<1>1. \A stage : Goto(c, stage) => pc'[d] = pc[d]
  BY DEF TypeOK, Goto
<1>2. \A a : Hold(c, a) => arg'[d] = arg[d]
  BY DEF TypeOK, Hold
<1>3. CASE Arrives(c)
  BY <1>1, <1>2, <1>3
  DEF Arrives, ProposeDecision, ApproveCheck, ExecuteCheck, ActionPropose,
      OutcomeCheck, Return
<1>4. CASE Continues(c)
  BY <1>1, <1>2, <1>4
  DEF Continues, ApproveInsert, ApproveUpdate, ExecuteInsert, ExecuteUpdate,
      AutoApproval, AutoAction, AutoUpdate, AutoStats,
      OutcomeInsert, OutcomeUpdate, OutcomeMemory, Return, Throw
<1>5. CASE CallFails(c)
  BY <1>1, <1>5 DEF CallFails, Throw
<1> QED
  BY <1>3, <1>4, <1>5

-----------------------------------------------------------------------------
(* The invariant *)

\* No row and no handler under way: the invariant holds initially.
LEMMA InitInv == Init => IInv
<1> SUFFICES ASSUME Init PROVE IInv
  OBVIOUS
<1>1. TypeOK
  BY InitType
<1>2. proposals = <<>> /\ actions = <<>>
  BY DEF Init, EmptyTables
<1>3. Safe
  BY <1>2 DEF Safe, VoteBeforeEffect, StatusHasEvidence, ActionsNameProposals
<1>4. \A c \in Calls : pc[c] = "idle"
  BY DEF Init
<1>5. HandlersBacked
  BY <1>4 DEF HandlersBacked, Backed, TargetStages, AutoStages
<1> QED
  BY <1>1, <1>3, <1>5 DEF IInv

\* Every step of every call keeps the invariant, and rows only grow.
LEMMA StepInv ==
    ASSUME IInv, NEW c \in Calls, Arrives(c) \/ Continues(c) \/ CallFails(c)
    PROVE  Grows /\ IInv'
<1>1. TypeOK /\ Safe /\ \A d \in Calls : Backed(d)
  BY DEF IInv, HandlersBacked
<1>2. TypeOK'
  <2>1. CASE Arrives(c)
    BY <1>1, <2>1, ArrivesType
  <2>2. CASE Continues(c) \/ CallFails(c)
    BY <1>1, <2>2, ContinuesType DEF Backed
  <2> QED
    BY <2>1, <2>2
<1>3. Grows /\ Safe' /\ Backed(c)'
  BY <1>1, ArrivesSafe, ContinuesSafe
<1>4. ASSUME NEW d \in Calls
      PROVE  Backed(d)'
  <2>1. CASE d = c
    BY <1>3, <2>1
  <2>2. CASE d # c
    BY <1>1, <1>3, <2>2, OthersKept, OthersBacked
  <2> QED
    BY <2>1, <2>2
<1> QED
  BY <1>2, <1>3, <1>4 DEF IInv, HandlersBacked

\* The invariant is one of the tables, the counters and the calls.
LEMMA StutterInv == IInv /\ UNCHANGED vars => IInv'
<1> SUFFICES ASSUME IInv, UNCHANGED vars PROVE IInv'
  OBVIOUS
<1>1. UNCHANGED <<proposals, approvals, actions, outcomes, memories, autonomy, pc, arg>>
  BY DEF vars, tables, toolVars
<1>2. TypeOK'
  BY <1>1 DEF IInv, TypeOK, TablesOK
<1>3. Grows /\ Safe'
  BY <1>1, SafeWithoutWrite DEF IInv
<1>4. \A d \in Calls : Backed(d)'
  BY <1>1, <1>3, OthersBacked DEF IInv, HandlersBacked
<1> QED
  BY <1>2, <1>3, <1>4 DEF IInv, HandlersBacked

\* In every reachable state the tables are well-typed, votes and audit rows are
\* there for what rests on them, and what handlers hold is backed by the tables.
THEOREM Invariance == Spec => []IInv
<1>1. IInv /\ [Next]_vars => IInv'
  BY StepInv, StutterInv DEF Next
<1> QED
  BY <1>1, InitInv, PTL DEF Spec

\* The tables, the counters and what calls hold keep their types: no status
\* that the CHECK of init.sql refuses is ever written.
THEOREM TypeCorrect == Spec => []TypeOK
<1>1. IInv => TypeOK
  BY DEF IInv
<1> QED
  BY <1>1, Invariance, PTL

\* What a handler found out before an await is true after it, for any number
\* of calls that commit meanwhile.
THEOREM HandlersStayBacked == Spec => []HandlersBacked
<1>1. IInv => HandlersBacked
  BY DEF IInv
<1> QED
  BY <1>1, Invariance, PTL

\* Without automatic approval nothing is approved, executed or acted on that
\* nobody voted for.
THEOREM VoteComesBeforeEffect == Spec => []VoteBeforeEffect
<1>1. IInv => VoteBeforeEffect
  BY DEF IInv, Safe
<1> QED
  BY <1>1, Invariance, PTL

\* An executed proposal has an action row and a rejected one a vote against it.
THEOREM StatusAlwaysHasEvidence == Spec => []StatusHasEvidence
<1>1. IInv => StatusHasEvidence
  BY DEF IInv, Safe
<1> QED
  BY <1>1, Invariance, PTL

-----------------------------------------------------------------------------
(* The votes.  Two statements insert one: what each of them knows of it. *)

\* A row that a step adds to decision_approvals.
Votes(c, by) ==
    LET r == [proposal |-> arg[c].target, by |-> by,
              approved |-> IF pc[c] = "approve_insert" THEN arg[c].verdict ELSE TRUE]
    IN /\ ~HasVoted(arg[c].target, by)
       /\ approvals' = Append(approvals, r)
       /\ r \in ApprovalRows
       /\ arg[c].target \in DOMAIN proposals
       /\ MayApprove(by, proposals[arg[c].target].risk)

LEMMA ApprovalsGrowByVotes ==
    ASSUME IInv, NEW c \in Calls, Arrives(c) \/ Continues(c) \/ CallFails(c)
    PROVE  \/ UNCHANGED approvals
           \/ ApproveInsert(c) /\ Votes(c, arg[c].who)
           \/ AutoApproval(c) /\ Votes(c, AutoApprover)
<1>1. TypeOK /\ Backed(c)
  BY DEF IInv, HandlersBacked
<1>2. arg[c].target \in Nat /\ arg[c].verdict \in BOOLEAN
  BY <1>1, ArgFieldTypes
<1>3. CASE ApproveInsert(c) /\ ~HasVoted(arg[c].target, arg[c].who)
  <2>1. /\ arg[c].target \in DOMAIN proposals
        /\ arg[c].who \in Principals
        /\ MayApprove(arg[c].who, proposals[arg[c].target].risk)
    BY <1>1, <1>3 DEF ApproveInsert, Backed, TargetStages
  <2>2. [proposal |-> arg[c].target, by |-> arg[c].who, approved |-> arg[c].verdict]
           \in ApprovalRows
    BY <1>2, <2>1 DEF ApprovalRows
  <2> QED
    BY <1>3, <2>1, <2>2 DEF ApproveInsert, InsertApproval, Votes
<1>4. CASE AutoApproval(c) /\ ~HasVoted(arg[c].target, AutoApprover)
  <2>1. /\ arg[c].target \in DOMAIN proposals
        /\ MayApprove(AutoApprover, proposals[arg[c].target].risk)
    BY <1>1, <1>4 DEF AutoApproval, Backed, TargetStages, AutoStages, MayApprove
  <2>2. [proposal |-> arg[c].target, by |-> AutoApprover, approved |-> TRUE] \in ApprovalRows
    BY <1>2 DEF ApprovalRows
  <2> QED
    BY <1>4, <2>1, <2>2 DEF AutoApproval, InsertApproval, Votes
<1>5. CASE Arrives(c)
  BY <1>5
  DEF Arrives, ProposeDecision, ApproveCheck, ExecuteCheck, ActionPropose,
      OutcomeCheck, tables
<1>6. CASE CallFails(c)
  BY <1>6 DEF CallFails, tables
<1>7. CASE Continues(c)
  BY <1>3, <1>4, <1>7
  DEF Continues, ApproveInsert, ApproveUpdate, ExecuteInsert, ExecuteUpdate,
      AutoApproval, AutoAction, AutoUpdate, AutoStats,
      OutcomeInsert, OutcomeUpdate, OutcomeMemory, tables
<1> QED
  BY <1>5, <1>6, <1>7

\* The invariant, with every vote on a proposal that exists.
VotesInv ==
    /\ IInv
    /\ VoteOnce
    /\ ApproverRights
    /\ \A i \in DOMAIN approvals : approvals[i].proposal \in DOMAIN proposals

LEMMA VoteKeeps ==
    ASSUME VotesInv, NEW c \in Calls, NEW by, Votes(c, by), Grows
    PROVE  /\ VoteOnce'
           /\ ApproverRights'
           /\ \A i \in DOMAIN approvals' : approvals'[i].proposal \in DOMAIN proposals'
<1> DEFINE p == arg[c].target
           n == Len(approvals) + 1
<1>1. /\ DOMAIN approvals' = DOMAIN approvals \cup {n}
      /\ \A i \in DOMAIN approvals : approvals'[i] = approvals[i]
      /\ approvals'[n].proposal = p
      /\ approvals'[n].by = by
  <2> DEFINE r == [proposal |-> p, by |-> by,
                   approved |-> IF pc[c] = "approve_insert" THEN arg[c].verdict ELSE TRUE]
  <2>1. r.proposal = p /\ r.by = by
    OBVIOUS
  <2>2. approvals' = Append(approvals, r) /\ r \in ApprovalRows
    BY DEF Votes
  <2>3. approvals \in Seq(ApprovalRows)
    BY DEF VotesInv, IInv, TypeOK, TablesOK
  <2> HIDE DEF r
  <2> QED
    BY <2>1, <2>2, <2>3, AppendEffect
<1>2. /\ ~HasVoted(p, by)
      /\ p \in DOMAIN proposals
      /\ MayApprove(by, proposals[p].risk)
  BY DEF Votes
<1> HIDE DEF n, p
<1>3. VoteOnce'
  BY <1>1, <1>2 DEF VotesInv, VoteOnce, HasVoted
<1>4. ApproverRights'
  <2> SUFFICES ASSUME NEW i \in DOMAIN approvals'
               PROVE  MayApprove(approvals'[i].by, proposals'[approvals'[i].proposal].risk)
    BY DEF ApproverRights, MayApprove
  <2>1. CASE i = n
    BY <1>1, <1>2, <2>1 DEF Grows
  <2>2. CASE i \in DOMAIN approvals
    BY <1>1, <2>2 DEF VotesInv, ApproverRights, Grows
  <2> QED
    BY <1>1, <2>1, <2>2
<1>5. \A i \in DOMAIN approvals' : approvals'[i].proposal \in DOMAIN proposals'
  BY <1>1, <1>2 DEF VotesInv, Grows
<1> QED
  BY <1>3, <1>4, <1>5

LEMMA VotesUnchanged ==
    ASSUME VotesInv, UNCHANGED approvals, Grows
    PROVE  /\ VoteOnce'
           /\ ApproverRights'
           /\ \A i \in DOMAIN approvals' : approvals'[i].proposal \in DOMAIN proposals'
<1>1. VoteOnce'
  BY DEF VotesInv, VoteOnce
<1>2. ApproverRights'
  BY DEF VotesInv, ApproverRights, MayApprove, Grows
<1> QED
  BY <1>1, <1>2 DEF VotesInv, Grows

LEMMA VotesInvariance == Spec => []VotesInv
<1>1. Init => VotesInv
  <2> SUFFICES ASSUME Init PROVE VotesInv
    OBVIOUS
  <2>1. approvals = <<>>
    BY DEF Init, EmptyTables
  <2> QED
    BY <2>1, InitInv DEF VotesInv, VoteOnce, ApproverRights
<1>2. VotesInv /\ [Next]_vars => VotesInv'
  <2> SUFFICES ASSUME VotesInv, [Next]_vars PROVE VotesInv'
    OBVIOUS
  <2>1. ASSUME NEW c \in Calls, Arrives(c) \/ Continues(c) \/ CallFails(c)
        PROVE  VotesInv'
    <3>1. Grows /\ IInv'
      BY <2>1, StepInv DEF VotesInv
    <3>2. UNCHANGED approvals \/ \E by : Votes(c, by)
      BY <2>1, ApprovalsGrowByVotes DEF VotesInv
    <3> QED
      BY <3>1, <3>2, VoteKeeps, VotesUnchanged DEF VotesInv
  <2>2. CASE UNCHANGED vars
    <3>1. UNCHANGED <<proposals, approvals, actions>>
      BY <2>2 DEF vars, tables
    <3>2. Grows
      BY <3>1, SafeWithoutWrite DEF VotesInv, IInv
    <3> QED
      BY <2>2, <3>1, <3>2, StutterInv, VotesUnchanged DEF VotesInv
  <2> QED
    BY <2>1, <2>2 DEF Next
<1> QED
  BY <1>1, <1>2, PTL DEF Spec

\* No approver has two votes on a proposal, however many calls race for it.
THEOREM VotesAreSingle == Spec => []VoteOnce
<1>1. VotesInv => VoteOnce
  BY DEF VotesInv
<1> QED
  BY <1>1, VotesInvariance, PTL

\* No listed agent has a vote outside its can_approve.
THEOREM VotersHaveTheRight == Spec => []ApproverRights
<1>1. VotesInv => ApproverRights
  BY DEF VotesInv
<1> QED
  BY <1>1, VotesInvariance, PTL

-----------------------------------------------------------------------------
(* The status column.  Calls overwrite it without looking. *)

\* The status that a step gives to a proposal that was there.
LEMMA StatusByStep ==
    ASSUME IInv, NEW c \in Calls, Arrives(c) \/ Continues(c) \/ CallFails(c),
           NEW p \in DOMAIN proposals
    PROVE  \/ proposals'[p].status = proposals[p].status
           \/ proposals'[p].status \in {"executed", "completed"}
           \/ ApproveUpdate(c) /\ proposals'[p].status = Decision(arg[c].verdict)
<1>0. TypeOK /\ proposals \in Seq(ProposalRows) /\ arg[c].verdict \in BOOLEAN
  BY ArgFieldTypes DEF IInv, TypeOK, TablesOK
<1>1. \A risk \in RiskClasses, st \in Statuses :
         InsertProposal(risk, st, Null) => proposals'[p] = proposals[p]
  BY <1>0, InsertProposalEffect
<1>2. \A ids : \A st \in Statuses :
         SetStatus(ids, st) => proposals'[p].status \in {proposals[p].status, st}
  BY <1>0, SetStatusEffect
<1>3. CASE Arrives(c)
  BY <1>1, <1>3
  DEF Arrives, ProposeDecision, ApproveCheck, ExecuteCheck, ActionPropose,
      OutcomeCheck, tables, Statuses
<1>4. CASE ApproveUpdate(c)
  BY <1>0, <1>2, <1>4, DecisionType DEF ApproveUpdate
<1>5. CASE ExecuteUpdate(c) \/ AutoUpdate(c) \/ OutcomeUpdate(c)
  BY <1>2, <1>5 DEF ExecuteUpdate, AutoUpdate, OutcomeUpdate, Statuses
<1>6. CASE \/ ApproveInsert(c) \/ ExecuteInsert(c) \/ AutoApproval(c) \/ AutoAction(c)
           \/ AutoStats(c) \/ OutcomeInsert(c) \/ OutcomeMemory(c) \/ CallFails(c)
  BY <1>6
  DEF ApproveInsert, ExecuteInsert, AutoApproval, AutoAction, AutoStats,
      OutcomeInsert, OutcomeMemory, CallFails, tables
<1> QED
  BY <1>3, <1>4, <1>5, <1>6 DEF Continues

\* The step that makes a proposal approved copies the verdict of a vote.
THEOREM ReopeningNeedsVote == Spec => ReopenedOnlyByVote
<1> DEFINE Reopens == \A p \in DOMAIN proposals :
             proposals[p].status # "approved" /\ proposals'[p].status = "approved"
                => Approved(p)
<1>1. IInv /\ [Next]_vars => [Reopens]_vars
  <2> SUFFICES ASSUME IInv, NEW c \in Calls,
                      Arrives(c) \/ Continues(c) \/ CallFails(c),
                      NEW p \in DOMAIN proposals,
                      proposals[p].status # "approved", proposals'[p].status = "approved"
               PROVE  Approved(p)
    BY DEF Next
  <2>1. ApproveUpdate(c) /\ Decision(arg[c].verdict) = "approved"
    BY StatusByStep
  <2>2. arg[c].verdict
    BY <2>1 DEF Decision
  <2>3. p = arg[c].target
    <3>1. SetStatus({arg[c].target}, Decision(arg[c].verdict))
      BY <2>1 DEF ApproveUpdate
    <3>2. proposals \in Seq(ProposalRows) /\ Decision(arg[c].verdict) \in Statuses
      BY <2>2 DEF IInv, TypeOK, TablesOK, Decision, Statuses
    <3> QED
      BY <3>1, <3>2, SetStatusEffect
  <2>4. PICK i \in DOMAIN approvals :
           approvals[i].proposal = arg[c].target /\ approvals[i].approved = arg[c].verdict
    BY <2>1 DEF ApproveUpdate, IInv, HandlersBacked, Backed
  <2> QED
    BY <2>2, <2>3, <2>4 DEF Approved
<1> QED
  BY <1>1, Invariance, PTL DEF Spec, ReopenedOnlyByVote

-----------------------------------------------------------------------------
(* Votes without a decision *)

\* The invariant, with the call that owes each undecided vote its status.
OwedInv == VotesInv /\ PendingVoteIsUnfinished

LEMMA OwedKept ==
    ASSUME OwedInv, NEW c \in Calls, Arrives(c) \/ Continues(c) \/ CallFails(c)
    PROVE  PendingVoteIsUnfinished'
<1>0. IInv /\ VotesInv /\ TypeOK
  BY DEF OwedInv, VotesInv, IInv
<1>1. Grows
  BY <1>0, StepInv
<1> SUFFICES ASSUME NEW i \in DOMAIN approvals',
                    proposals'[approvals'[i].proposal].status = "pending"
             PROVE  \E d \in Calls : /\ arg'[d].target = approvals'[i].proposal
                                     /\ pc'[d] \in {"approve_update", "failed"}
  BY DEF PendingVoteIsUnfinished
<1> DEFINE p == approvals'[i].proposal
<1>2. CASE i \in DOMAIN approvals
  <2>1. p = approvals[i].proposal /\ p \in DOMAIN proposals
    BY <1>0, <1>1, <1>2 DEF Grows, VotesInv
  <2>2. proposals[p].status = "pending"
    BY <1>1, <2>1 DEF Grows
  <2>3. PICK d \in Calls : arg[d].target = p /\ pc[d] \in {"approve_update", "failed"}
    BY <1>2, <2>1, <2>2 DEF OwedInv, PendingVoteIsUnfinished
  <2>4. CASE d # c
    BY <1>0, <2>3, <2>4, OthersKept
  <2>5. CASE d = c
    <3>1. ApproveUpdate(c) \/ CallFails(c)
      BY <2>3, <2>5
      DEF Arrives, ProposeDecision, ApproveCheck, ExecuteCheck, ActionPropose,
          OutcomeCheck, Receives, Continues, ApproveInsert, ExecuteInsert,
          ExecuteUpdate, AutoApproval, AutoAction, AutoUpdate, AutoStats,
          OutcomeInsert, OutcomeUpdate, OutcomeMemory
    <3>2. ~ApproveUpdate(c)
      <4> SUFFICES ASSUME ApproveUpdate(c) PROVE FALSE
        OBVIOUS
      <4>1. SetStatus({p}, Decision(arg[c].verdict))
        BY <2>3, <2>5 DEF ApproveUpdate
      <4>2. proposals \in Seq(ProposalRows) /\ arg[c].verdict \in BOOLEAN
        BY <1>0, ArgFieldTypes DEF TypeOK, TablesOK
      <4>3. proposals'[p].status = Decision(arg[c].verdict)
        BY <2>1, <4>1, <4>2, SetStatusEffect, DecisionType
      <4> QED
        BY <4>3 DEF Decision
    <3>3. pc'[c] = "failed" /\ arg'[c] = arg[c]
      BY <1>0, <3>1, <3>2, NextStage DEF CallFails, Throw
    <3> QED
      BY <2>3, <2>5, <3>3
  <2> QED
    BY <2>4, <2>5
<1>3. CASE i \notin DOMAIN approvals
  <2>1. approvals' # approvals
    BY <1>3
  <2>2. PICK by : /\ Votes(c, by)
                  /\ ApproveInsert(c) \/ AutoApproval(c)
    BY <1>0, <2>1, ApprovalsGrowByVotes
  <2>3. p = arg[c].target
    <3> DEFINE r == [proposal |-> arg[c].target, by |-> by,
                     approved |-> IF pc[c] = "approve_insert" THEN arg[c].verdict ELSE TRUE]
    <3>1. r.proposal = arg[c].target
      OBVIOUS
    <3>2. approvals' = Append(approvals, r) /\ r \in ApprovalRows
      BY <2>2 DEF Votes
    <3>3. approvals \in Seq(ApprovalRows)
      BY <1>0 DEF TypeOK, TablesOK
    <3> HIDE DEF r
    <3> QED
      BY <1>3, <3>1, <3>2, <3>3, AppendEffect
  <2>4. arg'[c] = arg[c]
    BY <2>1, <2>2 DEF ApproveInsert, AutoApproval, Throw
  <2>5. CASE ApproveInsert(c)
    <3>1. pc'[c] = "approve_update"
      BY <1>0, <2>1, <2>5, NextStage DEF ApproveInsert
    <3> QED
      BY <2>3, <2>4, <3>1
  <2>6. CASE AutoApproval(c)
    <3>1. UNCHANGED proposals /\ pc[c] \in AutoStages
      BY <2>6 DEF AutoApproval, AutoStages
    <3>2. proposals[p].status # "pending"
      BY <1>0, <2>3, <3>1 DEF IInv, HandlersBacked, Backed
    <3> QED
      BY <3>1, <3>2
  <2> QED
    BY <2>2, <2>5, <2>6
<1> QED
  BY <1>2, <1>3

\* A vote whose proposal is still pending is owed its status by a call that is
\* between its two statements, or failed there.
THEOREM PendingVotesAreOwed == Spec => []PendingVoteIsUnfinished
<1>1. Init => PendingVoteIsUnfinished
  BY DEF Init, EmptyTables, PendingVoteIsUnfinished
<1>2. VotesInv /\ PendingVoteIsUnfinished /\ [Next]_vars => PendingVoteIsUnfinished'
  <2> SUFFICES ASSUME VotesInv, PendingVoteIsUnfinished, [Next]_vars
               PROVE  PendingVoteIsUnfinished'
    OBVIOUS
  <2>1. CASE Next
    BY <2>1, OwedKept DEF OwedInv, Next
  <2>2. CASE UNCHANGED vars
    BY <2>2 DEF vars, tables, toolVars, PendingVoteIsUnfinished
  <2> QED
    BY <2>1, <2>2
<1> QED
  BY <1>1, <1>2, VotesInvariance, PTL DEF Spec

-----------------------------------------------------------------------------
(* The outcomes *)

\* Only record_outcome adds an outcome, and only one whose key is not there.
LEMMA OutcomesByStep ==
    ASSUME TypeOK, OneOutcomePerKey, NEW c \in Calls,
           Arrives(c) \/ Continues(c) \/ CallFails(c)
    PROVE  OneOutcomePerKey'
<1>1. CASE OutcomeInsert(c) /\ OutcomeWithKey(arg[c].key) = {}
  <2> DEFINE r == [key |-> arg[c].key, workflow |-> Null, cites |-> arg[c].cites]
  <2>1. r \in OutcomeRows
    <3>1. arg[c].key \in Keys \cup {Null} /\ arg[c].cites \in SUBSET Nat
      BY ArgFieldTypes
    <3> QED
      BY <3>1 DEF OutcomeRows
  <2>2. outcomes' = Append(outcomes, r) /\ outcomes \in Seq(OutcomeRows)
    BY <1>1 DEF OutcomeInsert, InsertOutcome, TypeOK, TablesOK
  <2>3. r.key = arg[c].key
    OBVIOUS
  <2>4. \A i \in DOMAIN outcomes : outcomes[i].key # arg[c].key
    BY <1>1 DEF OutcomeWithKey
  <2> HIDE DEF r
  <2> DEFINE n == Len(outcomes) + 1
  <2>5. /\ DOMAIN outcomes' = DOMAIN outcomes \cup {n}
        /\ \A i \in DOMAIN outcomes : outcomes'[i] = outcomes[i]
        /\ outcomes'[n] = r
    BY <2>1, <2>2, AppendEffect
  <2> HIDE DEF n
  <2> QED
    BY <2>3, <2>4, <2>5 DEF OneOutcomePerKey
<1>2. CASE UNCHANGED outcomes
  BY <1>2 DEF OneOutcomePerKey
<1>3. CASE Arrives(c) \/ CallFails(c)
  BY <1>2, <1>3
  DEF Arrives, ProposeDecision, ApproveCheck, ExecuteCheck, ActionPropose,
      OutcomeCheck, CallFails, tables
<1>4. CASE Continues(c)
  BY <1>1, <1>2, <1>4
  DEF Continues, ApproveInsert, ApproveUpdate, ExecuteInsert, ExecuteUpdate,
      AutoApproval, AutoAction, AutoUpdate, AutoStats,
      OutcomeInsert, OutcomeUpdate, OutcomeMemory, tables
<1> QED
  BY <1>3, <1>4

\* Retries of record_outcome, also concurrent ones, share one row.
THEOREM OutcomesAreSingle == Spec => []OneOutcomePerKey
<1>1. Init => OneOutcomePerKey
  BY DEF Init, EmptyTables, OneOutcomePerKey
<1>2. TypeOK /\ OneOutcomePerKey /\ [Next]_vars => OneOutcomePerKey'
  <2>1. ASSUME OneOutcomePerKey, UNCHANGED vars
        PROVE  OneOutcomePerKey'
    BY <2>1 DEF vars, tables, OneOutcomePerKey
  <2> QED
    BY <2>1, OutcomesByStep DEF Next
<1> QED
  BY <1>1, <1>2, TypeCorrect, PTL DEF Spec

-----------------------------------------------------------------------------
(* The counters of progressive autonomy *)

ActionsOf(r) == {i \in DOMAIN actions : proposals[actions[i].proposal].risk = r}

CountingStages == {"auto_update", "auto_stats"}

\* Calls that have recorded an action and have not counted it yet.
Counting(r) ==
    {c \in Calls : pc[c] \in CountingStages /\ proposals[arg[c].target].risk = r}

\* Counted actions and those that a call is about to count are different rows: the
\* counters alone do not say which actions are still to be counted.
StatsInv ==
    \A r \in RiskClasses :
        /\ IsFiniteSet(Counting(r))
        /\ autonomy[r] + Cardinality(Counting(r)) <= Cardinality(ActionsOf(r))

\* Rows of a table are finitely many.
LEMMA RowsAreFinite ==
    ASSUME NEW T, NEW table \in Seq(T), NEW I \in SUBSET DOMAIN table
    PROVE  IsFiniteSet(I) /\ Cardinality(I) \in Nat
<1>1. DOMAIN table = 1 .. Len(table) /\ Len(table) \in Nat
  OBVIOUS
<1>2. IsFiniteSet(1 .. Len(table))
  BY <1>1, FS_Interval
<1> QED
  BY <1>1, <1>2, FS_Subset, FS_CardinalityType

\* Rows keep their place and proposals their risk class.
LEMMA ActionsOnlyGrow ==
    ASSUME IInv, Grows, NEW r
    PROVE  ActionsOf(r) \subseteq ActionsOf(r)'
<1> SUFFICES ASSUME NEW i \in ActionsOf(r) PROVE i \in ActionsOf(r)'
  OBVIOUS
<1>1. actions[i].proposal \in DOMAIN proposals
  BY DEF ActionsOf, IInv, Safe, ActionsNameProposals
<1> QED
  BY <1>1 DEF ActionsOf, Grows

\* A call that does not itself get to count or go on from there changes no set of
\* counting calls.
LEMMA OthersCount ==
    ASSUME IInv, Grows, NEW c \in Calls, Arrives(c) \/ Continues(c) \/ CallFails(c),
           NEW r, NEW d \in Calls, d # c
    PROVE  d \in Counting(r)' <=> d \in Counting(r)
<1>1. pc'[d] = pc[d] /\ arg'[d] = arg[d]
  BY OthersKept DEF IInv
<1>2. pc[d] \in CountingStages => arg[d].target \in DOMAIN proposals
  BY DEF IInv, HandlersBacked, Backed, CountingStages, TargetStages, AutoStages
<1>3. pc[d] \in CountingStages =>
          proposals'[arg[d].target].risk = proposals[arg[d].target].risk
  BY <1>2 DEF Grows
<1> QED
  BY <1>1, <1>3 DEF Counting

\* Where a call goes.
LEMMA WhereCallsCount ==
    ASSUME IInv, NEW c \in Calls, Arrives(c) \/ Continues(c) \/ CallFails(c),
           pc'[c] \in CountingStages
    PROVE  AutoAction(c) \/ AutoUpdate(c)
<1> SUFFICES ASSUME ~AutoAction(c), ~AutoUpdate(c) PROVE FALSE
  OBVIOUS
<1>1. \A stage : Goto(c, stage) => pc'[c] = stage
  BY NextStage DEF IInv
<1> USE DEF CountingStages
<1>2. ~Return(c) /\ ~Throw(c)
  BY <1>1 DEF Return, Throw
<1>3. \A stage : stage \notin CountingStages => ~Goto(c, stage)
  BY <1>1
<1>4. CASE Arrives(c)
  <2>1. ~Goto(c, "approve_insert") /\ ~Goto(c, "execute_insert")
        /\ ~Goto(c, "auto_approval") /\ ~Goto(c, "outcome_insert")
    BY <1>3
  <2> QED
    BY <1>2, <1>4, <2>1, Zenon
    DEF Arrives, ProposeDecision, ApproveCheck, ExecuteCheck, ActionPropose, OutcomeCheck
<1>5. CASE CallFails(c)
  BY <1>2, <1>5 DEF CallFails
<1>6. CASE Continues(c)
  <2>1. ~Goto(c, "approve_update") /\ ~Goto(c, "execute_update")
        /\ ~Goto(c, "auto_action") /\ ~Goto(c, "outcome_memory")
        /\ ~Goto(c, IF arg[c].cites = {} THEN "outcome_memory" ELSE "outcome_update")
    BY <1>3
  <2> QED
    BY <1>2, <1>6, <2>1, Zenon
    DEF Continues, ApproveInsert, ApproveUpdate, ExecuteInsert, ExecuteUpdate,
        AutoApproval, AutoStats, OutcomeInsert, OutcomeUpdate, OutcomeMemory
<1> QED
  BY <1>4, <1>5, <1>6

\* Who writes the counters.
LEMMA WhoCounts ==
    ASSUME NEW c \in Calls, Arrives(c) \/ Continues(c) \/ CallFails(c)
    PROVE  AutoStats(c) \/ UNCHANGED autonomy
BY DEF Arrives, ProposeDecision, ApproveCheck, ExecuteCheck, ActionPropose, OutcomeCheck,
       CallFails, Continues, ApproveInsert, ApproveUpdate, ExecuteInsert, ExecuteUpdate,
       AutoApproval, AutoAction, AutoUpdate, OutcomeInsert, OutcomeUpdate, OutcomeMemory

LEMMA StatsKept ==
    ASSUME IInv, StatsInv, NEW c \in Calls, Arrives(c) \/ Continues(c) \/ CallFails(c)
    PROVE  StatsInv'
<1>0. Grows /\ TypeOK /\ TypeOK' /\ autonomy \in [RiskClasses -> Nat]
  BY StepInv DEF IInv, TypeOK
<1> SUFFICES ASSUME NEW r \in RiskClasses
             PROVE  /\ IsFiniteSet(Counting(r))'
                    /\ (autonomy[r] + Cardinality(Counting(r)) <= Cardinality(ActionsOf(r)))'
  BY DEF StatsInv
<1> DEFINE A == ActionsOf(r)
           C == Counting(r)
<1>1. /\ IsFiniteSet(C) /\ IsFiniteSet(A) /\ IsFiniteSet(A')
      /\ Cardinality(C) \in Nat /\ Cardinality(A) \in Nat /\ Cardinality(A') \in Nat
      /\ autonomy[r] \in Nat /\ autonomy[r] + Cardinality(C) <= Cardinality(A)
  <2>1. IsFiniteSet(C)
    BY DEF StatsInv
  <2>2. IsFiniteSet(A) /\ Cardinality(A) \in Nat
    BY <1>0, RowsAreFinite DEF TypeOK, TablesOK, ActionsOf
  <2>3. IsFiniteSet(A') /\ Cardinality(A') \in Nat
    BY <1>0, RowsAreFinite DEF TypeOK, TablesOK, ActionsOf
  <2> QED
    BY <1>0, <2>1, <2>2, <2>3, FS_CardinalityType DEF StatsInv
<1>2. A \subseteq A' /\ Cardinality(A) <= Cardinality(A')
  BY <1>0, <1>1, ActionsOnlyGrow, FS_Subset
<1>3. C' \subseteq C \cup {c} /\ C \subseteq C' \cup {c}
  <2>1. \A d \in Calls : d # c => (d \in C' <=> d \in C)
    BY <1>0, OthersCount
  <2> QED
    BY <2>1 DEF Counting
<1> HIDE DEF A, C
<1>4. /\ C' = C \/ C' = C \cup {c} \/ C' = C \ {c}
      /\ IsFiniteSet(C') /\ Cardinality(C') \in Nat
  <2>1. C' = C \/ C' = C \cup {c} \/ C' = C \ {c}
    BY <1>3
  <2>2. IsFiniteSet(C \cup {c}) /\ IsFiniteSet(C \ {c})
    BY <1>1, FS_AddElement, FS_RemoveElement
  <2> QED
    BY <1>1, <2>1, <2>2, FS_CardinalityType
<1>5. CASE c \in C' /\ c \notin C
  <2>1. Cardinality(C') = Cardinality(C) + 1
    BY <1>1, <1>3, <1>4, <1>5, FS_AddElement
  <2>2. AutoAction(c)
    <3>1. AutoAction(c) \/ AutoUpdate(c)
      BY <1>5, WhereCallsCount DEF C, Counting
    <3>2. ASSUME AutoUpdate(c) PROVE FALSE
      <4>1. arg' = arg /\ pc[c] = "auto_update"
        BY <3>2 DEF AutoUpdate
      <4>2. arg[c].target \in DOMAIN proposals
        BY <4>1 DEF IInv, HandlersBacked, Backed, TargetStages, AutoStages
      <4>3. proposals'[arg[c].target].risk = proposals[arg[c].target].risk
        BY <1>0, <4>2 DEF Grows
      <4> QED
        BY <1>5, <4>1, <4>3 DEF C, Counting, CountingStages
    <3> QED
      BY <3>1, <3>2
  <2>3. UNCHANGED <<autonomy, arg, proposals>> /\ InsertAction(arg[c].target, Null)
    BY <2>2 DEF AutoAction
  <2>4. \E n : n \in A' /\ n \notin A
    <3> DEFINE row == [proposal |-> arg[c].target, workflow |-> Null]
               n == Len(actions) + 1
    <3>1. row \in ActionRows /\ actions \in Seq(ActionRows) /\ row.proposal = arg[c].target
      BY <1>0, ArgFieldTypes DEF ActionRows, TypeOK, TablesOK
    <3>2. actions' = Append(actions, row)
      BY <2>3 DEF InsertAction
    <3> HIDE DEF row
    <3>3. n \in DOMAIN actions' /\ actions'[n] = row /\ n \notin DOMAIN actions
      BY <3>1, <3>2, AppendEffect
    <3>4. proposals[arg[c].target].risk = r
      BY <1>5, <2>3 DEF C, Counting
    <3> QED
      BY <2>3, <3>1, <3>3, <3>4 DEF A, ActionsOf
  <2>5. Cardinality(A) # Cardinality(A')
    BY <1>1, <1>2, <2>4, FS_Subset
  <2> QED
    BY <1>1, <1>2, <1>4, <2>1, <2>3, <2>5 DEF A, C
<1>6. CASE ~(c \in C' /\ c \notin C)
  <2>1. Cardinality(C') <= Cardinality(C)
    <3>1. C' = C \/ C' = C \ {c}
      BY <1>4, <1>6
    <3>2. Cardinality(C \ {c}) = IF c \in C THEN Cardinality(C) - 1 ELSE Cardinality(C)
      BY <1>1, FS_RemoveElement
    <3>3. Cardinality(C) \in Nat
      BY <1>1
    <3>4. CASE C' = C
      BY <3>3, <3>4
    <3>5. CASE C' = C \ {c}
      <4>1. Cardinality(C') = Cardinality(C \ {c})
        BY <3>5
      <4> QED
        BY <3>2, <3>3, <4>1
    <3> QED
      BY <3>1, <3>4, <3>5
  <2>2. CASE UNCHANGED autonomy
    BY <1>1, <1>2, <1>4, <2>1, <2>2 DEF A, C
  <2>3. CASE AutoStats(c)
    <3> DEFINE risk == proposals[arg[c].target].risk
    <3>1. pc[c] = "auto_stats" /\ autonomy' = [autonomy EXCEPT ![risk] = @ + 1]
      BY <2>3 DEF AutoStats
    <3>2. pc'[c] \notin CountingStages
      <4>1. pc'[c] = "done"
        BY <1>0, <2>3, NextStage DEF AutoStats, Return
      <4> QED
        BY <4>1 DEF CountingStages
    <3>3. c \notin C'
      BY <3>2 DEF C, Counting
    <3> HIDE DEF risk
    <3>4. CASE risk = r
      <4>1. c \in C
        BY <3>1, <3>4 DEF C, Counting, CountingStages, risk
      <4>2. Cardinality(C') = Cardinality(C) - 1
        BY <1>1, <1>4, <3>3, <4>1, FS_RemoveElement
      <4>3. autonomy'[r] = autonomy[r] + 1
        BY <1>0, <3>1, <3>4
      <4> QED
        BY <1>1, <1>2, <1>4, <4>2, <4>3 DEF A, C
    <3>5. CASE risk # r
      <4>1. autonomy'[r] = autonomy[r]
        BY <1>0, <3>1, <3>5
      <4> QED
        BY <1>1, <1>2, <1>4, <2>1, <4>1 DEF A, C
    <3> QED
      BY <3>4, <3>5
  <2> QED
    BY <2>2, <2>3, WhoCounts
<1> QED
  BY <1>5, <1>6

\* A decision is counted only after its action is recorded, and once: execute_action
\* writes autonomy_stats in a statement of its own (action.ts), and a call that
\* stops in between leaves an action uncounted, never a count without an action.
THEOREM StatsStayHonest == Spec => []StatsNeverOvercount
<1>1. Init => StatsInv
  <2> SUFFICES ASSUME Init, NEW r \in RiskClasses
               PROVE  /\ IsFiniteSet(Counting(r))
                      /\ autonomy[r] + Cardinality(Counting(r)) <= Cardinality(ActionsOf(r))
    BY DEF StatsInv
  <2>1. Counting(r) = {} /\ autonomy[r] = 0
    BY DEF Init, Counting, CountingStages
  <2>2. Cardinality(ActionsOf(r)) \in Nat
    BY InitType, RowsAreFinite DEF TypeOK, TablesOK, ActionsOf
  <2> QED
    BY <2>1, <2>2, FS_EmptySet
<1>2. IInv /\ StatsInv /\ [Next]_vars => StatsInv'
  <2>1. ASSUME StatsInv, UNCHANGED vars PROVE StatsInv'
    BY <2>1 DEF vars, tables, toolVars, StatsInv, Counting, ActionsOf
  <2> QED
    BY <2>1, StatsKept DEF Next
<1>3. IInv /\ StatsInv => StatsNeverOvercount
  <2> SUFFICES ASSUME IInv, StatsInv, NEW r \in RiskClasses
               PROVE  autonomy[r] <= Cardinality(ActionsOf(r))
    BY DEF StatsNeverOvercount, ActionsOf
  <2>1. Cardinality(Counting(r)) \in Nat /\ autonomy[r] \in Nat
    BY FS_CardinalityType DEF StatsInv, IInv, TypeOK
  <2>2. Cardinality(ActionsOf(r)) \in Nat
    BY RowsAreFinite DEF IInv, TypeOK, TablesOK, ActionsOf
  <2> QED
    BY <2>1, <2>2 DEF StatsInv
<1> QED
  BY <1>1, <1>2, <1>3, Invariance, PTL DEF Spec
===============================================================================
