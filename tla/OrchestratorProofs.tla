-------------------------- MODULE OrchestratorProofs --------------------------
(***************************************************************************)
(* Proofs about Orchestrator, for any number of turns, calls, crashes and    *)
(* faults: the tables keep up with what a run believes, a run that has ended *)
(* is silent, and the outcomes a run leaves behind are bounded.              *)
(***************************************************************************)
EXTENDS Orchestrator, FiniteSetTheorems, TLAPS

-----------------------------------------------------------------------------
(* The inductive invariant *)

\* A decision is an outcome, unless the harness refused it.
IsRecorded(decision) ==
    decision \in refused \/ \E i \in DOMAIN outcomes : outcomes[i].decision = decision

DecisionHolds ==
    /\ final # Null => IsRecorded(final)
    /\ pc = "return" => final # Null
    /\ status = "SUCCESS" => IsRecorded(result)

\* Only a run that has not ended is in its loop.
RunHolds ==
    /\ Ended => pc \in {"ready", "down"}
    /\ pc = "turn" => turn < MaxTurns

CallsHold == IsFiniteSet(calls) /\ Cardinality(calls) <= CallsPerTurn

\* What the executions before this one can have written; this one adds nothing
\* until its decision is there, and then at most one row for each call of that
\* turn: those that have not ended are still to come.
Spent(n) ==
    /\ pc = "down" \/ final = Null => n <= CallsPerTurn * crashes + faults
    /\ pc = "turn" /\ final # Null =>
          n + Cardinality(calls) <= CallsPerTurn * (1 + crashes) + faults
    /\ n <= CallsPerTurn * (1 + crashes) + faults

BudgetHolds == Spent(Len(outcomes)) /\ Spent(Len(memory))

IInv ==
    /\ TypeOK
    /\ AnswersAreFindings
    /\ FindingsOnce
    /\ DecisionHolds
    /\ RunHolds
    /\ CallsHold
    /\ BudgetHolds

-----------------------------------------------------------------------------
(* The writes *)

\* A finding is there after the call; those that were there stay, each once.
LEMMA WriteFindingEffect ==
    ASSUME TypeOK, FindingsOnce, NEW a \in Subagents, NEW answer \in Answers,
           WriteFinding(a, answer)
    PROVE  /\ findings' \in Seq([agent : Subagents, finding : Answers])
           /\ \A i \in DOMAIN findings : i \in DOMAIN findings' /\ findings'[i] = findings[i]
           /\ \E i \in DOMAIN findings' : findings'[i] = [agent |-> a, finding |-> answer]
           /\ FindingsOnce'
<1> DEFINE row == [agent |-> a, finding |-> answer]
           S == [agent : Subagents, finding : Answers]
<1>1. findings \in Seq(S) /\ row \in S
  BY DEF TypeOK
<1>2. CASE findings' = findings /\ \E i \in DOMAIN findings : findings[i] = row
  BY <1>1, <1>2 DEF FindingsOnce
<1>3. CASE findings' = Append(findings, row) /\ ~ \E i \in DOMAIN findings : findings[i] = row
  <2> HIDE DEF row, S
  <2>1. /\ findings' \in Seq(S)
        /\ DOMAIN findings' = DOMAIN findings \cup {Len(findings) + 1}
        /\ \A i \in DOMAIN findings : findings'[i] = findings[i]
        /\ findings'[Len(findings) + 1] = row
    BY <1>1, <1>3
  <2>2. FindingsOnce'
    BY <1>3, <2>1 DEF FindingsOnce
  <2>3. \E i \in DOMAIN findings' : findings'[i] = row
    BY <2>1
  <2> QED
    BY <2>1, <2>2, <2>3 DEF row, S
<1> QED
  BY <1>2, <1>3 DEF WriteFinding

LEMMA SeqGrows ==
    ASSUME NEW S, NEW T, S \subseteq T, NEW s \in Seq(S)
    PROVE  s \in Seq(T)
<1>1. s \in [1 .. Len(s) -> T] /\ Len(s) \in Nat
  OBVIOUS
<1> QED
  BY <1>1

\* The decision is an outcome after the call; at most one row is added to the
\* outcomes, and at most one entry to the memory.
LEMMA WriteOutcomeEffect ==
    ASSUME TypeOK, NEW decision \in Decisions, WriteOutcome(decision)
    PROVE  /\ outcomes' \in Seq([decision : Decisions, agents : SUBSET Subagents])
           /\ memory' \in Seq(DOMAIN outcomes')
           /\ \A i \in DOMAIN outcomes : i \in DOMAIN outcomes' /\ outcomes'[i] = outcomes[i]
           /\ \E i \in DOMAIN outcomes' : outcomes'[i].decision = decision
           /\ Len(outcomes') <= Len(outcomes) + 1
           /\ Len(memory') <= Len(memory) + 1
<1> DEFINE S == [decision : Decisions, agents : SUBSET Subagents]
           row == [decision |-> decision, agents |-> {t.agent : t \in tasks}]
           old == {i \in DOMAIN outcomes : outcomes[i] = row}
           id == IF old = {} THEN Len(outcomes) + 1 ELSE CHOOSE i \in old : TRUE
<1>1. outcomes \in Seq(S) /\ memory \in Seq(DOMAIN outcomes) /\ tasks \subseteq TaskResults
  BY DEF TypeOK
<1>2. row \in S /\ row.decision = decision
  BY <1>1 DEF TaskResults
<1>3. /\ outcomes' = IF old = {} THEN Append(outcomes, row) ELSE outcomes
      /\ memory' = memory \/ memory' = Append(memory, id)
  BY DEF WriteOutcome
<1> HIDE DEF S, row
<1>4. /\ outcomes' \in Seq(S)
      /\ DOMAIN outcomes \subseteq DOMAIN outcomes'
      /\ \A i \in DOMAIN outcomes : outcomes'[i] = outcomes[i]
      /\ Len(outcomes') <= Len(outcomes) + 1
      /\ id \in DOMAIN outcomes' /\ outcomes'[id] = row
  <2>1. CASE old = {}
    BY <1>1, <1>2, <1>3, <2>1
  <2>2. CASE old # {}
    <3>1. id \in old
      BY <2>2
    <3> QED
      BY <1>1, <1>3, <2>2, <3>1
  <2> QED
    BY <2>1, <2>2
<1> HIDE DEF id
<1>5. memory \in Seq(DOMAIN outcomes')
  BY <1>1, <1>4, SeqGrows
<1>6. memory' \in Seq(DOMAIN outcomes') /\ Len(memory') <= Len(memory) + 1
  <2> DEFINE T == DOMAIN outcomes'
  <2>1. memory \in Seq(T) /\ id \in T /\ (memory' = memory \/ memory' = Append(memory, id))
    BY <1>3, <1>4, <1>5
  <2> HIDE DEF T
  <2>2. memory' \in Seq(T) /\ Len(memory') <= Len(memory) + 1
    BY <2>1
  <2> QED
    BY <2>2 DEF T
<1> QED
  BY <1>2, <1>4, <1>6 DEF S

LEMMA EndCallEffect ==
    ASSUME CallsHold, NEW call, EndCall(call)
    PROVE  /\ CallsHold' /\ calls' = calls \ {call}
           /\ Cardinality(calls') = Cardinality(calls) - 1
           /\ Cardinality(calls) \in Nat /\ Cardinality(calls') \in Nat
           /\ pc = "turn" /\ UNCHANGED <<log, pc, turn, crashes>>
<1>1. IsFiniteSet(calls) /\ call \in calls /\ calls' = calls \ {call}
  BY DEF CallsHold, EndCall
<1>2. IsFiniteSet(calls') /\ Cardinality(calls') = Cardinality(calls) - 1
  BY <1>1, FS_RemoveElement
<1>3. Cardinality(calls) \in Nat /\ Cardinality(calls') \in Nat
  BY <1>1, <1>2, FS_CardinalityType
<1> QED
  BY <1>1, <1>2, <1>3, OrchestratorAssumptions DEF CallsHold, EndCall

-----------------------------------------------------------------------------
(* The calls of the tools *)

\* Decisions are not Null, so that a run knows that it has finalized.
LEMMA ModelDecision ==
    ASSUME NEW text \in Texts
    PROVE  [by |-> "model", of |-> text] \in Decisions \ {Null}
BY OrchestratorAssumptions DEF Decisions

LEMMA LoopDecision ==
    ASSUME TypeOK
    PROVE  Summary(tasks) \in Decisions \ {Null}
BY OrchestratorAssumptions DEF Decisions, Summary, TypeOK

\* What is recorded stays recorded.
LEMMA RecordedStays ==
    ASSUME refused \subseteq refused',
           \A i \in DOMAIN outcomes : i \in DOMAIN outcomes' /\ outcomes'[i] = outcomes[i],
           NEW d, IsRecorded(d)
    PROVE  IsRecorded(d)'
BY DEF IsRecorded

LEMMA FaultEffect ==
    ASSUME TypeOK, Fault
    PROVE  faults' = faults + 1 /\ faults \in Nat /\ faults' \in 0 .. MaxFaults
BY OrchestratorAssumptions DEF TypeOK, Fault

LEMMA TaskHolds ==
    ASSUME IInv, NEW a \in Subagents, Tool(a)
    PROVE  IInv'
<1> DEFINE call == [tool |-> "task", agent |-> a]
           Rows == [agent : Subagents, finding : Answers]
<1>1. EndCall(call) /\ UNCHANGED <<outcomes, memory, final>>
  BY DEF Tool, TaskAnswers, TaskNotAuthenticated, TaskThrows, tables
<1> HIDE DEF call
<1>2. /\ CallsHold' /\ calls' = calls \ {call}
      /\ Cardinality(calls') = Cardinality(calls) - 1
      /\ Cardinality(calls) \in Nat /\ Cardinality(calls') \in Nat
      /\ pc = "turn" /\ UNCHANGED <<log, pc, turn, crashes>>
  BY <1>1, EndCallEffect DEF IInv
<1>3. /\ faults' \in 0 .. MaxFaults /\ faults \in Nat /\ faults <= faults'
      /\ findings' \in Seq(Rows)
      /\ \A i \in DOMAIN findings : i \in DOMAIN findings' /\ findings'[i] = findings[i]
      /\ FindingsOnce'
      /\ refused \subseteq refused' /\ refused' \subseteq Decisions \cup TaskResults
      /\ tasks \subseteq tasks' /\ tasks' \subseteq TaskResults
      /\ \A t \in tasks' \ tasks :
            \/ t.answer = Unauthenticated
            \/ t \in refused'
            \/ \E i \in DOMAIN findings' : findings'[i] = [agent |-> t.agent, finding |-> t.answer]
  <2>0. /\ findings \in Seq(Rows) /\ faults \in 0 .. MaxFaults /\ FindingsOnce
        /\ refused \subseteq Decisions \cup TaskResults /\ tasks \subseteq TaskResults
    BY DEF IInv, TypeOK
  <2>1. CASE TaskAnswers(a)
    <3>1. PICK answer \in Answers :
             /\ tasks' = tasks \cup {[agent |-> a, answer |-> answer]}
             /\ \/ WriteFinding(a, answer) /\ NoFault /\ UNCHANGED refused
                \/ /\ Fault
                   /\ refused' = refused \cup {[agent |-> a, answer |-> answer]}
                   /\ UNCHANGED findings
      BY <2>1 DEF TaskAnswers
    <3>2. [agent |-> a, answer |-> answer] \in TaskResults
      BY DEF TaskResults
    <3>3. CASE WriteFinding(a, answer) /\ NoFault /\ UNCHANGED refused
      <4>1. /\ findings' \in Seq(Rows)
            /\ \A i \in DOMAIN findings : i \in DOMAIN findings' /\ findings'[i] = findings[i]
            /\ \E i \in DOMAIN findings' : findings'[i] = [agent |-> a, finding |-> answer]
            /\ FindingsOnce'
        BY <3>3, WriteFindingEffect DEF IInv
      <4> QED
        BY <2>0, <3>1, <3>2, <3>3, <4>1 DEF NoFault
    <3>4. CASE /\ Fault /\ UNCHANGED findings
               /\ refused' = refused \cup {[agent |-> a, answer |-> answer]}
      BY <2>0, <3>1, <3>2, <3>4, FaultEffect DEF IInv, FindingsOnce
    <3> QED
      BY <3>1, <3>3, <3>4
  <2>2. CASE TaskNotAuthenticated(a)
    <3>1. [agent |-> a, answer |-> Unauthenticated] \in TaskResults
      BY DEF TaskResults
    <3> QED
      BY <2>0, <2>2, <3>1, FaultEffect DEF TaskNotAuthenticated, IInv, FindingsOnce, tables
  <2>3. CASE TaskThrows(a)
    <3>1. CASE UNCHANGED findings
      BY <2>0, <2>3, <3>1, FaultEffect DEF TaskThrows, IInv, FindingsOnce
    <3>2. ASSUME NEW answer \in Answers, WriteFinding(a, answer)
          PROVE  /\ findings' \in Seq(Rows)
                 /\ \A i \in DOMAIN findings : i \in DOMAIN findings' /\ findings'[i] = findings[i]
                 /\ FindingsOnce'
      BY <3>2, WriteFindingEffect DEF IInv
    <3>3. /\ faults' \in 0 .. MaxFaults /\ faults \in Nat /\ faults <= faults'
          /\ tasks' = tasks /\ refused' = refused
      BY <2>3, FaultEffect DEF TaskThrows, IInv
    <3>4. UNCHANGED findings \/ \E answer \in Answers : WriteFinding(a, answer)
      BY <2>3 DEF TaskThrows
    <3> QED
      BY <2>0, <3>1, <3>2, <3>3, <3>4
  <2> QED
    BY <2>1, <2>2, <2>3 DEF Tool
<1>4. TypeOK'
  BY <1>1, <1>2, <1>3 DEF IInv, TypeOK, log
<1>5. AnswersAreFindings'
  <2>1. \A t \in tasks :
            \/ t.answer = Unauthenticated
            \/ t \in refused
            \/ \E i \in DOMAIN findings : findings[i] = [agent |-> t.agent, finding |-> t.answer]
    BY DEF IInv, AnswersAreFindings
  <2> QED
    BY <1>3, <2>1 DEF AnswersAreFindings
<1>6. DecisionHolds'
  <2>1. \A d : IsRecorded(d) => IsRecorded(d)'
    BY <1>1, <1>3 DEF IsRecorded
  <2> QED
    BY <1>1, <1>2, <2>1 DEF IInv, DecisionHolds, log
<1>7. RunHolds'
  BY <1>2 DEF IInv, RunHolds, Ended, log
<1>8. BudgetHolds'
  <2>1. ASSUME NEW n \in Nat, Spent(n) PROVE Spent(n)'
    <3>1. CallsPerTurn * crashes \in Nat /\ CallsPerTurn * (1 + crashes) \in Nat
      BY OrchestratorAssumptions DEF IInv, TypeOK
    <3> QED
      BY <1>1, <1>2, <1>3, <2>1, <3>1 DEF Spent
  <2>2. Len(outcomes) \in Nat /\ Len(memory) \in Nat
    BY DEF IInv, TypeOK
  <2> QED
    BY <1>1, <2>1, <2>2 DEF IInv, BudgetHolds, Spent
<1> QED
  BY <1>2, <1>3, <1>4, <1>5, <1>6, <1>7, <1>8 DEF IInv

\* The room that is left for one more row: none of it is used before the
\* decision is there.
LEMMA Room ==
    ASSUME TypeOK
    PROVE  /\ CallsPerTurn * (1 + crashes) = CallsPerTurn * crashes + CallsPerTurn
           /\ CallsPerTurn * crashes \in Nat /\ CallsPerTurn \in Nat \ {0}
           /\ CallsPerTurn * (1 + (crashes + 1)) = CallsPerTurn * (1 + crashes) + CallsPerTurn
           /\ CallsPerTurn * (1 + crashes) \in Nat
BY OrchestratorAssumptions DEF TypeOK

LEMMA FinalizeHolds ==
    ASSUME IInv, NEW text \in Texts, Finalize(text)
    PROVE  IInv'
<1> DEFINE call == [tool |-> "finalize", text |-> text]
           d == [by |-> "model", of |-> text]
<1>0. d \in Decisions \ {Null}
  BY ModelDecision
<1>1. EndCall(call) /\ UNCHANGED <<findings, tasks>>
  BY DEF Finalize, FinalizeRecorded, FinalizeRefused, FinalizeThrows, tables
<1>2. \/ final' = d /\ WriteOutcome(d) /\ NoFault /\ UNCHANGED refused
      \/ final' = d /\ Fault /\ refused' = refused \cup {d} /\ UNCHANGED <<outcomes, memory>>
      \/ /\ UNCHANGED <<final, refused>> /\ Fault
         /\ WriteOutcome(d) \/ UNCHANGED <<outcomes, memory>>
  BY DEF Finalize, FinalizeRecorded, FinalizeRefused, FinalizeThrows, tables
<1> HIDE DEF call, d
<1>3. /\ CallsHold' /\ calls' = calls \ {call}
      /\ Cardinality(calls') = Cardinality(calls) - 1
      /\ Cardinality(calls) \in Nat /\ Cardinality(calls') \in Nat
      /\ pc = "turn" /\ UNCHANGED <<log, pc, turn, crashes>>
  BY <1>1, EndCallEffect DEF IInv
<1>5. /\ outcomes' \in Seq([decision : Decisions, agents : SUBSET Subagents])
      /\ memory' \in Seq(DOMAIN outcomes')
      /\ \A i \in DOMAIN outcomes : i \in DOMAIN outcomes' /\ outcomes'[i] = outcomes[i]
      /\ Len(outcomes') <= Len(outcomes) + 1 /\ Len(memory') <= Len(memory) + 1
  <2>1. CASE WriteOutcome(d)
    BY <1>0, <2>1, WriteOutcomeEffect DEF IInv
  <2>2. CASE UNCHANGED <<outcomes, memory>>
    BY <2>2 DEF IInv, TypeOK
  <2> QED
    BY <1>2, <2>1, <2>2
<1>6. /\ faults' \in 0 .. MaxFaults /\ faults \in Nat
      /\ final' \in Decisions \cup {Null} /\ refused \subseteq refused'
      /\ refused' \subseteq Decisions \cup TaskResults
  BY <1>0, <1>2, FaultEffect DEF IInv, TypeOK, NoFault
<1>7. final' = final \/ (final' # Null /\ IsRecorded(final)')
  <2>1. WriteOutcome(d) => \E i \in DOMAIN outcomes' : outcomes'[i].decision = d
    BY <1>0, WriteOutcomeEffect DEF IInv
  <2> QED
    BY <1>0, <1>2, <2>1 DEF IsRecorded
<1>8. TypeOK'
  BY <1>1, <1>3, <1>5, <1>6 DEF IInv, TypeOK, log
<1>9. AnswersAreFindings' /\ FindingsOnce'
  BY <1>1, <1>6 DEF IInv, AnswersAreFindings, FindingsOnce
<1>10. DecisionHolds' /\ RunHolds'
  <2>1. \A e : IsRecorded(e) => IsRecorded(e)'
    BY <1>5, <1>6 DEF IsRecorded
  <2> QED
    BY <1>3, <1>7, <2>1 DEF IInv, DecisionHolds, RunHolds, Ended, log
<1>11. BudgetHolds'
  <2>1. ASSUME NEW n \in Nat, NEW m \in Nat, m <= n + 1, Spent(n),
               m = n \/ faults' = faults + 1 \/ final' # Null
        PROVE  Spent(m)'
    <3>1. Cardinality(calls) <= CallsPerTurn
      BY DEF IInv, CallsHold
    <3>2. faults' = faults \/ faults' = faults + 1
      BY <1>2, FaultEffect DEF IInv, NoFault
    <3>3. final' = final \/ final' # Null
      BY <1>7
    <3> QED
      BY <1>3, <1>6, <2>1, <3>1, <3>2, <3>3, Room DEF IInv, Spent
  <2>2. /\ Len(outcomes) \in Nat /\ Len(memory) \in Nat
        /\ Len(outcomes') \in Nat /\ Len(memory') \in Nat
    BY <1>5 DEF IInv, TypeOK
  <2>3. \/ faults' = faults + 1
        \/ final' = d
    BY <1>2, FaultEffect DEF IInv
  <2> QED
    BY <1>0, <1>5, <2>1, <2>2, <2>3 DEF IInv, BudgetHolds, Spent
<1> QED
  BY <1>3, <1>8, <1>9, <1>10, <1>11 DEF IInv

-----------------------------------------------------------------------------
(* The loop and the process *)

LEMMA FallbackHolds ==
    ASSUME IInv, Fallback
    PROVE  IInv'
<1> DEFINE d == Summary(tasks)
<1>0. d \in Decisions \ {Null}
  BY LoopDecision DEF IInv
<1>1. /\ pc = "loop" /\ final = Null /\ final' = d /\ pc' = "return"
      /\ UNCHANGED <<findings, log, turn, calls, tasks, crashes>>
      /\ \/ WriteOutcome(d) /\ UNCHANGED <<faults, refused>>
         \/ Fault /\ refused' = refused \cup {d} /\ UNCHANGED <<outcomes, memory>>
  BY DEF Fallback
<1> HIDE DEF d
<1>2. /\ outcomes' \in Seq([decision : Decisions, agents : SUBSET Subagents])
      /\ memory' \in Seq(DOMAIN outcomes')
      /\ \A i \in DOMAIN outcomes : i \in DOMAIN outcomes' /\ outcomes'[i] = outcomes[i]
      /\ Len(outcomes') <= Len(outcomes) + 1 /\ Len(memory') <= Len(memory) + 1
  <2>1. CASE WriteOutcome(d)
    BY <1>0, <2>1, WriteOutcomeEffect DEF IInv
  <2>2. CASE UNCHANGED <<outcomes, memory>>
    BY <2>2 DEF IInv, TypeOK
  <2> QED
    BY <1>1, <2>1, <2>2
<1>3. /\ faults' \in 0 .. MaxFaults /\ faults \in Nat /\ faults <= faults'
      /\ refused \subseteq refused' /\ refused' \subseteq Decisions \cup TaskResults
  BY <1>0, <1>1, FaultEffect DEF IInv, TypeOK
<1>4. IsRecorded(final)'
  <2>1. WriteOutcome(d) => \E i \in DOMAIN outcomes' : outcomes'[i].decision = d
    BY <1>0, WriteOutcomeEffect DEF IInv
  <2> QED
    BY <1>1, <2>1 DEF IsRecorded
<1>5. TypeOK'
  BY <1>0, <1>1, <1>2, <1>3 DEF IInv, TypeOK, log
<1>6. AnswersAreFindings' /\ FindingsOnce' /\ CallsHold'
  BY <1>1, <1>3 DEF IInv, AnswersAreFindings, FindingsOnce, CallsHold
<1>7. DecisionHolds' /\ RunHolds'
  <2>1. \A e : IsRecorded(e) => IsRecorded(e)'
    BY <1>2, <1>3 DEF IsRecorded
  <2> QED
    BY <1>0, <1>1, <1>4, <2>1 DEF IInv, DecisionHolds, RunHolds, Ended, log
<1>8. BudgetHolds'
  <2>1. /\ Len(outcomes) \in Nat /\ Len(memory) \in Nat
        /\ Len(outcomes') \in Nat /\ Len(memory') \in Nat
    BY <1>2 DEF IInv, TypeOK
  <2> QED
    <3>1. ASSUME NEW n \in Nat, NEW m \in Nat, m <= n + 1, Spent(n) PROVE Spent(m)'
      <4>1. final' # Null /\ pc' = "return" /\ crashes' = crashes
        BY <1>0, <1>1
      <4>2. n <= CallsPerTurn * crashes + faults
        BY <1>1, <3>1 DEF Spent
      <4>3. m <= CallsPerTurn * (1 + crashes) + faults'
        <5> DEFINE X == CallsPerTurn * crashes
        <5>1. X \in Nat /\ CallsPerTurn \in Nat \ {0} /\ CallsPerTurn * (1 + crashes) = X + CallsPerTurn
          BY Room DEF IInv
        <5> HIDE DEF X
        <5>2. n <= X + faults
          BY <4>2 DEF X
        <5> QED
          BY <1>3, <3>1, <5>1, <5>2
      <4> QED
        BY <4>1, <4>3 DEF Spent
    <3> QED
      BY <1>2, <2>1, <3>1 DEF IInv, BudgetHolds
<1> QED
  BY <1>5, <1>6, <1>7, <1>8 DEF IInv

\* A step of the loop that writes nothing.
LEMMA QuietHolds ==
    ASSUME IInv, UNCHANGED <<tables, tasks, final, crashes, refused>>,
           TypeOK', CallsHold', RunHolds',
           status' = "SUCCESS" => IsRecorded(result'),
           pc' = "return" => final # Null,
           faults' >= faults,
           pc' = "down" => pc = "down",
           pc' = "turn" => final = Null
    PROVE  IInv'
<1>1. AnswersAreFindings' /\ FindingsOnce'
  BY DEF IInv, AnswersAreFindings, FindingsOnce, tables
<1>2. \A e : IsRecorded(e)' <=> IsRecorded(e)
  BY DEF IsRecorded, tables
<1>3. DecisionHolds'
  BY <1>2 DEF IInv, DecisionHolds
<1>4. BudgetHolds'
  <2>1. /\ Len(outcomes) \in Nat /\ Len(memory) \in Nat /\ faults \in Nat /\ faults' \in Nat
    BY DEF IInv, TypeOK, tables
  <2> QED
    BY <2>1, Room DEF IInv, BudgetHolds, Spent, tables
<1> QED
  BY <1>1, <1>3, <1>4 DEF IInv

LEMMA LoopHolds ==
    ASSUME IInv,
           Start \/ GetContext \/ SkipTurn \/ EndTurn \/ LeaveLoop \/ Return \/ Throw \/ Launch
    PROVE  IInv'
<1> USE DEF log, state, bounds
<1>1. CASE Start
  <2>1. TypeOK' /\ CallsHold' /\ RunHolds'
    BY <1>1 DEF IInv, TypeOK, CallsHold, RunHolds, Ended, Start, tables
  <2> QED
    BY <1>1, <2>1, QuietHolds DEF Start, IInv, TypeOK
<1>2. CASE GetContext
  <2>1. TypeOK' /\ CallsHold' /\ RunHolds'
    BY <1>2, OrchestratorAssumptions
       DEF IInv, TypeOK, CallsHold, RunHolds, Ended, GetContext, tables
  <2>2. status' # "SUCCESS"
    BY <1>2 DEF IInv, RunHolds, Ended, GetContext
  <2> QED
    BY <1>2, <2>1, <2>2, QuietHolds DEF GetContext, IInv, TypeOK
<1>3. CASE SkipTurn
  <2>1. TypeOK' /\ CallsHold' /\ RunHolds'
    BY <1>3, OrchestratorAssumptions
       DEF IInv, TypeOK, CallsHold, RunHolds, Ended, SkipTurn, Looping, tables
  <2>2. status' # "SUCCESS"
    BY <1>3 DEF IInv, RunHolds, Ended, SkipTurn, Looping
  <2> QED
    BY <1>3, <2>1, <2>2, QuietHolds DEF SkipTurn, Looping, IInv, TypeOK
<1>4. CASE EndTurn
  <2>1. turn < MaxTurns
    BY <1>4 DEF IInv, RunHolds, EndTurn
  <2>2. TypeOK' /\ CallsHold' /\ RunHolds'
    BY <1>4, <2>1, OrchestratorAssumptions
       DEF IInv, TypeOK, CallsHold, RunHolds, Ended, EndTurn, tables
  <2>3. status' # "SUCCESS"
    BY <1>4 DEF IInv, RunHolds, Ended, EndTurn
  <2> QED
    BY <1>4, <2>2, <2>3, QuietHolds DEF EndTurn, IInv, TypeOK
<1>5. CASE LeaveLoop
  <2>1. TypeOK' /\ CallsHold' /\ RunHolds'
    BY <1>5 DEF IInv, TypeOK, CallsHold, RunHolds, Ended, LeaveLoop, tables
  <2>2. status' # "SUCCESS"
    BY <1>5 DEF IInv, RunHolds, Ended, LeaveLoop
  <2> QED
    BY <1>5, <2>1, <2>2, QuietHolds DEF LeaveLoop, IInv, TypeOK
<1>6. CASE Return
  <2>1. TypeOK' /\ CallsHold' /\ RunHolds'
    BY <1>6 DEF IInv, TypeOK, CallsHold, RunHolds, Ended, Return, tables
  <2>2. IsRecorded(result')
    BY <1>6 DEF IInv, DecisionHolds, Return
  <2> QED
    BY <1>6, <2>1, <2>2, QuietHolds DEF Return, IInv, TypeOK
<1>7. CASE Throw
  <2>1. faults' = faults + 1 /\ faults \in Nat /\ faults' \in 0 .. MaxFaults
    BY <1>7, FaultEffect DEF IInv, Throw
  <2>2. TypeOK' /\ CallsHold' /\ RunHolds'
    BY <1>7, <2>1 DEF IInv, TypeOK, CallsHold, RunHolds, Ended, Throw, tables
  <2> QED
    BY <1>7, <2>1, <2>2, QuietHolds DEF Throw
<1>8. CASE Launch
  <2>1. TypeOK' /\ CallsHold' /\ RunHolds'
    BY <1>8 DEF IInv, TypeOK, CallsHold, RunHolds, Ended, Launch, tables
  <2> QED
    BY <1>8, <2>1, QuietHolds DEF Launch, IInv, TypeOK, DecisionHolds
<1> QED
  BY <1>1, <1>2, <1>3, <1>4, <1>5, <1>6, <1>7, <1>8

\* The model asks for finitely many calls.
LEMMA BeginTurnHolds ==
    ASSUME IInv, BeginTurn
    PROVE  IInv'
<1>1. PICK asked \in SUBSET Calls :
         IsFiniteSet(asked) /\ Cardinality(asked) <= CallsPerTurn /\ calls' = asked
  BY DEF BeginTurn
<1>2. /\ pc = "loop" /\ pc' = "turn" /\ final = Null /\ turn < MaxTurns
      /\ UNCHANGED <<tables, log, turn, tasks, final, bounds>>
  BY DEF BeginTurn, Looping
<1>3. TypeOK'
  BY <1>1, <1>2 DEF IInv, TypeOK, tables, log, bounds
<1>4. CallsHold' /\ RunHolds'
  BY <1>1, <1>2 DEF IInv, CallsHold, RunHolds, Ended, log
<1>5. status' # "SUCCESS" /\ faults' >= faults
  BY <1>2 DEF IInv, RunHolds, Ended, TypeOK, log, bounds
<1> QED
  BY <1>2, <1>3, <1>4, <1>5, QuietHolds DEF bounds

\* What a run that crashes has written is spent.
LEMMA CrashHolds ==
    ASSUME IInv, Crash
    PROVE  IInv'
<1>1. /\ pc' = "down" /\ turn' = 0 /\ calls' = {} /\ tasks' = {} /\ final' = Null
      /\ crashes < MaxCrashes /\ crashes' = crashes + 1
      /\ UNCHANGED <<tables, log, faults, refused>>
  BY DEF Crash, FreshState
<1>2. TypeOK'
  BY <1>1, OrchestratorAssumptions DEF IInv, TypeOK, tables, log
<1>3. AnswersAreFindings' /\ FindingsOnce'
  BY <1>1 DEF IInv, AnswersAreFindings, FindingsOnce, tables
<1>4. DecisionHolds' /\ RunHolds'
  BY <1>1 DEF IInv, DecisionHolds, RunHolds, Ended, IsRecorded, tables, log
<1>5. CallsHold'
  BY <1>1, FS_EmptySet, OrchestratorAssumptions DEF CallsHold
<1>6. BudgetHolds'
  <2>1. ASSUME NEW n \in Nat, Spent(n) PROVE Spent(n)'
    <3>1. n <= CallsPerTurn * (1 + crashes) + faults
      BY <2>1 DEF Spent
    <3>2. CallsPerTurn * crashes' = CallsPerTurn * (1 + crashes)
      BY <1>1, OrchestratorAssumptions DEF IInv, TypeOK
    <3>3. CallsPerTurn * (1 + crashes') = CallsPerTurn * (1 + crashes) + CallsPerTurn
      BY <1>1, Room DEF IInv
    <3>4. /\ CallsPerTurn * (1 + crashes) \in Nat /\ CallsPerTurn \in Nat /\ faults \in Nat
      BY Room DEF IInv, TypeOK
    <3>5. n <= CallsPerTurn * (1 + crashes') + faults
      BY <3>1, <3>3, <3>4
    <3> QED
      BY <1>1, <3>1, <3>2, <3>5 DEF Spent
  <2>2. Len(outcomes) \in Nat /\ Len(memory) \in Nat
    BY DEF IInv, TypeOK
  <2> QED
    BY <1>1, <2>1, <2>2 DEF IInv, BudgetHolds, Spent, tables
<1> QED
  BY <1>2, <1>3, <1>4, <1>5, <1>6 DEF IInv

-----------------------------------------------------------------------------
(* The invariant of the specification, and the properties *)

LEMMA InitHolds == Init => IInv
<1> SUFFICES ASSUME Init PROVE IInv
  OBVIOUS
<1>1. TypeOK
  BY OrchestratorAssumptions DEF Init, TypeOK
<1>2. CallsHold
  BY FS_EmptySet, OrchestratorAssumptions DEF Init, CallsHold
<1>3. BudgetHolds
  BY Room, <1>1 DEF Init, BudgetHolds, Spent
<1> QED
  BY <1>1, <1>2, <1>3
     DEF Init, IInv, AnswersAreFindings, FindingsOnce, DecisionHolds, RunHolds, Ended

LEMMA StutterHolds ==
    ASSUME IInv, UNCHANGED vars
    PROVE  IInv'
BY DEF vars, tables, log, state, bounds, IInv, TypeOK, AnswersAreFindings, FindingsOnce,
   DecisionHolds, IsRecorded, RunHolds, Ended, CallsHold, BudgetHolds, Spent

\* What a run keeps in memory, what its tables hold and what DBOS recorded of
\* it agree, after any interleaving of calls, faults and crashes.
THEOREM OrchestratorInvariant == Spec => []IInv
<1>1. ASSUME IInv, [Next]_vars PROVE IInv'
  BY <1>1, TaskHolds, FinalizeHolds, FallbackHolds, LoopHolds, BeginTurnHolds, CrashHolds,
     StutterHolds DEF Next, Progress
<1> QED
  BY <1>1, InitHolds, PTL DEF Spec

\* The state has the shape TypeOK gives it; in particular the turns and the
\* recorded steps stay within MAX_TURNS.
THEOREM OrchestratorTypes == Spec => []TypeOK
BY OrchestratorInvariant, PTL DEF IInv

\* A run that says "Outcome stored: true" has stored the decision it returns,
\* unless the harness refused it, wherever it crashed and whatever it replayed.
THEOREM ReturnedIsRecorded == Spec => []ReturnedDecisionIsRecorded
<1>1. IInv => ReturnedDecisionIsRecorded
  BY DEF IInv, DecisionHolds, IsRecorded, ReturnedDecisionIsRecorded
<1> QED
  BY <1>1, OrchestratorInvariant, PTL

\* Every answer the orchestrator builds on is a finding other agents can read,
\* unless the sub-agent was not authenticated or the harness refused it.
THEOREM AnswersStayFindings == Spec => []AnswersAreFindings
BY OrchestratorInvariant, PTL DEF IInv

\* However often a turn runs again, no finding is stored twice.
THEOREM FindingsStayUnique == Spec => []FindingsOnce
BY OrchestratorInvariant, PTL DEF IInv

\* The outcomes and the copies in the episodic memory are at most the calls of
\* one turn for each execution, and one for each fault: a crash of the process
\* is the only way to a second turn that finalizes.
THEOREM OutcomesStayBounded == Spec => []OutcomesBounded
<1>1. IInv => OutcomesBounded
  BY DEF IInv, BudgetHolds, Spent, OutcomesBounded
<1> QED
  BY <1>1, OrchestratorInvariant, PTL

\* Once DBOS has stored the end of a run, no step writes to the tables or to
\* the log again, that of a process started again with its id included.
THEOREM EndedStaysSilent == Spec => EndedRunIsSilent
<1> DEFINE Silent == Ended => UNCHANGED <<tables, log>>
<1>1. ASSUME IInv, [Next]_vars PROVE Silent
  <2>1. SUFFICES ASSUME Ended PROVE UNCHANGED <<tables, log>>
    OBVIOUS
  <2>2. pc \in {"ready", "down"} /\ status \in {"SUCCESS", "ERROR"}
    BY <1>1, <2>1 DEF IInv, RunHolds, Ended
  <2>3. CASE Progress
    BY <2>2, <2>3 DEF Progress, GetContext, SkipTurn, Looping, BeginTurn, EndTurn, Tool, TaskAnswers,
       TaskNotAuthenticated, TaskThrows, Finalize, FinalizeRecorded, FinalizeRefused,
       FinalizeThrows, EndCall, Fallback, LeaveLoop, Return, Throw
  <2>4. CASE Start \/ Crash \/ Launch \/ UNCHANGED vars
    BY <2>2, <2>4 DEF Start, Crash, Launch, vars
  <2> QED
    BY <1>1, <2>3, <2>4 DEF Next
<1> HIDE DEF Silent
<1>2. IInv /\ [Next]_vars => [Silent]_vars
  BY <1>1
<1>3. Spec => [][Silent]_vars
  BY <1>2, OrchestratorInvariant, PTL DEF Spec
<1> QED
  BY <1>3 DEF EndedRunIsSilent, Silent
===============================================================================
