---------------------------- MODULE Orchestrator ----------------------------
(***************************************************************************)
(* The orchestrator (agents/src/workflows/orchestrator.ts): one run of the  *)
(* deep-agent loop as a DBOS workflow in the agent process, and the tables   *)
(* its tool calls write through the harness (tools/persist.ts).              *)
(*                                                                          *)
(* get_context and every turn are DBOS steps.  A turn is one call of the     *)
(* model and the tools it asks for, which run concurrently; what the tools   *)
(* learn is kept in the DeepAgentState object, in memory.  A crash loses     *)
(* that object; the next invocation replays the loop, and a turn that is     *)
(* checkpointed is skipped without its tools running.                        *)
(*                                                                          *)
(* External: DBOS (a step inside a step runs inline and has no checkpoint),  *)
(* the model, and generateText, which turns a tool that throws into a reply. *)
(***************************************************************************)
EXTENDS Naturals, Sequences, FiniteSets

CONSTANTS
    Subagents,      \* ALLOWED_SUBAGENTS
    Answers,        \* what a sub-agent's model may answer
    Texts,          \* the decisions the orchestrator's model may finalize
    Null,
    MaxTurns,       \* MAX_TURNS
    CallsPerTurn,   \* bound on the tool calls the model asks for in a turn
    MaxCrashes,     \* bound on crashes of the agent process
    MaxFaults       \* bound on calls that throw or reply {error}

Unauthenticated == "not authenticated"

TaskResults == [agent : Subagents, answer : Answers \cup {Unauthenticated}]

Calls == [tool : {"task"}, agent : Subagents] \cup [tool : {"finalize"}, text : Texts]

\* What a decision says: the text of the model, or the summary the loop makes
\* of its task results when the turns run out.
Summary(results) == [by |-> "loop", of |-> results]
Decisions == [by : {"model"}, of : Texts] \cup [by : {"loop"}, of : SUBSET TaskResults]

ASSUME OrchestratorAssumptions ==
    /\ MaxTurns \in Nat \ {0}
    /\ CallsPerTurn \in Nat \ {0}
    /\ MaxCrashes \in Nat
    /\ MaxFaults \in Nat
    /\ Null \notin Decisions

VARIABLES
    findings,   \* decision_findings of this session
    outcomes,   \* decision_outcomes of this session
    memory,     \* memory_entries: the outcome each episodic entry captures
    status,     \* DBOS: workflow status
    ckpt,       \* DBOS: steps recorded (get_context, then the turns in order)
    result,     \* DBOS: what the workflow returned
    pc,         \* volatile: where the execution is
    turn,       \* volatile: state.turn
    calls,      \* volatile: tool calls of this turn that have not ended
    tasks,      \* volatile: state.taskResults
    final,      \* volatile: state.final, Null until state.finalized
    crashes, faults,
    refused     \* history: what the harness answered {error} to

tables == <<findings, outcomes, memory>>
log == <<status, ckpt, result>>
state == <<turn, calls, tasks, final>>
bounds == <<crashes, faults, refused>>
vars == <<tables, log, pc, state, bounds>>

TypeOK ==
    /\ findings \in Seq([agent : Subagents, finding : Answers])
    /\ outcomes \in Seq([decision : Decisions, agents : SUBSET Subagents])
    /\ memory \in Seq(DOMAIN outcomes)
    /\ status \in {"absent", "PENDING", "SUCCESS", "ERROR"}
    /\ ckpt \in 0 .. MaxTurns + 1
    /\ result \in Decisions \cup {Null}
    /\ pc \in {"down", "ready", "context", "loop", "turn", "return"}
    /\ turn \in 0 .. MaxTurns
    /\ calls \subseteq Calls
    /\ tasks \subseteq TaskResults
    /\ final \in Decisions \cup {Null}
    /\ crashes \in 0 .. MaxCrashes
    /\ faults \in 0 .. MaxFaults
    /\ refused \subseteq Decisions \cup TaskResults

\* initialState()
FreshState ==
    /\ turn' = 0
    /\ calls' = {}
    /\ tasks' = {}
    /\ final' = Null

Init ==
    /\ findings = <<>> /\ outcomes = <<>> /\ memory = <<>>
    /\ status = "absent" /\ ckpt = 0 /\ result = Null
    /\ pc = "ready"
    /\ turn = 0 /\ calls = {} /\ tasks = {} /\ final = Null
    /\ crashes = 0 /\ faults = 0 /\ refused = {}

-----------------------------------------------------------------------------
(* The tools of the harness *)

\* Mutants of WriteFinding: no ON CONFLICT; a key without the finding.
WriteFindingPerAgent(a, answer) ==
    IF \E i \in DOMAIN findings : findings[i].agent = a
    THEN UNCHANGED findings
    ELSE findings' = Append(findings, [agent |-> a, finding |-> answer])
WriteFindingAlways(a, answer) ==
    findings' = Append(findings, [agent |-> a, finding |-> answer])

\* write_finding: the key is made of the session, the agent and the finding
\* (confidence and sources are the same in every call of an agent).
WriteFinding(a, answer) ==
    LET row == [agent |-> a, finding |-> answer]
    IN IF \E i \in DOMAIN findings : findings[i] = row
       THEN UNCHANGED findings
       ELSE findings' = Append(findings, row)

\* record_outcome: the key is made of the session, the question, the decision
\* and the agents.  The outcome, new or found, is then captured as an episodic
\* memory, unless that INSERT fails.
WriteOutcome(decision) ==
    LET row == [decision |-> decision, agents |-> {t.agent : t \in tasks}]
        old == {i \in DOMAIN outcomes : outcomes[i] = row}
        id == IF old = {} THEN Len(outcomes) + 1 ELSE CHOOSE i \in old : TRUE
    IN /\ outcomes' = IF old = {} THEN Append(outcomes, row) ELSE outcomes
       /\ memory' \in {memory, Append(memory, id)}

-----------------------------------------------------------------------------
(* The invocation of the orchestrator and the workflow up to its loop *)

\* startWorkflow with an id DBOS has not seen; with one it has seen it returns
\* the handle of that run: no step.
Start ==
    /\ pc = "ready"
    /\ status = "absent"
    /\ status' = "PENDING"
    /\ pc' = "context"
    /\ UNCHANGED <<tables, ckpt, result, state, bounds>>

GetContext ==
    /\ pc = "context"
    /\ ckpt' = IF ckpt = 0 THEN 1 ELSE ckpt
    /\ pc' = "loop"
    /\ UNCHANGED <<tables, status, result, state, bounds>>

-----------------------------------------------------------------------------
(* The loop *)

\* Mutant of Looping: state.finalized is not looked at.
LoopingToTheEnd == pc = "loop" /\ turn < MaxTurns

Looping == pc = "loop" /\ final = Null /\ turn < MaxTurns

Recorded == turn + 2 <= ckpt

\* Mutant of SkipTurn: the turn is counted in the body of the step.
SkipTurnUncounted ==
    /\ Looping
    /\ Recorded
    /\ UNCHANGED vars

\* A recorded turn returns its value, which the loop ignores.
SkipTurn ==
    /\ Looping
    /\ Recorded
    /\ turn' = turn + 1
    /\ UNCHANGED <<tables, log, pc, calls, tasks, final, bounds>>

\* The model answers with the tools it wants (none: a text, a note or todos,
\* which are kept in memory only).
BeginTurn ==
    /\ Looping
    /\ ~Recorded
    /\ \E asked \in SUBSET Calls :
          /\ IsFiniteSet(asked) /\ Cardinality(asked) <= CallsPerTurn
          /\ calls' = asked
    /\ pc' = "turn"
    /\ UNCHANGED <<tables, log, turn, tasks, final, bounds>>

Fault == faults < MaxFaults /\ faults' = faults + 1
NoFault == UNCHANGED faults

EndCall(call) ==
    /\ pc = "turn"
    /\ call \in calls
    /\ calls' = calls \ {call}
    /\ UNCHANGED <<log, pc, turn, crashes>>

\* The task tool and runSubagentStep (the PII that the harness masks in a finding
\* is not modelled).  A finding the harness refuses does not
\* stop the answer from being used.
TaskAnswers(a) ==
    /\ EndCall([tool |-> "task", agent |-> a])
    /\ \E answer \in Answers :
          /\ tasks' = tasks \cup {[agent |-> a, answer |-> answer]}
          /\ \/ WriteFinding(a, answer) /\ NoFault /\ UNCHANGED refused
             \/ /\ Fault
                /\ refused' = refused \cup {[agent |-> a, answer |-> answer]}
                /\ UNCHANGED findings
    /\ UNCHANGED <<outcomes, memory, final>>

TaskNotAuthenticated(a) ==
    /\ EndCall([tool |-> "task", agent |-> a])
    /\ Fault
    /\ tasks' = tasks \cup {[agent |-> a, answer |-> Unauthenticated]}
    /\ UNCHANGED <<tables, final, refused>>

\* The connection is lost before or after the harness has stored the finding.
TaskThrows(a) ==
    /\ EndCall([tool |-> "task", agent |-> a])
    /\ Fault
    /\ \/ UNCHANGED findings
       \/ \E answer \in Answers : WriteFinding(a, answer)
    /\ UNCHANGED <<outcomes, memory, tasks, final, refused>>

\* Mutant of FinalizeRecorded: the state is finalized before, and whether or not,
\* the outcome is recorded.
FinalizeWithoutRecord(text) ==
    /\ EndCall([tool |-> "finalize", text |-> text])
    /\ final' = [by |-> "model", of |-> text]
    /\ NoFault
    /\ UNCHANGED <<tables, tasks, refused>>

\* The finalize tool: record_outcome, then state.final and state.finalized.
FinalizeRecorded(text) ==
    /\ EndCall([tool |-> "finalize", text |-> text])
    /\ final' = [by |-> "model", of |-> text]
    /\ WriteOutcome(final')
    /\ NoFault
    /\ UNCHANGED <<findings, tasks, refused>>

\* The harness replies {error}: callTool returns it as a value, and finalize
\* goes on.
FinalizeRefused(text) ==
    /\ EndCall([tool |-> "finalize", text |-> text])
    /\ final' = [by |-> "model", of |-> text]
    /\ Fault
    /\ refused' = refused \cup {final'}
    /\ UNCHANGED <<tables, tasks>>

\* The connection is lost before or after the outcome is stored.
FinalizeThrows(text) ==
    /\ EndCall([tool |-> "finalize", text |-> text])
    /\ Fault
    /\ WriteOutcome([by |-> "model", of |-> text]) \/ UNCHANGED <<outcomes, memory>>
    /\ UNCHANGED <<findings, tasks, final, refused>>

\* Every tool has ended: DBOS records the turn.
EndTurn ==
    /\ pc = "turn"
    /\ calls = {}
    /\ ckpt' = turn + 2
    /\ turn' = turn + 1
    /\ pc' = "loop"
    /\ UNCHANGED <<tables, status, result, calls, tasks, final, bounds>>

\* The turns ran out: the outcome is recorded outside any step.
Fallback ==
    /\ pc = "loop"
    /\ final = Null
    /\ turn = MaxTurns
    /\ final' = Summary(tasks)
    /\ \/ WriteOutcome(final') /\ UNCHANGED <<faults, refused>>
       \/ /\ Fault
          /\ refused' = refused \cup {final'}
          /\ UNCHANGED <<outcomes, memory>>
    /\ pc' = "return"
    /\ UNCHANGED <<findings, log, turn, calls, tasks, crashes>>

LeaveLoop ==
    /\ pc = "loop"
    /\ final # Null
    /\ pc' = "return"
    /\ UNCHANGED <<tables, log, state, bounds>>

\* The workflow returns, with outcomeStored: true.
Return ==
    /\ pc = "return"
    /\ status' = "SUCCESS"
    /\ result' = final
    /\ pc' = "ready"
    /\ UNCHANGED <<tables, ckpt, state, bounds>>

\* get_context, the call of the model or the record_outcome of Fallback throws:
\* the workflow fails.
Throw ==
    /\ \/ pc = "context" /\ ckpt = 0
       \/ Looping /\ ~Recorded
       \/ pc = "loop" /\ final = Null /\ turn = MaxTurns
    /\ Fault
    /\ status' = "ERROR"
    /\ pc' = "ready"
    /\ UNCHANGED <<tables, ckpt, result, state, crashes, refused>>

-----------------------------------------------------------------------------

Crash ==
    /\ pc # "down"
    /\ crashes < MaxCrashes
    /\ pc' = "down"
    /\ FreshState
    /\ crashes' = crashes + 1
    /\ UNCHANGED <<tables, log, faults, refused>>

\* Mutant of Launch: a run that has ended is run again.
LaunchEverything ==
    /\ pc = "down"
    /\ pc' = IF status = "absent" THEN "ready" ELSE "context"
    /\ UNCHANGED <<tables, log, state, bounds>>

\* The next invocation: initAgentDbos recovers a pending run.
Launch ==
    /\ pc = "down"
    /\ pc' = IF status = "PENDING" THEN "context" ELSE "ready"
    /\ UNCHANGED <<tables, log, state, bounds>>

Tool(a) == TaskAnswers(a) \/ TaskNotAuthenticated(a) \/ TaskThrows(a)

Finalize(text) == FinalizeRecorded(text) \/ FinalizeRefused(text) \/ FinalizeThrows(text)

Progress ==
    \/ GetContext \/ SkipTurn \/ BeginTurn \/ EndTurn
    \/ \E a \in Subagents : Tool(a)
    \/ \E text \in Texts : Finalize(text)
    \/ Fallback \/ LeaveLoop \/ Return \/ Throw

Next == Start \/ Progress \/ Crash \/ Launch

Spec == Init /\ [][Next]_vars

\* The event loop of the process runs the workflow on, and the model and the
\* harness answer or fail.
FairSpec == Spec /\ WF_vars(Progress)

-----------------------------------------------------------------------------
(***************************************************************************)
(* Properties                                                               *)
(***************************************************************************)

Ended == status \in {"SUCCESS", "ERROR"}

\* A run that reports "Outcome stored: true" has recorded the very decision it
\* returns, unless the harness refused it.
ReturnedDecisionIsRecorded ==
    status = "SUCCESS" =>
        result \in refused \/ \E i \in DOMAIN outcomes : outcomes[i].decision = result

\* An answer the orchestrator builds on is a finding other agents can read.
AnswersAreFindings ==
    \A t \in tasks :
        \/ t.answer = Unauthenticated
        \/ t \in refused
        \/ \E i \in DOMAIN findings : findings[i] = [agent |-> t.agent, finding |-> t.answer]

\* A turn that runs again does not store a finding twice.
FindingsOnce ==
    \A i, j \in DOMAIN findings : findings[i] = findings[j] => i = j

\* Each execution records its outcome in one turn: only crashes and lost
\* replies, or a model that finalizes several times in a turn, add outcomes or
\* copies in the episodic memory (which has no key of its own).
OutcomesBounded ==
    LET most == CallsPerTurn * (1 + crashes) + faults
    IN Len(outcomes) <= most /\ Len(memory) <= most

\* A run that has ended writes nothing more, also when the process that ran it
\* is started again with its id.
EndedRunIsSilent ==
    [][Ended => UNCHANGED <<tables, log>>]_vars

\* A run that was started ends, unless its process stays down.
EveryRunEnds == status = "PENDING" ~> (Ended \/ pc = "down")

\* persist.ts on the key of an outcome: "closes the narrow crash window where a
\* workflow step inserts the outcome but crashes before DBOS confirms step
\* completion. On replay, the same key is computed".
OutcomeOnce == Len(outcomes) <= 1
=============================================================================
