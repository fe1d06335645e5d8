-------------------------- MODULE MCDecisionSystem --------------------------
(* Instance of DecisionSystem: the callers of MCDecisionTools, one workflow.  *)
EXTENDS DecisionSystem, TLC

CONSTANTS human, auto, agent

MCPrincipals == {human, auto, agent}
MCHumans == {human}
MCCanPropose == agent :> {"low", "medium", "high"}
MCCanApprove == agent :> {"low"}
MCCanExecute == agent :> {"low", "medium"}
=============================================================================
