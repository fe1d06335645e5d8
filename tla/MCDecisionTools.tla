--------------------------- MODULE MCDecisionTools ---------------------------
(* Instance of DecisionTools: one human, "auto", and one agent with the        *)
(* rights of the booking agent of scenario/travel/agents.yml.                 *)
EXTENDS DecisionTools, TLC

CONSTANTS human, auto, agent

MCPrincipals == {human, auto, agent}
MCHumans == {human}
MCCanPropose == agent :> {"low", "medium", "high"}
MCCanApprove == agent :> {"low"}
MCCanExecute == agent :> {"low", "medium"}
Interchangeable == Permutations(Calls)
=============================================================================
