---------------------------- MODULE MCQueryPath ----------------------------
(* Instance of QueryPath; ScenarioFacts are evaluated with it.                 *)
EXTENDS ScenarioFacts

\* One call asks anything, the other one a statement.
MCOffered == c1 :> DOMAIN MCQueries \ {1} @@ c2 :> {1}
=============================================================================
