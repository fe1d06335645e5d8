------------------------------ MODULE MCSessions ------------------------------
(* Instance of Sessions: both transports, both modes and the three strategies,  *)
(* with the two agents of agents.yml that share no bot and one that has none.    *)
EXTENDS Sessions

CONSTANTS r1, r2

MCAgents == << [id |-> "flight", bot |-> "bot1"], [id |-> "ops", bot |-> "bot2"],
               [id |-> "shadow", bot |-> "bot2"], [id |-> "local", bot |-> Null] >>

Token(claim, expires, issuer, act) ==
    [genuine |-> TRUE, audience |-> TRUE, issuer |-> issuer, expires |-> expires,
     claim |-> claim, act |-> act]

MCCredential(r) ==
    IF r = r1 THEN [token |-> Token("bot1", 1, TRUE, TRUE), agent |-> "flight"]
    ELSE [token |-> Token("bot2", Null, FALSE, FALSE), agent |-> "local"]

MCCredentials == [r \in {r1, r2} |-> MCCredential(r)]

Nobody == [token |-> Null, agent |-> Null]

Deployment(transport, mode, strategy, production, env) ==
    [transport |-> transport, mode |-> mode, strategy |-> strategy,
     delegation |-> strategy = "introspection", production |-> production,
     localhost |-> ~production, ack |-> TRUE, env |-> env]

MCDeployments ==
    { Deployment("http", "jwt", "shared_secret", TRUE, Nobody),
      Deployment("http", "jwt", "jwks", TRUE, Nobody),
      Deployment("http", "jwt", "introspection", FALSE, Nobody),
      Deployment("http", "config-only", "shared_secret", FALSE, Nobody),
      Deployment("http", "config-only", "shared_secret", TRUE, Nobody),
      Deployment("stdio", "jwt", "jwks", TRUE, MCCredential(r1)),
      Deployment("stdio", "config-only", "shared_secret", FALSE, MCCredential(r2)),
      Deployment("stdio", "config-only", "shared_secret", FALSE, Nobody) }
=============================================================================
