--------------------------- MODULE MCApiGateway ---------------------------
(***************************************************************************)
(* Instances of ApiGateway for TLC: a reviewer besides the built-in        *)
(* identities, and the deployments that get_authenticator tells apart.     *)
(***************************************************************************)
EXTENDS ApiGateway

RoleOfPrincipal == [s \in Principals |-> "reviewer"]

Deployment(environment, auth, keys, jwt) ==
    [environment |-> environment, auth |-> auth, keys |-> keys, jwt |-> jwt,
     limits |-> TRUE]

\* Refused, and knowing nobody.
Unusable == { Deployment("production", FALSE, TRUE, TRUE),
              Deployment("production", TRUE, FALSE, FALSE) }

\* By a key, by a token, by a key or a token.
Production == { Deployment("production", TRUE, TRUE, FALSE),
                Deployment("production", TRUE, FALSE, TRUE),
                Deployment("production", TRUE, TRUE, TRUE) }

\* By a key or else as the test identity, without looking, by a token; the last
\* knows the test identity only and keeps no quota.
Elsewhere == { Deployment("test", TRUE, TRUE, FALSE),
               Deployment("development", FALSE, FALSE, TRUE),
               Deployment("development", TRUE, FALSE, TRUE),
               [Deployment("development", TRUE, FALSE, FALSE) EXCEPT !.limits = FALSE] }

SomeDeployments == Unusable \cup Production \cup Elsewhere
=============================================================================
