--------------------------- MODULE MCAuthGateway ---------------------------
(* A small instance of AuthGateway for TLC: a user without the admin role, *)
(* one with it, and a token that is not for this server.                   *)
EXTENDS AuthGateway, TLC

CONSTANTS r1, d1, j1, j2

OneRequest == {r1}
OneCopy == {d1}
TwoJtis == {j1, j2}
ThreeTokens == {"alice", "bob", "other"}

Claims(sub, roles, audience) ==
  [key |-> "keycloak", issuer |-> "realm", audience |-> audience, exp |-> 3,
   scope |-> {SCOPE_TOOLS, SCOPE_ADMIN}, roles |-> roles, sub |-> sub]
Issued ==
  ("alice" :> Claims("alice", {}, {"mcp-server"})) @@
  ("bob" :> Claims("bob", {ADMIN_ROLE}, {"mcp-server"})) @@
  ("other" :> Claims("bob", {ADMIN_ROLE}, {"downstream-api"}))
Realm == {"keycloak"}
Outer == [issuer |-> "realm", audience |-> {"mcp-server"}, tolerance |-> 1,
          requiredScopes |-> {SCOPE_TOOLS}]
=============================================================================
