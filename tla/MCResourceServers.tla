-------------------------- MODULE MCResourceServers --------------------------
(* A small instance of ResourceServers for TLC.                            *)
EXTENDS ResourceServers, TLC

CONSTANTS r1, r2, l1

(* 04 is 05 without service_only.                                          *)
MostServers == {"01-api-key", "02-jwt-local", "05-keycloak-client-credentials",
                "08-mtls", "08-mtls MTLS_SOFT_FAIL=1", "11-python-mcp-keycloak"}
SomeRequests == {r1, r2}
OneLoader == {l1}
Slots == Permutations(SomeRequests)
Times == {2}

Token(k, audience, scope, roles, azp) ==
  [made |-> "valid", alg |-> "RS256", kid |-> k, nbf |-> 0,
   claims |-> [key |-> k, issuer |-> "realm", audience |-> {audience}, exp |-> 3,
               scope |-> scope, roles |-> roles, sub |-> azp, azp |-> azp]]
Both == {SCOPE_TOOLS, SCOPE_ADMIN}
FromKeycloak(k) ==
  {Token(k, "mcp-server", Both, {}, "mcp-cli"),
   Token(k, "mcp-server", Both, {ADMIN_ROLE}, "mcp-service"),
   Token(k, "downstream-api", Both, {}, "mcp-cli"),
   Token(k, "mcp-server", {SCOPE_ADMIN}, {ADMIN_ROLE}, "mcp-cli")}

Entry(principal, scopes) == [principal |-> principal, scopes |-> scopes]
KeyTable == ("k1" :> Entry("alice", {SCOPE_TOOLS})) @@ ("k2" :> Entry("bob", Both))
            @@ ("k3" :> Entry("carol", {}))
Cert(cn, ou, trusted, notAfter) ==
  [cn |-> cn, ou |-> ou, trusted |-> trusted, notAfter |-> notAfter]
Certs == {Cert("alice", {}, TRUE, 2), Cert("bob", {ADMIN_ROLE}, TRUE, 2),
          Cert("alice", {}, FALSE, 2), Cert("carol", {}, TRUE, 2), Cert("alice", {}, TRUE, -1)}
Cns == {"alice", "bob"}
Services == {"mcp-service", "mcp-service-jwt"}
=============================================================================
