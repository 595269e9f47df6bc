--------------------------- MODULE MCExchangeCache ---------------------------
(* A small instance of ExchangeCache for TLC: two users with a token each, *)
(* and a cache that is full with one entry.                                *)
EXTENDS ExchangeCache, TLC

CONSTANTS c1, c2

TwoCalls == {c1, c2}
Slots == Permutations(TwoCalls)
TwoTokens == {"alice", "bob"}
Claims(sub, exp) ==
  [key |-> "keycloak", issuer |-> "realm", audience |-> {"mcp-server"}, exp |-> exp,
   scope |-> {SCOPE_TOOLS}, roles |-> {}, sub |-> sub]
Issued == ("alice" :> Claims("alice", 2)) @@ ("bob" :> Claims("bob", 1))
Realm == {"keycloak"}
McpServer == [issuer |-> "realm", audience |-> {"mcp-server"}, tolerance |-> 1,
              requiredScopes |-> {SCOPE_TOOLS}]
Api == [issuer |-> "realm", audience |-> {"downstream-api"}, tolerance |-> 1,
        requiredScopes |-> {"downstream-api"}]
=============================================================================
