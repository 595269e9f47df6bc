------------------------ MODULE MCIntrospectionCache ------------------------
(* A small instance of IntrospectionCache for TLC.                         *)
EXTENDS IntrospectionCache, TLC

CONSTANTS t1, t2, alice, c1, c2, c3

TwoTokens == {t1, t2}
OneUser == {alice}
Owners == [t \in TwoTokens |-> alice]
ThreeCalls == {c1, c2, c3}
Server == {"mcp-server"}
Required == {SCOPE_TOOLS}

Good(exp) == [key |-> "keycloak", audience |-> Server, exp |-> exp,
              scope |-> {SCOPE_TOOLS, SCOPE_ADMIN}, roles |-> {}]
Issued ==
  (t1 :> {Good(4), Good(NoExp), [Good(4) EXCEPT !.scope = {SCOPE_ADMIN}]}) @@
  (t2 :> {[Good(4) EXCEPT !.key = "unknown"]})

(* The calls are a pool: which idle one a request takes makes no difference. *)
Pool == Permutations(ThreeCalls)
=============================================================================
