---------------------------- MODULE MCEmbeddedAS ----------------------------
(***************************************************************************)
(* Instances of EmbeddedAS for TLC: the USERS table, the requests clients  *)
(* make, and the symmetry of the identifiers randomId() draws.             *)
(***************************************************************************)
EXTENDS EmbeddedAS, TLC

MCGrantable == [u \in Users |-> IF u = "bob" THEN SCOPES_SUPPORTED ELSE {SCOPE_TOOLS}]

(* Two clients that differ in everything, and what no consent may carry.   *)
TwoClients ==
  {[client |-> "mcp-cli", uri |-> "cb", challenge |-> "v1", resource |-> None,
    scopes |-> SCOPES_SUPPORTED],
   [client |-> "dcr", uri |-> "other", challenge |-> "v2", resource |-> "mcp",
    scopes |-> {SCOPE_ADMIN}]}
TwoAuthorizeRequests ==
  TwoClients
    \cup {[client |-> "mcp-cli", uri |-> "cb", challenge |-> "v1", resource |-> None,
           scopes |-> {"openid"}],
          [client |-> "mcp-cli", uri |-> "cb", challenge |-> "v1", resource |-> "foreign",
           scopes |-> {}]}

(* One kind of authorization, for the instances about tokens.              *)
OneAuthorizeRequest ==
  {[client |-> "mcp-cli", uri |-> "cb", challenge |-> "v1",
    scopes |-> SCOPES_SUPPORTED, resource |-> None]}

(* The right request, and each way one can differ from the authorization.  *)
RightTokenRequest ==
  [client |-> "mcp-cli", verifier |-> "v1", uri |-> "cb", resource |-> Resource]
AllTokenRequests ==
  {RightTokenRequest,
   [RightTokenRequest EXCEPT !.client = "dcr"],
   [RightTokenRequest EXCEPT !.verifier = "v2"],
   [RightTokenRequest EXCEPT !.uri = "other"],
   [RightTokenRequest EXCEPT !.uri = None, !.resource = None],
   [RightTokenRequest EXCEPT !.resource = "foreign"]}
OneTokenRequest == {RightTokenRequest}
TwoTokenRequests ==
  AllTokenRequests
    \cup {[client |-> q.client, verifier |-> q.challenge, uri |-> q.uri, resource |-> q.resource] :
            q \in TwoClients}

RightRefreshRequest == [client |-> "mcp-cli", scopes |-> {}, resource |-> None]
AllRefreshRequests ==
  {RightRefreshRequest,
   [RightRefreshRequest EXCEPT !.scopes = {SCOPE_TOOLS}],
   [RightRefreshRequest EXCEPT !.scopes = SCOPES_SUPPORTED],
   [RightRefreshRequest EXCEPT !.client = "dcr"],
   [RightRefreshRequest EXCEPT !.resource = "foreign"]}
OneRefreshRequest == {RightRefreshRequest}

Symmetry ==
  Permutations(Txns) \cup Permutations(Codes) \cup Permutations(Pairs)
    \cup Permutations(Requests)
=============================================================================
