\* Two users; two authorizations of two clients, one of which has to register,
\* redeemed side by side with every token request.
SPECIFICATION Spec
CONSTANTS
  Users = {"alice", "bob"}
  Grantable <- MCGrantable
  Clients = {"mcp-cli", "dcr"}
  PreRegistered = {"mcp-cli"}
  Uris = {"cb", "other"}
  Verifiers = {"v1", "v2"}
  ScopeNames = {"mcp:tools", "mcp:admin", "openid"}
  Hrefs = {"mcp", "foreign"}
  Resource = "mcp"
  None = None
  Txns = {t1, t2}
  Codes = {c1, c2}
  Pairs = {p1, p2}
  Requests = {r1}
  AuthorizeRequests <- TwoAuthorizeRequests
  TokenRequests <- TwoTokenRequests
  RefreshRequests <- AllRefreshRequests
  TxnTtl = 1
  CodeTtl = 1
  UsedCodeMemory = 1
  AccessTtl = 1
  RefreshTtl = 1
  TicksPerSec = 1
  MaxTime = 1
SYMMETRY Symmetry
INVARIANTS
  TypeOK
  WithinConsent
  RedeemedByOwner
PROPERTIES
  NothingLost
