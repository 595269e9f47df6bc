\* Two requests present one code before either redeems it; no time passes.
SPECIFICATION Spec
CONSTANTS
  Users = {"bob"}
  Grantable <- MCGrantable
  Clients = {"mcp-cli", "dcr"}
  PreRegistered = {"mcp-cli", "dcr"}
  Uris = {"cb", "other"}
  Verifiers = {"v1", "v2"}
  ScopeNames = {"mcp:tools", "mcp:admin"}
  Hrefs = {"mcp", "foreign"}
  Resource = "mcp"
  None = None
  Txns = {t1}
  Codes = {c1}
  Pairs = {p1}
  Requests = {r1, r2}
  AuthorizeRequests <- OneAuthorizeRequest
  TokenRequests <- OneTokenRequest
  RefreshRequests <- OneRefreshRequest
  TxnTtl = 1
  CodeTtl = 1
  UsedCodeMemory = 1
  AccessTtl = 1
  RefreshTtl = 2
  TicksPerSec = 2
  MaxTime = 0
SYMMETRY Symmetry
INVARIANTS
  ReuseRevokes
