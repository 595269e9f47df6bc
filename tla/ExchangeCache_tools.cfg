SPECIFICATION Spec
CONSTANTS
  c1 = c1  c2 = c2  None = None  NoExp = NoExp  Undefined = Undefined
  Tokens <- TwoTokens
  ClaimsOf <- Issued
  Calls <- TwoCalls
  Keys <- Realm
  Server <- McpServer
  Downstream <- Api
  CacheLimit = 1
  Lifetime = 2
  Fallback = 1
  MaxTime = 3
SYMMETRY Slots
INVARIANTS TypeOK
PROPERTIES LiveKept ImplementsDelegation
CHECK_DEADLOCK FALSE
