SPECIFICATION Spec
CONSTANTS
  t1 = t1  t2 = t2  alice = alice  c1 = c1  c2 = c2  c3 = c3
  NoCall = NoCall  NoExp = NoExp
  Tokens <- TwoTokens
  Users <- OneUser
  UserOf <- Owners
  ClaimsOf <- Issued
  Calls <- ThreeCalls
  Audience <- Server
  RequiredScopes <- Required
  Ttl = 2
  NegativeTtl = 1
  InFlight = 2
  DiscoverMax = 1
  PostMax = 2
  PruneThreshold = 1
  MaxTime = 5
INVARIANTS TypeOK OneCall
PROPERTIES GoodEntriesStay ImplementsOracle
SYMMETRY Pool
