SPECIFICATION Spec
CONSTANTS
  r1 = r1  d1 = d1  j1 = j1  j2 = j2
  NoExp = NoExp  Forged = Forged  NoHeader = NoHeader
  Tokens <- ThreeTokens
  ClaimsOf <- Issued
  Verifier <- Outer
  Keys <- Realm
  Requests <- OneRequest
  Copies <- OneCopy
  Jtis <- TwoJtis
  Skew = 1
  AssertionTtl = 2
  Tolerance = 1
  ReplayWindow = 4
  MaxTime = 5
INVARIANTS TypeOK AcceptedOnce ServedAsVerified
