SPECIFICATION Spec
CONSTANTS
  r1 = r1  r2 = r2  l1 = l1   None = None  NoExp = NoExp
  Servers <- MostServers
  Requests <- SomeRequests
  Loaders <- OneLoader
  RealmTokens <- FromKeycloak
  ApiKeys <- KeyTable
  Certificates <- Certs
  AllowedCn <- Cns
  AllowedClients <- Services
  MaxKids = 2
  Expiries <- Times
  Ttl = 2
  Tolerance = 1
  CacheMaxAge = 2
  Cooldown = 1
  FetchMax = 1
  MaxTime = 3
SYMMETRY Slots
INVARIANTS TypeOK WithdrawnInTime Entitled
PROPERTIES RefusedHonestly
CHECK_DEADLOCK FALSE
