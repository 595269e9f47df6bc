SPECIFICATION FairSpec
CONSTANTS
  NoUser = NoUser  NoToken = NoToken
  Examples <- Some
  Ports = {4192, 4102, 4104, 4105, 4107, 4108, 4111}
  Existing <- SomeIds
  Selections <- Halves
  Keeps <- Maybe
  Stores <- AllStores
  Reckoned <- Reckoning
  MaxRuns = 2
  MaxFaults = 1
INVARIANTS TypeOK NothingLeftRunning ProbeVouches GreenIsComplete HealthyIsGreen
PROPERTIES InvocationEnds
CHECK_DEADLOCK FALSE
