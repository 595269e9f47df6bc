SPECIFICATION FairSpec
CONSTANTS
  p1 = p1  p2 = p2  None = None  Seeded = Seeded  Direct = Direct
  Procs <- TwoProcs
  Setups <- SomeSetups
  MaxRuns = 2
  MaxLogins = 2
  MaxClients = 2
  MaxSerial = 1
  MaxRestarts = 1
INVARIANTS TypeOK PortReleased RightCode NewestStored BurnedOnlyByLoss
PROPERTIES EveryRunEnds
CHECK_DEADLOCK FALSE
