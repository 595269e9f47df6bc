SPECIFICATION FairSpec
CONSTANTS
  s1 = s1  s2 = s2  i1 = i1  i2 = i2  r1 = r1  r2 = r2
  NoRequest = NoRequest  NoSession = NoSession
  Subjects <- OneSubject
  Ids <- OneId
  Requests <- OneRequest
  SessionIdle = 1
  SweepEvery = 1
  MaxStreams = 1
PROPERTY CrashedAreSwept
