SPECIFICATION FairSpec
CONSTANTS
  s1 = s1  s2 = s2  i1 = i1  i2 = i2  r1 = r1  r2 = r2
  NoRequest = NoRequest  NoSession = NoSession
  Subjects <- TwoSubjects
  Ids <- TwoIds
  Requests <- TwoRequests
  SessionIdle = 1
  SweepEvery = 1
  MaxStreams = 2
INVARIANTS TypeOK StreamsCounted StreamsBelong
PROPERTIES UsedSessionsStay AbandonedAreSwept
