CHECK_DEADLOCK FALSE
SPECIFICATION Spec
CONSTANTS
  s1 = s1  s2 = s2  s3 = s3  h1 = h1  h2 = h2
  None = None
  Sessions <- ThreeSessions
  Handlers <- TwoHandlers
  MaxFailed = 2
  MaxTries = 3
  MaxChanges = 1
SYMMETRY Symmetry
INVARIANTS TypeOK OneLivePerFamily EndedStaysEnded PasswordChangeEndsSessions FailuresLock
CONSTRAINT FailuresOrSessions
