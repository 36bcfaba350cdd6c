\* Three executions of three attempts that meet in the recovery protocol; four callers
\* of a window of two; three calls for two keys of the messaging queue.
SPECIFICATION MCSpec
CONSTANTS
  Sessions = {s1, s2, s3}
  NoSession = NoSession
  MaxConcurrency = 2
  MaxAttempts = 3
  Tasks = {t1, t2, t3, t4}
  Limit = 2
  Window = 2
  LastAsk = 4
  MaxTime = 9
  MaxCalls = 3
  Keys = {k1, k2}
  NoKey = NoKey
  Modes = {"awaited", "owned"}
  MaxTries = 2
  Followed = {{s1, t1, 1}, {2}, {3}}
INVARIANTS
  TypesOK
  SlotsConserved
  RecoveryOwned
  WindowBound
  SleepersBlocked
  NoFutureForgotten
PROPERTIES
  StaleResultIsInert
  OnlyProbesDuringRecovery
  EditsInOrder
  EveryoneAnswered
