SPECIFICATION FairSpec
CONSTANTS
  r1 = r1
  r2 = r2
  w1 = w1
  NoRow = NoRow
  Resv <- TwoResv
  Bridged <- NoBridge
  Workers <- OneWorker
  BatchLimit = 2
  RateLimit = 1
  MaxAttempts = 2
  Undecryptable <- OneBad
  LimiterMayBeSkipped = TRUE
  MaxGlitches = 0
CHECK_DEADLOCK FALSE
PROPERTIES ScheduledSettles UndecryptableBounces
