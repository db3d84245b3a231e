SPECIFICATION Spec
CONSTANTS
  r1 = r1
  r2 = r2
  w1 = w1
  NoRow = NoRow
  Resv <- OneResv
  Bridged <- NoBridge
  Workers <- OneWorker
  BatchLimit = 1
  RateLimit = 3
  MaxAttempts = 2
  Undecryptable <- NoneBad
  LimiterMayBeSkipped = FALSE
  MaxGlitches = 0
CHECK_DEADLOCK FALSE
INVARIANT CancelledNeverSent
