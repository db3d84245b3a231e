SPECIFICATION Spec
CONSTANTS
  r1 = r1
  r2 = r2
  w1 = w1
  NoRow = NoRow
  Resv <- TwoResv
  Bridged <- OneBridged
  Workers <- OneWorker
  BatchLimit = 2
  RateLimit = 1
  MaxAttempts = 1
  Undecryptable <- NoneBad
  LimiterMayBeSkipped = FALSE
  MaxGlitches = 1
CHECK_DEADLOCK FALSE
INVARIANTS TypeOK NothingLost DeliveredWasTaken TakenOncePerGlitch WindowBudget
PROPERTIES SentWhilePending SettledStays
