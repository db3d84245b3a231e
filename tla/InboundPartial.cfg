SPECIFICATION MixSpec
CONSTANTS
  e1 = e1  e2 = e2  e3 = e3  e4 = e4  a1 = a1  a2 = a2  a3 = a3  b1 = b1  b2 = b2
  s1 = s1  h1 = h1  h2 = h2  NoEnv = NoEnv
  Env = {e1, e2, e3, e4}
  Addr = {a1, a2, a3}
  Boxes = {b1, b2}
  Senders = {s1}
  Rcpt <- Mixed
  BoxOf <- BoxOfValue
  SenderOf <- SenderOfValue
  Spam = {e3}
  RuleBoxes = {b1}
  Suppressed = {}
  Handlers = {h1, h2}
  PoolSize = 4
  TaskLimit = 2
  MaxGlitches = 1
INVARIANTS AcceptedIsStored RepliesPerMessage
PROPERTIES ImplementsContract
CHECK_DEADLOCK FALSE
SYMMETRY HandlerSymmetry
