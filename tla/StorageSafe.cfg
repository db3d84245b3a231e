SPECIFICATION SafeSpec
CONSTANTS
  o1 = o1  c1 = c1  c2 = c2  c3 = c3  k1 = k1  k2 = k2
  r1 = r1  r2 = r2  NoConfig = NoConfig  NoConn = NoConn  Drive = Drive
  Orgs = {o1}
  Conns = {c1, c2}
  OrgOf <- OneOrg
  Configs = {k1, k2}
  Reqs = {r1, r2}
  MaxOAuth = 1
  MayBe <- MayRefuse
  TickBudget = 2
  MaxLost = 0
  MaxClock = 3
  b1 = b1  b2 = b2  d1 = d1  d2 = d2  d3 = d3  y1 = y1  y2 = y2  m1 = m1
  Default = Default  NoConnection = NoConnection  NoMig = NoMig
  Mailboxes = {b1, b2}
  Keys = {y1, y2}
  BoxOf <- OneEach
  Connections = {d1, d2, d3}
  Migs = {m1}
  PrefixOf <- BothBoxes
  Attempts = {r1, r2}
  MaxGlitches = 1
CHECK_DEADLOCK FALSE
SYMMETRY SafeSymmetry
INVARIANTS TestedIsCurrent CompletedIsCopied CutoverKeepsListed CutoverOnce
PROPERTIES DeletedForGood CompletedStays
