SPECIFICATION FairSpec
CONSTANTS
  a = a  b = b  m1 = m1  m2 = m2  d1 = d1  d2 = d2  f1 = f1  c1 = c1  c2 = c2
  i1 = i1  lab = lab
  None = None  Nil = Nil  Absent = Absent  Nothing = Nothing  Default = Default
  Accounts = {a, b}
  TwoFactor = {a}
  MaxTasks = 2
  MaxOps = 4
  Boxes = {a, b}
  Mail = {m1, m2, d1}
  DraftMail = {d1}
  HomeOf <- Home
  CustomIds = {c1}
  LabelIds = {lab}
  MaxWaits = 2
  MaxActs = 3
  DraftIds = {d1, d2}
  FileIds = {f1}
  MaxText = 3
  MaxJobs = 2
  MaxEdits = 5
  Books = {a, b}
  CardIds = {c1, c2}
  MaxValue = 3
  MaxAsks = 2
  MaxClicks = 7
  Targets = {a, b}
  Files <- FewFiles
  MaxFiles = 2
  MaxMoves = 2
  Holders = {a, b}
  ItemIds = {i1}
  MaxSaves = 2
  MaxSteps = 3
CHECK_DEADLOCK FALSE
INVARIANTS
  WebmailTypeOK SessionConsistent ViewConsistent
  NoLostUpdate RemovedStaysRemoved ImportTruthful
PROPERTY
  ScreenUnblocks
