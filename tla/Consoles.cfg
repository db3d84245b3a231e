SPECIFICATION FairSpec
CONSTANTS
  p = p  q = q  c1 = c1  c2 = c2  m1 = m1  m2 = m2  d1 = d1  org = org  x = x
  NoMsg = NoMsg  NoAtt = NoAtt  Nobody = Nobody  Junk = Junk
  Browsers = {p, q}
  MaxPw = 3
  MaxKey = 3
  MaxPhrase = 2
  MaxMade = 7
  MaxOpen = 2
  Atts = {c1, c2}
  Msgs = {m1, m2}
  Drafts = {d1}
  Reqs = {p, q}
  MaxGlitches = 2
  Orgs = {org, q}
  Stalled = {x}
  MaxSeats = 2
  MaxCalls = 2
  MaxUses = 4
  PrivateBoxes = {p}
  ManagedBoxes = {org}
  Names = {x}
  MaxRoot = 2
  MaxClicks = 3
  Params <- AroundBrackets
  Moves = {0, 10, 11, 250}
  Typed = {0, 26, 251}
  Admins = {p, q}
  Addresses = {x, q, org}
  AliasNames = {x, q}
  SeatLimit = 2
  AliasLimit = 1
  MaxAsks = 2
CHECK_DEADLOCK FALSE
INVARIANTS
  ConsolesTypeOK
  WizardWrapOpens PublicKeyOpens ResetDoesNotRecover
  SentComplete BytesFollowRows
  PagesAndServerAgree PhraseShownIsEnrolled PriceAddsUp
PROPERTY
  RequestsEnd
