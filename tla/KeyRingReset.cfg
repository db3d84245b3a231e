SPECIFICATION KeyRingSpec
CONSTANTS
  p = p
  Browsers = {p}
  MaxPw = 2
  MaxKey = 3
  MaxPhrase = 1
  MaxMade = 6
  MaxOpen = 2
CHECK_DEADLOCK FALSE
PROPERTY PhraseResetKeepsKey
