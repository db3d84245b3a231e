SPECIFICATION RotationSpec
CONSTANTS
  p = p  o = o  x = x
  PrivateBoxes = {p}
  ManagedBoxes = {o}
  Names = {x}
  MaxRoot = 2
  MaxClicks = 3
CHECK_DEADLOCK FALSE
INVARIANT AnchorOpensKey
