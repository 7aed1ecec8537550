SPECIFICATION Spec
CONSTANTS
  i1 = i1
  i2 = i2
  i3 = i3
  i4 = i4
  Items = {i1, i2, i3, i4}
  TabsCount = 2
  TabOf <- FirstThree
  Heights = {1, 2}
  TermHeights = {3, 4}
  Wraparound = TRUE
  MaxChoices = 2
  None = None
SYMMETRY SameTab
INVARIANTS
  LayoutFits
  FocusOnShown
PROPERTIES
  FocusMovesIntoView
  UserFocusKept
CHECK_DEADLOCK FALSE
