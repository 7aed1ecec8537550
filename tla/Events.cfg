SPECIFICATION MCSpec
CONSTANTS
  e1 = e1
  e2 = e2
  h1 = h1
  h2 = h2
  h3 = h3
  Emitters = {e1, e2}
  Hooks = {h1, h2, h3}
  None = None
  FirstSize = 2
  MaxSeq = 3
  MaxResizes = 2
INVARIANTS
  RefcntsExact
  FreedExactly
  NoLostWakeup
  CursorAllocated
  ListsWellFormed
  ResizeIsDue
PROPERTIES
  BusSpec
  EveryEventRetired
  ReleasedIsFreed
  EventsReachScreen
  SizeFollowsTerminal
CHECK_DEADLOCK FALSE
