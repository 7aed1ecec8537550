SPECIFICATION MCSpec
CONSTANTS
  Nodes = {n1, n2}
  Devices = {d1}
  Defaultable = {n1}
  Tabbed = {n1, d1}
  None = None
  Item = Item
  MaxMessages = 3
  MaxQueue = 2
  Sinks = {s1, s2}
  Metadata = metadata
  Nobody = Nobody
  MaxPresses = 1
  MaxForeign = 1
INVARIANTS
  RefcntsOwned
  NothingUsedAfterFree
  ScreenMatchesRegistry
  MarksSettle
PROPERTIES
  ObjectsGoAway
CHECK_DEADLOCK FALSE
