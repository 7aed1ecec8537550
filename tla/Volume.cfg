SPECIFICATION Spec
CONSTANTS
  Settings <- AnyClients
  VolumeMin = 0
  VolumeMax = 2
  VolumeStep = 1
  Presets = {3}
  UIntMax = 7
  MaxKeys = 2
  MaxOthers = 2
INVARIANTS
  ItemShowsNode
  FocusOnChannel
PROPERTIES
  QuietKeysSpareOthers
  CopiesConverge
CHECK_DEADLOCK FALSE
