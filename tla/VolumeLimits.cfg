SPECIFICATION Spec
CONSTANTS
  Settings <- ModestClients
  VolumeMin = 0
  VolumeMax = 2
  VolumeStep = 1
  Presets = {3}
  UIntMax = 7
  MaxKeys = 1
  MaxOthers = 0
INVARIANTS
  RequestsWithinLimits
CHECK_DEADLOCK FALSE
