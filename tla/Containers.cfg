SPECIFICATION MCSpec
CONSTANTS
  Values = {a, b}
  Garbage = Garbage
  FirstSize = 2
  MaxLength = 6
  Keys = {1, 2, 3}
  Strings = {s, t}
  Missing = Missing
  Unset = Unset
  MaxCap = 3
  Ids = {0, 1, 2, 3, 5}
  Objects = {o, p}
  NoObject = NoObject
  Knuth = 5
  WordSize = 16
  FirstBuckets = 2
PROPERTIES
  FifoSpec
  DictIsMap
  CallsReturn
  MapIsMap
  VisitsEachOnce
