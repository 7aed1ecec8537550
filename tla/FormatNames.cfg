SPECIFICATION FormatSpec
CONSTANT MaxText = 4
INVARIANT PropertiesAccepted
CHECK_DEADLOCK FALSE
