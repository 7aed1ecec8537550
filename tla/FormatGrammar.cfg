SPECIFICATION FormatSpec
CONSTANT MaxText = 4
INVARIANT GrammarAccepted
CHECK_DEADLOCK FALSE
