CONSTANTS
  Aes = 3
  Block = 9
  MaxSize = 30
SPECIFICATION Spec
CHECK_DEADLOCK FALSE
INVARIANT DecryptsCorrectly
