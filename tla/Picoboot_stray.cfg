CONSTANTS
  MaxChunks = 3
  Ids = 3
  Tokens = {1, 2}
  Impatient = TRUE
SPECIFICATION Spec
INVARIANT AssertsHold
CHECK_DEADLOCK FALSE
