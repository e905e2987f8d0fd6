CONSTANTS
  MaxChunks = 3
  Ids = 3
  Tokens = {1, 2}
  Impatient = FALSE
SPECIFICATION LiveSpec
INVARIANTS
  PicobootInv
  AckAfterWork
  DataInPlace
  InProgressIsBusy
  ReadyForCommand
PROPERTIES
  NoTaskLost
  
