CONSTANTS
  SectorPackets = 2
  MaxLength = 9
  MaxBlocks = 2
SPECIFICATION LiveSpec
INVARIANTS
  MscInv
  CswMatches
  PhasesAgree
  StatusRight
  ReadyForCommand
PROPERTY CommandsEnd
