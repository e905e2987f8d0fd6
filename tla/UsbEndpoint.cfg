SPECIFICATION LiveSpec
CONSTANTS
  SeqMod = 4
  Chunk = 2
  Directions = {TRUE, FALSE}
  Bufferings = {TRUE, FALSE}
  Async = TRUE
  HasDefault = TRUE
  Racy = FALSE
  HaltsBusy = FALSE
  MaxPackets = 5
INVARIANTS
  EndpointInv
  ToggleAgreement
  DeferralFits
PROPERTIES
  ImplementsPipe
  HaltEndsByReset
  OnlyHaltsDrop
  TransferProgress
