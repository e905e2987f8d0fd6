SPECIFICATION LiveSpec
CONSTANTS
  SeqMod = 1
  Chunk = 2
  MaxAddress = 1
  Racy = FALSE
INVARIANTS
  ControlInv
  HostAgrees
PROPERTIES
  AddressFollowsHost
  KnownRequestsSucceed
  RequestsEnd
