SPECIFICATION PSpec
CONSTANTS
  T = {0, 1, 2, 3}
  Zero = 0
  Plus <- MCPlus
  Minus <- MCMinus
  Times <- MCTimes
  Stream <- MCStream
  rows = 3
  is_shared = TRUE
  cap = 1
  num = 2
  Calls = 2
  Concurrent = TRUE
  OTNum = 3
  Width = 2
  URows <- MCURows
  VBlocks = {2, 3}
  Pads <- MCPads
INVARIANTS
  ProviderTypeOK
  TriplesFit
  NoTripleReused
  OTTriplesFit
PROPERTIES
  AllHandedOver
CHECK_DEADLOCK FALSE
