SPECIFICATION MCSpec
CONSTANTS
  T <- MCT
  Zero <- MCZero
  Plus <- MCPlus
  Minus <- MCMinus
  Times <- MCTimes
  Triple <- MCTriple
  AInputs <- MCAInputs
  BInputs <- MCBInputs
  l = 3
  rows = 2
  chunk_size_in = 2
  Supply = 2
  Dims = {2, 3}
  MaxK = 2
  Columns = {0, 1, 2}
  Entry <- MCEntry
  AIns <- MCAIns
  BIns <- MCBIns
  MapShares <- MCShares
  RowTimes <- MCRowTimes
  n = 4
  RowAIns <- MCRowsOfA
  ShareVals <- MCShares
  MapMessage = MapMessage
  CircuitMessage = CircuitMessage
  TransferMessage = TransferMessage
INVARIANTS
  TypesOK
  ProductShared
  ChannelLeftClean
  ProductReturned
  PhasesApart
PROPERTIES
  AllReturn
CHECK_DEADLOCK FALSE
