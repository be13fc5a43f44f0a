SPECIFICATION Spec
CONSTANTS
  T = {0, 1, 2, 3}
  Zero = 0
  Plus <- MCPlus
  Minus <- MCMinus
  Times <- MCTimes
  Inner = {0, 1, 2}
  As <- MCAs
  Bs <- MCBs
  Ks <- MCKs
  Shares = {1}
INVARIANTS
  TypeOK
  PositionsAgree
  ProductShared
PROPERTIES
  BothReturn
CHECK_DEADLOCK FALSE
