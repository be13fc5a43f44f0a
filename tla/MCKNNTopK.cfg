SPECIFICATION Spec
CONSTANTS
  T = {0, 1, 2, 3}
  Zero = 0
  Plus <- MCPlus
  Minus <- MCMinus
  Times <- MCTimes
  num_documents = 5
  Words = {1, 2, 3}
  chunk_size = 3
  num_selected = 2
  MaxDense = 2
  SplitDense = 2
  Entered <- MCEntered
  Inputs <- MCInputs
  Shares = {3}
INVARIANTS
  TopKMatches
CHECK_DEADLOCK FALSE
