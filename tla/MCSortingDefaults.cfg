SPECIFICATION Spec
CONSTANTS
  T = {0, 1, 2, 3}
  Zero = 0
  Plus <- MCPlus
  Minus <- MCMinus
  Times <- MCTimes
  Jobs <- MCProperJobs
  KeysBeyond <- MCKeysBeyond
  NumRuns = 1
INVARIANTS
  Contract
CHECK_DEADLOCK FALSE
