SPECIFICATION Spec
CONSTANTS
  T = {0, 1, 2, 3}
  Zero = 0
  Plus <- MCPlus
  Minus <- MCMinus
  Times <- MCTimes
  Jobs <- MCJobs
  NumRuns = 2
  CipherKeys = {k1, k2}
  NoKey = NoKey
INVARIANTS
  Contract
CHECK_DEADLOCK FALSE
