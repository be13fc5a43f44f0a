SPECIFICATION Spec
CONSTANTS
  T = {0, 1, 2, 3}
  Zero = 0
  Plus <- MCPlus
  Minus <- MCMinus
  Times <- MCTimes
  Jobs <- MCJobs
  KeysBeyond <- MCKeysBeyond
  NumRuns = 2
INVARIANTS
  TypeOK
  ClientPairsKept
PROPERTIES
  ImplementsRankedMap
CHECK_DEADLOCK FALSE
