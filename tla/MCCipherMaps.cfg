SPECIFICATION MapsSpec
CONSTANTS
  T = {0, 1, 2, 3}
  Zero = 0
  Plus <- MCPlus
  Minus <- MCMinus
  Times <- MCTimes
  Jobs <- MCJobs
  NumRuns = 3
  CipherKeys = {k1, k2}
  NoKey = NoKey
INVARIANTS
  TypeOK
  NoncesInStep
  BasicTypeOK
  BasicVectorsMatchRuns
PROPERTIES
  CountersFresh
  PolyImplementsMap
  BasicImplementsMap
CHECK_DEADLOCK FALSE
