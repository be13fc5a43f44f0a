SPECIFICATION SGDSpec
CONSTANTS
  Width = 5
  precision = 2
  Cases <- MCCases
  Data <- MCData
  Labels <- MCLabels
  Models = {0, 1, 9}
  Role0Shares = {2, 27}
  Masks = {1, 10, 25}
INVARIANTS
  SGDTypeOK
  EpochUses
  RescaledShares
  SigmoidOfFed
PROPERTIES
  TrainingEnds
CHECK_DEADLOCK FALSE
