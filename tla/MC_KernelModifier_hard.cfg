CONSTANTS
  ModifierInterval = 4
  ModifierIntervalRatio = 3
  Rounds = 3
  MaxBlocks = 5
  GenesisTime = 0
  TimeSteps <- MCTimeSteps
  Proofs = {1}
  HashRange = 16
  PosShift = 1
  BlockHashChoices <- MCBlockHashChoices
  SelHash <- MCSelHash
  StakeMinAge = 8
  AdjustedTimes = {2, 10, 18}
SPECIFICATION Spec
INVARIANTS
  HardErrorAsSpecified
