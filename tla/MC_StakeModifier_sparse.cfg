CONSTANTS
  ModifierInterval = 4
  ModifierIntervalRatio = 3
  Rounds = 3
  MaxBlocks = 6
  GenesisTime = 0
  TimeSteps <- MCSparseTimeSteps
  Proofs = {1}
  HashRange = 16
  PosShift = 1
  BlockHashChoices <- MCBlockHashChoices
  SelHash <- MCSelHash
SPECIFICATION Spec
INVARIANTS
  NeverFails
  ModifierKeptAsSpecified
