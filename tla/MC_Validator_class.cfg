CONSTANTS
  StakeMinAge = 2
  StakeMaxAge = 3
  Coin = 1
  DaySeconds = 1
  Uint32Modulus = 8
  Uint256Modulus = 16
  ProtocolV2Height = 2
  KernelHash <- MCKernelHash
  PrevHeights = {1, 2, 3}
  CoinHeights = {0, 1, 2, 3}
  BlockTime <- MCBlockTime
  ModifierAt <- MCModifierAt
  OffsetAt <- MCOffsetAt
  Values = {1, 3}
  Times = {0, 1, 2, 3, 4, 5, 6, 7, 8}
  Targets = {1, 3}
  LookupModifiers = {0, 1}
  Prevouts <- MCPrevouts
  CoinbaseMaturity = 2
  StakeTimestampMask = 3
SPECIFICATION Spec
INVARIANTS
  RejectionClassAsSpecified
