SPECIFICATION Spec
CONSTANTS
  Addrs <- A
  Slots <- S
  Genesis <- MCGenesis
  Blocks <- SmallBlocks
  MaxRetries = 3
  NoVersion = NoVersion
  NoResult = NoResult
CHECK_DEADLOCK FALSE
INVARIANTS
  OverwrittenReadsFail
