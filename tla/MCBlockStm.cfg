SPECIFICATION FairSpec
CONSTANTS
  Addrs <- A
  Slots <- S
  Genesis <- MCGenesis
  Blocks <- MCBlocks
  MaxRetries = 3
  NoVersion = NoVersion
  NoResult = NoResult
CHECK_DEADLOCK FALSE
INVARIANTS
  TypeOK
  VersionsAreExecuted
  FirstPendingExecutes
  CurrentReadsAreSerial
PROPERTIES
  CallReturns
  ImplementsAtomicBlock
