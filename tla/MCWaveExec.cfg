SPECIFICATION FairSpec
CONSTANTS
  Addrs <- A
  Slots <- S
  Genesis <- MCGenesis
  Blocks <- MCBlocks
  NoResult = NoResult
CHECK_DEADLOCK FALSE
INVARIANTS
  TypeOK
  WavesSound
  AppliedWavesAreSerial
PROPERTIES
  CallReturns
