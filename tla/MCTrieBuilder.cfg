SPECIFICATION TrieSpec
CONSTANTS
  MaxDeltas = 6
  Inputs <- SmallInputs
  Keys <- SmallKeys
  Values = {0}
  Nibbles = {0, 1}
  Nibble <- SmallNibble
  Ways = 3
INVARIANTS
  TrieTypeOK EachDeltaOnce RootOfOneChunkPerBranch
CHECK_DEADLOCK FALSE
