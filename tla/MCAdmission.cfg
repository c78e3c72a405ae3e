SPECIFICATION Spec
CONSTANTS
  alice = alice
  bob = bob
  quantum = quantum
  early = early
  root = root
  diff = diff
  Txs = {quantum, early}
  Tx <- Transactions
  Holders = {alice, bob}
  Nothing = Nothing
  Names = {"mldsa", "xmss", "slhdsa", "ml-dsa", "falcon", "ethereum", "eth", "quantum_standard", "throughput"}
  Messages <- AllMessages
  Blocks <- SomeBlocks
  Empty = Empty
  Witnesses <- SomeWitnesses
  Candidates <- Signers
  Launches <- SomeLaunches
  Reloads <- SomeReloads
  Unset = Unset
  MaxPriority = 7
INVARIANTS
  TypeOK FirstComeFirst SenderVouched VerdictIsDeserved
CHECK_DEADLOCK FALSE
