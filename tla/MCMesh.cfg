SPECIFICATION Spec
CONSTANTS
  Nodes = {n1, n2}
  Archives = {n1}
  Threads = {t1}
  Profiles = {"ethereum", "throughput", "iot_compact"}
  Schemes = {"Groth16Bn254"}
  Diffs = {d1}
  Bytes = {"a", "b"}
  Payloads <- SmallPayloads
  Witnesses = {w1}
  HeadBytes = 1
  Elements = 3
  ElementBytes = 2
  NoKzg = NoKzg
  Idle = Idle
  MaxEmitted = 2
  MaxWire = 1
  MaxPinned = 1
INVARIANTS
  TypeOK RefusedForAReason CommitmentIdentifies WholePackets
CHECK_DEADLOCK FALSE
