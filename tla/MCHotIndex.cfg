SPECIFICATION Spec
CONSTANTS
  A = A
  B = B
  t1 = t1
  t2 = t2
  t3 = t3
  Addrs = {A, B}
  Txs = {t1, t2, t3}
  Data <- Transfers
  Proxied = {t1}
  s1 = s1
  s2 = s2
  Syncs = {s1, s2}
  MaxPerAddr = 2
  TTL = 1
  MaxBlocks = 2
  MaxClock = 1
  NoHash = NoHash
INVARIANTS
  TypeOK BlocksAreTrue CopiesAgree ScannedUnlessSkipped FoundAfterSend
SYMMETRY Symmetry
CHECK_DEADLOCK FALSE
