SPECIFICATION Spec
CONSTANTS
  A = A
  B = B
  C = C
  kA = kA
  kB = kB
  kC = kC
  shared = shared
  a1 = a1
  a2 = a2
  b1 = b1
  c1 = c1
  toB = toB
  toA = toA
  toC = toC
  alsoToC = alsoToC
  Addrs = {A, B, C}
  Keys = {kA, kB, kC, shared}
  Docs = {a1, a2, b1, c1}
  Doc <- SmallDocs
  Chains = {1, 2}
  BootChain = 1
  RethChain = 2
  Sends = {toB, toA, toC, alsoToC}
  Send <- SmallSends
  NoChain = NoChain
  NoDid = NoDid
  NoDoc = NoDoc
INVARIANTS
  HashFormRegistered
CHECK_DEADLOCK FALSE
