SPECIFICATION RouterSpec
CONSTANTS
  Dests = {d1, d2}
  Routes = {r1, r2}
  NoRoute = NoRoute
  Peers = {p1}
  Callers = {1, 2}
  Word = 24
  Funds <- SmallFunds
  Requests <- SmallRequests
  BasePenalty = 1
  ScalarPct = 101
  Fine = 5
SYMMETRY Alike
INVARIANTS
  RouterTypeOK HardwareFollowsTable
PROPERTIES
  ExecutionCovered
CHECK_DEADLOCK FALSE
