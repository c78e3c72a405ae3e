SPECIFICATION Spec
CONSTANTS
  Actors = {source, target}
  Members = {1, 2, 3}
  Known = {1, 3}
  PostQuantum = {2, 3}
  Ballots <- SmallBallots
  Pools <- SmallPools
  Sizes = {2}
  Epochs = {1, 2}
  Rank <- SmallRank
  Windows = {0, 1}
  Percents = {50, 67}
  MaxClock = 2
INVARIANTS
  TypeOK VotedByQuorum RolledBackLate
PROPERTIES
  StateMachine
SYMMETRY ActorSymmetry
