SPECIFICATION NamesSpec
CONSTANTS
  Names = {n1, n2, n3, n4, n5}
  Holders = {alice, bob, carol}
  Nobody = Nobody
  Reputations <- AllReputations
  Stakes <- AllStakes
SYMMETRY Symmetric
INVARIANT OneOwner
PROPERTY FewNamesKept
CHECK_DEADLOCK FALSE
