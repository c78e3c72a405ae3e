-------------------------------- MODULE MCSaga --------------------------------
(***************************************************************************)
(* Two actors, three validators of which the third signs badly and the     *)
(* first has no post-quantum key, two epochs with opposite orders.         *)
(***************************************************************************)
EXTENDS Saga, TLC

ActorSymmetry == Permutations(Actors)

SmallBallots == {[by |-> 1, valid |-> TRUE], [by |-> 2, valid |-> TRUE], [by |-> 3, valid |-> FALSE]}
SmallPools == {{}, {3}, Members}
SmallRank == [e \in Epochs |-> [m \in Members |-> IF e = 1 THEN m ELSE 4 - m]]
==============================================================================
