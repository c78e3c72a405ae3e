-------------------------------- MODULE MCNames --------------------------------
(***************************************************************************)
(* Five names, so that one DID may hold a fifth under a penalty of 100 and *)
(* 4; an offer that ties with an unpenalised owner, one that beats it, and *)
(* one that beats it after division by 10; stakes that outweigh each.      *)
(***************************************************************************)
EXTENDS Names, TLC

AllReputations == {1, 2, 11}
AllStakes == {0, 100, 400}

(* No claim tells names or DIDs apart but by what they have.               *)
Symmetric == Permutations(Names) \cup Permutations(Holders)
==============================================================================
