------------------------------ MODULE MCHotIndex ------------------------------
(***************************************************************************)
(* Transactions for HotIndex: t1 goes through the proxy, t2 and t3 come    *)
(* from other nodes.  All three enter the list of B once their blocks are  *)
(* scanned, one more than it holds.                                        *)
(***************************************************************************)
EXTENDS HotIndex, TLC

CONSTANTS A, B, t1, t2, t3, s1, s2

Transfers ==
  [t \in Txs |->
     CASE t = t1 -> [from |-> A, to |-> B, kind |-> "plain"]
       [] t = t2 -> [from |-> B, to |-> B, kind |-> "plain"]
       [] t = t3 -> [from |-> B, to |-> A, kind |-> "call"]]

Symmetry == Permutations(Syncs)
==============================================================================
