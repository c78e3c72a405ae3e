---------------------------- MODULE MCTrieBuilder ----------------------------
(***************************************************************************)
(* All lists of up to six deltas over three keys, the first two of which  *)
(* share a branch, dealt out to three threads.                             *)
(***************************************************************************)
EXTENDS TrieBuilder

CONSTANT MaxDeltas

SmallKeys == {1, 2, 3}
SmallNibble == [k \in SmallKeys |-> IF k = 3 THEN 1 ELSE 0]

SmallInputs == UNION {[1..len -> [key : SmallKeys, value : Values]] : len \in 0..MaxDeltas}
==============================================================================
