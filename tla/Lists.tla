--------------------------------- MODULE Lists ---------------------------------
(***************************************************************************)
(* What is left of a list when only some of its elements are retained.     *)
(* SelectSeq is the same with a predicate; this form, a function of the    *)
(* list and of the retained positions, is one that proofs can be about.    *)
(***************************************************************************)
LOCAL INSTANCE Naturals
LOCAL INSTANCE Sequences

Retained(list, places) ==
  LET upTo[i \in 0..Len(list)] ==
        IF i = 0 THEN <<>>
        ELSE IF i \in places THEN Append(upTo[i - 1], list[i]) ELSE upTo[i - 1]
  IN  upTo[Len(list)]
================================================================================
