-------------------------------- MODULE MCMesh --------------------------------
(***************************************************************************)
(* Three field elements of two bytes: a head of one byte and payloads of   *)
(* three bytes (the last size the elements hold), of four (encoded, but    *)
(* cut), each twice and alike up to the last byte, of six (no blob) and of *)
(* eight (the size of a blob).  The profiles differ in hash and curve, in  *)
(* the hash only, or in the curve only from one another.                   *)
(***************************************************************************)
EXTENDS Mesh

Repeated(n, last) == [i \in 1..n |-> IF i = n THEN last ELSE "a"]

SmallPayloads == {Repeated(3, "a"), Repeated(3, "b"), Repeated(4, "a"), Repeated(4, "b"),
                  Repeated(6, "a"), Repeated(8, "a")}
==============================================================================
