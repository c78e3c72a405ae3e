----------------------------- MODULE MCMembership -----------------------------
(***************************************************************************)
(* Two documents for address A, which share its secp256k1 key, one for B,  *)
(* which shares another key with the first, and an incomplete one for C.   *)
(* A pays B, B pays A under a header with its address, and anyone who has  *)
(* a header with C's address or B's key pays C.                            *)
(***************************************************************************)
EXTENDS Membership

CONSTANTS A, B, C, kA, kB, kC, shared, a1, a2, b1, c1, toB, toA, toC, alsoToC

SmallDocs ==
  [h \in Docs |->
     CASE h = a1 -> [addr |-> A, keys |-> {kA, shared}, complete |-> TRUE]
       [] h = a2 -> [addr |-> A, keys |-> {kA}, complete |-> TRUE]
       [] h = b1 -> [addr |-> B, keys |-> {kB, shared}, complete |-> TRUE]
       [] h = c1 -> [addr |-> C, keys |-> {kC}, complete |-> FALSE]]

SmallSends ==
  [s \in Sends |->
     CASE s = toB -> [from |-> A, to |-> B, header |-> NoDid]
       [] s = toA -> [from |-> B, to |-> A, header |-> AddrDid(BootChain, B)]
       [] s = toC -> [from |-> C, to |-> C, header |-> PeerAddr(C)]
       [] s = alsoToC -> [from |-> C, to |-> C, header |-> KeyDid(shared)]]
==============================================================================
