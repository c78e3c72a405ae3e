------------------------------ MODULE MCBlockStm ------------------------------
(* Small blocks for TLC: every sequence of up to four transactions from a  *)
(* catalogue, and four transactions that all touch one account, so that    *)
(* MaxRetries rounds can be too few.                                       *)
EXTENDS BlockStm

A == {"a", "b", "c", "d"}
S == {"s"}

MCGenesis ==
  [x \in A \cup S |->
     CASE x = "s" -> [writer |-> 0]
       [] x = "b" -> [balance |-> 0, nonce |-> 0]
       [] OTHER   -> [balance |-> 2, nonce |-> 0]]

T(from, to, v, n, rd, wr) ==
  [sender |-> from, recipient |-> to, value |-> v, nonce |-> n, reads |-> rd, writes |-> wr]

Catalogue ==
  { T("a", "b", 2, 0, {}, {}),        \* funds b
    T("a", "c", 1, 1, {}, {}),        \* a's second transaction
    T("b", "c", 1, 0, {}, {}),        \* b can pay only once funded
    T("c", "d", 1, 0, {}, {"s"}),     \* writes the slot
    T("d", "a", 1, 0, {"s"}, {}),     \* reads the slot
    T("b", "d", 0, 0, {"s"}, {"s"}),  \* reads and writes the slot
    T("c", "c", 1, 0, {}, {}) }       \* a transfer to oneself

OnOneAccount ==
  <<T("a", "d", 1, 0, {}, {}), T("b", "d", 0, 0, {}, {}),
    T("c", "d", 1, 0, {}, {}), T("d", "a", 1, 0, {}, {})>>

MCBlocks ==
  UNION {[1..n -> Catalogue] : n \in 0..4} \cup {OnOneAccount}
SmallBlocks == UNION {[1..n -> Catalogue] : n \in 1..3}
==============================================================================
