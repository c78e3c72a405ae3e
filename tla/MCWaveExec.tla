------------------------------ MODULE MCWaveExec ------------------------------
(* Small blocks for TLC: every sequence of up to five transactions whose   *)
(* access lists name the accounts they touch, and up to two whose lists    *)
(* leave them out, as the lists of the repository's own tests do.          *)
EXTENDS WaveExec

A == {"a", "b", "c", "d"}
S == {"s"}

MCGenesis ==
  [x \in A \cup S |->
     CASE x = "s" -> [writer |-> 0]
       [] x = "b" -> [balance |-> 0, nonce |-> 0]
       [] OTHER   -> [balance |-> 2, nonce |-> 0]]

T(from, to, v, n, rd, wr) ==
  [sender |-> from, recipient |-> to, value |-> v, nonce |-> n, reads |-> rd, writes |-> wr]

Full ==
  { T("a", "b", 2, 0, {}, {"a", "b"}),          \* funds b
    T("b", "d", 1, 0, {}, {"b", "d"}),          \* b can pay only once funded
    T("a", "d", 0, 1, {"s"}, {"a", "d"}),       \* a's second, reads the slot
    T("c", "d", 1, 0, {"b"}, {"c", "d", "s"}),  \* writes the slot, reads b
    T("d", "c", 3, 0, {}, {"c", "d"}) }         \* too much unless d was paid

Bare ==
  { T("a", "b", 2, 0, {}, {}), T("c", "b", 1, 0, {}, {"s"}), T("b", "a", 0, 0, {"s"}, {}) }

MCBlocks ==
  UNION {[1..n -> Full] : n \in 0..5} \cup UNION {[1..n -> Bare] : n \in 1..2}
==============================================================================
