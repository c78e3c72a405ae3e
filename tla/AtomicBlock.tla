----------------------------- MODULE AtomicBlock -----------------------------
(***************************************************************************)
(* What the executors of crates/consensus/src/parallel.rs owe their        *)
(* caller, with nothing of threads, rounds, retries or versions: each      *)
(* transaction of the block takes effect at one moment, in any order, as   *)
(* a function of what the transactions numbered before it have left by     *)
(* then; and the caller's database changes once, when all are in.          *)
(*                                                                         *)
(* It does not say that the outcome is that of serial execution: an        *)
(* earlier transaction may take effect after a later one has read past it. *)
(***************************************************************************)
EXTENDS TxModel

CONSTANT Blocks

VARIABLES
  block,    \* the block being executed
  db,       \* the caller's database
  outputs,  \* what each transaction that took effect wrote
  phase     \* "running", "ok", "aborted"

vars == <<block, db, outputs, phase>>

TxIds == DOMAIN block

(* The transactions below i that have written item x.                      *)
Earlier(i, x) == {j \in DOMAIN outputs : j < i /\ x \in DOMAIN outputs[j]}

(* What transaction i finds in item x now: the output of the nearest of    *)
(* them, or the database the call started with.                            *)
Found(i, x) ==
  IF Earlier(i, x) = {} THEN Genesis[x]
  ELSE LET j == CHOOSE j \in Earlier(i, x) : \A k \in Earlier(i, x) : k <= j
       IN  outputs[j][x]

Init ==
  /\ block \in Blocks
  /\ db = Genesis
  /\ outputs = [i \in {} |-> <<>>]
  /\ phase = "running"

TakeEffect(i) ==
  LET tx == block[i]
      s  == Found(i, tx.sender)
      r  == Found(i, tx.recipient)
  IN  /\ phase = "running"
      /\ i \notin DOMAIN outputs
      /\ CanExecute(s, tx)
      /\ outputs' = [j \in DOMAIN outputs \cup {i} |->
                       IF j = i THEN Effects(tx, i, s, r) ELSE outputs[j]]
      /\ UNCHANGED <<block, db, phase>>

Finish ==
  /\ phase = "running"
  /\ DOMAIN outputs = TxIds
  /\ db' = [x \in Items |-> Found(Len(block) + 1, x)]
  /\ phase' = "ok"
  /\ UNCHANGED <<block, outputs>>

Abort ==
  /\ phase = "running"
  /\ phase' = "aborted"
  /\ UNCHANGED <<block, db, outputs>>

Next ==
  \/ \E i \in TxIds : TakeEffect(i)
  \/ Finish
  \/ Abort

Spec == Init /\ [][Next]_vars
==============================================================================
